---------------------------- MODULE LauncherDisk ----------------------------
(***************************************************************************)
(* The signed image disk of a launcher Pod (internal/controller/           *)
(* launcher_disk.go, internal/diskbuilder, cmd/setec-disk-builder).        *)
(*                                                                         *)
(* Two askers want the disk of one image digest at the same time: the      *)
(* reconciler of a Sandbox and the reconciler of the warm pool.  Each      *)
(* reads the signing seed, then finds, makes or signs the one Job of the   *)
(* image and the key.  The Job runs the containers check, build and        *)
(* publish in a Pod, and in a new Pod after a failure.  The seed rotates,  *)
(* the set of trusted keys changes with a restart of the operator, a       *)
(* finished Job goes after its TTL, and the garbage collector removes its  *)
(* signature ConfigMap some time later.                                    *)
(*                                                                         *)
(* A disk stands for its SHA-256.  Pack gives one disk for one image.      *)
(***************************************************************************)
EXTENDS Naturals, Sequences, FiniteSets

CONSTANTS
  KeyIDs,        \* the ids of the signing keys
  Backoff,       \* backoffLimit of the Job
  Plans,         \* what the administrator does, and with which faults
  None

VARIABLES
  signing,       \* seed of the Secret, keys trusted by the operator, plan
  registry,      \* tag (key id) -> the disk image pushed under it, or None
  diskJobs,      \* key id -> the Job, or None
  signatures,    \* key id -> the ConfigMap of the Job's signature, or None
  askers,        \* asker -> its reconcile
  diskFaults     \* faults that may still happen

ldVars == <<signing, registry, diskJobs, signatures, askers, diskFaults>>

Askers == {"sandbox", "pool"}
DiskFault == diskFaults > 0 /\ diskFaults' = diskFaults - 1
DiskWorks == UNCHANGED diskFaults

(***************************************************************************)
(* Disks and signatures.                                                   *)
(***************************************************************************)

ImageDigest == "image"

(* Pack fixes every time stamp: one image has one disk, in whichever Pod it
   is made. *)
Pack == <<"disk">>

SignDigest(key, disk) ==
  [imageDigest |-> ImageDigest, diskSHA256 |-> disk, value |-> key]

(* The tag has the digest of the image and the id of the key. *)
diskTag(keyID) == keyID

(* Verify: the signature names the image and the bytes of the disk, and is
   valid under one of the keys. *)
Verify(keys, sig, disk) ==
  /\ sig.imageDigest = ImageDigest /\ sig.diskSHA256 = disk
  /\ sig.value \in keys

(* Exists: the registry answers for the tag. *)
Exists(keyID) == registry[diskTag(keyID)] # None

(* The image of one layer with the disk and its signature. *)
diskImage(disk, sig) == [disk |-> disk, sig |-> sig]

(* VerifyMounted: what the launcher does with the mounted image volume. *)
VerifyMounted(keys, keyID) ==
  LET mounted == registry[diskTag(keyID)] IN
  Exists(keyID) /\ Verify(keys, mounted.sig, mounted.disk)

(***************************************************************************)
(* ensureDisk, one step for each call to the API server.                   *)
(***************************************************************************)

Asking == [pc |-> "idle", key |-> None, job |-> None, report |-> None,
           phase |-> "Pending", launcher |-> None]
AskerAt(a, p) == askers[a].pc = p
AskerTo(a, p) == askers' = [askers EXCEPT ![a].pc = p]

(* A reconcile that ends with the Sandbox or base in that phase. *)
Ends(a, phase) ==
  askers' = [askers EXCEPT ![a] = [Asking EXCEPT !.phase = phase]]

(* A diskBuildError fails the Sandbox; the warm pool logs it and asks again
   in its next pass.  Every other error is tried again by both. *)
diskBuildError(a) == Ends(a, IF a = "sandbox" THEN "Failed" ELSE "Pending")

(* checkImageRegistry, then signingKey: a seed that the launchers would not
   trust is an error. *)
signingKey(a) ==
  /\ AskerAt(a, "idle") /\ askers[a].phase = "Pending"
  /\ IF ~signing.plan.allowed
       THEN a = "sandbox" /\ diskBuildError(a)
       ELSE /\ signing.seed \in signing.trusted
            /\ askers' = [askers EXCEPT ![a].pc = "job", ![a].key = signing.seed]
  /\ DiskWorks /\ UNCHANGED <<registry, diskJobs, signatures, signing>>

(* The Pod of the launcher is made with the trusted keys of this operator;
   kubelet mounts the disk and the launcher checks it. *)
createPod(a) ==
  askers' = [askers EXCEPT ![a] =
    [Asking EXCEPT !.phase = "Created",
       !.launcher = IF VerifyMounted(signing.trusted, askers[a].key)
                      THEN "runs" ELSE "refused"]]

getJob(a) ==
  LET job == diskJobs[askers[a].key] IN
  /\ AskerAt(a, "job") /\ UNCHANGED <<registry, diskJobs, signatures, signing>>
  /\ \/ DiskFault /\ Ends(a, "Pending")
     \/ /\ DiskWorks
        /\ IF job = None THEN AskerTo(a, "create")
           ELSE CASE job.state = "Complete" -> createPod(a)
                  [] job.state = "Failed" -> diskBuildError(a)
                  [] OTHER -> askers' = [askers EXCEPT ![a].pc = "signature",
                                                       ![a].job = job.uid]

(* A Pod of a Job, with an empty work volume. *)
NewPod == [step |-> "check", marker |-> FALSE, check |-> None, disk |-> None,
           sig |-> None]

(* The uid tells a Job from every earlier one of its name that a ConfigMap
   or an asker still refers to. *)
freshUID(k) ==
  CHOOSE u \in 0..Cardinality(Askers) + 1 :
    /\ signatures[k] = None \/ signatures[k].uid # u
    /\ \A a \in Askers : askers[a].job # u

diskJob(uid) == [uid |-> uid, state |-> "Runs", try |-> 0, pod |-> NewPod,
                 reports |-> {}]

(* Create; a Job that another asker made meanwhile is as good. *)
createJob(a) ==
  LET k == askers[a].key IN
  /\ AskerAt(a, "create") /\ Ends(a, "Pending")
  /\ UNCHANGED <<registry, signatures, signing>>
  /\ \/ DiskFault /\ UNCHANGED diskJobs
     \/ /\ DiskWorks
        /\ diskJobs' = IF diskJobs[k] # None THEN diskJobs
             ELSE [diskJobs EXCEPT ![k] = diskJob(freshUID(k))]

(* signBuiltDisk: nothing to do when the ConfigMap is there. *)
getSignature(a) ==
  /\ AskerAt(a, "signature") /\ UNCHANGED <<registry, diskJobs, signatures, signing>>
  /\ \/ /\ DiskWorks
        /\ IF signatures[askers[a].key] # None THEN Ends(a, "Pending")
           ELSE AskerTo(a, "reports")
     \/ DiskFault /\ Ends(a, "Pending")

(* The reports of the Pods whose build container ended well. *)
Built(job) ==
  job.reports \cup {[check |-> job.pod.check, build |-> job.pod.disk] :
                      s \in {job.pod.step} \cap {"publish", "push"}}

(* initReports: those of one such Pod.  The registry may hold the disk, and
   the build then reports nothing. *)
initReports(a) ==
  LET k == askers[a].key
      built == IF diskJobs[k] = None THEN {} ELSE Built(diskJobs[k])
  IN
  /\ AskerAt(a, "reports") /\ UNCHANGED <<registry, diskJobs, signatures, signing>>
  /\ \/ DiskWorks /\ built = {} /\ Ends(a, "Pending")
     \/ /\ DiskWorks
        /\ \E r \in built :
             IF r.build = None \/ r.check THEN Ends(a, "Pending")
             ELSE askers' = [askers EXCEPT ![a].pc = "sign", ![a].report = r.build]
     \/ DiskFault /\ Ends(a, "Pending")

(* Mutant: the seed is read again for the signature. *)
signBuiltDisk_Reread(a) ==
  LET k == askers[a].key IN
  /\ AskerAt(a, "sign") /\ Ends(a, "Pending")
  /\ UNCHANGED <<registry, diskJobs, signing>>
  /\ \/ /\ DiskWorks
        /\ signatures' = IF signatures[k] # None THEN signatures
             ELSE [signatures EXCEPT ![k] =
                     [uid |-> askers[a].job,
                      sig |-> SignDigest(signing.seed, askers[a].report)]]
     \/ DiskFault /\ UNCHANGED signatures

(* The signature is made with the key that named the Job, and its ConfigMap
   belongs to the Job that was read. *)
signBuiltDisk(a) ==
  LET k == askers[a].key IN
  /\ AskerAt(a, "sign") /\ Ends(a, "Pending")
  /\ UNCHANGED <<registry, diskJobs, signing>>
  /\ \/ /\ DiskWorks
        /\ signatures' = IF signatures[k] # None THEN signatures
             ELSE [signatures EXCEPT ![k] =
                     [uid |-> askers[a].job,
                      sig |-> SignDigest(k, askers[a].report)]]
     \/ DiskFault /\ UNCHANGED signatures

ensureDisk(a) ==
  \/ signingKey(a) \/ getJob(a) \/ createJob(a) \/ getSignature(a)
  \/ initReports(a) \/ signBuiltDisk(a)

(***************************************************************************)
(* The Pod of the Job: setec-disk-builder check, build and publish.        *)
(***************************************************************************)

PodAt(k, s) ==
  /\ diskJobs[k] # None /\ diskJobs[k].state = "Runs"
  /\ diskJobs[k].pod.step = s
SetPod(k, pod) == diskJobs' = [diskJobs EXCEPT ![k].pod = pod]

(* A container fails, and with it the Pod (RestartPolicyNever).  The Job
   makes another one, up to its backoffLimit. *)
PodFails(k) ==
  LET job == diskJobs[k] IN
  diskJobs' = [diskJobs EXCEPT ![k] =
    IF job.try = Backoff THEN [job EXCEPT !.state = "Failed"]
    ELSE [job EXCEPT !.try = @ + 1, !.reports = Built(job), !.pod = NewPod]]

(* check: Exists, with the marker for the two other containers. *)
check(k) ==
  /\ PodAt(k, "check") /\ UNCHANGED <<registry, signatures, askers, signing>>
  /\ LET there == Exists(k) IN
     \/ DiskWorks /\ SetPod(k, [diskJobs[k].pod EXCEPT
                                  !.step = "build", !.marker = there,
                                  !.check = there])
     \/ DiskFault /\ PodFails(k)

(* build: Builder.Build, unless the marker is there. *)
build(k) ==
  LET job == diskJobs[k] IN
  /\ PodAt(k, "build") /\ UNCHANGED <<registry, signatures, askers, signing>>
  /\ \/ DiskWorks /\ SetPod(k, [job.pod EXCEPT
                       !.step = "publish",
                       !.disk = IF job.pod.marker THEN None ELSE Pack])
     \/ DiskFault /\ PodFails(k)

(* An asker is at work with this key, or comes back with it: it does so
   every diskBuildRequeue. *)
Wanted(k) ==
  \E a \in Askers :
    \/ askers[a].key = k
    \/ /\ askers[a].phase = "Pending"
       /\ signing.seed = k /\ k \in signing.trusted

(* waitForSignature, for 20 minutes: longer than a wait for an operator that
   still wants the disk, unless that one fails. *)
waitForSignature(k) ==
  LET pod == diskJobs[k].pod IN
  /\ PodAt(k, "publish") /\ UNCHANGED <<registry, signatures, askers, signing>>
  /\ \/ /\ pod.marker /\ DiskWorks
        /\ diskJobs' = [diskJobs EXCEPT ![k].state = "Complete"]
     \/ ~pod.marker /\ signatures[k] # None /\ DiskWorks
        /\ SetPod(k, [pod EXCEPT !.step = "push", !.sig = signatures[k].sig])
     \/ /\ ~pod.marker /\ signatures[k] = None /\ PodFails(k)
        /\ IF Wanted(k) THEN DiskFault ELSE DiskWorks

(* Publish: the signature must name the image and this disk.  The tag is
   looked up and, when it is not there, written.  A push may land and its
   answer be lost. *)
Publish(k) ==
  LET pod == diskJobs[k].pod
      pushed == IF Exists(k) THEN registry
                ELSE [registry EXCEPT ![diskTag(k)] = diskImage(pod.disk, pod.sig)]
  IN
  /\ PodAt(k, "push") /\ UNCHANGED <<signatures, askers, signing>>
  /\ IF pod.sig.imageDigest # ImageDigest \/ pod.sig.diskSHA256 # pod.disk
       THEN DiskWorks /\ PodFails(k) /\ UNCHANGED registry
       ELSE \/ /\ DiskWorks /\ registry' = pushed
               /\ diskJobs' = [diskJobs EXCEPT ![k].state = "Complete"]
            \/ DiskFault /\ registry' \in {registry, pushed} /\ PodFails(k)

diskJobRuns(k) == check(k) \/ build(k) \/ waitForSignature(k) \/ Publish(k)

(***************************************************************************)
(* The cluster and its administrator.                                      *)
(***************************************************************************)

(* diskJobTTLSeconds after its end the Job goes: a long time for an asker
   that polls a complete one. *)
jobExpires(k) ==
  /\ diskJobs[k] # None /\ diskJobs[k].state # "Runs"
  /\ IF Wanted(k) /\ diskJobs[k].state = "Complete" THEN DiskFault ELSE DiskWorks
  /\ diskJobs' = [diskJobs EXCEPT ![k] = None]
  /\ UNCHANGED <<registry, signatures, askers, signing>>

(* The garbage collector, for a ConfigMap whose Job is gone. *)
collect(k) ==
  /\ signatures[k] # None
  /\ diskJobs[k] # None => diskJobs[k].uid # signatures[k].uid
  /\ signatures' = [signatures EXCEPT ![k] = None]
  /\ UNCHANGED <<registry, diskJobs, askers, signing, diskFaults>>

(* The next step of the administrator: a new seed, or a restart of the
   operator with other trusted keys. *)
administrate ==
  /\ signing.plan.steps # <<>>
  /\ LET s == Head(signing.plan.steps)
         rest == [signing EXCEPT !.plan.steps = Tail(@)]
     IN  \/ /\ s.op = "seed" /\ signing' = [rest EXCEPT !.seed = s.key]
            /\ UNCHANGED askers
         \/ /\ s.op = "trust" /\ signing' = [rest EXCEPT !.trusted = s.keys]
            /\ askers' = [a \in Askers |->
                 IF askers[a].phase = "Pending" THEN Asking ELSE askers[a]]
  /\ UNCHANGED <<registry, diskJobs, signatures, diskFaults>>

ldInit ==
  /\ signing \in {[seed |-> p.seed, trusted |-> p.trusted, plan |-> p] : p \in Plans}
  /\ registry = [k \in KeyIDs |-> None] /\ diskJobs = [k \in KeyIDs |-> None]
  /\ signatures = [k \in KeyIDs |-> None]
  /\ askers = [a \in Askers |-> Asking]
  /\ diskFaults = signing.plan.faults

ldNext ==
  \/ \E a \in Askers : ensureDisk(a)
  \/ \E k \in KeyIDs : diskJobRuns(k) \/ jobExpires(k) \/ collect(k)
  \/ administrate

(* Reconciles come back (diskBuildRequeue, the passes of the pool); kubelet
   and the garbage collector do their work. *)
ldFairness ==
  /\ \A a \in Askers : WF_ldVars(ensureDisk(a))
  /\ \A k \in KeyIDs : WF_ldVars(diskJobRuns(k)) /\ WF_ldVars(collect(k))
                       /\ WF_ldVars(jobExpires(k))

ldSpec == ldInit /\ [][ldNext]_ldVars /\ ldFairness

(***************************************************************************)
(* Properties.                                                             *)
(***************************************************************************)

(* Whatever seed is in force when the operator signs, a disk that the
   registry holds under the tag of a key carries a signature of that key
   over this image and these bytes (ensureDisk, signBuiltDisk, Publish:
   "The signature must name ref and the bytes of the disk"). *)
TagIsSigned ==
  \A k \in KeyIDs :
    registry[k] # None => Verify({k}, registry[k].sig, registry[k].disk)

(* When ensureDisk says that the disk is there, the launcher finds it and
   accepts it under the keys of its operator, however often the seed and
   the keys were changed and the Job was repeated before (ensureDisk,
   diskTag, VerifyMounted; setec#272). *)
DiskAccepted == \A a \in Askers : askers[a].launcher # "refused"

(* A Sandbox of an allowed registry fails only when every Pod of its Job
   met a fault of its own: a Pod that repeats a build whose signature is
   there already can use it (Pack: "one image gives the same bytes each
   time"; backoffLimit of builderJob). *)
RetryUsesSignature ==
  askers["sandbox"].phase = "Failed" /\ signing.plan.allowed =>
    signing.plan.faults - diskFaults > Backoff

AllAnswered ==
  signing.seed \in signing.trusted /\ signing.plan.allowed =>
    \A a \in Askers : askers[a].phase # "Pending"

(* Once the seed in force is trusted, and stays so, every asker gets its disk
   or an error in the end (ensureDisk, waitForLauncherDisk, startBase). *)
DiskArrives == []<>AllAnswered
=============================================================================
