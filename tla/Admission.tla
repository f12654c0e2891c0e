------------------------------ MODULE Admission ------------------------------
(* What the admission webhooks let into the cluster, and what the reconciler  *)
(* makes of it: internal/webhook, internal/class, internal/limits, the mode   *)
(* of internal/netpol and the check of internal/snapshot/validator.go.        *)
(* Classes are edited and deleted while Sandboxes of theirs live, and every   *)
(* update of a Sandbox, the operator's own too, goes through the webhook.     *)
EXTENDS Integers, FiniteSets, FiniteSetsExt

CONSTANTS ClassNames,      \* names of SandboxClasses
          Courses,         \* which classes and Sandbox are applied, and budgets
          DefaultScratch,  \* limits.DefaultScratch
          SnapNames,       \* names of Snapshots that are created and pinned
          PinnedLimit,     \* PinnedLimitBytes of the webhook
          Quota,           \* the ResourceQuota on Snapshots of the namespace
          MinTTL,          \* minSnapshotTTL
          Absent,          \* a number that is not given
          None

VARIABLES
  course,   \* what the administrators and the user do, with what is left of it
  classes,  \* the SandboxClass of each name, or None
  object,   \* the Sandbox, or None
  source,   \* the Snapshot that a Sandbox may start from, or None
  workload, \* the launcher Pod with what it was built from, or None
  claim,    \* the workspace claim of a session is there
  admPass,  \* the reconcile: where it is, the Sandbox and the class it read
  stored,   \* the Snapshots of the namespace, by name, or None
  writes    \* the writes of Snapshots that were admitted and are not stored yet

adVars == <<course, classes, object, source, workload, claim, admPass,
            stored, writes>>

Idle == [pc |-> "idle", sb |-> None, cls |-> None]

adInit ==
  /\ course \in Courses
  /\ classes = [n \in ClassNames |-> None]
  /\ object = None /\ workload = None /\ claim = FALSE /\ admPass = Idle
  /\ stored = [n \in SnapNames |-> None] /\ writes = {}
  /\ source = course.snapshot

-----------------------------------------------------------------------------
(* limits.go                                                                  *)
ScratchCeiling(c) ==
  IF c # None THEN (IF c.maxScratch # Absent THEN c.maxScratch ELSE DefaultScratch)
  ELSE DefaultScratch

EffectiveScratch(sb, c) ==
  IF sb.scratch # Absent THEN sb.scratch
  ELSE IF c = None THEN DefaultScratch
  ELSE IF c.scratch # Absent THEN c.scratch
  ELSE DefaultScratch

(* The mode in force: the one of the Sandbox, else of the class, else none.   *)
EffectiveMode(sb, c) ==
  IF sb.network # None THEN sb.network
  ELSE IF c = None THEN "none"
  ELSE IF c.mode # None THEN c.mode
  ELSE "none"

(* class.Validate: the violations of the limits of a class.                   *)
Validate(sb, c) ==
  LET scratch == EffectiveScratch(sb, c) IN
  IF c = None THEN {}
  ELSE {f \in {"vcpu", "scratch", "mode"} :
         \/ f = "vcpu" /\ c.maxVCPU # Absent /\ sb.vcpu > c.maxVCPU
         \/ f = "scratch" /\ (scratch > ScratchCeiling(c) \/ scratch <= 0)
         \/ f = "mode" /\ c.modes # {} /\ EffectiveMode(sb, c) \notin c.modes}

(* resolveDefault counts the classes that are marked default.                 *)
Defaults == {n \in ClassNames : IF classes[n] = None THEN FALSE ELSE classes[n].default}

(* Resolve: the class that the Sandbox names, else the one default class.     *)
Resolve(sb) ==
  IF sb.class # None
    THEN IF classes[sb.class] = None THEN [err |-> "ClassNotFound", cls |-> None]
         ELSE [err |-> None, cls |-> classes[sb.class]]
  ELSE CASE Cardinality(Defaults) = 0 -> [err |-> "NoDefaultClass", cls |-> None]
         [] Cardinality(Defaults) = 1 -> [err |-> None, cls |-> classes[CHOOSE n \in Defaults : TRUE]]
         [] OTHER -> [err |-> "AmbiguousDefault", cls |-> None]

(* runtime.ValidateBackend: the launcher, also as an empty name.              *)
ValidateBackend(b) == b \in {None, "launcher"}

(* Without a name and without any class a single tenant needs no class.       *)
Tolerated(sb, err) == err = "NoDefaultClass" /\ sb.class = None /\ ~course.multiTenant

-----------------------------------------------------------------------------
(* sandboxclass_webhook.go                                                    *)
Positive(n) == n = Absent \/ n > 0

(* The mutating webhook gives a class without a runtime the one backend.      *)
Default(c) == IF c.backend = None THEN [c EXCEPT !.backend = "launcher"] ELSE c

(* A signer is keyless, with an issuer and an identity, or a public key.      *)
SignaturePolicyValidate(sig) ==
  \/ sig = {"key"}
  \/ sig = {"issuer", "identity"}

validateImageSignature(sig) == sig # None /\ SignaturePolicyValidate(sig)

(* A pool needs the resources of its bases, a signer, and a digest of an image. *)
validatePreWarm(c) ==
  c.poolSize > 0 =>
    /\ c.poolImage \in {None, "digest"}
    /\ c.resources
    /\ validateImageSignature(c.signer)

validateRequests(c) ==
  c.requests # Absent => c.requests > 0 /\ (c.maxVCPU = Absent \/ c.requests <= c.maxVCPU)

(* Both scratch values are positive, and the default fits under the ceiling.  *)
validateScratch(c) ==
  /\ Positive(c.maxScratch) /\ Positive(c.scratch)
  /\ c.scratch # Absent => c.scratch <= ScratchCeiling(c)

validateSessionCheckpoint(c) == c.checkpoint # None =>
  Positive(c.checkpoint.interval) /\ c.checkpoint.backend \in {None, "s3"}

validateEgressExemptCIDRs(c) == "malformed" \notin c.cidrs

(* Every entry names a peer with sound selectors, and at least one port, each *)
(* with a known protocol and a number or name in range.                       *)
validateEgressAllowSelectors(c) ==
  \A a \in c.selectors :
    /\ a.peers # {} /\ "malformed" \notin a.peers
    /\ a.ports # {} /\ "malformed" \notin a.ports

validateMaxPauseDuration(c) == Positive(c.maxPause)

validateClass(c) ==
  /\ c.mode # None /\ c.modes # {} => c.mode \in c.modes
  /\ validatePreWarm(c) /\ validateSessionCheckpoint(c)
  /\ validateMaxPauseDuration(c)
  /\ validateRequests(c) /\ validateScratch(c) 
  /\ validateEgressExemptCIDRs(c) /\ validateEgressAllowSelectors(c)
  /\ ValidateBackend(c.backend)

-----------------------------------------------------------------------------
(* sandbox_webhook.go                                                         *)
structuralErrors(sb) ==
  \/ sb.workspace # Absent /\ (~sb.session \/ sb.workspace <= 0)
  \/ ~sb.command /\ ~sb.session
  \/ sb.desired = "Suspended" /\ ~sb.session

(* tenancy.FromNamespace needs the tenant label when tenants are told apart.  *)
checkTenantLabel == course.multiTenant => course.labelled

classErrors(sb) ==
  LET r == Resolve(sb) IN
  IF r.err # None THEN ~Tolerated(sb, r.err)
  ELSE \/ Validate(sb, r.cls) # {}
       \/ sb.desired = "Suspended" /\ sb.session /\ r.cls.checkpoint = None

(* snapshot.Validate within one namespace: what keeps sb from starting from it. *)
incompatible(sb, snap, c) ==
  \/ IF c = None THEN FALSE ELSE snap.class # c.name \/ snap.template # c.template
  \/ sb.image # None /\ sb.image # snap.image
  \/ snap.kept /\ (~sb.review \/ sb.network # "none")
  \/ snap.phase # "Ready"
  \/ ~snap.stored

snapshotErrors(sb) ==
  /\ sb.from
  /\ IF source = None THEN TRUE ELSE incompatible(sb, source, Resolve(sb).cls)

validate(sb) ==
  /\ ~structuralErrors(sb)
  /\ checkTenantLabel
  /\ ~classErrors(sb)
  /\ ~snapshotErrors(sb)

ValidateUpdate(old, new) == old.session = new.session /\ validate(new)

-----------------------------------------------------------------------------
(* The administrators and the user.                                           *)
ApplyClass(n) ==
  \E c \in course.classes :
    /\ course.edits > 0
    /\ c.name = n
    /\ classes[n] # Default(c)
    /\ validateClass(Default(c))
    /\ classes' = [classes EXCEPT ![n] = Default(c)]
    /\ course' = [course EXCEPT !.edits = @ - 1]
    /\ UNCHANGED <<object, source, workload, claim, admPass, stored, writes>>

(* ValidateDelete permits it always.                                          *)
DeleteClass(n) ==
  /\ course.drops > 0 /\ classes[n] # None
  /\ classes' = [classes EXCEPT ![n] = None]
  /\ course' = [course EXCEPT !.drops = @ - 1]
  /\ UNCHANGED <<object, source, workload, claim, admPass, stored, writes>>

Create ==
  /\ object = None /\ course.creates > 0
  /\ \E spec \in course.sandboxes :
       validate(spec) /\ object' = [spec |-> spec, finalizer |-> FALSE, deleting |-> FALSE]
  /\ course' = [course EXCEPT !.creates = @ - 1]
  /\ UNCHANGED <<classes, source, workload, claim, admPass, stored, writes>>

Update ==
  /\ object # None /\ course.updates > 0
  /\ \E spec \in course.sandboxes :
       /\ spec # object.spec /\ ValidateUpdate(object.spec, spec)
       /\ object' = [object EXCEPT !.spec = spec]
  /\ course' = [course EXCEPT !.updates = @ - 1]
  /\ UNCHANGED <<classes, source, workload, claim, admPass, stored, writes>>

(* A deleted Sandbox without a finalizer goes at once and takes its Pod along; *)
(* one with the finalizer waits for the operator.                             *)
deleted == IF object.finalizer THEN [object EXCEPT !.deleting = TRUE] ELSE None

Delete ==
  /\ object # None /\ course.deletes > 0
  /\ ~object.deleting
  /\ object' = deleted
  /\ workload' = IF deleted = None THEN None ELSE workload
  /\ course' = [course EXCEPT !.deletes = @ - 1]
  /\ UNCHANGED <<classes, source, claim, admPass, stored, writes>>

(* The Snapshot is deleted or expires: it is Terminating until no Sandbox     *)
(* refers to it (the Snapshot reconciler).                                    *)
Expire ==
  /\ source # None
  /\ \/ course.expires /\ source.phase = "Ready" /\ source' = [source EXCEPT !.phase = "Terminating"]
     \/ /\ source.phase = "Terminating"
        /\ IF object = None THEN TRUE ELSE ~object.spec.from
        /\ source' = None
  /\ UNCHANGED <<course, classes, object, workload, claim, admPass, stored, writes>>

-----------------------------------------------------------------------------
(* The reconcile of the Sandbox.                                              *)
Fetch ==
  /\ admPass.pc = "idle" /\ object # None
  /\ admPass' = [Idle EXCEPT !.sb = object,
                    !.pc = IF object.deleting THEN "teardown"
                           ELSE IF object.spec.session /\ ~object.finalizer THEN "finalizer"
                           ELSE "class"]
  /\ UNCHANGED <<course, classes, object, source, workload, claim, stored, writes>>

(* Mutant: the answer to the patch of the finalizer is not looked at.         *)
handleWorkspaceFinalizer_Ignored ==
  /\ admPass.pc = "finalizer"
  /\ admPass' = [admPass EXCEPT !.pc = "class"]
  /\ object' = IF object = None THEN None
               ELSE IF ValidateUpdate(object.spec, object.spec)
                 THEN [object EXCEPT !.finalizer = TRUE] ELSE object
  /\ UNCHANGED <<course, classes, source, workload, claim, stored, writes>>

(* The finalizer comes before anything else; the patch is an update, which    *)
(* the webhook judges by the class as it is now. A refusal ends the pass.     *)
handleWorkspaceFinalizer ==
  /\ admPass.pc = "finalizer"
  /\ IF (IF object = None THEN FALSE ELSE ValidateUpdate(object.spec, object.spec))
       THEN /\ object' = [object EXCEPT !.finalizer = TRUE]
            /\ admPass' = [admPass EXCEPT !.pc = "class"]
       ELSE admPass' = Idle /\ UNCHANGED object
  /\ UNCHANGED <<course, classes, source, workload, claim, stored, writes>>

(* Steps 5 and 5b: the limits of the class, then the Snapshot.                *)
fits(sb, c) == Validate(sb, c) = {}

(* Steps 3 to 5b. A class that never resolves has the orphan reaped; anything *)
(* else that does not hold leaves the Sandbox Pending for a later pass.       *)
ResolveClass ==
  LET sb == admPass.sb.spec
      r == Resolve(sb)
      refused == r.err # None /\ ~Tolerated(sb, r.err) IN
  /\ admPass.pc = "class"
  /\ IF checkTenantLabel /\ ~refused /\ fits(sb, r.cls) /\ ~snapshotErrors(sb)
       THEN admPass' = [admPass EXCEPT !.pc = "create", !.cls = r.cls] /\ UNCHANGED <<object, workload>>
       ELSE /\ admPass' = Idle
            /\ \/ UNCHANGED <<object, workload>>
               \/ /\ checkTenantLabel /\ refused /\ object # None
                  /\ object' = deleted
                  /\ workload' = IF deleted = None THEN None ELSE workload
  /\ UNCHANGED <<course, classes, source, claim, stored, writes>>

(* The workspace claim, then the Pod, built from what the pass has read. What *)
(* is made for a Sandbox that has gone is collected with it.                  *)
CreatePod ==
  LET sb == admPass.sb.spec IN
  /\ admPass.pc = "create"
  /\ admPass' = Idle
  /\ claim' = (claim \/ sb.session)
  /\ workload' = IF workload # None THEN workload
                 ELSE IF object = None THEN None
                 ELSE [vcpu |-> sb.vcpu, scratch |-> EffectiveScratch(sb, admPass.cls),
                       mode |-> EffectiveMode(sb, admPass.cls), cls |-> admPass.cls]
  /\ UNCHANGED <<course, classes, object, source, stored, writes>>

(* The Pod and the claim go first; the finalizer is released a pass later, by *)
(* an update that the webhook judges like any other.                          *)
teardownWorkspace ==
  /\ admPass.pc = "teardown"
  /\ admPass' = Idle
  /\ workload' = None
  /\ claim' = FALSE
  /\ object' = IF ~claim /\ ValidateUpdate(object.spec, object.spec) THEN None ELSE object
  /\ UNCHANGED <<course, classes, source, stored, writes>>

-----------------------------------------------------------------------------
(* snapshot_webhook.go. A write is admitted, and stored some time later.      *)
Present == {n \in SnapNames : stored[n] # None}

Used(names) == MapThenSumSet(LAMBDA n : stored[n].size, names)

(* Only a kept Snapshot is pinned, and only with room under the limit.        *)
checkPin(w) ==
  /\ w.kept
  /\ w.size + Used({n \in Present \ {w.name} : stored[n].pinned}) <= PinnedLimit

checkQuota == Cardinality(Present) + 1 <= Quota

validateSnapshot(w) ==
  /\ w.ttl = Absent \/ w.ttl <= 0 \/ w.ttl >= MinTTL
  /\ w.create => w.name \notin Present /\ checkQuota
  /\ w.pinned => checkPin(w)

AdmitSnapshot ==
  \E w \in course.writes :
    /\ w.create = (w.name \notin Present)
    /\ validateSnapshot(w)
    /\ writes' = writes \cup {w}
    /\ course' = [course EXCEPT !.writes = @ \ {w}, !.overlap = @ \/ writes # {}]
    /\ UNCHANGED <<classes, object, source, workload, claim, admPass, stored>>

(* The API server refuses a create of a name that is there by now.            *)
StoreSnapshot ==
  \E w \in writes :
    /\ writes' = writes \ {w}
    /\ stored' = IF w.create = (w.name \in Present) THEN stored ELSE [stored EXCEPT ![w.name] = w]
    /\ UNCHANGED <<course, classes, object, source, workload, claim, admPass>>

Operator == Fetch \/ handleWorkspaceFinalizer \/ ResolveClass \/ CreatePod \/ teardownWorkspace

adNext ==
  \/ \E n \in ClassNames : ApplyClass(n) \/ DeleteClass(n)
  \/ Create \/ Update \/ Delete \/ Expire
  \/ Operator
  \/ AdmitSnapshot \/ StoreSnapshot

(* The work queue takes a Sandbox up again after every error and every        *)
(* requeue. Nothing is assumed of the users and the administrators.           *)
adFairness == WF_adVars(Operator)

adSpec == adInit /\ [][adNext]_adVars /\ adFairness

-----------------------------------------------------------------------------
(* A class that validateClass let in takes a Sandbox that asks for as little  *)
(* as it can and leaves scratch and network to the class (the comment of      *)
(* validateScratch), unless the class allows modes but not "none" and names   *)
(* no default: such a class is admitted and no Sandbox may leave mode out.    *)
DefaultsAdmitted ==
  \A n \in ClassNames : classes[n] # None =>
    LET c == classes[n]
        plain == [vcpu |-> 0, scratch |-> Absent, network |-> None] IN
    (c.mode # None \/ c.modes = {} \/ "none" \in c.modes) => Validate(plain, c) = {}

(* The Pod that the reconciler made stays within the class as it was when the *)
(* pass resolved it, though the class was tightened, or another became the    *)
(* default, after the webhook let the Sandbox in.                             *)
PodWithinClass ==
  workload # None => (workload.cls # None =>
    /\ workload.cls.maxVCPU = Absent \/ workload.vcpu <= workload.cls.maxVCPU
    /\ workload.scratch > 0 /\ workload.scratch <= ScratchCeiling(workload.cls)
    /\ workload.cls.modes = {} \/ workload.mode \in workload.cls.modes)

(* No workspace claim is there without a Sandbox that carries the finalizer,  *)
(* also when the webhook refused the patch that adds it, so the data of a     *)
(* session has a keeper at all times (the comment of step 1b of Reconcile).   *)
ClaimGuarded == claim => object # None /\ (object # None => object.finalizer)

(* The pinned Snapshots of a namespace stay within PinnedLimitBytes, as long  *)
(* as no write was admitted while another one was on its way.                 *)
PinnedFits ==
  ~course.overlap => Used({n \in Present : stored[n].pinned}) <= PinnedLimit

(* A deleted Sandbox goes: ValidateDelete of both webhooks says that a        *)
(* deletion is always permitted and that the controller does the rest.        *)
DeletedGoes ==
  (IF object = None THEN FALSE ELSE object.deleting) ~> (object = None)
=============================================================================
