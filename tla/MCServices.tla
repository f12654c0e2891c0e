----------------------------- MODULE MCServices -----------------------------
(***************************************************************************)
(* The instance of the services around the reconciler that TLC checks.     *)
(* These services have no state in common in their models, so one          *)
(* behaviour shows one of them: `focus` is chosen in Init and the          *)
(* variables of the other services are None.  Each service has its own     *)
(* next-state relation, its own fairness and its own properties.           *)
(***************************************************************************)
EXTENDS Integers, Sequences, FiniteSets

CONSTANTS
  Foci, None,
  \* LauncherMachine, WarmPool, LauncherDisk
  Setups, MaxAttempts, MaxFaults,
  Images, n1, n2, BaseNames, PreWarmPoolSize, MaxPoolImages, WarmPoolIdle, Pools,
  KeyIDs, Backoff, Plans,
  \* FrontendExec, LogStream, NodeDialer
  Scenes, IdleTimeout,
  Requests, MaxLines, Stamps, PerSecond,
  Callers, ConnIDs, Situations,
  \* PairNamespace, SandboxIdentity, Admission
  Replicas, Users, Tenants, Clients, Grants, Cases,
  Lives, Audiences, Lifetime, MaxNow,
  ClassNames, Courses, DefaultScratch, SnapNames, PinnedLimit, Quota, MinTTL, Absent,
  \* StoredForm, DevicePlugin
  Size, Values, MaxCaptures, MaxWrites, MaxParentChain, ChunkSize, Width,
  ScanChunk, WindowOverlap,
  Servers, NodeLives

VARIABLES
  focus,
  setup, sandbox, operator, calls, files, run, machine, podStop, faultsLeft,
  poolStatus, bases, basePods, jobs, pass, asking, class, clock, budget, used,
  signing, registry, diskJobs, signatures, askers, diskFaults,
  scene, session, exec, pump, command, other, evictor, usage,
  request, console, logPod, call, got,
  agent, seen, cached, conns, callers, left,
  case, enrollment, namespaces, readyNs, users, touched,
  life, idSandbox, secret, idPod, creating, taking, token, accepted, now,
  course, classes, object, source, workload, claim, admPass, stored, writes,
  memory, everWritten, dirtied, written, seekData, captures,
  node, device, kubelet, socket, servers, loop

LM == INSTANCE LauncherMachine
WP == INSTANCE WarmPool
LD == INSTANCE LauncherDisk
FE == INSTANCE FrontendExec
LS == INSTANCE LogStream
ND == INSTANCE NodeDialer
PN == INSTANCE PairNamespace
SI == INSTANCE SandboxIdentity
AD == INSTANCE Admission
SF == INSTANCE StoredForm
DP == INSTANCE DevicePlugin

lmVars == <<setup, sandbox, operator, calls, files, run, machine, podStop, faultsLeft>>
wpVars == <<poolStatus, bases, basePods, jobs, pass, asking, class, clock, budget, used>>
ldVars == <<signing, registry, diskJobs, signatures, askers, diskFaults>>
feVars == <<scene, session, exec, pump, command, other, evictor, usage>>
lsVars == <<request, console, logPod, call, got>>
ndVars == <<agent, seen, cached, conns, callers, left>>
pnVars == <<case, enrollment, namespaces, readyNs, users, touched>>
siVars == <<life, idSandbox, secret, idPod, creating, taking, token, accepted, now>>
adVars == <<course, classes, object, source, workload, claim, admPass, stored, writes>>
sfVars == <<memory, everWritten, dirtied, written, seekData, captures>>
dpVars == <<node, device, kubelet, socket, servers, loop>>

vars == <<focus, lmVars, wpVars, ldVars, feVars, lsVars, ndVars, pnVars,
          siVars, adVars, sfVars, dpVars>>

(***************************************************************************)
(* What happens to each service: bounds on faults, calls and time, chosen  *)
(* so that every error path and every race of the service is reached.      *)
(***************************************************************************)

\* a cold boot, a Snapshot, a warm base; without reseeding; plain; other disk
Setup(from, reseed, sameDisk, bound, encrypted, optOut, devMode) ==
  [source |-> from, reseed |-> reseed, sameDisk |-> sameDisk, bound |-> bound,
   encrypted |-> encrypted, optOut |-> optOut, devMode |-> devMode]

MCSetups ==
  {Setup("boot", TRUE, TRUE, TRUE, TRUE, FALSE, FALSE),
   Setup("ref", TRUE, TRUE, TRUE, TRUE, FALSE, FALSE),
   Setup("base", TRUE, TRUE, TRUE, TRUE, FALSE, FALSE),
   Setup("ref", FALSE, TRUE, TRUE, TRUE, TRUE, FALSE),
   Setup("ref", FALSE, TRUE, TRUE, FALSE, TRUE, TRUE),
   Setup("ref", TRUE, FALSE, TRUE, TRUE, FALSE, FALSE),
   Setup("ref", TRUE, TRUE, FALSE, TRUE, FALSE, TRUE)}

Pool(pre, asked, signed, dirty, nodes, budgeted) ==
  [preWarmImage |-> pre, asked |-> asked, signed |-> signed, dirty |-> dirty,
   nodes |-> nodes, budget |-> [b \in {"ticks", "stamps", "edits", "upgrades", "faults"} |->
                 IF b \in DOMAIN budgeted THEN budgeted[b] ELSE 0]]

MCPools ==
  {Pool("a", {}, {"a"}, {}, {n1, n2}, [faults |-> 1]),
   Pool(None, {"a", "b"}, {}, {}, {n1}, [ticks |-> 2, stamps |-> 2]),
   Pool(None, {"a"}, {"a"}, {}, {n1, n2}, [stamps |-> 1, edits |-> 1]),
   Pool("a", {"a"}, {"a"}, {}, {n1}, [stamps |-> 1, upgrades |-> 1]),
   Pool("b", {"b"}, {"b"}, {"b"}, {n1}, [stamps |-> 1])}

\* a class without disks, faults, and a rotation of the signing key
Plan(allowed, steps, faults) ==
  [allowed |-> allowed, seed |-> "k1", trusted |-> {"k1"}, steps |-> steps,
   faults |-> faults]
Seed(k) == [op |-> "seed", key |-> k, keys |-> {}]
Trust(keys) == [op |-> "trust", key |-> None, keys |-> keys]

MCPlans ==
  {Plan(FALSE, <<>>, 0), Plan(TRUE, <<>>, 3), Plan(TRUE, <<Seed("k2"), Trust({"k2"})>>, 0),
   Plan(TRUE, <<Trust({"k1", "k2"}), Seed("k2"), Trust({"k2"})>>, 0)}

\* the messages of the Exec client, and the call of a second client
Scene(script, second) ==
  [script |-> script, readsStdin |-> FALSE, call |-> second, gone |-> FALSE,
   mayGo |-> FALSE, stops |-> FALSE, checkpoint |-> FALSE, phase |-> "Running",
   desired |-> "Running", faults |-> 0, budget |-> 0, time |-> 0, closes |-> TRUE]
Faulty(s) == [s EXCEPT !.faults = 1, !.budget = 1]
Suspended(s) == [s EXCEPT !.checkpoint = TRUE, !.phase = "Suspended", !.desired = "Suspended"]

MCScenes ==
  {[Scene(<<"stdin", "start", "close">>, None) EXCEPT !.mayGo = TRUE],
   [Faulty(Scene(<<"stdin", "stdin", "close">>, "Wait")) EXCEPT !.stops = TRUE],
   Scene(<<"eof", "stdin", "close">>, "Kill"),
   [Faulty(Scene(<<"stdin", "eof", "close">>, "KillGrace")) EXCEPT !.readsStdin = TRUE],
   [Scene(<<"eof">>, "Wait") EXCEPT !.closes = FALSE],
   [Faulty(Scene(<<"close">>, "Suspend")) EXCEPT !.checkpoint = TRUE],
   Scene(<<"close">>, "Suspend"),
   Suspended(Scene(<<"close">>, "Resume")),
   Suspended(Faulty(Scene(<<"close">>, "Suspend"))),
   [Faulty(Scene(<<"close">>, "Attach")) EXCEPT !.time = 2],
   [Scene(<<"close">>, "Attach") EXCEPT !.time = 3],
   [Scene(<<"close">>, "Kill") EXCEPT !.time = 2]}

LogRequest(follow, tail, deletes, hangsUp, faults, breaks) ==
  [follow |-> follow, tail |-> tail, deletes |-> deletes, hangsUp |-> hangsUp,
   faults |-> faults, breaks |-> breaks,
   given |-> [faults |-> faults, breaks |-> breaks]]

MCRequests ==
  {LogRequest(TRUE, 0, FALSE, FALSE, 1, 1), LogRequest(TRUE, 2, FALSE, FALSE, 0, 2),
   LogRequest(FALSE, 2, FALSE, FALSE, 0, 1), LogRequest(TRUE, 0, TRUE, TRUE, 0, 1)}

Situation(tls, restarts, pods, resets, ends) ==
  [tls |-> tls, restarts |-> restarts, pods |-> pods, resets |-> resets, ends |-> ends]

MCSituations ==
  {Situation("good", 1, 1, 1, 0), Situation("good", 0, 2, 0, 1),
   Situation("refuses", 1, 0, 2, 0), Situation("unverified", 1, 1, 0, 0)}

\* two callers of two clients and tenants, with every form of a Launch
Entry(name, id) == [name |-> name, id |-> id]
Pair(client, tenant) == [client |-> client, tenant |-> tenant]
Form(mode, workspace, cmd, review) ==
  [mode |-> mode, workspace |-> workspace, command |-> cmd, review |-> review]
CallOf(id, tenant, op, form) ==
  [id |-> id, tenant |-> tenant, op |-> op, form |-> form, target |-> Pair("c1", "t1")]
Plain == Form("", FALSE, TRUE, FALSE)
Review == Form("", FALSE, TRUE, TRUE)
Launches == CallOf("i1", "t1", "launch", Plain)
Uses(id, tenant) == CallOf(id, tenant, "use", Plain)
Enrolled == <<Entry("c1", "i1"), Entry("c2", "i2")>>
Case(entries, second, foreign, faults, deletes, restarts) ==
  [entries |-> entries, requests |-> [u \in Users |-> IF u = 1 THEN Launches ELSE second],
   foreign |-> foreign, kept |-> {}, faults |-> faults, deletes |-> deletes,
   restarts |-> restarts, deleted |-> {}]
Calls(second) == Case(Enrolled, second, {}, 0, 0, 0)

MCCases ==
  {Case(Enrolled, Launches, {}, 2, 0, 1),
   Case(Enrolled, Launches, {Pair("c1", "t1")}, 1, 0, 0),
   Case(Enrolled, Launches, {}, 0, 1, 0),
   Case(<<Entry("c1", "i1"), Entry("c1", "i2")>>, Uses("i2", "t1"), {}, 0, 0, 0),
   Case(<<>>, Uses("i2", "t1"), {}, 0, 0, 0),
   [Calls(CallOf("i1", "t1", "launch", Review)) EXCEPT !.kept = {Pair("c1", "t1")}]}
  \cup {Calls(Uses(i, t)) : i \in {"i1", "i2", "i3"}, t \in {"t1"}}
  \cup {Calls(Uses("i1", t)) : t \in {"t2", None}}
  \cup {Calls(CallOf("i1", "t1", "launch", f)) :
          f \in {Form("session", TRUE, FALSE, FALSE), Form("", TRUE, TRUE, FALSE),
                 Form("", FALSE, FALSE, FALSE), Review}}

Life(faults, snapshots, suspends, remakes) ==
  [faults |-> faults, snapshots |-> snapshots, suspends |-> suspends,
   remakes |-> remakes, keys |-> 0, torn |-> FALSE]

MCLives == {Life(1, 0, 0, 1), Life(0, 1, 1, 1), Life(1, 1, 0, 0), Life(0, 0, 0, 2)}

\* classes that webhook and CRD let in, classes that they refuse, Sandboxes of
\* them, and writes of Snapshots
MCAbsent == -1
Class(name, default, cpus, most, scratch, mode, modes) ==
  [name |-> name, default |-> default, maxVCPU |-> cpus, maxScratch |-> most,
   scratch |-> scratch, mode |-> mode, modes |-> modes, requests |-> Absent,
   maxPause |-> Absent, poolSize |-> 0, poolImage |-> None, resources |-> TRUE,
   signer |-> None, checkpoint |-> None, cidrs |-> {}, selectors |-> {},
   backend |-> None, template |-> None]
wide == Class("x", TRUE, 2, 3, 2, "full", {})
tight == Class("x", TRUE, 1, 1, 1, "none", {"none"})
second == Class("y", TRUE, 1, 2, 2, "full", {"full"})
pooled ==
  [Class("y", FALSE, 2, Absent, 2, None, {"full", "none"}) EXCEPT
     !.poolSize = 1, !.signer = {"key"}, !.poolImage = "digest", !.requests = 2,
     !.maxPause = 1, !.checkpoint = [interval |-> 1, backend |-> "s3"]]
Refused ==
  {[pooled EXCEPT !.signer = {"issuer"}], [wide EXCEPT !.scratch = 4],
   [wide EXCEPT !.backend = "kata"], [tight EXCEPT !.requests = 2],
   [wide EXCEPT !.selectors = {[peers |-> {"ns"}, ports |-> {}]}],
   [tight EXCEPT !.mode = "full"]}

Wanted(name, vcpu, scratch, network, isSession) ==
  [class |-> name, vcpu |-> vcpu, scratch |-> scratch, network |-> network,
   session |-> isSession, workspace |-> Absent, command |-> TRUE,
   desired |-> "Running", from |-> FALSE, image |-> None, review |-> FALSE]
SnapshotWrite(name, size, create, pinned) ==
  [name |-> name, size |-> size, create |-> create, pinned |-> pinned,
   kept |-> TRUE, ttl |-> Absent]
Course(cs, sandboxes, snapWrites, edits, drops, updates, deletes) ==
  [classes |-> cs, sandboxes |-> sandboxes, writes |-> snapWrites, edits |-> edits,
   drops |-> drops, updates |-> updates, creates |-> 1, deletes |-> deletes,
   expires |-> FALSE, snapshot |-> None, multiTenant |-> FALSE, labelled |-> TRUE,
   overlap |-> FALSE]

MCCourses ==
  {Course({wide, tight, second} \cup Refused,
          {Wanted(None, 2, Absent, None, TRUE), Wanted("x", 1, 2, "full", TRUE)},
          {}, 3, 0, 1, 1),
   Course({wide, tight, pooled},
          {Wanted("x", 2, Absent, None, TRUE),
           [Wanted("x", 1, Absent, None, TRUE) EXCEPT !.desired = "Suspended"]},
          {}, 3, 0, 1, 1),
   Course({wide, second}, {Wanted(None, 1, Absent, "full", FALSE)}, {}, 2, 1, 0, 1),
   [Course({wide}, {[Wanted("x", 1, Absent, "none", TRUE) EXCEPT !.from = TRUE]},
           {}, 1, 0, 0, 1) EXCEPT
      !.expires = TRUE,
      !.snapshot = [class |-> "x", template |-> None, image |-> "i", kept |-> FALSE,
                    phase |-> "Ready", stored |-> TRUE]],
   [Course({wide}, {Wanted("x", 1, Absent, "none", TRUE)}, {}, 1, 1, 0, 1) EXCEPT
      !.multiTenant = TRUE],
   Course({}, {},
          {SnapshotWrite("p", 2, TRUE, FALSE), SnapshotWrite("q", 1, TRUE, TRUE),
           SnapshotWrite("p", 2, FALSE, TRUE), SnapshotWrite("q", 3, FALSE, TRUE),
           SnapshotWrite("r", 1, TRUE, FALSE)}, 0, 0, 0, 0)}

NodeLife(restarts, changes, late, stop) ==
  [restarts |-> restarts, changes |-> changes, late |-> late, stop |-> stop]

MCNodeLives ==
  {NodeLife(2, 1, 1, FALSE), NodeLife(1, 2, 2, FALSE), NodeLife(1, 0, 0, TRUE)}

(***************************************************************************)
(* The composition.                                                        *)
(***************************************************************************)

Init ==
  /\ focus \in Foci
  /\ IF focus = "LauncherMachine" THEN LM!lmInit
     ELSE /\ setup = None /\ sandbox = None /\ operator = None /\ calls = None
          /\ files = None /\ run = None /\ machine = None /\ podStop = None
          /\ faultsLeft = None
  /\ IF focus = "WarmPool" THEN WP!wpInit
     ELSE /\ poolStatus = None /\ bases = None /\ basePods = None
          /\ jobs = None /\ pass = None /\ asking = None /\ class = None
          /\ clock = None /\ budget = None /\ used = None
  /\ IF focus = "LauncherDisk" THEN LD!ldInit
     ELSE /\ signing = None /\ registry = None /\ diskJobs = None
          /\ signatures = None /\ askers = None /\ diskFaults = None
  /\ IF focus = "FrontendExec" THEN FE!feInit
     ELSE /\ scene = None /\ session = None /\ exec = None /\ pump = None
          /\ command = None /\ other = None /\ evictor = None /\ usage = None
  /\ IF focus = "LogStream" THEN LS!lsInit
     ELSE /\ request = None /\ console = None /\ logPod = None /\ call = None
          /\ got = None
  /\ IF focus = "NodeDialer" THEN ND!ndInit
     ELSE /\ agent = None /\ seen = None /\ cached = None /\ conns = None
          /\ callers = None /\ left = None
  /\ IF focus = "PairNamespace" THEN PN!pnInit
     ELSE /\ case = None /\ enrollment = None /\ namespaces = None
          /\ readyNs = None /\ users = None /\ touched = None
  /\ IF focus = "SandboxIdentity" THEN SI!siInit
     ELSE /\ life = None /\ idSandbox = None /\ secret = None /\ idPod = None
          /\ creating = None /\ taking = None /\ token = None
          /\ accepted = None /\ now = None
  /\ IF focus = "Admission" THEN AD!adInit
     ELSE /\ course = None /\ classes = None /\ object = None /\ source = None
          /\ workload = None /\ claim = None /\ admPass = None /\ stored = None
          /\ writes = None
  /\ IF focus = "StoredForm" THEN SF!sfInit
     ELSE /\ memory = None /\ everWritten = None /\ dirtied = None
          /\ written = None /\ seekData = None /\ captures = None
  /\ IF focus = "DevicePlugin" THEN DP!dpInit
     ELSE /\ node = None /\ device = None /\ kubelet = None /\ socket = None
          /\ servers = None /\ loop = None

Others ==
  /\ UNCHANGED focus
  /\ focus # "LauncherMachine" => UNCHANGED lmVars
  /\ focus # "WarmPool" => UNCHANGED wpVars
  /\ focus # "LauncherDisk" => UNCHANGED ldVars
  /\ focus # "FrontendExec" => UNCHANGED feVars
  /\ focus # "LogStream" => UNCHANGED lsVars
  /\ focus # "NodeDialer" => UNCHANGED ndVars
  /\ focus # "PairNamespace" => UNCHANGED pnVars
  /\ focus # "SandboxIdentity" => UNCHANGED siVars
  /\ focus # "Admission" => UNCHANGED adVars
  /\ focus # "StoredForm" => UNCHANGED sfVars
  /\ focus # "DevicePlugin" => UNCHANGED dpVars

Next ==
  \/ focus = "LauncherMachine" /\ LM!lmNext /\ Others
  \/ focus = "WarmPool" /\ WP!wpNext /\ Others
  \/ focus = "LauncherDisk" /\ LD!ldNext /\ Others
  \/ focus = "FrontendExec" /\ FE!feNext /\ Others
  \/ focus = "LogStream" /\ LS!lsNext /\ Others
  \/ focus = "NodeDialer" /\ ND!ndNext /\ Others
  \/ focus = "PairNamespace" /\ PN!pnNext /\ Others
  \/ focus = "SandboxIdentity" /\ SI!siNext /\ Others
  \/ focus = "Admission" /\ AD!adNext /\ Others
  \/ focus = "StoredForm" /\ SF!sfNext /\ Others
  \/ focus = "DevicePlugin" /\ DP!dpNext /\ Others

(* The fairness of each service, while it is in focus. *)
Fairness ==
  /\ WF_lmVars(focus = "LauncherMachine" /\ LM!Launcher)
  /\ WF_lmVars(focus = "LauncherMachine" /\ LM!maybeRestoreLauncher)
  /\ \A n \in 1..MaxAttempts : WF_lmVars(focus = "LauncherMachine" /\ LM!restoreLauncher(n))
  /\ WF_wpVars(focus = "WarmPool" /\ WP!Reconcile)
  /\ WF_wpVars(focus = "WarmPool" /\ (WP!readClass \/ WP!patchStamp \/ WP!selectBase))
  /\ \A n \in BaseNames :
       /\ WF_wpVars(focus = "WarmPool" /\ (WP!schedule(n) \/ WP!boots(n)))
       /\ WF_wpVars(focus = "WarmPool" /\ WP!finalizeBase(n))
       /\ WF_wpVars(focus = "WarmPool" /\ WP!baseOverdue(n))
  /\ \A i \in Images : WF_wpVars(focus = "WarmPool" /\ WP!jobEnds(i))
  /\ \A a \in LD!Askers : WF_ldVars(focus = "LauncherDisk" /\ LD!ensureDisk(a))
  /\ \A k \in KeyIDs :
       /\ WF_ldVars(focus = "LauncherDisk" /\ LD!diskJobRuns(k))
       /\ WF_ldVars(focus = "LauncherDisk" /\ LD!collect(k))
       /\ WF_ldVars(focus = "LauncherDisk" /\ LD!jobExpires(k))
  /\ WF_feVars(focus = "FrontendExec" /\ FE!Exec)
  /\ WF_feVars(focus = "FrontendExec" /\ FE!Write)
  /\ WF_feVars(focus = "FrontendExec" /\ FE!stdinPump)
  /\ WF_feVars(focus = "FrontendExec" /\ FE!OtherCall)
  /\ WF_feVars(focus = "FrontendExec" /\ FE!commandEnds)
  /\ WF_feVars(focus = "FrontendExec" /\ FE!operatorFollows)
  /\ WF_lsVars(focus = "LogStream" /\ LS!StreamLogs)
  /\ WF_lsVars(focus = "LogStream" /\ LS!podMoves)
  /\ \A c \in Callers : WF_ndVars(focus = "NodeDialer" /\ ND!CallerStep(c))
  /\ \A i \in ConnIDs : WF_ndVars(focus = "NodeDialer" /\ ND!ConnStep(i))
  /\ WF_ndVars(focus = "NodeDialer" /\ ND!listens)
  /\ WF_ndVars(focus = "NodeDialer" /\ ND!observed)
  /\ \A u \in Users : WF_pnVars(focus = "PairNamespace" /\ PN!Call(u))
  /\ WF_adVars(focus = "Admission" /\ AD!Operator)
  /\ \A s \in Servers :
       /\ WF_dpVars(focus = "DevicePlugin" /\ DP!register(s))
       /\ WF_dpVars(focus = "DevicePlugin" /\ DP!ListAndWatch(s))
       /\ WF_dpVars(focus = "DevicePlugin" /\ DP!Stop(s))
  /\ WF_dpVars(focus = "DevicePlugin" /\ \E s \in Servers : DP!Listen(s))
  /\ WF_dpVars(focus = "DevicePlugin" /\ DP!waitForRestart)
  /\ WF_dpVars(focus = "DevicePlugin" /\ DP!ServeAgain)
  /\ WF_dpVars(focus = "DevicePlugin" /\ DP!KubeletUp)

Spec == Init /\ [][Next]_vars /\ Fairness


(***************************************************************************)
(* Properties: the ones of the services, each where its service is in      *)
(* focus.                                                                  *)
(***************************************************************************)

(* finishRestore and the launch gate: a guest that was loaded from a
   snapshot joins the Pod network only with new entropy, the node's time and
   an identity of its own, and its Sandbox becomes Running only when all that
   the gate asks for is true of it, or class and cluster both opted out. *)
ServedIsFresh == focus = "LauncherMachine" => LM!JoinedIsFresh /\ LM!HandedOver

(* restoreLauncher writes the marker last: unless the operator restored a
   second time, the launcher loads a whole snapshot, over the disk it was
   taken with. *)
LoadsWhole == focus = "LauncherMachine" => LM!LoadsWhole

(* Launcher.Run, waitExit and restoreLauncher's defer: every way out leaves
   no process, socket or device, unless Start or the removal of the device
   failed; the code that the guest reported is the exit code of the Pod, also
   when Firecracker ends at the same time; and no plaintext state stays on
   the node after the last answer, unless the node agent was killed. *)
EndsClean ==
  focus = "LauncherMachine" => LM!NothingLeft /\ LM!ExitKept /\ LM!PlaintextRemoved

(* BaseKey, ErrBaseNotClean: no Sandbox loads a base that another launcher
   image booted or that the secret scan did not pass, whatever was edited,
   restarted or half written since.  mergePoolImages: the stamp of a Sandbox
   start is not lost to a pass that read the class before it. *)
LoadedIsSound == focus = "WarmPool" => WP!LoadedIsSound /\ WP!StampKept

(* Reconcile of the pool: however passes were cut short, an active class
   holds its bases again and again, and an inactive class ends with none. *)
PoolFills == []<>(focus = "WarmPool" => WP!PoolReady)

(* signBuiltDisk, Publish and VerifyMounted: whatever seed is in force when
   the operator signs, the disk under the tag of a key is signed with that
   key; when the operator says that the disk is there, the launcher accepts
   it; and a Sandbox fails only when every Pod of its Job met a fault of its
   own, through every rotation of the keys and every repeated Job. *)
DiskAccepted ==
  focus = "LauncherDisk" => LD!TagIsSigned /\ LD!DiskAccepted /\ LD!RetryUsesSignature

(* classifyExecOutcome, runExec: an EXITED verdict carries the status that
   the command reported, never the code of a teardown that the Sandbox shows,
   and nothing follows it, though the writers of the exec outlive its
   context. *)
VerdictHolds == focus = "FrontendExec" => FE!TeardownIsNoExit /\ FE!VerdictIsLast

(* Exec, Attach and keepSessionActive: the operator finds a session idle
   only when no client used it for the whole timeout, or a stamp was lost. *)
IdleOnlyWhenUnused == focus = "FrontendExec" => FE!IdleOnlyWhenUnused

(* relayLogStream, openWorkloadLogs: over breaks and second reads the caller
   gets every line once and in order, whichever lines share a stamp or a
   second; a call that ends well after the machine ended gave the log to its
   last line; and the log of a machine that ended meanwhile is not refused. *)
LogWhole == focus = "LogStream" => LS!LinesOnce /\ LS!OutputComplete /\ LS!LogsServed

(* nodeAgentUnavailable: the node agent runs each request at most once,
   however often an outage makes the operator try again.  GRPCDialer.Dial: a
   Dial cuts another controller's call to a working node agent only when it
   resolved its Pod before the cached connection was made. *)
CallsRunOnce == focus = "NodeDialer" => ND!RunsOnce /\ ND!CutOnlyByOlder

(* NamespaceFor, checkTenantNamespace: no Sandbox is in a namespace with the
   labels of another pair, none is created before every RoleBinding is there,
   whichever replica made it and whatever failed, and a call works only on
   Sandboxes that the same client launched for the same tenant. *)
PairsApart ==
  focus = "PairNamespace" => PN!NeverAdopted /\ PN!GrantsFirst /\ PN!OwnerOnly

(* ensureIdentity, VerifySandboxIdentity: the launcher of a Sandbox holds a
   key made for it, also when a Sandbox of the name left its Secret behind;
   an accepted token comes from the launcher of the very Sandbox that has the
   name, for that audience and within its lifetime; and a machine that is up
   gets tokens that verify, after a resume and after a snapshot too. *)
IdentityIsOwn ==
  focus = "SandboxIdentity" => SI!KeyOfItsOwn /\ SI!AcceptedIsItsOwn /\ SI!TokensVerify

(* The webhooks against the reconciler: the Pod stays within the class as the
   pass resolved it, though the class was tightened since; a class that was
   let in takes a Sandbox that leaves scratch and network to it; no claim is
   there without the finalizer, also when the webhook refused its patch; and
   pinned Snapshots fit, unless two writes were on their way at once. *)
LimitsKept ==
  focus = "Admission" =>
    AD!PodWithinClass /\ AD!DefaultsAdmitted /\ AD!ClaimGuarded /\ AD!PinnedFits

(* writeLauncherFrame, NewDecryptingReader: a full snapshot, and a diff put
   on its parents, restores the memory and layer of the moment of its
   capture; a stream that was cut or whose chunks were moved never unpacks;
   an extent that is taken lies inside of the file, though offset and length
   may wrap; and what is no longer than windowOverlap is seen whole in one
   window of the secret scan. *)
CaptureRestores ==
  focus = "StoredForm" =>
    SF!RestoredIsCaptured /\ SF!DamageRefused /\ SF!ExtentInside /\ SF!SeenWhole

(* run, waitForRestart, Serve: in the end kubelet knows of the device what
   is true, however often it restarted and though an old server may remove
   the socket of a new one. *)
DeviceKnown == <>[](focus = "DevicePlugin" => DP!Known)

(* Every wait ends: of operator, node agent and launcher for one another; for
   a disk, while the seed in force is trusted; of Exec, once its client
   half-closes, and of Wait, Kill, Suspend and Resume; of a log stream; of a
   call to a node agent that refuses the operator's TLS; and of a Launch into
   a namespace that an earlier call left half made. *)
WaitsEnd ==
  []<>(/\ focus = "LauncherMachine" => LM!Settled
       /\ focus = "LauncherDisk" => LD!AllAnswered
       /\ focus = "FrontendExec" => FE!AllReturned
       /\ focus = "LogStream" => LS!At("end")
       /\ focus = "NodeDialer" => ND!Settled
       /\ focus = "PairNamespace" => PN!Answered)

(* ValidateDelete of both webhooks says that a deletion is always permitted
   and that the controller does the rest: a deleted Sandbox goes. *)
DeletedGoes == focus = "Admission" => AD!DeletedGoes
=============================================================================
