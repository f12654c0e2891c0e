--------------------------- MODULE SnapshotRequest ---------------------------
(* A snapshot of a Sandbox, from the request to its erasure: the frontend  *)
(* calls that ask for one and wait (Fork, Snapshot, Keep), the lifecycle   *)
(* step of the Sandbox reconciler with Coordinator.CreateSnapshot, the     *)
(* node agent that pauses the machine and stores its state, and the        *)
(* Snapshot reconciler with its finalizer, its reference count and TTL.    *)
EXTENDS Integers, FiniteSets

CONSTANTS
  Names,        \* names of Snapshots
  Callers,      \* frontend calls
  Wanted,       \* what users put in spec.snapshot
  CallNames,    \* the names the calls draw
  Budgets,      \* bounds on snapshots asked for (ask), pauses and resumes
                \* (flip), deletions and expiries (delete), failures of a
                \* call or a process (fault), and whether the frontend
                \* calls are made (call)
  MaxAttempts,  \* no smaller than ask + delete + fault
  None

Attempts == 1 .. MaxAttempts
Requests == [name : Names, after : {"Running", "Paused", "Terminated"},
             parent : Names \cup {None}, kept : BOOLEAN]

(* None is no name, and a caller is no attempt. *)
ASSUME RequestConstants ==
  /\ IsFiniteSet(Names) /\ None \notin Names /\ CallNames \subseteq Names
  /\ IsFiniteSet(Callers) /\ Callers \cap Attempts = {}
  /\ Wanted \subseteq Requests
  /\ MaxAttempts \in Nat

VARIABLES
  sb,        \* the Sandbox object
  cache,     \* what the informer of the operator shows of it
  snaps,     \* the Snapshot objects
  stored,    \* what the store holds under the id of each name
  vm,        \* the machine: running or not, and its identity generation file
  forks,     \* the Sandbox each call started from a snapshot
  call,      \* the frontend calls
  rec,       \* the reconcile of the Sandbox
  fin,       \* the reconcile of a Snapshot
  na,        \* CreateSnapshot in the node agent, one for each attempt
  tries,     \* attempts so far
  left,      \* what is left of the budget
  hurt       \* a fault happened from which the code does not come back

world == <<stored, vm>>
objects == <<sb, snaps, forks>>
bounds == <<tries, left, hurt>>
vars == <<world, objects, cache, call, rec, fin, na, bounds>>

Spend(kind) == left[kind] > 0 /\ left' = [left EXCEPT ![kind] = @ - 1] /\ UNCHANGED tries
Fault == Spend("fault") /\ UNCHANGED hurt
Hurt == Spend("fault") /\ hurt' = TRUE
Request(kind) == Spend(kind) /\ UNCHANGED hurt

Exists(n) == snaps[n] # None
InPhase(n, P) == Exists(n) /\ snaps[n].phase \in P
Gone == sb.phase = "Gone"
NoRequest == [name |-> None, after |-> "Running", parent |-> None, kept |-> FALSE]

------------------------------------------------------------------------------
(* Users and the frontend. *)

Ask(r) == ~Gone /\ Request("ask") /\ sb' = [sb EXCEPT !.req = r]

UserRequest ==
  /\ \E r \in Wanted : r # sb.req /\ Ask(r)
  /\ UNCHANGED <<world, snaps, forks, cache, call, rec, fin, na>>

UserSetsDesiredState ==
  /\ ~Gone /\ Request("flip")
  /\ sb' = [sb EXCEPT !.want = IF @ = "Running" THEN "Paused" ELSE "Running"]
  /\ UNCHANGED <<world, snaps, forks, cache, call, rec, fin, na>>

UserDeletesSandbox ==
  /\ ~Gone /\ Request("delete") /\ sb' = [sb EXCEPT !.phase = "Gone"]
  /\ UNCHANGED <<world, snaps, forks, cache, call, rec, fin, na>>

Fresh(n) == ~Exists(n) /\ stored[n] = None /\ sb.req.name # n /\ \A c \in Callers : call[c].name # n

(* forkableSource wants a Running Sandbox; the name gets a random suffix.  *)
(* The patch takes the place of a request that is still waiting.           *)
snapshotAndWait(c) ==
  /\ call[c].pc = "idle" /\ sb.phase = "Running"
  /\ \E n \in CallNames, k \in BOOLEAN :
       /\ Fresh(n)
       /\ Ask([name |-> n, after |-> "Running", parent |-> None, kept |-> k])
       /\ call' = [call EXCEPT ![c] = [pc |-> "wait", name |-> n]]
  /\ UNCHANGED <<world, snaps, forks, cache, rec, fin, na>>

Return(c) == call' = [call EXCEPT ![c].pc = "done"]

(* The poll finds the Snapshot Ready, or the call ends: the Snapshot is    *)
(* Failed, or the time limit is over.                                      *)
waited(c) ==
  LET n == call[c].name IN
  /\ call[c].pc = "wait"
  /\ IF InPhase(n, {"Ready"})
     THEN call' = [call EXCEPT ![c].pc = IF snaps[n].kept THEN "pin" ELSE "fork"]
     ELSE Return(c)
  /\ UNCHANGED <<world, objects, cache, rec, fin, na, bounds>>

(* Keep with pinned: setPinned. *)
setPinned(c) ==
  LET n == call[c].name IN
  /\ call[c].pc = "pin" /\ Return(c)
  /\ snaps' = IF Exists(n) THEN [snaps EXCEPT ![n].pinned = TRUE] ELSE snaps
  /\ UNCHANGED <<world, sb, forks, cache, rec, fin, na, bounds>>

(* A Sandbox with a snapshotRef; the operator's informer shows it later. *)
Fork(c) ==
  /\ call[c].pc = "fork" /\ Return(c)
  /\ forks' = [forks EXCEPT ![c] = [ref |-> call[c].name, restored |-> FALSE, shown |-> FALSE]]
  /\ UNCHANGED <<world, sb, snaps, cache, rec, fin, na, bounds>>

checkSnapshotOpens(n) == InPhase(n, {"Ready"}) /\ ~snaps[n].kept

(* A Launch with from_snapshot. *)
launchFromSnapshot(c) ==
  /\ call[c].pc = "idle" /\ Return(c)
  /\ \E n \in Names :
       /\ checkSnapshotOpens(n)
       /\ forks' = [forks EXCEPT ![c] = [ref |-> n, restored |-> FALSE, shown |-> FALSE]]
  /\ UNCHANGED <<world, sb, snaps, cache, rec, fin, na, bounds>>

ShowFork(c) ==
  /\ forks[c] # None /\ ~forks[c].shown
  /\ forks' = [forks EXCEPT ![c].shown = TRUE]
  /\ UNCHANGED <<world, sb, snaps, cache, call, rec, fin, na, bounds>>

Validate(n) == InPhase(n, {"", "Ready"}) /\ snaps[n].ref

(* The reconcile of the fork loads the snapshot and notes it in its        *)
(* annotation, or the fork fails and is deleted.                           *)
restoreLauncher(c) ==
  /\ forks[c] # None /\ forks[c].shown /\ ~forks[c].restored
  /\ LET n == forks[c].ref IN
     forks' = [forks EXCEPT ![c] = IF Validate(n) /\ stored[n] # None
                                   THEN [@ EXCEPT !.restored = TRUE] ELSE None]
  /\ UNCHANGED <<world, sb, snaps, cache, call, rec, fin, na, bounds>>

------------------------------------------------------------------------------
(* The Snapshot reconciler. *)

Loading(n) == {c \in Callers : forks[c] # None /\ forks[c].ref = n /\ forks[c].shown /\ ~forks[c].restored}
Diffs(n) == {snaps[m].uid : m \in {k \in Names : Exists(k) /\ snaps[k].parent = n}}

referenceCount_NoDiffs(n) == Cardinality(Loading(n))

(* The Sandboxes that still need it, and the diffs that build on it. *)
referenceCount(n) == Cardinality(Loading(n)) + Cardinality(Diffs(n))

(* A Snapshot goes at once without its finalizer. *)
Deleted(n) ==
  IF ~Exists(n) \/ ~snaps[n].fin THEN [snaps EXCEPT ![n] = None]
  ELSE IF snaps[n].deleting THEN snaps
  ELSE [snaps EXCEPT ![n].deleting = TRUE, ![n].held = Loading(n) \cup Diffs(n)]

UserDeletesSnapshot(n) ==
  /\ Exists(n) /\ ~snaps[n].deleting /\ Request("delete")
  /\ snaps' = Deleted(n)
  /\ UNCHANGED <<world, sb, forks, cache, call, rec, fin, na>>

FinIdle == [pc |-> "idle", name |-> None, snap |-> None, count |-> 0]

(* Get and count; the finalizer of a live object, whose Update carries the *)
(* resource version of the Get; the TTL of an object that is not pinned    *)
(* and has no reference.                                                   *)
Reconcile(n) ==
  /\ fin.pc = "idle" /\ Exists(n)
  /\ LET Go(pc) == fin' = [pc |-> pc, name |-> n, snap |-> snaps[n], count |-> referenceCount(n)] IN
     IF snaps[n].deleting
     THEN Go("terminating") /\ UNCHANGED snaps
     ELSE \/ ~snaps[n].fin /\ snaps' = [snaps EXCEPT ![n].fin = TRUE] /\ UNCHANGED fin
          \/ /\ snaps[n].fin /\ ~snaps[n].pinned /\ referenceCount(n) = 0
             /\ left["delete"] > 0 /\ Go("expired") /\ UNCHANGED snaps
  /\ UNCHANGED <<world, sb, forks, cache, call, rec, na, bounds>>

expire ==
  /\ fin.pc = "expired" /\ fin' = FinIdle
  /\ IF Exists(fin.name) /\ left["delete"] > 0
     THEN Request("delete") /\ snaps' = Deleted(fin.name)
     ELSE UNCHANGED <<snaps, bounds>>
  /\ UNCHANGED <<world, sb, forks, cache, call, rec, na>>

(* Terminating is reported before the count is looked at; the answer to    *)
(* the patch refreshes the copy.                                           *)
finalizeSnapshot ==
  LET n == fin.name IN
  /\ fin.pc = "terminating"
  /\ snaps' = IF fin.snap.phase = "Terminating" THEN snaps ELSE [snaps EXCEPT ![n].phase = "Terminating"]
  /\ fin' = IF fin.count > 0 THEN FinIdle
            ELSE [fin EXCEPT !.pc = "erase", !.snap = IF @.phase = "Terminating" THEN @ ELSE snaps'[n]]
  /\ UNCHANGED <<world, sb, forks, cache, call, rec, na, bounds>>

(* Coordinator.DeleteSnapshot with the copy: nothing is erased without a   *)
(* storage reference.  After an error the finalizer stays.                 *)
DeleteSnapshot ==
  LET Erased == [stored EXCEPT ![fin.name] = None] IN
  /\ fin.pc = "erase"
  /\ \/ /\ stored' = IF fin.snap.ref THEN Erased ELSE stored
        /\ fin' = [fin EXCEPT !.pc = "erased"] /\ UNCHANGED bounds
     \/ fin.snap.ref /\ Fault /\ fin' = FinIdle /\ stored' \in {stored, Erased}
  /\ UNCHANGED <<vm, objects, cache, call, rec, na>>

(* The Update is refused when the object changed since the copy. *)
removeFinalizer ==
  /\ fin.pc = "erased" /\ fin' = FinIdle
  /\ snaps' = [snaps EXCEPT ![fin.name] = IF @ = fin.snap THEN None ELSE @]
  /\ UNCHANGED <<world, sb, forks, cache, call, rec, na, bounds>>

------------------------------------------------------------------------------
(* CreateSnapshot in the node agent.  It goes on when its caller is gone.  *)

Goto(i, pc) == na' = [na EXCEPT ![i].pc = pc]
Orphan(i) == rec.try # i \/ rec.pc # "rpc"
agent == <<objects, cache, call, rec, fin>>

(* A call fails; the machine is gone; or the context of the caller is over. *)
Cut(i) == (Gone \/ Orphan(i)) /\ UNCHANGED bounds

pause(i) ==
  /\ na[i].pc = "pause"
  /\ \/ ~Gone /\ vm' = [vm EXCEPT !.running = FALSE] /\ Goto(i, "take") /\ UNCHANGED bounds
     \/ (Cut(i) \/ Fault) /\ Goto(i, "err") /\ UNCHANGED vm
  /\ UNCHANGED <<agent, stored>>

(* The directory, the paths and the Firecracker snapshot: an error leaves  *)
(* the machine paused.  The memory holds tokens of the generation of now.  *)
take(i) ==
  /\ na[i].pc = "take"
  /\ \/ ~Gone /\ na' = [na EXCEPT ![i].pc = "raise", ![i].inside = vm.gen] /\ UNCHANGED bounds
     \/ (Cut(i) \/ Hurt) /\ Goto(i, "err")
  /\ UNCHANGED <<agent, stored, vm>>

(* The copy of the writable layer and the generation file; an error of     *)
(* either resumes the machine, as far as the context still lives.          *)
raiseGeneration(i) ==
  /\ na[i].pc = "raise"
  /\ \/ vm' = [vm EXCEPT !.gen = na[i].gen] /\ Goto(i, "resume") /\ UNCHANGED bounds
     \/ ~Orphan(i) /\ Fault /\ vm' = [vm EXCEPT !.running = TRUE] /\ Goto(i, "err")
     \/ Cut(i) /\ vm' \in {vm, [vm EXCEPT !.running = TRUE]} /\ Goto(i, "err")
  /\ UNCHANGED <<agent, stored>>

(* An error of the resume is ignored. *)
resume(i) ==
  /\ na[i].pc = "resume" /\ Goto(i, "save")
  /\ \/ vm' = [vm EXCEPT !.running = TRUE] /\ UNCHANGED bounds
     \/ (Cut(i) \/ Hurt) /\ UNCHANGED vm
  /\ UNCHANGED <<agent, stored>>

(* The frame and Save, which refuses an id that is taken. *)
save(i) ==
  /\ na[i].pc = "save"
  /\ \/ /\ stored[na[i].name] = None
        /\ stored' = [stored EXCEPT ![na[i].name] = [uid |-> i, inside |-> na[i].inside]]
        /\ Goto(i, "ok") /\ UNCHANGED bounds
     \/ /\ (stored[na[i].name] # None /\ UNCHANGED bounds) \/ Cut(i) \/ Fault
        /\ Goto(i, "err") /\ UNCHANGED stored
  /\ UNCHANGED <<agent, vm>>

------------------------------------------------------------------------------
(* The reconcile of the Sandbox: reconcilePhase3Lifecycle. *)

RecIdle == [pc |-> "idle", sb |-> None, try |-> 0]
To(pc) == rec' = [rec EXCEPT !.pc = pc]
Done == rec' = RecIdle
operator == <<cache, call, fin, forks>>
NoSandbox == Gone /\ UNCHANGED bounds
Taken(n) == Exists(n) /\ UNCHANGED bounds

SyncCache ==
  /\ cache # sb /\ cache' = sb
  /\ UNCHANGED <<world, objects, call, rec, fin, na, bounds>>

existing_Done(r) ==
  IF Exists(r.name) THEN "after" ELSE "mark"

(* requestSnapshot looks at the Snapshot of the requested name.  A Failed  *)
(* one puts the Sandbox back to Running; every other one ends the step.    *)
existing(r) ==
  IF ~Exists(r.name) THEN "mark"
  ELSE IF InPhase(r.name, {"Failed"}) /\ ~(snaps[r.name].deleting /\ ~snaps[r.name].ref) THEN "rollback"
  ELSE "idle"

(* The branch the phase of the informer's copy calls for. *)
lifecycle ==
  LET s == cache
      pc == IF s.want = "Paused" /\ s.phase = "Running" THEN "pause"
            ELSE IF s.want = "Running" /\ s.phase = "Paused" THEN "resume"
            ELSE IF s.req.name # None /\ s.phase \in {"Running", "Paused"} THEN existing(s.req)
            ELSE "idle"
  IN /\ rec.pc = "idle" /\ pc # "idle"
     /\ rec' = [pc |-> pc, sb |-> s, try |-> 0]
     /\ UNCHANGED <<world, objects, cache, call, fin, na, bounds>>

(* A merge patch of the phase: it holds the phase only when the copy does  *)
(* not have it.  The answer refreshes the copy.                            *)
patchPhase(p) ==
  /\ ~Gone
  /\ sb' = IF rec.sb.phase = p THEN sb ELSE [sb EXCEPT !.phase = p]

(* Coordinator.Pause and Resume, then the phase. *)
setMachine ==
  /\ rec.pc \in {"pause", "resume"}
  /\ \/ ~Gone /\ vm' = [vm EXCEPT !.running = (rec.pc = "resume")]
        /\ To(IF rec.pc = "pause" THEN "paused" ELSE "resumed") /\ UNCHANGED bounds
     \/ (NoSandbox \/ Fault) /\ Done /\ UNCHANGED vm
  /\ UNCHANGED <<stored, sb, snaps, na, operator>>

recordMachine ==
  /\ rec.pc \in {"paused", "resumed"} /\ Done
  /\ \/ patchPhase(IF rec.pc = "paused" THEN "Paused" ELSE "Running") /\ UNCHANGED bounds
     \/ (NoSandbox \/ Fault) /\ UNCHANGED sb
  /\ UNCHANGED <<world, snaps, na, operator>>

(* Snapshotting, before anything is asked of the coordinator. *)
markSnapshotting ==
  /\ rec.pc = "mark"
  /\ \/ patchPhase("Snapshotting") /\ rec' = [rec EXCEPT !.pc = "parent", !.sb = sb'] /\ UNCHANGED bounds
     \/ (NoSandbox \/ Fault) /\ Done /\ UNCHANGED sb
  /\ UNCHANGED <<world, snaps, na, operator>>

diffParent(p) == p = None \/ (InPhase(p, {"Ready"}) /\ snaps[p].ref /\ ~snaps[p].kept)

(* checkNameFree, the Pod and the parent. *)
checkRequest ==
  /\ rec.pc = "parent"
  /\ \/ To(IF ~Gone /\ ~Exists(rec.sb.req.name) /\ diffParent(rec.sb.req.parent) THEN "create" ELSE "rollback")
        /\ UNCHANGED bounds
     \/ Fault /\ To("rollback")
  /\ UNCHANGED <<world, sb, snaps, na, operator>>

newSnapshotCR(r, i) ==
  [uid |-> i, phase |-> "", ref |-> FALSE, parent |-> r.parent, kept |-> r.kept, pinned |-> FALSE,
   fin |-> FALSE, deleting |-> FALSE, held |-> {}]

(* The object first, so that an attempt that fails leaves a record. *)
createCR ==
  LET r == rec.sb.req
      i == tries + 1
  IN /\ rec.pc = "create"
     /\ \/ /\ ~Exists(r.name) /\ i \in Attempts
           /\ snaps' = [snaps EXCEPT ![r.name] = newSnapshotCR(r, i)]
           /\ rec' = [rec EXCEPT !.pc = "creating", !.try = i]
           /\ tries' = i /\ UNCHANGED <<left, hurt>>
        \/ (Taken(r.name) \/ Fault) /\ To("rollback") /\ UNCHANGED snaps
     /\ UNCHANGED <<world, sb, na, operator>>

name == rec.sb.req.name
Missing == ~Exists(name) /\ UNCHANGED bounds
markPhase(p) == Exists(name) /\ snaps' = [snaps EXCEPT ![name].phase = p]

(* Without Creating nothing is written: the object stays as it is. *)
markCreating ==
  /\ rec.pc = "creating"
  /\ \/ markPhase("Creating") /\ To("dial") /\ UNCHANGED bounds
     \/ (Missing \/ Hurt) /\ To("rollback") /\ UNCHANGED snaps
  /\ UNCHANGED <<world, sb, na, operator>>

nextIdentityGeneration_Same(s) == s.gen

nextIdentityGeneration(s) == s.gen + 1

(* Dial and send the call; a node agent that cannot be reached got none. *)
dial ==
  /\ rec.pc = "dial"
  /\ \/ /\ na' = [na EXCEPT ![rec.try] = [pc |-> "pause", name |-> name, gen |-> nextIdentityGeneration(rec.sb), inside |-> 0]]
        /\ To("rpc") /\ UNCHANGED bounds
     \/ Fault /\ To("abandon") /\ UNCHANGED na
     \/ Fault /\ To("fail") /\ UNCHANGED na
  /\ UNCHANGED <<world, sb, snaps, operator>>

abandonSnapshot_Keep ==
  /\ rec.pc = "abandon" /\ To("rollback")
  /\ UNCHANGED <<world, sb, snaps, na, operator, bounds>>

(* The object goes, so that a later reconcile takes the snapshot again. *)
abandonSnapshot ==
  /\ rec.pc = "abandon"
  /\ \/ snaps' = Deleted(name) /\ To("rollback") /\ UNCHANGED bounds
     \/ Fault /\ To("fail") /\ UNCHANGED snaps
  /\ UNCHANGED <<world, sb, na, operator>>

answer_LostIsDone ==
  /\ rec.pc = "rpc"
  /\ \/ na[rec.try].pc = "ok" /\ To("generation") /\ UNCHANGED bounds
     \/ na[rec.try].pc = "err" /\ To("fail") /\ UNCHANGED bounds
     \/ Hurt /\ To("generation")
  /\ UNCHANGED <<world, sb, snaps, na, operator>>

(* The answer of the node agent, or an error while it still works. *)
answer ==
  /\ rec.pc = "rpc"
  /\ \/ na[rec.try].pc = "ok" /\ To("generation") /\ UNCHANGED bounds
     \/ na[rec.try].pc = "err" /\ To("fail") /\ UNCHANGED bounds
     \/ Hurt /\ To("fail")
  /\ UNCHANGED <<world, sb, snaps, na, operator>>

recordIdentityGeneration ==
  LET gen == na[rec.try].gen IN
  /\ rec.pc = "generation"
  /\ \/ /\ ~Gone /\ sb' = [sb EXCEPT !.gen = IF @ < gen THEN gen ELSE @]
        /\ To("ref") /\ UNCHANGED bounds
     \/ (NoSandbox \/ Fault) /\ To("fail") /\ UNCHANGED sb
  /\ UNCHANGED <<world, snaps, na, operator>>

recordStorageRef ==
  /\ rec.pc = "ref"
  /\ \/ Exists(name) /\ snaps' = [snaps EXCEPT ![name].ref = TRUE] /\ To("ready") /\ UNCHANGED bounds
     \/ (Missing \/ Fault) /\ To("fail") /\ UNCHANGED snaps
  /\ UNCHANGED <<world, sb, na, operator>>

(* An error here is an event and no more. *)
markReady ==
  /\ rec.pc = "ready" /\ To("after")
  /\ \/ markPhase("Ready") /\ UNCHANGED bounds
     \/ (Missing \/ Hurt) /\ UNCHANGED snaps
  /\ UNCHANGED <<world, sb, na, operator>>

failSnapshot ==
  /\ rec.pc = "fail" /\ To("rollback")
  /\ \/ markPhase("Failed") /\ UNCHANGED bounds
     \/ (Missing \/ Hurt) /\ UNCHANGED snaps
  /\ UNCHANGED <<world, sb, na, operator>>

(* Back to Running, whatever the phase was; an error is dropped. *)
rollBack ==
  /\ rec.pc = "rollback" /\ Done
  /\ \/ patchPhase("Running") /\ UNCHANGED bounds
     \/ (NoSandbox \/ Hurt) /\ UNCHANGED sb
  /\ UNCHANGED <<world, snaps, na, operator>>

applyAfterCreate ==
  LET phase == [Running |-> "Running", Paused |-> "Paused", Terminated |-> "Gone"] IN
  /\ rec.pc = "after" /\ Done
  /\ \/ patchPhase(phase[rec.sb.req.after]) /\ UNCHANGED bounds
     \/ (NoSandbox \/ Hurt) /\ UNCHANGED sb
  /\ UNCHANGED <<world, snaps, na, operator>>

(* The operator restarts. *)
Crash ==
  /\ rec.pc # "idle" \/ fin.pc # "idle"
  /\ IF rec.pc \in {"idle", "pause", "resume", "paused", "resumed", "mark"} THEN Fault ELSE Hurt
  /\ rec' = RecIdle /\ fin' = FinIdle
  /\ UNCHANGED <<world, objects, cache, call, na>>

------------------------------------------------------------------------------
Init ==
  /\ sb = [phase |-> "Running", want |-> "Running", req |-> NoRequest, gen |-> 0]
  /\ cache = sb
  /\ snaps = [n \in Names |-> None] /\ stored = [n \in Names |-> None]
  /\ vm = [running |-> TRUE, gen |-> 0]
  /\ forks = [c \in Callers |-> None]   /\ rec = RecIdle /\ fin = FinIdle
  /\ na = [i \in Attempts |-> [pc |-> "idle", name |-> None, gen |-> 0, inside |-> 0]]
  /\ left \in Budgets
  /\ call = [c \in Callers |-> [pc |-> IF left.call THEN "idle" ELSE "done", name |-> None]]
  /\ tries = 0 /\ hurt = FALSE

reconcileSandbox ==
  \/ lifecycle \/ setMachine \/ recordMachine \/ markSnapshotting \/ checkRequest \/ createCR
  \/ markCreating \/ dial \/ abandonSnapshot \/ answer \/ recordIdentityGeneration
  \/ recordStorageRef \/ markReady \/ failSnapshot \/ rollBack \/ applyAfterCreate

reconcileSnapshot == expire \/ finalizeSnapshot \/ DeleteSnapshot \/ removeFinalizer

CreateSnapshot(i) == pause(i) \/ take(i) \/ raiseGeneration(i) \/ resume(i) \/ save(i)

Next ==
  \/ UserRequest \/ UserSetsDesiredState \/ UserDeletesSandbox
  \/ \E n \in Names : UserDeletesSnapshot(n) \/ Reconcile(n)
  \/ \E c \in Callers : \/ snapshotAndWait(c) \/ waited(c) \/ setPinned(c) \/ Fork(c)
                        \/ launchFromSnapshot(c) \/ ShowFork(c) \/ restoreLauncher(c)
  \/ \E i \in Attempts : CreateSnapshot(i)
  \/ reconcileSandbox \/ reconcileSnapshot \/ SyncCache \/ Crash

(* The work queue of each controller runs what waits, a call that was sent *)
(* is worked on, and the informer catches up.                              *)
Fairness ==
  /\ WF_vars(SyncCache) /\ WF_vars(reconcileSandbox)
  /\ WF_vars(reconcileSnapshot \/ \E n \in Names : Reconcile(n))
  /\ WF_vars(\E i \in Attempts : CreateSnapshot(i))

Spec == Init /\ [][Next]_vars /\ Fairness

------------------------------------------------------------------------------
(* A Snapshot that reads Ready, and that nobody deletes, has its state in  *)
(* the store, written by its own attempt: coordinator.go stores first,     *)
(* then records the reference, then the phase, while a lost attempt of an  *)
(* earlier object of the name may still be writing.                        *)
ReadyIsStored ==
  \A n \in Names : InPhase(n, {"Ready"}) /\ ~snaps[n].deleting
                     => stored[n] # None /\ stored[n].uid = snaps[n].uid

(* afterCreate=Terminated deletes the Sandbox only when the state is in    *)
(* the store, or its Snapshot was deleted by then (requestSnapshot's       *)
(* comment on why existence of the object is not success).                 *)
TerminatedOnlyWhenStored ==
  [][rec.pc = "after" /\ ~Gone /\ Gone'
       => stored[name] # None \/ ~Exists(name) \/ snaps[name].deleting]_vars

(* The state of a deleted Snapshot stays in the store while a Sandbox that *)
(* still has to load it, or a diff on it, that the operator knew of when   *)
(* the deletion came is there (SnapshotReconciler.referenceCount).         *)
HeldNotErased ==
  \A n \in Names : Exists(n) /\ snaps[n].deleting /\ snaps[n].ref
                     /\ snaps[n].held \cap (Loading(n) \cup Diffs(n)) # {} => stored[n] # None

(* The Sandbox's generation is above that of every token in the memory     *)
(* that the attempt of a Ready Snapshot stored, so none of them verifies   *)
(* any more, unless an earlier attempt had raised the generation file to   *)
(* the same value (nextIdentityGeneration, recordIdentityGeneration).      *)
TokensRetired ==
  \A n \in Names :
    InPhase(n, {"Ready"}) /\ stored[n] # None /\ stored[n].uid = snaps[n].uid
      => \/ stored[n].inside < sb.gen
         \/ \E j \in 1 .. stored[n].uid - 1 : na[j].pc # "idle" /\ na[j].gen = na[stored[n].uid].gen

(* A full snapshot that is asked for is taken or reported Failed, over     *)
(* outages of the node agent (setec#315) and deletions, unless another     *)
(* request takes its place, or the operator stops in the middle or cannot  *)
(* write a phase.                                                          *)
SnapshotIsTaken ==
  sb.req.name # None /\ sb.req.parent = None
    ~> \/ \E n \in Names : n = sb.req.name /\ InPhase(n, {"Ready", "Failed", "Terminating"})
       \/ sb.req.parent # None \/ Gone \/ hurt
=============================================================================
