------------------------ MODULE MCSandboxController ------------------------
(***************************************************************************)
(* Small instances of SandboxController.  One run covers several scenarios *)
(* side by side: the spec of the Sandbox says which worlds, faults, clock  *)
(* and reuse of the name it is explored with (InScenario, a constraint).   *)
(***************************************************************************)
EXTENDS SandboxController

Ephemeral == [session |-> FALSE, snapshotRef |-> FALSE, timeout |-> 0,
              idle |-> 0, maxPause |-> 0]
Session   == [Ephemeral EXCEPT !.session = TRUE]

Roaming   == Ephemeral                             \* meets every world
Timed     == [Ephemeral EXCEPT !.timeout = 1]      \* meets two faults
Pausable  == [Ephemeral EXCEPT !.maxPause = 1]     \* is paused and resumed
Restored  == [Ephemeral EXCEPT !.snapshotRef = TRUE]
IdleTimed == [Session EXCEPT !.timeout = 2, !.idle = 1]
Idling    == [Session EXCEPT !.idle = 1]

WorldSpecs     == {Roaming, Session}
FaultSpecs     == {Timed, Pausable, IdleTimed, Restored}
LiveSpecs      == {Ephemeral, Idling}
TimedSpecs     == {Timed}
UntimedSpecs   == {Ephemeral}
SessionSpecs   == {Session}

Healthy == [tenant |-> TRUE, class |-> "ok", snap |-> "Ready", disk |-> "ready"]

HealthyOnly    == {Healthy}
TenantWorlds   == {Healthy, [Healthy EXCEPT !.tenant = FALSE]}
ClassWorlds    == {Healthy, [Healthy EXCEPT !.class = "missing"]}
SnapshotWorlds == {Healthy, [Healthy EXCEPT !.snap = "unavailable"],
                   [Healthy EXCEPT !.snap = "incompatible"]}
RoughWorlds ==
  TenantWorlds \cup ClassWorlds
  \cup {[Healthy EXCEPT !.class = "violated"], [Healthy EXCEPT !.class = "badBackend"],
        [Healthy EXCEPT !.disk = "building"], [Healthy EXCEPT !.disk = "failed"]}

Plain == [worlds |-> HealthyOnly, wants |-> {"Running"}, faults |-> 1,
          time |-> 3, gens |-> 1]

ScenarioOf(s) ==
  CASE s = Roaming   -> [Plain EXCEPT !.worlds = RoughWorlds, !.faults = 0, !.time = 2]
    [] s = Timed     -> [Plain EXCEPT !.faults = 2, !.time = 2]
    [] s = Pausable  -> [Plain EXCEPT !.wants = {"Running", "Paused"}, !.time = 2]
    [] s = Restored  -> [Plain EXCEPT !.worlds = SnapshotWorlds, !.time = 1]
    [] s = IdleTimed -> [Plain EXCEPT !.time = 2]
    [] s = Session   -> [Plain EXCEPT !.time = 0, !.gens = 2]

InScenario ==
  LET S == ScenarioOf(sb.spec)
  IN  /\ world \in S.worlds /\ sb.want \in S.wants
      /\ MaxFaults - faults <= S.faults
      /\ now <= S.time /\ sb.gen <= S.gens

(* A name is used again for a Sandbox of the same kind. *)
SameKind == sb'.gen # sb.gen => sb'.spec = sb.spec
=============================================================================
