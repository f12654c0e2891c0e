---------------------- MODULE MCSessionCheckpoint ----------------------
(***************************************************************************)
(* A small instance of SessionCheckpoint.  One run covers several          *)
(* scenarios side by side (InScenario, a constraint): pausing without      *)
(* failures, every failure with user suspends or with a disruption, stale  *)
(* caches with idle suspends.                                              *)
(***************************************************************************)
EXTENDS SessionCheckpoint

Calm == disruptions = 0 /\ sb.want = "Running"

InScenario ==
  /\ Occurred # {} => sb.want # "Paused" /\ sb.phase # "Paused"
                     /\ (disruptions = 0 \/ sb.want = "Running")
  /\ missed => Calm
  /\ vm[3].state # "none" \/ sb.ck.seq = 3 =>
       Calm /\ Spared({"crash", "patch", "lag"})
  /\ durable \/ (Occurred = {} /\ sb.want # "Paused")
=============================================================================
