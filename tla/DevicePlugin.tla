---------------------------- MODULE DevicePlugin -----------------------------
(* One device plugin and the kubelet: internal/deviceplugin/plugin.go and the *)
(* loop of cmd/setec-device-plugin that serves again when the kubelet has     *)
(* restarted. The only sign of a restart is that the socket file is gone, and *)
(* a server that stops removes the file under that path, whoever made it.     *)
EXTENDS Naturals

CONSTANTS Servers,   \* runs of Serve that can be there at one time
          NodeLives,     \* what happens on the node: kubelet restarts, device changes, a stop
          None

VARIABLES
  node,      \* what can still happen on the node
  device,    \* /dev/kvm is there
  kubelet,   \* up; the server whose list it watches; what it believes
  socket,    \* the server that listens under the path of the socket, or None
  servers,   \* of each server: its state and the last health it sent
  loop       \* the loop of run: where it is and the server it waits for

dpVars == <<node, device, kubelet, socket, servers, loop>>

Unheard == [up |-> TRUE, watch |-> None, view |-> "unknown"]

dpInit ==
  /\ node \in NodeLives
  /\ device \in BOOLEAN
  /\ kubelet = Unheard
  /\ socket = None
  /\ servers = [s \in Servers |-> [pc |-> "gone", last |-> FALSE]]
  /\ loop = [pc |-> "serve", server |-> None]

(* All shares of the device are healthy or all are unhealthy.                 *)
devices(healthy) == IF healthy THEN "healthy" ELSE "unhealthy"

(* run calls Serve, which takes the path of the socket and listens there.     *)
Listen(s) ==
  /\ loop.pc = "serve" /\ servers[s].pc = "gone"
  /\ servers' = [servers EXCEPT ![s].pc = "register"]
  /\ socket' = s
  /\ loop' = [pc |-> "wait", server |-> s]
  /\ UNCHANGED <<node, device, kubelet>>

(* The kubelet takes the registration and watches the list of the server that *)
(* listens under the path, if there is one. Without a kubelet Serve fails.    *)
register(s) ==
  /\ servers[s].pc = "register"
  /\ IF kubelet.up
       THEN /\ servers' = [servers EXCEPT ![s].pc = "serving",
                             ![IF socket = None THEN s ELSE socket].last = device]
            /\ kubelet' = IF socket = None THEN kubelet
                          ELSE [kubelet EXCEPT !.watch = socket, !.view = devices(device)]
       ELSE servers' = [servers EXCEPT ![s].pc = "failed"] /\ UNCHANGED kubelet
  /\ UNCHANGED <<node, device, socket, loop>>

(* A tick of ListAndWatch: a new list when the device came or went.           *)
ListAndWatch(s) ==
  /\ kubelet.watch = s /\ servers[s].last # device
  /\ servers' = [servers EXCEPT ![s].last = device]
  /\ kubelet' = [kubelet EXCEPT !.view = devices(device)]
  /\ UNCHANGED <<node, device, socket, loop>>

(* Stop of the server closes its listener, which removes the file under the   *)
(* path, and ends the stream to the kubelet.                                  *)
Stop(s) ==
  /\ servers[s].pc \in {"failed", "canceled"}
  /\ servers' = [servers EXCEPT ![s].pc = "gone"]
  /\ socket' = None
  /\ kubelet' = IF kubelet.watch = s THEN [kubelet EXCEPT !.watch = None, !.view = "unknown"] ELSE kubelet
  /\ loop' = IF loop = [pc |-> "wait", server |-> s] THEN [loop EXCEPT !.pc = "pause"] ELSE loop
  /\ UNCHANGED <<node, device>>

(* Mutant: only the end of Serve is waited for.                               *)
waitForRestart_EndOnly == FALSE /\ UNCHANGED dpVars

(* The socket is gone: run cancels the server, does not wait for it, and      *)
(* pauses. The server may stop long after the next one listens.               *)
waitForRestart ==
  /\ loop.pc = "wait" /\ socket = None
  /\ servers[loop.server].pc \in {"register", "serving"}
  /\ servers' = [servers EXCEPT ![loop.server].pc = "canceled"]
  /\ loop' = [loop EXCEPT !.pc = "pause"]
  /\ UNCHANGED <<node, device, kubelet, socket>>

(* The pause of 5 s is longer than a server takes to stop, but for node.late  *)
(* times: then the next server listens before the old one is gone.            *)
ServeAgain ==
  LET late == \E s \in Servers : servers[s].pc # "gone" IN
  /\ loop.pc = "pause"
  /\ late => node.late > 0
  /\ node' = IF late THEN [node EXCEPT !.late = @ - 1] ELSE node
  /\ loop' = [pc |-> "serve", server |-> None]
  /\ UNCHANGED <<device, kubelet, socket, servers>>

(* SIGTERM ends the loop and the server with it.                              *)
Terminate ==
  /\ node.stop /\ loop.pc # "end"
  /\ loop' = [pc |-> "end", server |-> None]
  /\ servers' = [s \in Servers |->
       IF servers[s].pc \in {"register", "serving"} THEN [servers[s] EXCEPT !.pc = "canceled"] ELSE servers[s]]
  /\ UNCHANGED <<node, device, kubelet, socket>>

KubeletDown ==
  /\ kubelet.up /\ node.restarts > 0
  /\ kubelet' = [Unheard EXCEPT !.up = FALSE]
  /\ node' = [node EXCEPT !.restarts = @ - 1]
  /\ UNCHANGED <<device, socket, servers, loop>>

(* A kubelet that starts deletes every plugin socket.                         *)
KubeletUp ==
  /\ ~kubelet.up
  /\ kubelet' = Unheard
  /\ socket' = None
  /\ UNCHANGED <<node, device, servers, loop>>

DeviceChanges ==
  /\ node.changes > 0
  /\ device' = ~device
  /\ node' = [node EXCEPT !.changes = @ - 1]
  /\ UNCHANGED <<kubelet, socket, servers, loop>>

dpNext ==
  \/ \E s \in Servers : Listen(s) \/ register(s) \/ ListAndWatch(s) \/ Stop(s)
  \/ waitForRestart \/ ServeAgain \/ Terminate
  \/ KubeletDown \/ KubeletUp \/ DeviceChanges

(* The goroutines run, the timers of the loop and of ListAndWatch fire, and   *)
(* the node starts its kubelet again.                                         *)
dpFairness ==
  /\ \A s \in Servers : WF_dpVars(register(s)) /\ WF_dpVars(ListAndWatch(s)) /\ WF_dpVars(Stop(s))
  /\ WF_dpVars(\E s \in Servers : Listen(s))
  /\ WF_dpVars(waitForRestart) /\ WF_dpVars(ServeAgain) /\ WF_dpVars(KubeletUp)

dpSpec == dpInit /\ [][dpNext]_dpVars /\ dpFairness

Known == loop.pc = "end" \/ kubelet.view = devices(device)

(* In the end the kubelet knows of the device what is true of it, however     *)
(* often it restarted, whatever it deleted before or after the plugin listens *)
(* or registers, and though an old server may remove the socket of a new one. *)
DeviceKnown == <>[]Known
=============================================================================
