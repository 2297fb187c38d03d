------------------------- MODULE DaemonProcessProperties -------------------------
(***************************************************************************)
(* What the ownership protocol of DaemonProcess promises.                  *)
(***************************************************************************)
EXTENDS DaemonProcess

(* Every variable holds a value the code can hold in it, and a command     *)
(* that asks something of a daemon knows its instance.                     *)
TypeOK ==
  /\ pc \in [Processes -> Locations]
  /\ port \in Processes \cup {Nobody} /\ socket \in Processes \cup {Nobody}
  /\ busy \subseteq Processes /\ signalled \subseteq Processes
  /\ reported \subseteq Processes
  /\ cli \in [Commands -> CliLocations]
  /\ target \in [Commands -> Processes \cup {Nobody}]
  /\ child \in [Commands -> {"none", "launched", "ready", "collided", "failed"}]
  /\ crashes \in 0..MaxCrashes
  /\ \A c \in Commands:
       cli[c] \in {"connect", "send", "accepted", "working", "stop", "stopping", "poll"}
         => target[c] # Nobody

(* Two processes never read and write the state directory at a time, with  *)
(* any number of commands launching daemons and any of them killed.        *)
Owners == {d \in Processes: pc[d] \in {"starting", "ready", "draining"}}
OneOwner == \A d, e \in Owners: d = e

(* A daemon that serves is reached by its socket: nobody removes or takes  *)
(* over its file, though every close removes the file by its name.         *)
OwnerIsReachable == \A d \in Owners: port = d /\ socket = d

(* Once the daemon has written its state no request changes it, one that   *)
(* had passed the first check of the phase included.                       *)
NoLateMutation ==
  \A d \in Processes: pc[d] \in {"flushed", "released", "gone"} => Working(d) = {}

(* A stop asked for by a command interrupts no turn and no request: from   *)
(* the answer on there is none in the daemon that stops.                   *)
StopsIdle ==
  \A c \in Commands: cli[c] = "stopping" /\ pc[target[c]] = "draining"
                       /\ target[c] \notin signalled
                     => Working(target[c]) = {} /\ target[c] \notin busy

(* A command that says the daemon stopped is right: its process has let go *)
(* of the port and of the socket.                                          *)
StoppedMeansGone ==
  \A c \in Commands: cli[c] = "stopped" /\ target[c] # Nobody =>
    /\ pc[target[c]] = "gone"
    /\ port # target[c]

(* A daemon that got a signal ends, one that is still starting and one     *)
(* with a turn under way included.                                         *)
SignalEnds == \A d \in Processes: d \in signalled ~> pc[d] = "gone"

(* Every command ends: nobody waits for ever for a daemon that is not to   *)
(* be, nor for one that does not stop.                                     *)
CommandEnds ==
  \A c \in Commands:
    cli[c] # "idle" ~> cli[c] \in {"done", "stopped", "failed", "expired"}

(* The state directory has one owner, and whoever looks for it finds it    *)
(* (lifecycle/control.ts:156-176); and the variables are typed.            *)
OwnedByOne == TypeOK /\ OneOwner /\ OwnerIsReachable

(* A stop cuts nothing short, lets nothing change what was written, and is *)
(* reported when it is over (lifecycle/state.ts:49-58, connection.ts:137). *)
StopsCleanly == NoLateMutation /\ StopsIdle /\ StoppedMeansGone

(* Who was told to stop stops, and who waits for that or for a start gets  *)
(* an answer.                                                              *)
ControlEnds == SignalEnds /\ CommandEnds

(***************************************************************************)
(* Strengthenings: what holds together with the above in every state, and  *)
(* with which it is inductive.                                             *)
(***************************************************************************)
Holding == {"inspect", "probe", "unlink", "listen", "aborting",
            "starting", "ready", "draining", "flushed"}

(* Whoever is past the port has it, until it gives it back.                *)
PortInv ==
  /\ \A d \in Processes: pc[d] \in Holding => port = d
  /\ port # Nobody => pc[port] \in Holding

(* Whoever answers does so by the file, and a file is only removed when    *)
(* nobody does: the port keeps others from listening meanwhile.            *)
SocketInv ==
  /\ \A d \in Processes: pc[d] \in Answering => socket = d
  /\ \A d \in Processes: pc[d] = "unlink" => Answerer = Nobody

(* A command launches its process once; it talks to a daemon that answered *)
(* once, and has only a running one work for it.                           *)
CommandInv ==
  \A c \in Commands:
    /\ cli[c] \in {"idle", "ask", "launch"} => pc[c] = "none"
    /\ target[c] # Nobody => pc[target[c]] \in Answering \cup {"gone"}
    /\ cli[c] = "working" => pc[target[c]] \in {"ready", "draining"}
    /\ cli[c] = "stopping" => pc[target[c]] \in {"draining", "flushed", "released"}

OwnershipInv ==
  /\ TypeOK /\ PortInv /\ SocketInv /\ CommandInv
  /\ StopsIdle /\ StoppedMeansGone
=============================================================================
