----------------------------- MODULE DaemonProcess -----------------------------
(***************************************************************************)
(* Who owns the state directory: daemon processes that claim the port and  *)
(* the control socket, start, serve and stop (server.ts, main.ts,          *)
(* lifecycle/control.ts, lifecycle/state.ts), and commands that start,     *)
(* attach to and stop them (cli/connection.ts, cli/run.ts).                *)
(*                                                                         *)
(* A process is its number; command c launches at most one process, also   *)
(* numbered c.  Process 0 is started by hand.  A process is its instance:  *)
(* instance ids are never reused.                                          *)
(***************************************************************************)
EXTENDS Naturals, FiniteSets

CONSTANTS
  Commands,     (* invocations of the command line                         *)
  Nobody,       (* no process                                              *)
  Signals,      (* bound: processes that may get a signal                  *)
  MaxCrashes    (* bound: killed processes                                 *)

ASSUME CommandsAssumption ==
  /\ Commands \subseteq Nat \ {0} /\ Nobody \notin Nat /\ Signals \subseteq Nat
  /\ MaxCrashes \in Nat

Processes == Commands \cup {0}

VARIABLES
  pc,        (* where each process is                                      *)
  port,      (* the process that listens on the HTTP port                  *)
  socket,    (* the process that created the file of the control socket    *)
  busy,      (* processes with an active turn                              *)
  signalled, (* processes that got SIGINT or SIGTERM                       *)
  reported,  (* processes whose shutdown met an error                      *)
  cli,       (* where each command is                                      *)
  target,    (* the instance a command talks to                            *)
  child,     (* what a command heard of the process it launched            *)
  crashes    (* killed processes so far                                    *)

vars == <<pc, port, socket, busy, signalled, reported, cli, target, child, crashes>>
machine == <<pc, port, socket, busy, signalled, reported, crashes>>
commands == <<cli, target, child>>

(* "draining" waits for requests and closes chats and files; "flushed" has *)
(* written everything; "released" no longer listens on the port.           *)
Locations == {"none", "boot", "inspect", "probe", "unlink", "listen", "starting", "ready",
              "draining", "flushed", "released", "aborting", "gone"}
CliLocations == {"idle", "ask", "launch", "wait", "connect", "send", "accepted", "working",
                 "find", "stop", "stopping", "poll", "stopped", "done", "failed", "expired"}

Init ==
  /\ pc = [d \in Processes |-> "none"]
  /\ port = Nobody
  /\ socket = Nobody
  /\ busy = {} /\ signalled = {} /\ reported = {}
  /\ cli = [c \in Commands |-> "idle"]
  /\ target = [c \in Commands |-> Nobody]
  /\ child = [c \in Commands |-> "none"]
  /\ crashes = 0

Move(d, to) == pc' = [pc EXCEPT ![d] = to]

(***************************************************************************)
(* The control socket.                                                     *)
(***************************************************************************)
Answering == {"starting", "ready", "draining", "flushed", "released"}

(* A request to the socket reaches the process that listens on it; it gets *)
(* no answer when there is no file, or nobody listens on it any more.      *)
Answerer == IF socket # Nobody /\ pc[socket] \in Answering THEN socket ELSE Nobody
PhaseOf(d) == IF pc[d] \in {"starting", "ready"} THEN pc[d] ELSE "stopping"

(* A command hears of the end of its child over IPC.  Losing the port is a *)
(* collision: another process may be the daemon it waits for.              *)
Heard(d, what) == [c \in Commands |-> IF c = d /\ child[c] = "launched" THEN what ELSE child[c]]

(***************************************************************************)
(* Starting: the port first, then the socket, then the state.              *)
(***************************************************************************)
StartByHand ==
  /\ pc[0] = "none"
  /\ Move(0, "boot")
  /\ UNCHANGED <<port, socket, busy, signalled, reported, commands, crashes>>

(* Slip: the socket is claimed by a process that did not get the port.     *)
BindUnowned(d) ==
  /\ pc[d] = "boot"
  /\ port' = IF port = Nobody THEN d ELSE port
  /\ Move(d, "inspect") /\ UNCHANGED child
  /\ UNCHANGED <<socket, busy, signalled, reported, cli, target, crashes>>

Bind(d) ==
  /\ pc[d] = "boot"
  /\ IF port = Nobody
     THEN port' = d /\ Move(d, "inspect") /\ UNCHANGED <<child, signalled>>
     ELSE /\ UNCHANGED port /\ Move(d, "gone")
          /\ child' = Heard(d, "collided")
          /\ signalled' = signalled \ {d}
  /\ UNCHANGED <<socket, busy, reported, cli, target, crashes>>

(* DaemonControl.listen.  A file that is found is asked for its status; an *)
(* answer means another daemon owns the directory.                         *)
Inspect(d) ==
  /\ pc[d] = "inspect"
  /\ Move(d, IF socket = Nobody THEN "listen" ELSE "probe")
  /\ UNCHANGED <<port, socket, busy, signalled, reported, commands, crashes>>

Probe(d) ==
  /\ pc[d] = "probe"
  /\ Move(d, IF Answerer = Nobody THEN "unlink" ELSE "aborting")
  /\ UNCHANGED <<port, socket, busy, signalled, reported, commands, crashes>>

(* The file may be gone by now, which fails the start.                     *)
Unlink(d) ==
  /\ pc[d] = "unlink"
  /\ socket' = Nobody
  /\ Move(d, IF socket = Nobody THEN "aborting" ELSE "listen")
  /\ UNCHANGED <<port, busy, signalled, reported, commands, crashes>>

Listen(d) ==
  /\ pc[d] = "listen"
  /\ IF socket = Nobody THEN socket' = d /\ Move(d, "starting")
                        ELSE UNCHANGED socket /\ Move(d, "aborting")
  /\ UNCHANGED <<port, busy, signalled, reported, commands, crashes>>

(* A start that fails gives the port back before the state was touched.    *)
Abort(d) ==
  /\ pc[d] = "aborting"
  /\ Move(d, "gone")
  /\ port' = IF port = d THEN Nobody ELSE port
  /\ child' = Heard(d, "failed")
  /\ signalled' = signalled \ {d}
  /\ UNCHANGED <<socket, busy, reported, cli, target, crashes>>

(* initialize                                                              *)
Initialized(d) ==
  /\ pc[d] = "starting"
  /\ Move(d, "ready")
  /\ child' = Heard(d, IF d \in signalled THEN "failed" ELSE "ready")
  /\ UNCHANGED <<port, socket, busy, signalled, reported, cli, target, crashes>>

InitializeFails(d) ==
  /\ pc[d] = "starting"
  /\ Move(d, "draining")
  /\ child' = Heard(d, "failed")
  /\ UNCHANGED <<port, socket, busy, signalled, reported, cli, target, crashes>>

(***************************************************************************)
(* Serving and stopping.                                                   *)
(***************************************************************************)
Turn(d) ==
  /\ \/ pc[d] = "ready" /\ busy' = busy \cup {d}
     \/ d \in busy /\ busy' = busy \ {d}
  /\ UNCHANGED <<pc, port, socket, signalled, reported, commands, crashes>>

(* A signal during the start waits for it; one to a ready daemon closes    *)
(* it, whatever it is doing.                                               *)
Signal(d) ==
  /\ d \in Signals
  /\ pc[d] \in {"boot", "inspect", "probe", "unlink", "listen", "starting", "ready"}
  /\ signalled' = signalled \cup {d}
  /\ UNCHANGED <<pc, port, socket, busy, reported, commands, crashes>>

Signalled(d) ==
  /\ pc[d] = "ready" /\ d \in signalled
  /\ Move(d, "draining")
  /\ UNCHANGED <<port, socket, busy, signalled, reported, commands, crashes>>

Working(d) == {c \in Commands: cli[c] = "working" /\ target[c] = d}

(* DaemonLifecycle.requestStop                                             *)
MayStop(d) == pc[d] = "ready" /\ Working(d) = {} /\ d \notin busy

(* Slip: the drain does not wait.                                          *)
DrainNot(d) ==
  /\ pc[d] = "draining"
  /\ Move(d, "flushed")
  /\ busy' = busy \ {d}
  /\ UNCHANGED <<port, socket, signalled, reported, commands, crashes>>

(* preClose: drain, then close chats and persistence, which may fail.  One *)
(* that fails is over here with all its writes; in the code the writes of  *)
(* other reviews may still run then (persistence.ts:103).                  *)
Drain(d) ==
  /\ pc[d] = "draining" /\ Working(d) = {}
  /\ Move(d, "flushed")
  /\ busy' = busy \ {d}
  /\ \/ UNCHANGED reported
     \/ reported' = reported \cup {d}
  /\ UNCHANGED <<port, socket, signalled, commands, crashes>>

Release(d) ==
  /\ pc[d] = "flushed"
  /\ Move(d, "released")
  /\ port' = Nobody
  /\ UNCHANGED <<socket, busy, signalled, reported, commands, crashes>>

(* DaemonControl.close and #finishStop: closing the server removes the     *)
(* file by its name; the command that asked for the stop is told how it    *)
(* went, the other connections are dropped.                                *)
CloseControl(d) ==
  /\ pc[d] = "released"
  /\ Move(d, "gone")
  /\ socket' = Nobody
  /\ cli' = [c \in Commands |->
       IF cli[c] = "stopping" /\ target[c] = d
       THEN IF d \in reported THEN "failed" ELSE "poll"
       ELSE cli[c]]
  /\ signalled' = signalled \ {d} /\ reported' = reported \ {d}
  /\ UNCHANGED <<port, busy, target, child, crashes>>

(* A killed process leaves its socket file behind.                         *)
Crash(d) ==
  /\ pc[d] \notin {"none", "gone"} /\ crashes < MaxCrashes
  /\ crashes' = crashes + 1
  /\ Move(d, "gone")
  /\ port' = IF port = d THEN Nobody ELSE port
  /\ busy' = busy \ {d}
  /\ child' = Heard(d, "failed")
  /\ cli' = [c \in Commands |->
       IF cli[c] \in {"stopping", "accepted", "working"} /\ target[c] = d THEN "failed"
       ELSE cli[c]]
  /\ signalled' = signalled \ {d} /\ reported' = reported \ {d}
  /\ UNCHANGED <<socket, target>>

(***************************************************************************)
(* Commands.                                                               *)
(***************************************************************************)
Goto(c, to) == cli' = [cli EXCEPT ![c] = to]

Invoke(c) ==
  /\ cli[c] = "idle"
  /\ \E to \in {"ask", "find"}: Goto(c, to)
  /\ UNCHANGED <<machine, target, child>>

Found(c, d) == target' = [target EXCEPT ![c] = d]

(* ensureDaemon: the first look                                            *)
Ask(c) ==
  /\ cli[c] = "ask"
  /\ IF Answerer = Nobody THEN Goto(c, "launch") /\ UNCHANGED target
     ELSE CASE PhaseOf(Answerer) = "ready"    -> Goto(c, "connect") /\ Found(c, Answerer)
            [] PhaseOf(Answerer) = "stopping" -> Goto(c, "failed") /\ UNCHANGED target
            [] OTHER                          -> Goto(c, "wait") /\ UNCHANGED target
  /\ UNCHANGED <<machine, child>>

Launch(c) ==
  /\ cli[c] = "launch"
  /\ Move(c, "boot")
  /\ child' = [child EXCEPT ![c] = "launched"]
  /\ Goto(c, "wait")
  /\ UNCHANGED <<port, socket, busy, signalled, reported, target, crashes>>

(* One round of its loop: the status first, then what the child reported.  *)
Wait(c) ==
  /\ cli[c] = "wait"
  /\ IF Answerer # Nobody /\ PhaseOf(Answerer) # "starting"
     THEN IF PhaseOf(Answerer) = "ready" THEN Goto(c, "connect") /\ Found(c, Answerer)
                                         ELSE Goto(c, "failed") /\ UNCHANGED target
     ELSE Goto(c, IF child[c] = "failed" THEN "failed" ELSE "wait") /\ UNCHANGED target
  /\ UNCHANGED <<machine, child>>

(* Slip: the wait for a daemon to be ready has no deadline.                *)
GiveUpWaiting(c) ==
  /\ cli[c] \in {"stopping", "poll"}
  /\ Goto(c, "expired")
  /\ UNCHANGED <<machine, target, child>>

(* Every wait has a deadline; the daemon goes on.                          *)
GiveUp(c) ==
  /\ cli[c] \in {"wait", "stopping", "poll"}
  /\ Goto(c, "expired")
  /\ UNCHANGED <<machine, target, child>>

(* connectDaemon: the token, from the instance that was found.             *)
Connect(c) ==
  /\ cli[c] = "connect"
  /\ Goto(c, IF Answerer = target[c] /\ pc[target[c]] = "ready" THEN "send" ELSE "failed")
  /\ UNCHANGED <<machine, target, child>>

(* DaemonClient.request, answered by whoever listens on the port: its      *)
(* onRequest hook, and the token, which is that of one instance.           *)
Send(c) ==
  /\ cli[c] = "send"
  /\ Goto(c, IF port = target[c] /\ pc[target[c]] = "ready" THEN "accepted" ELSE "failed")
  /\ UNCHANGED <<machine, target, child>>

(* DaemonLifecycle.#mutate looks at the phase again.                       *)
Mutate(c) ==
  /\ cli[c] = "accepted"
  /\ Goto(c, IF pc[target[c]] = "ready" THEN "working" ELSE "failed")
  /\ UNCHANGED <<machine, target, child>>

(* The client may be gone by then; the lease lasts until the work is done. *)
Served(c) ==
  /\ cli[c] = "working"
  /\ Goto(c, "done")
  /\ UNCHANGED <<machine, target, child>>

(* stopDaemon, on the instance whose status was read                       *)
Find(c) ==
  /\ cli[c] = "find"
  /\ IF Answerer = Nobody THEN Goto(c, "done") /\ UNCHANGED target
                          ELSE Goto(c, "stop") /\ Found(c, Answerer)
  /\ UNCHANGED <<machine, child>>

StopAccepted(c) ==
  /\ cli[c] = "stop" /\ Answerer = target[c] /\ MayStop(target[c])
  /\ Goto(c, "stopping")
  /\ Move(target[c], "draining")
  /\ UNCHANGED <<port, socket, busy, signalled, reported, target, child, crashes>>

(* No answer is taken for a daemon that stopped; a busy one, or another    *)
(* instance, refuses.                                                      *)
StopRefused(c) ==
  /\ cli[c] = "stop"
  /\ Answerer # target[c] \/ ~MayStop(target[c])
  /\ Goto(c, IF Answerer = Nobody THEN "stopped" ELSE "failed")
  /\ UNCHANGED <<machine, target, child>>

Poll(c) ==
  /\ cli[c] = "poll"
  /\ Goto(c, IF Answerer = target[c] THEN "poll" ELSE "stopped")
  /\ UNCHANGED <<machine, target, child>>

Starting(d) ==
  Bind(d) \/ Inspect(d) \/ Probe(d) \/ Unlink(d) \/ Listen(d) \/ Abort(d) \/ Initialized(d)
Stopping(d) == Signalled(d) \/ Drain(d) \/ Release(d) \/ CloseControl(d)
Command(c) ==
  \/ Ask(c) \/ Launch(c) \/ Wait(c) \/ Connect(c) \/ Send(c) \/ Mutate(c) \/ Served(c)
  \/ Find(c) \/ StopAccepted(c) \/ StopRefused(c) \/ Poll(c)

Next ==
  \/ StartByHand
  \/ \E d \in Processes:
       Starting(d) \/ InitializeFails(d) \/ Turn(d) \/ Signal(d) \/ Stopping(d) \/ Crash(d)
  \/ \E c \in Commands: Invoke(c) \/ Command(c) \/ GiveUp(c)

Spec == Init /\ [][Next]_vars

(* Processes and commands go on; deadlines pass.                           *)
FairSpec ==
  /\ Spec
  /\ \A d \in Processes: WF_vars(Starting(d)) /\ WF_vars(Stopping(d))
  /\ \A c \in Commands: WF_vars(Command(c)) /\ WF_vars(GiveUp(c))
=============================================================================
