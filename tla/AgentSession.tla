------------------------------ MODULE AgentSession ------------------------------
(***************************************************************************)
(* What the two agent backends (agents/codex, agents/claude) share: the    *)
(* chat that drives a session (chats/service.ts), the stream of events of  *)
(* each turn (agents/async-queue.ts), and the agent process behind its     *)
(* pipes.                                                                  *)
(*                                                                         *)
(* The process is external.  It reads its input in order, runs one turn at *)
(* a time, and may be slow, hang, exit or write nonsense.                  *)
(***************************************************************************)
EXTENDS Naturals, Sequences

CONSTANT MaxTurns   (* bound: turns sent to the session                    *)
ASSUME MaxTurnsAssumption == MaxTurns \in Nat \ {0}

Turns == 1..MaxTurns

VARIABLES
  backend,    (* "codex" or "claude"                                       *)
  chat,       (* the chat: starting, ready, busy, disposing or closed      *)
  turn,       (* its current turn, 0 when there is none                    *)
  stopping,   (* the human interrupted the current turn                    *)
  answered,   (* the current turn's stream said turn_completed             *)
  sent,       (* turns sent so far                                         *)
  active,     (* #active of the session: the turn events go to             *)
  queue,      (* the events of each turn that were not consumed            *)
  ended,      (* the turns whose stream has been ended                     *)
  closing,    (* how far close() is                                        *)
  proc,       (* the process: up, dying (after SIGKILL) or down            *)
  stdin,      (* what it has not read                                      *)
  stdout,     (* what of it was not read                                   *)
  running,    (* the turn it works on, 0 when idle                         *)
  said        (* it wrote something about that turn                        *)

chatVars == <<chat, turn, stopping, answered, sent>>
streamVars == <<active, queue, ended>>
procVars == <<proc, stdin, stdout, running, said>>
agentVars == <<backend, chatVars, streamVars, closing, procVars>>

Event(kind, of) == [kind |-> kind, of |-> of]

AgentInit ==
  /\ chat = "starting" /\ turn = 0 /\ stopping = FALSE /\ answered = FALSE /\ sent = 0
  /\ active = 0 /\ queue = [k \in Turns |-> <<>>] /\ ended = {}
  /\ closing = "no"
  /\ proc = "up" /\ stdin = <<>> /\ stdout = <<>> /\ running = 0 /\ said = FALSE

(***************************************************************************)
(* The stream of a turn.                                                   *)
(***************************************************************************)
(* The active turn gets the events; its stream ends with the last one.     *)
Push(events) == queue' = [queue EXCEPT ![active] = @ \o events]

Finish(events) ==
  IF active = 0 THEN UNCHANGED streamVars
  ELSE Push(events) /\ ended' = ended \cup {active} /\ active' = 0

(***************************************************************************)
(* The chat.                                                               *)
(***************************************************************************)
Started ==
  /\ chat = "starting" /\ chat' = "ready"
  /\ UNCHANGED <<backend, turn, stopping, answered, sent, streamVars, closing, procVars>>

(* The next turn is given to the session.                                  *)
Begin ==
  /\ chat = "ready" /\ sent < MaxTurns
  /\ chat' = "busy" /\ sent' = sent + 1 /\ turn' = sent + 1
  /\ stopping' = FALSE /\ answered' = FALSE

(* The chat reads the next event.                                          *)
Consume ==
  /\ turn # 0 /\ queue[turn] # <<>>
  /\ queue' = [queue EXCEPT ![turn] = Tail(@)]
  /\ answered' = (answered \/ Head(queue[turn]).kind = "completed")
  /\ UNCHANGED <<backend, chat, turn, stopping, sent, active, ended, closing, procVars>>

(* The stream is at its end: the agent is kept when the turn was completed *)
(* or stopped by the human, and disposed of otherwise.                     *)
StreamEnds ==
  /\ turn # 0 /\ queue[turn] = <<>> /\ turn \in ended
  /\ turn' = 0
  /\ chat' = IF chat = "busy"
             THEN IF answered \/ stopping THEN "ready" ELSE "disposing"
             ELSE chat
  /\ UNCHANGED <<backend, stopping, answered, sent, streamVars, closing, procVars>>

(* The agent is closed for a refresh, a submission or a shutdown.          *)
Retire ==
  /\ chat \in {"ready", "busy"} /\ chat' = "disposing"
  /\ UNCHANGED <<backend, turn, stopping, answered, sent, streamVars, closing, procVars>>

(* An interruption that fails makes a chat that has a turn dispose of the  *)
(* agent.                                                                  *)
Dispose == chat' = IF chat = "busy" THEN "disposing" ELSE chat

Disposed ==
  /\ chat = "disposing" /\ closing = "done"
  /\ chat' = "closed" /\ turn' = 0
  /\ UNCHANGED <<backend, stopping, answered, sent, streamVars, closing, procVars>>

Conversation == Started \/ Consume \/ StreamEnds \/ Disposed

(***************************************************************************)
(* The process.                                                            *)
(***************************************************************************)
(* It writes one thing about its turn: text, or an attempt to edit a file. *)
Says(kind) ==
  /\ proc = "up" /\ running # 0 /\ ~said
  /\ said' = TRUE
  /\ stdout' = Append(stdout, Event(kind, running))
  /\ UNCHANGED <<backend, chatVars, streamVars, closing, proc, stdin, running>>

Completes ==
  /\ proc = "up" /\ running # 0
  /\ running' = 0 /\ said' = FALSE
  /\ stdout' = Append(stdout, Event("completed", running))
  /\ UNCHANGED <<backend, chatVars, streamVars, closing, proc, stdin>>

(* The process is gone, with what it did not read.                         *)
Gone == proc' = "down" /\ stdin' = <<>> /\ running' = 0 /\ said' = FALSE
=============================================================================
