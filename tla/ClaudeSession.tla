----------------------------- MODULE ClaudeSession -----------------------------
(***************************************************************************)
(* A Claude session (agents/claude/backend.ts): one query of the Agent SDK *)
(* whose input stays open for the next turn.  Nothing the process writes   *)
(* names the turn it is about, and neither does an interruption.           *)
(***************************************************************************)
EXTENDS AgentSession

VARIABLES
  flagged,   (* the turns whose interrupted flag is set                    *)
  asking,    (* the turns whose interrupt() awaits the SDK                 *)
  failed     (* #failure: the transport failed                             *)

claudeVars == <<flagged, asking, failed>>

ClaudeInit == flagged = {} /\ asking = {} /\ failed = FALSE

Input(kind, k) == [kind |-> kind, about |-> k]

(***************************************************************************)
(* send, interrupt                                                         *)
(***************************************************************************)
(* A session that failed throws, which the chat takes for a failed turn.   *)
ClaudeSend ==
  /\ backend = "claude"
  /\ IF closing = "no" /\ ~failed
     THEN Begin /\ active' = sent + 1 /\ stdin' = Append(stdin, Input("user", sent + 1))
     ELSE /\ chat = "ready" /\ chat' = "disposing"
          /\ UNCHANGED <<turn, stopping, answered, sent, active, stdin>>
  /\ UNCHANGED <<backend, queue, ended, closing, proc, stdout, running, said, claudeVars>>

ClaudeStop ==
  /\ backend = "claude" /\ chat = "busy" /\ ~stopping
  /\ stopping' = TRUE
  /\ IF active = 0 THEN UNCHANGED <<flagged, asking, stdin>>
     ELSE /\ flagged' = flagged \cup {active} /\ asking' = asking \cup {active}
          /\ stdin' = IF proc = "up" THEN Append(stdin, Input("interrupt", active)) ELSE stdin
  /\ UNCHANGED <<backend, chat, turn, answered, sent, streamVars, closing, proc, stdout,
                 running, said, failed>>

(* The SDK rejects, or does not answer in time.                            *)
AskingFails(k) ==
  /\ backend = "claude" /\ k \in asking
  /\ asking' = asking \ {k}
  /\ Dispose
  /\ UNCHANGED <<backend, turn, stopping, answered, sent, streamVars, closing, procVars,
                 flagged, failed>>

(***************************************************************************)
(* #pump and #consume                                                      *)
(***************************************************************************)
Take(kind) ==
  /\ backend = "claude" /\ closing = "no" /\ ~failed
  /\ stdout # <<>> /\ Head(stdout).kind = kind
  /\ stdout' = Tail(stdout)
  /\ UNCHANGED <<backend, chatVars, closing, proc, stdin, running, said, flagged, failed>>

AskingAnswered == Take("answer") /\ asking' = asking \ {Head(stdout).of} /\ UNCHANGED streamVars

Text ==
  /\ Take("delta")
  /\ IF active = 0 THEN UNCHANGED queue ELSE Push(<<Head(stdout)>>)
  /\ UNCHANGED <<active, ended, asking>>

(* The result ends the turn; that of an interrupted turn is no completion. *)
Result ==
  /\ Take("completed")
  /\ Finish(<<IF active \in flagged THEN Event("error", Head(stdout).of) ELSE Head(stdout)>>)
  /\ UNCHANGED asking

Aborted ==
  /\ Take("aborted")
  /\ Finish(<<Head(stdout)>>)
  /\ UNCHANGED asking

PumpFailed ==
  /\ backend = "claude" /\ closing = "no" /\ ~failed
  /\ failed' = TRUE
  /\ Finish(<<Event("error", active)>>)
  /\ UNCHANGED <<flagged, asking>>

(* Slip: a session whose transport failed waits for its chat to close it.  *)
PumpFailsIdle ==
  /\ PumpFailed /\ UNCHANGED <<backend, chatVars, closing, procVars>>

(* The stream fails, ends, or breaks the restrictions of the review: the   *)
(* session closes itself.                                                  *)
PumpFails ==
  /\ PumpFailed /\ closing' = "exiting"
  /\ UNCHANGED <<backend, chatVars, procVars>>

(* The output of a process that exited ends.                               *)
PumpEnds == proc = "down" /\ stdout = <<>> /\ PumpFails

ProcessExits ==
  /\ backend = "claude" /\ proc # "down"
  /\ Gone
  /\ UNCHANGED <<backend, chatVars, streamVars, closing, stdout, claudeVars>>

(***************************************************************************)
(* close                                                                   *)
(***************************************************************************)
(* The input ends, the stream ends, the process gets SIGTERM.              *)
ClaudeClose ==
  /\ backend = "claude" /\ chat = "disposing" /\ closing = "no"
  /\ closing' = "exiting"
  /\ Finish(<<Event("error", active)>>)
  /\ UNCHANGED <<backend, chatVars, procVars, claudeVars>>

ClaudeExited ==
  /\ backend = "claude" /\ closing \in {"exiting", "killing"} /\ proc = "down"
  /\ closing' = "done"
  /\ UNCHANGED <<backend, chatVars, streamVars, procVars, claudeVars>>

ClaudeKill ==
  /\ backend = "claude" /\ closing = "exiting" /\ proc # "down"
  /\ closing' = "killing" /\ proc' = "dying"
  /\ UNCHANGED <<backend, chatVars, streamVars, stdin, stdout, running, said, claudeVars>>

(* Two more seconds: the exit could not be confirmed, the chat keeps the   *)
(* agent and is blocked.                                                   *)
Unconfirmed ==
  /\ backend = "claude" /\ closing = "killing" /\ proc # "down"
  /\ closing' = "unconfirmed"
  /\ UNCHANGED <<backend, chatVars, streamVars, procVars, claudeVars>>

(* initialize() fails: the session is closed before start() throws.        *)
ClaudeStartFails ==
  /\ backend = "claude" /\ chat = "starting"
  /\ chat' = "disposing"
  /\ UNCHANGED <<backend, turn, stopping, answered, sent, streamVars, closing, procVars,
                 claudeVars>>

(***************************************************************************)
(* claude                                                                  *)
(***************************************************************************)
ClaudeReads ==
  /\ proc = "up" /\ stdin # <<>>
  /\ stdin' = Tail(stdin)
  /\ \/ /\ Head(stdin).kind = "user" /\ running = 0
        /\ running' = Head(stdin).about /\ said' = FALSE
        /\ UNCHANGED stdout
     \/ /\ Head(stdin).kind = "interrupt" /\ running # 0
        /\ running' = 0 /\ said' = FALSE
        /\ stdout' = stdout \o <<Event("answer", Head(stdin).about), Event("aborted", running)>>
     \/ /\ Head(stdin).kind = "interrupt" /\ running = 0
        /\ stdout' = Append(stdout, Event("answer", Head(stdin).about))
        /\ UNCHANGED <<running, said>>
  /\ UNCHANGED <<backend, chatVars, streamVars, closing, proc, claudeVars>>

(* What the process does while nobody reads it is left out.                *)
Claude ==
  /\ backend = "claude" /\ closing = "no" /\ ~failed
  /\ \/ ClaudeReads
     \/ Completes /\ UNCHANGED claudeVars
     \/ Says("delta") /\ UNCHANGED claudeVars

(***************************************************************************)
ClaudeSteps ==
  \/ Conversation /\ UNCHANGED claudeVars
  \/ AskingAnswered \/ Text \/ Result \/ Aborted
  \/ PumpEnds \/ ClaudeClose \/ ClaudeExited \/ ClaudeKill

ClaudeNext ==
  /\ backend = "claude"
  /\ \/ ClaudeSteps \/ (\E k \in Turns: AskingFails(k))
     \/ ClaudeSend \/ ClaudeStop \/ (Retire /\ UNCHANGED claudeVars)
     \/ ClaudeStartFails \/ PumpFails \/ Unconfirmed \/ ProcessExits \/ Claude
=============================================================================
