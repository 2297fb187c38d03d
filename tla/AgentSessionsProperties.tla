------------------------- MODULE AgentSessionsProperties -------------------------
(* What a session of either backend promises the chat.                     *)
EXTENDS AgentSessions

Kinds == {"delta", "edit", "completed", "aborted", "error"}
Events == [kind: Kinds, of: 0..MaxTurns]

(* The types; one turn is active at a time, and only while its stream is   *)
(* open (codex/backend.ts:127, claude/backend.ts:166).                     *)
TypeOK ==
  /\ backend \in {"codex", "claude"} /\ daemon \in {"up", "crashed"}
  /\ chat \in {"starting", "ready", "busy", "disposing", "closed"}
  /\ turn \in 0..MaxTurns /\ sent \in 0..MaxTurns
  /\ active \in (0..sent) \ ended /\ ended \subseteq 1..sent
  /\ \A k \in Turns: queue[k] \in Seq(Events)
  /\ closing \in {"no", "interrupting", "exiting", "killing", "done", "unconfirmed", "unawaited"}
  /\ proc \in {"up", "dying", "down"} /\ running \in 0..sent
  /\ client \in {"open", "closed"} /\ flagged \cup asking \subseteq Turns

(* What a turn's stream says is about that turn: neither the end nor the   *)
(* text of an earlier turn is taken for the next one's on the same         *)
(* session, as long as no turn/start was given up (codex/backend.ts:218,   *)
(* claude/backend.ts:246).                                                 *)
OwnEvents ==
  ~late => \A k \in Turns: \A i \in 1..Len(queue[k]): queue[k][i].of = k

(* An agent whose chat has no turn works on none, and has none to start:   *)
(* what the human stopped is stopped, and a stop of the daemon that finds  *)
(* the chat idle (README.md:315) interrupts nothing, as long as no         *)
(* turn/start was given up.                                                *)
IdleMeansIdle ==
  (chat = "ready" /\ ~late /\ proc = "up" /\ client = "open" /\ ~failed) =>
    running = 0 /\ \A i \in 1..Len(stdin): stdin[i].kind \notin {"user", "start"}

(* When close() has resolved the process is gone, no request is pending    *)
(* and no stream is open: what the chat does next (restoring the projected *)
(* configuration, removing the worktree) meets no agent                    *)
(* (codex/backend.ts:180-191, claude/backend.ts:211-222).                  *)
ClosedMeansGone ==
  closing = "done" => proc = "down" /\ requests = {} /\ active = 0 /\ ended = 1..sent

Alive == daemon = "up" /\ closing # "unconfirmed"

(* Disposing of an agent ends, whatever the process does or does not do    *)
(* (codex/backend.ts:168-192, claude/backend.ts:201-223), unless an exit   *)
(* cannot be confirmed or the daemon crashes.                              *)
DisposeEnds == chat = "disposing" ~> (chat = "closed" \/ ~Alive)

(* A turn the human stopped ends, even when the agent does not listen      *)
(* (codex/backend.ts:151-166, claude/backend.ts:190-194).                  *)
StopTakesEffect == (chat = "busy" /\ stopping) ~> (chat # "busy" \/ ~Alive)

(* A Claude process whose transport failed is stopped even when no turn    *)
(* runs and nobody closes the session (claude/backend.ts:242-243).         *)
FailedIsStopped == failed ~> (proc = "down" \/ ~Alive)

(* The streams of the turns never mix; and the variables are typed.        *)
StreamsAreOwn == TypeOK /\ OwnEvents

(* Nothing works behind the back of a chat that has no turn, or no agent.  *)
QuietWhenIdle == IdleMeansIdle /\ ClosedMeansGone

(* Whoever wants an agent or a turn to end sees it end.                    *)
AgentsEnd == DisposeEnds /\ StopTakesEffect /\ FailedIsStopped
=============================================================================
