-------------------------- MODULE ChatTurnsProperties --------------------------
(***************************************************************************)
(* What the chat of a review should guarantee.                             *)
(***************************************************************************)
EXTENDS ChatTurns

(* Every variable keeps its type.                                          *)
TypeOK ==
  /\ mode \in Modes
  /\ daemon \in {"up", "closing", "stopped"}
  /\ restarts \in 0..MaxRestarts
  /\ begun \in 0..MaxTurns
  /\ chat \in Chat
  /\ request \in [Turns -> Ids]
  /\ \A t \in 1..begun : request[t] \in 1..t
  /\ run \in [Turns -> Runs]
  /\ stream \in [Turns -> {"none", "open"} \cup Ended]
  /\ call \in [Turns -> {"none", "pending", "fail", "done"}]
  /\ agents \in [Turns -> {"none", "starting", "ready", "closing", "closed"}]
  /\ working \in [Turns -> Ids]
  /\ leases \subseteq Turns
  /\ disposal \in [pc: {"none", "wait", "agent", "release", "revoke", "handler"}, agent: Ids]
  /\ op \in {"none", "seal", "refresh", "commit"}
  /\ outcomes \in [Turns -> SUBSET {"completed", "stopped", "failed"}]

(* No agent process is left without an owner: one that runs is the chat's, *)
(* or the chat is starting it (#startAgent, #disposeAgent).                *)
NoUnattendedAgent ==
  \A a \in Turns :
    /\ agents[a] = "ready" => chat.agent = a
    /\ agents[a] = "starting" => run[a] = "spawn" /\ chat.starting

(* An agent works for the turn the chat calls current, or is being closed: *)
(* its events and its edits belong to what the user sees as running.       *)
WorksForCurrentTurn ==
  \A a \in Turns : working[a] # None => working[a] = chat.active \/ agents[a] = "closing"

(* The MCP server accepts no lease but the one the chat will revoke.       *)
LeasesHeld == leases \subseteq {chat.lease}

(* A sealed chat is quiet: no turn, agent or lease survives the seal       *)
(* until a refresh makes the chat anew.                                    *)
SealedIsQuiet ==
  chat.status = "unavailable" =>
    /\ chat.active = None /\ chat.agent = None /\ leases = {}
    /\ \A t \in Turns : run[t] \in {"none", "done"}

(* A daemon that stopped without an error left no agent behind.            *)
StoppedIsQuiet ==
  daemon = "stopped" /\ ~chat.stuck =>
    \A a \in Turns : agents[a] \in {"none", "closed"} /\ working[a] = None

(* A refresh begins with no agent of the old worktree, and forgets none.   *)
RevisionsShareNoAgent ==
  op = "commit" => chat.agent = None /\ \A a \in Turns : agents[a] \in {"none", "closed"}

(* What the user is shown agrees with what runs: a chat looks busy exactly *)
(* while it has a current turn.                                            *)
LooksBusyWhileBusy ==
  mode # "removed" => (chat.status \in Active <=> chat.active # None)

(* A chat that shows a failed turn has its request to retry.               *)
FailedCanRetry == chat.status = "failed" => chat.retry # None

(* The chat keeps its contract: one turn at a time, each with one end, and *)
(* what failed or was cut can be retried as soon as its turn is over.      *)
Contract == INSTANCE ChatContract WITH
  turns <- begun,
  current <- chat.active,
  asked <- request,
  ends <- [t \in Turns |-> IF t = chat.active THEN {} ELSE outcomes[t]],
  retryable <- IF chat.active = None THEN chat.retry ELSE None

KeepsContract == Contract!Spec

(* An interrupted turn ends, unless the daemon stops first.                *)
InterruptTakesEffect ==
  \A t \in Turns : chat.active = t /\ chat.interrupted ~> chat.active # t \/ daemon # "up"

(* A daemon that began to close stops: no start, stream or interruption    *)
(* keeps it waiting.                                                       *)
ShutdownCompletes == daemon = "closing" ~> daemon = "stopped"

(* Every agent and every lease has the chat that will dispose of it, and   *)
(* every variable holds what the code can hold in it                       *)
(* (chats/service.ts:316, 751).                                            *)
AgentsAttended == TypeOK /\ NoUnattendedAgent /\ LeasesHeld

(* When a chat is over (sealed, closed with the daemon, or left behind by  *)
(* a refresh) nothing of it works on (chats/service.ts:220, 257).          *)
QuietWhenOver == SealedIsQuiet /\ StoppedIsQuiet /\ RevisionsShareNoAgent

(* The status the user sees is what the user can act on: a busy chat can   *)
(* be stopped, a failed one retried (chats/service.ts:589).                *)
ShownIsTrue == LooksBusyWhileBusy /\ FailedCanRetry

(* Nothing keeps an interrupted turn or a closing daemon waiting.          *)
ChatGoesOn == InterruptTakesEffect /\ ShutdownCompletes

(***************************************************************************)
(* Strengthenings: what must be true with the properties above for a step  *)
(* to keep them.  The first group holds whatever interruptions do, the     *)
(* second as long as none is rejected.                                     *)
(***************************************************************************)
(* The chat names only turns that have begun.                              *)
KnownTurns == chat.active <= begun /\ chat.retry <= begun

(* An operation from outside finds the chat without a turn, and the review *)
(* stays in the mode that keeps others out until it is over.               *)
OperationInv ==
  /\ op # "none" => daemon = "up" /\ chat.active = None
  /\ op = "seal" => mode = "submitted"
  /\ op \in {"refresh", "commit"} <=> mode \in {"refreshing", "continuing"}
  /\ mode = "removed" => chat.active = None
  /\ op = "commit" \/ daemon = "stopped" => disposal.pc = "none"

(* The chat looks busy while it has a turn, deleted or not.                *)
LooksBusy == chat.status \in Active <=> chat.active # None

ChatInv == TypeOK /\ KnownTurns /\ OperationInv /\ LooksBusy

(* Only the coroutine of the current turn is suspended, and while the      *)
(* daemon is up a current turn has one.                                    *)
Suspended(t) == run[t] \notin {"none", "done"}

TurnInv ==
  /\ \A t \in Turns : call[t] # "fail"
  /\ \A t \in Turns : Suspended(t) => chat.active = t
  /\ daemon = "up" /\ chat.active # None => Suspended(chat.active)

(* An agent is started for a chat that has none and whose leases are gone, *)
(* and nobody disposes of anything before it is there.                     *)
StartInv ==
  /\ chat.starting <=> \E t \in Turns : run[t] \in {"acquire", "spawn"}
  /\ \A t \in Turns : run[t] \in {"acquire", "spawn"} => chat.agent = None
  /\ \A t \in Turns : run[t] = "acquire" => leases = {}
  /\ chat.starting =>
       /\ ~chat.stuck
       /\ disposal.pc = IF daemon = "up" THEN "none" ELSE "wait"

(* The chat holds the one agent there is, and one that is closing is the   *)
(* agent of the disposal or could not be closed.                           *)
AgentInv ==
  /\ NoUnattendedAgent
  /\ \A a \in Turns : agents[a] = "closing" =>
       chat.agent = a /\ (disposal.pc = "agent" \/ chat.stuck)

(* An agent that works does so for the current turn, on a stream that is   *)
(* open; a turn that is built or streamed has an agent nobody disposes of. *)
WorkInv ==
  /\ \A a \in Turns : working[a] # None =>
       /\ chat.agent = a /\ agents[a] \in {"ready", "closing"}
       /\ working[a] = chat.active
       /\ stream[working[a]] = "open" /\ run[working[a]] \in {"stream", "done"}
  /\ \A t \in Turns : daemon = "up" /\ run[t] \in {"build", "stream"} =>
       chat.agent # None /\ disposal.pc = "none" /\ ~chat.stuck

(* A disposal has a reason, and has taken away the agent and the leases    *)
(* by the time each is said to be gone.                                    *)
DisposalInv ==
  /\ disposal.pc # "none" =>
       \/ op \in {"seal", "refresh"} \/ mode = "removed" \/ daemon # "up"
       \/ \E t \in Turns : run[t] = "fail"
  /\ op \in {"seal", "refresh"} => disposal.pc # "none"
  /\ \A t \in Turns : run[t] = "fail" => disposal.pc # "none"
  /\ disposal.pc = "agent" => disposal.agent = chat.agent
  /\ disposal.pc \in {"release", "revoke", "handler"} => chat.agent = None \/ chat.stuck
  /\ disposal.pc = "handler" => leases = {}
  /\ op = "commit" => chat.agent = None /\ leases = {}
  /\ daemon # "up" /\ disposal.pc = "none" => chat.agent = None \/ chat.stuck
  /\ daemon = "up" /\ disposal.pc = "none" /\ chat.agent = None /\ ~chat.starting => leases = {}

(* A turn that goes on has ended in no way and keeps nothing to retry; one *)
(* whose failure waits for the disposal has failed and keeps its request.  *)
LedgerInv ==
  /\ chat.active # None =>
       /\ outcomes[chat.active] = IF run[chat.active] = "fail" THEN {"failed"} ELSE {}
       /\ chat.retry = IF run[chat.active] = "fail" THEN request[chat.active] ELSE None
  /\ \A t \in Turns : t > begun => outcomes[t] = {}

AttendedInv ==
  /\ TurnInv /\ StartInv /\ LeasesHeld /\ AgentInv /\ WorkInv
  /\ DisposalInv /\ LedgerInv
  /\ SealedIsQuiet /\ FailedCanRetry
=============================================================================
