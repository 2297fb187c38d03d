------------------------------- MODULE ChatTurns -------------------------------
(***************************************************************************)
(* The chat of one review (chats/service.ts): its turns, each a coroutine  *)
(* (#runTurn) that suspends at its awaits; the agent process and the MCP   *)
(* lease a turn starts and later turns reuse; the disposal of both, shared *)
(* by everyone who asks for it; interruptions, whose promises settle on    *)
(* their own; and what submission, refresh, deletion and shutdown do to    *)
(* the chat from outside.                                                  *)
(*                                                                         *)
(* A turn is numbered by the order of #begin.  An agent and a lease carry  *)
(* the number of the turn that started them.                               *)
(***************************************************************************)
EXTENDS Naturals, FiniteSets

CONSTANTS
  MaxTurns,          (* bound: turns                                       *)
  MaxRestarts,       (* bound: restarts of the daemon                      *)
  InterruptsReject   (* the promise of an interruption may reject          *)

ASSUME ChatBoundsAssumption ==
  MaxTurns \in Nat /\ MaxRestarts \in Nat /\ InterruptsReject \in BOOLEAN

Turns == 1..MaxTurns
None == 0
Ids == Turns \cup {None}

VARIABLES
  mode,       (* what the review allows: "draft", "submitted", "removed",  *)
              (* or a refresh of a draft or of a submitted one             *)
  daemon,     (* "up", "closing" or "stopped"                              *)
  restarts,   (* restarts so far                                           *)
  begun,      (* turns begun so far                                        *)
  chat,       (* the ChatState                                             *)
  request,    (* the request of a turn: the turn it was first made in      *)
  run,        (* where the coroutine of a turn is suspended                *)
  stream,     (* the event stream of a turn                                *)
  call,       (* where the interruption of a turn is                       *)
  agents,     (* the life of the agent started by a turn                   *)
  working,    (* the turn each agent works on                              *)
  leases,     (* MCP leases the server accepts                             *)
  disposal,   (* #disposeAgent: where it is suspended, and its agent       *)
  op,         (* the outside operation that waits for the disposal         *)
  outcomes    (* how each turn ended, as its notices tell                  *)

vars == <<mode, daemon, restarts, begun, chat, request, run, stream, call,
          agents, working, leases, disposal, op, outcomes>>

Modes == {"draft", "submitted", "refreshing", "continuing", "removed"}
Active == {"starting", "running", "interrupting"}
Statuses == Active \cup {"idle", "failed", "unavailable"}
Runs == {"none", "acquire", "spawn", "build", "stream", "fail", "done"}
Ended == {"completed", "ended"}

Chat == [active: Ids, interrupted: BOOLEAN, retry: Ids, status: Statuses,
         agent: Ids, lease: Ids, starting: BOOLEAN, stuck: BOOLEAN]
Fresh == [active |-> None, interrupted |-> FALSE, retry |-> None, status |-> "idle",
          agent |-> None, lease |-> None, starting |-> FALSE, stuck |-> FALSE]
NoDisposal == [pc |-> "none", agent |-> None]

Init ==
  /\ mode = "draft" /\ daemon = "up" /\ restarts = 0 /\ begun = 0
  /\ chat = Fresh
  /\ request = [t \in Turns |-> None]
  /\ run = [t \in Turns |-> "none"]
  /\ stream = [t \in Turns |-> "none"]
  /\ call = [t \in Turns |-> "none"]
  /\ agents = [t \in Turns |-> "none"]
  /\ working = [t \in Turns |-> None]
  /\ leases = {}
  /\ disposal = NoDisposal
  /\ op = "none"
  /\ outcomes = [t \in Turns |-> {}]

(***************************************************************************)
(* Closing the agent: one disposal at a time, which later callers join.    *)
(***************************************************************************)
StartDisposal ==
  IF disposal.pc = "none" THEN [pc |-> "wait", agent |-> None] ELSE disposal

(* Slip: an agent that is being started is not waited for.                 *)
DisposeNow ==
  /\ disposal.pc = "wait"
  /\ disposal' = [pc |-> "agent", agent |-> chat.agent]
  /\ agents' = IF chat.agent = None THEN agents
               ELSE [agents EXCEPT ![chat.agent] = "closing"]
  /\ UNCHANGED <<mode, daemon, restarts, begun, chat, request, run, stream, call,
                 working, leases, op, outcomes>>

(* It first waits for an agent that is being started.                      *)
DisposeStarted ==
  /\ disposal.pc = "wait"
  /\ ~chat.starting
  /\ disposal' = [pc |-> "agent", agent |-> chat.agent]
  /\ agents' = IF chat.agent = None THEN agents
               ELSE [agents EXCEPT ![chat.agent] = "closing"]
  /\ UNCHANGED <<mode, daemon, restarts, begun, chat, request, run, stream, call,
                 working, leases, op, outcomes>>

EndStreams(a) ==
  [t \in Turns |-> IF a # None /\ working[a] = t /\ stream[t] = "open"
                   THEN "ended" ELSE stream[t]]
Idle(a) == IF a = None THEN working ELSE [working EXCEPT ![a] = None]

(* The process exits, or its exit cannot be confirmed.                     *)
AgentClosed ==
  /\ disposal.pc = "agent"
  /\ stream' = EndStreams(disposal.agent)
  /\ working' = Idle(disposal.agent)
  /\ \/ /\ chat' = [chat EXCEPT !.agent = None]
        /\ agents' = IF disposal.agent = None THEN agents
                     ELSE [agents EXCEPT ![disposal.agent] = "closed"]
        /\ disposal' = [disposal EXCEPT !.pc = "release"]
     \/ /\ disposal.agent # None
        /\ chat' = [chat EXCEPT !.stuck = TRUE]
        /\ disposal' = [disposal EXCEPT !.pc = "revoke"]
        /\ agents' = agents
  /\ UNCHANGED <<mode, daemon, restarts, begun, request, run, call, leases, op, outcomes>>

(* The configuration projected for the chat is restored, or conflicts with *)
(* an edit of the user.                                                    *)
ProjectionReleased ==
  /\ disposal.pc = "release"
  /\ disposal' = [disposal EXCEPT !.pc = "revoke"]
  /\ \/ chat' = chat
     \/ chat.lease # None /\ chat' = [chat EXCEPT !.stuck = TRUE]
  /\ UNCHANGED <<mode, daemon, restarts, begun, request, run, stream, call, agents,
                 working, leases, op, outcomes>>

(* The lease the chat names now is revoked, then its handler is closed.    *)
LeaseRevoked ==
  /\ disposal.pc = "revoke"
  /\ leases' = leases \ {chat.lease}
  /\ disposal' = [disposal EXCEPT !.pc = "handler"]
  /\ UNCHANGED <<mode, daemon, restarts, begun, chat, request, run, stream, call,
                 agents, working, op, outcomes>>

(* What those who waited do: finishWithError, then seal or prepareRefresh. *)
Failing == {t \in Turns : run[t] = "fail" \/ call[t] = "fail"}

AfterFailures(c) ==
  IF Failing = {} THEN c
  ELSE [c EXCEPT !.active = None, !.interrupted = FALSE, !.status = "failed"]
AfterOperation(c) ==
  IF op = "seal" /\ ~c.stuck
  THEN [c EXCEPT !.retry = None, !.status = "unavailable"] ELSE c

DisposalEnds ==
  /\ disposal.pc = "handler"
  /\ disposal' = NoDisposal
  /\ chat' = AfterOperation(AfterFailures([chat EXCEPT !.lease = None]))
  /\ run' = [t \in Turns |-> IF run[t] = "fail" THEN "done" ELSE run[t]]
  /\ call' = [t \in Turns |-> IF call[t] = "fail" THEN "done" ELSE call[t]]
  /\ op' = IF op = "refresh" /\ ~chat.stuck THEN "commit" ELSE "none"
  /\ mode' = IF op = "refresh" /\ chat.stuck
             THEN (IF mode = "refreshing" THEN "draft" ELSE "submitted") ELSE mode
  /\ UNCHANGED <<daemon, restarts, begun, request, stream, agents, working, leases, outcomes>>

(***************************************************************************)
(* How a turn ends.                                                        *)
(***************************************************************************)
Outcome(t, o) == outcomes' = [outcomes EXCEPT ![t] = @ \cup {o}]

(* Who calls finishWithError waits for the disposal, unless an earlier one *)
(* failed for good.                                                        *)
Waiting(c) == IF c.stuck THEN "done" ELSE "fail"

(* Slip: a turn the user wanted to stop is not kept for a retry.           *)
FinishWithErrorUnlessStopped(c) ==
  /\ Outcome(c.active, "failed")
  /\ LET r == IF c.interrupted THEN None ELSE request[c.active] IN
       chat' = IF c.stuck
               THEN [c EXCEPT !.retry = r, !.active = None,
                              !.interrupted = FALSE, !.status = "failed"]
               ELSE [c EXCEPT !.retry = r]
  /\ disposal' = IF c.stuck THEN disposal ELSE StartDisposal

(* finishWithError on chat c: whoever calls it, the active turn fails.     *)
FinishWithError(c) ==
  /\ Outcome(c.active, "failed")
  /\ chat' = IF c.stuck
             THEN [c EXCEPT !.retry = request[c.active], !.active = None,
                            !.interrupted = FALSE, !.status = "failed"]
             ELSE [c EXCEPT !.retry = request[c.active]]
  /\ disposal' = IF c.stuck THEN disposal ELSE StartDisposal

Current(t) == daemon = "up" /\ mode # "removed" /\ chat.active = t

(* The coroutine of turn t throws: this counts only while t is current.    *)
RunFails(t, c) ==
  IF Current(t)
  THEN FinishWithError(c) /\ run' = [run EXCEPT ![t] = Waiting(c)]
  ELSE /\ run' = [run EXCEPT ![t] = "done"]
       /\ chat' = c
       /\ UNCHANGED <<disposal, outcomes>>

FinishInterrupted(t, c) ==
  /\ chat' = [c EXCEPT !.active = None, !.interrupted = FALSE, !.status = "idle"]
  /\ run' = [run EXCEPT ![t] = "done"]
  /\ Outcome(t, "stopped")

(* What the coroutine finds when it resumes and may not go on.             *)
MayContinueInterrupted(t) == daemon = "up" /\ chat.active = t   (* Slip *)
MayContinue(t) == daemon = "up" /\ chat.active = t /\ ~chat.interrupted
StopsHere(t, c) ==
  IF daemon = "up" /\ c.active = t
  THEN FinishInterrupted(t, c)
  ELSE /\ chat' = c
       /\ run' = [run EXCEPT ![t] = "done"]
       /\ UNCHANGED outcomes

(***************************************************************************)
(* The coroutine of a turn.                                                *)
(***************************************************************************)
MayBegin ==
  /\ daemon = "up" /\ mode = "draft"
  /\ ~chat.stuck /\ chat.status # "unavailable"
  /\ chat.active = None
  /\ begun < MaxTurns

(* startReview, send: a request of its own; retry: the one that failed.    *)
Requests(t) == {t, chat.retry} \ {None}

BeginTurn ==
  /\ MayBegin
  /\ LET t == begun + 1 IN
       /\ \E r \in Requests(t) : request' = [request EXCEPT ![t] = r]
       /\ begun' = t
       /\ chat' = [chat EXCEPT !.active = t, !.interrupted = FALSE, !.retry = None,
                               !.status = IF chat.agent = None THEN "starting" ELSE "running",
                               !.starting = (chat.agent = None)]
       /\ run' = [run EXCEPT ![t] = IF chat.agent = None THEN "acquire" ELSE "build"]
  /\ UNCHANGED <<mode, daemon, restarts, stream, call, agents, working, leases,
                 disposal, op, outcomes>>

(* The configuration is projected, a lease opened, the process spawned.    *)
OpenLease(t) ==
  /\ run[t] = "acquire"
  /\ run' = [run EXCEPT ![t] = "spawn"]
  /\ chat' = [chat EXCEPT !.lease = t]
  /\ leases' = leases \cup {t}
  /\ agents' = [agents EXCEPT ![t] = "starting"]
  /\ UNCHANGED <<mode, daemon, restarts, begun, request, stream, call, working,
                 disposal, op, outcomes>>

StartFails(t) ==
  /\ run[t] \in {"acquire", "spawn"}
  /\ agents' = IF run[t] = "spawn" THEN [agents EXCEPT ![t] = "closed"] ELSE agents
  /\ RunFails(t, [chat EXCEPT !.starting = FALSE])
  /\ UNCHANGED <<mode, daemon, restarts, begun, request, stream, call, working,
                 leases, op>>

(* Slip: the agent is handed to the chat only if its turn may go on.       *)
SpawnedIfCurrent(t) ==
  /\ run[t] = "spawn"
  /\ agents' = [agents EXCEPT ![t] = "ready"]
  /\ IF MayContinue(t)
     THEN /\ chat' = [chat EXCEPT !.agent = t, !.starting = FALSE, !.status = "running"]
          /\ run' = [run EXCEPT ![t] = "build"]
          /\ UNCHANGED outcomes
     ELSE StopsHere(t, [chat EXCEPT !.starting = FALSE])
  /\ UNCHANGED <<mode, daemon, restarts, begun, request, stream, call, working,
                 leases, disposal, op>>

(* The new agent belongs to the chat before anyone looks at the turn.      *)
Spawned(t) ==
  /\ run[t] = "spawn"
  /\ agents' = [agents EXCEPT ![t] = "ready"]
  /\ LET c == [chat EXCEPT !.agent = t, !.starting = FALSE] IN
       IF MayContinue(t)
       THEN /\ chat' = [c EXCEPT !.status = "running"]
            /\ run' = [run EXCEPT ![t] = "build"]
            /\ UNCHANGED outcomes
       ELSE StopsHere(t, c)
  /\ UNCHANGED <<mode, daemon, restarts, begun, request, stream, call, working,
                 leases, disposal, op>>

(* The input is built, which may fail, and sent, which may be refused.     *)
Sendable == chat.agent # None /\ agents[chat.agent] = "ready" /\ working[chat.agent] = None

Send(t) ==
  /\ run[t] = "build"
  /\ MayContinue(t) /\ Sendable
  /\ run' = [run EXCEPT ![t] = "stream"]
  /\ stream' = [stream EXCEPT ![t] = "open"]
  /\ working' = [working EXCEPT ![chat.agent] = t]
  /\ UNCHANGED <<mode, daemon, restarts, begun, chat, request, call, agents, leases,
                 disposal, op, outcomes>>

BuildFails(t) ==
  /\ run[t] = "build"
  /\ RunFails(t, chat)
  /\ UNCHANGED <<mode, daemon, restarts, begun, request, stream, call, agents,
                 working, leases, op>>

BuildStops(t) ==
  /\ run[t] = "build"
  /\ ~MayContinue(t)
  /\ StopsHere(t, chat)
  /\ UNCHANGED <<mode, daemon, restarts, begun, request, stream, call, agents,
                 working, leases, disposal, op>>

(* The agent ends the turn it works on: completed, or with an error.       *)
AgentEnds(a) ==
  /\ working[a] # None
  /\ \E e \in Ended : stream' = [stream EXCEPT ![working[a]] = e]
  /\ working' = Idle(a)
  /\ UNCHANGED <<mode, daemon, restarts, begun, chat, request, run, call, agents,
                 leases, disposal, op, outcomes>>

(* Its process or its transport is gone, whatever it was doing.            *)
AgentDies(a) ==
  /\ agents[a] = "ready"
  /\ agents' = [agents EXCEPT ![a] = "closed"]
  /\ stream' = EndStreams(a)
  /\ working' = Idle(a)
  /\ UNCHANGED <<mode, daemon, restarts, begun, chat, request, run, call, leases,
                 disposal, op, outcomes>>

(* The coroutine has read its stream to the end.                           *)
Consume(t) ==
  /\ run[t] = "stream" /\ stream[t] \in Ended
  /\ IF stream[t] = "completed" /\ daemon = "up" /\ chat.active = t
     THEN /\ chat' = [chat EXCEPT !.active = None, !.interrupted = FALSE,
                                  !.retry = None, !.status = "idle"]
          /\ run' = [run EXCEPT ![t] = "done"]
          /\ Outcome(t, "completed")
          /\ UNCHANGED disposal
     ELSE IF MayContinue(t)
          THEN RunFails(t, chat)
          ELSE StopsHere(t, chat) /\ UNCHANGED disposal
  /\ UNCHANGED <<mode, daemon, restarts, begun, request, stream, call, agents,
                 working, leases, op>>

(* An event reaches a turn that is not current: it leaves its stream.      *)
(* A Claude session closes itself when that happens, a Codex one goes on.  *)
LeaveStream(t) ==
  /\ run[t] = "stream" /\ stream[t] = "open"
  /\ daemon # "up" \/ chat.active # t
  /\ run' = [run EXCEPT ![t] = "done"]
  /\ \/ UNCHANGED <<stream, agents, working>>
     \/ \E a \in Turns :
          /\ working[a] = t
          /\ stream' = EndStreams(a)
          /\ working' = Idle(a)
          /\ agents' = [agents EXCEPT ![a] = "closed"]
  /\ UNCHANGED <<mode, daemon, restarts, begun, chat, request, call, leases,
                 disposal, op, outcomes>>

(***************************************************************************)
(* Interruptions.  The command is accepted at once; its promise settles    *)
(* later, and a rejection does not remember the turn it was for.           *)
(***************************************************************************)
(* Slip: the turn is given up at once, without the agent.                  *)
InterruptAtOnce ==
  /\ daemon = "up" /\ mode \in {"draft", "submitted"}
  /\ ~chat.stuck /\ chat.status # "unavailable"
  /\ chat.active # None
  /\ chat' = [chat EXCEPT !.active = None, !.status = "idle"]
  /\ Outcome(chat.active, "stopped")
  /\ UNCHANGED <<mode, daemon, restarts, begun, request, run, stream, call, agents,
                 working, leases, disposal, op>>

Interrupt ==
  /\ daemon = "up" /\ mode \in {"draft", "submitted"}
  /\ ~chat.stuck /\ chat.status # "unavailable"
  /\ chat.active # None
  /\ chat' = [chat EXCEPT !.interrupted = TRUE, !.status = "interrupting"]
  /\ call' = IF chat.agent # None /\ working[chat.agent] # None
                /\ call[chat.active] \in {"none", "done"}
             THEN [call EXCEPT ![chat.active] = "pending"] ELSE call
  /\ UNCHANGED <<mode, daemon, restarts, begun, request, run, stream, agents,
                 working, leases, disposal, op, outcomes>>

(* The agent obeys: a turn it still works on ends without completing.      *)
InterruptHonoured(t) ==
  /\ call[t] = "pending"
  /\ call' = [call EXCEPT ![t] = "done"]
  /\ stream' = IF stream[t] = "open" THEN [stream EXCEPT ![t] = "ended"] ELSE stream
  /\ working' = [a \in Turns |-> IF working[a] = t THEN None ELSE working[a]]
  /\ UNCHANGED <<mode, daemon, restarts, begun, chat, request, run, agents, leases,
                 disposal, op, outcomes>>

(* It does not answer in time, or refuses.                                 *)
InterruptRejected(t) ==
  /\ InterruptsReject
  /\ call[t] = "pending"
  /\ IF chat.active = None
     THEN /\ call' = [call EXCEPT ![t] = "done"]
          /\ UNCHANGED <<chat, disposal, outcomes>>
     ELSE /\ FinishWithError(chat)
          /\ call' = [call EXCEPT ![t] = Waiting(chat)]
  /\ UNCHANGED <<mode, daemon, restarts, begun, request, run, stream, agents,
                 working, leases, op>>

(***************************************************************************)
(* What the rest of the daemon does to the chat.                           *)
(***************************************************************************)
(* A submission is recorded, or given up before anything was posted.  It   *)
(* asks whether a turn is active long before it is recorded.               *)
RecordSubmission ==
  /\ daemon = "up" /\ op = "none"
  /\ \/ mode = "draft" /\ mode' = "submitted"
     \/ mode = "submitted" /\ chat.status # "unavailable" /\ mode' = "draft"
  /\ UNCHANGED <<daemon, restarts, begun, chat, request, run, stream, call, agents,
                 working, leases, disposal, op, outcomes>>

(* Its cleanup seals the chat, or fails and is asked for again.            *)
Sealable == daemon = "up" /\ mode = "submitted" /\ op = "none"
            /\ chat.active = None /\ ~chat.stuck
Seal ==
  /\ Sealable
  /\ op' = "seal"
  /\ disposal' = StartDisposal
  /\ UNCHANGED <<mode, daemon, restarts, begun, chat, request, run, stream, call,
                 agents, working, leases, outcomes>>

(* A refresh closes the old agent, then commits a chat without requests    *)
(* or fails and leaves the old one.                                        *)
PrepareRefresh ==
  /\ daemon = "up" /\ op = "none"
  /\ chat.active = None /\ ~chat.stuck
  /\ \/ mode = "draft" /\ mode' = "refreshing"
     \/ mode = "submitted" /\ chat.status = "unavailable" /\ mode' = "continuing"
  /\ op' = "refresh"
  /\ disposal' = StartDisposal
  /\ UNCHANGED <<daemon, restarts, begun, chat, request, run, stream, call, agents,
                 working, leases, outcomes>>

RestoreRevision ==
  /\ op = "commit"
  /\ op' = "none"
  /\ \/ /\ mode' = "draft"
        /\ chat' = Fresh
        /\ call' = [t \in Turns |-> IF call[t] = "none" THEN "none" ELSE "done"]
     \/ /\ mode' = IF mode = "refreshing" THEN "draft" ELSE "submitted"
        /\ UNCHANGED <<chat, call>>
  /\ UNCHANGED <<daemon, restarts, begun, request, run, stream, agents, working,
                 leases, disposal, outcomes>>

(* The review is deleted: a draft, or one whose cleanup is complete.       *)
Remove ==
  /\ daemon = "up" /\ op = "none"
  /\ mode = "draft" \/ (mode = "submitted" /\ chat.status = "unavailable")
  /\ chat.active = None
  /\ mode' = "removed"
  /\ disposal' = IF chat.stuck THEN disposal ELSE StartDisposal
  /\ UNCHANGED <<daemon, restarts, begun, chat, request, run, stream, call, agents,
                 working, leases, op, outcomes>>

(* The drained daemon closes its chats, saves them with what was cut, and  *)
(* stops.  The next one makes a cut request the one to retry.              *)
Close ==
  /\ daemon = "up" /\ op = "none"
  /\ mode \in {"draft", "submitted"}
  /\ daemon' = "closing"
  /\ disposal' = IF chat.stuck THEN disposal ELSE StartDisposal
  /\ UNCHANGED <<mode, restarts, begun, chat, request, run, stream, call, agents,
                 working, leases, op, outcomes>>

Stop ==
  /\ daemon = "closing" /\ disposal.pc = "none"
  /\ daemon' = "stopped"
  /\ UNCHANGED <<mode, restarts, begun, chat, request, run, stream, call, agents,
                 working, leases, disposal, op, outcomes>>

RestoredFailed ==   (* Slip: what was cut is not kept *)
  [Fresh EXCEPT !.retry = chat.retry,
                !.status = IF chat.active # None \/ chat.status \in Active
                           THEN "failed" ELSE chat.status]

Restored ==
  [Fresh EXCEPT !.retry = IF chat.active = None THEN chat.retry ELSE request[chat.active],
                !.status = IF chat.active # None \/ chat.status \in Active
                           THEN "failed" ELSE chat.status]

Restart ==
  /\ daemon = "stopped" /\ restarts < MaxRestarts
  /\ daemon' = "up"
  /\ restarts' = restarts + 1
  /\ chat' = Restored
  /\ outcomes' = IF chat.active = None THEN outcomes
                 ELSE [outcomes EXCEPT ![chat.active] = @ \cup {"failed"}]
  /\ run' = [t \in Turns |-> IF run[t] = "none" THEN "none" ELSE "done"]
  /\ call' = [t \in Turns |-> IF call[t] = "none" THEN "none" ELSE "done"]
  /\ stream' = [t \in Turns |-> IF stream[t] = "open" THEN "ended" ELSE stream[t]]
  /\ agents' = [t \in Turns |-> IF agents[t] = "none" THEN "none" ELSE "closed"]
  /\ working' = [t \in Turns |-> None]
  /\ leases' = {}
  /\ disposal' = NoDisposal
  /\ UNCHANGED <<mode, begun, request, op>>

(***************************************************************************)
RunStep(t) ==
  \/ OpenLease(t) \/ StartFails(t) \/ Spawned(t)
  \/ Send(t) \/ BuildFails(t) \/ BuildStops(t)
  \/ Consume(t)
DisposalStep == DisposeStarted \/ AgentClosed \/ ProjectionReleased \/ LeaseRevoked \/ DisposalEnds
InterruptSettles(t) == InterruptHonoured(t) \/ InterruptRejected(t)

Running ==
  \/ BeginTurn \/ Interrupt \/ DisposalStep
  \/ \E t \in Turns : RunStep(t) \/ LeaveStream(t) \/ InterruptSettles(t)
                      \/ AgentEnds(t) \/ AgentDies(t)
  \/ RecordSubmission \/ Seal \/ PrepareRefresh \/ RestoreRevision \/ Remove
  \/ Close \/ Stop

Next == (daemon # "stopped" /\ Running) \/ Restart

Spec == Init /\ [][Next]_vars

(* Starts, inputs and disposals settle (the backends bound them by         *)
(* timeouts), as do interruptions; a daemon that closes stops.             *)
FairSpec ==
  /\ Spec
  /\ WF_vars(DisposalStep /\ daemon # "stopped")
  /\ WF_vars(Stop)
  /\ \A t \in Turns : /\ WF_vars(RunStep(t) /\ daemon # "stopped")
                      /\ WF_vars(InterruptSettles(t) /\ daemon # "stopped")
=============================================================================
