---------------------------- MODULE ChatTurns_proofs ----------------------------
(***************************************************************************)
(* Theorems about the chat of a review, for any number of turns and of     *)
(* restarts of the daemon.                                                 *)
(***************************************************************************)
EXTENDS ChatTurnsProperties, TLAPS

(* Turns are numbers, and None is none of them.                            *)
LEMMA TurnFacts ==
  /\ MaxTurns \in Nat /\ MaxRestarts \in Nat
  /\ Turns = 1..MaxTurns /\ Ids = Turns \cup {0} /\ None = 0 /\ 0 \notin Turns
BY ChatBoundsAssumption DEF Turns, Ids, None

(***************************************************************************)
(* What the steps change in the chat, field by field.                      *)
(***************************************************************************)
ShowsTurn(c, active, retry, status) ==
  c \in Chat /\ c.active = active /\ c.retry = retry /\ c.status = status
HoldsAgent(c, agent, lease, starting, stuck) ==
  c.agent = agent /\ c.lease = lease /\ c.starting = starting /\ c.stuck = stuck

(* Two chats that hold the same agent, and two that show the same turn.    *)
SameAgent(c, d) == HoldsAgent(c, d.agent, d.lease, d.starting, d.stuck)
SameTurn(c, d) == ShowsTurn(c, d.active, d.retry, d.status)

(* A turn that is over, or whose request is kept.                          *)
LEMMA OverFields ==
  ASSUME NEW c \in Chat, NEW s \in Statuses, NEW r \in Ids
  PROVE  LET d == [c EXCEPT !.active = None, !.interrupted = FALSE, !.status = s]
             e == [c EXCEPT !.retry = r]
             f == [c EXCEPT !.retry = r, !.active = None, !.interrupted = FALSE, !.status = s]
             g == [c EXCEPT !.active = None, !.interrupted = FALSE, !.retry = r, !.status = s]
         IN  /\ ShowsTurn(d, None, c.retry, s) /\ SameAgent(d, c)
             /\ ShowsTurn(e, c.active, r, c.status) /\ SameAgent(e, c)
             /\ ShowsTurn(f, None, r, s) /\ SameAgent(f, c)
             /\ ShowsTurn(g, None, r, s) /\ SameAgent(g, c)
BY TurnFacts DEF Chat, ShowsTurn, SameAgent, HoldsAgent

(* What the chat holds of an agent, or of what could not be closed.        *)
LEMMA HoldFields ==
  ASSUME NEW c \in Chat, NEW a \in Ids, NEW b \in BOOLEAN
  PROVE  LET d == [c EXCEPT !.agent = a]
             e == [c EXCEPT !.lease = a]
             f == [c EXCEPT !.stuck = b]
             g == [c EXCEPT !.starting = b]
             h == [c EXCEPT !.agent = a, !.starting = b]
         IN  /\ SameTurn(d, c) /\ HoldsAgent(d, a, c.lease, c.starting, c.stuck)
             /\ SameTurn(e, c) /\ HoldsAgent(e, c.agent, a, c.starting, c.stuck)
             /\ SameTurn(f, c) /\ HoldsAgent(f, c.agent, c.lease, c.starting, b)
             /\ SameTurn(g, c) /\ HoldsAgent(g, c.agent, c.lease, b, c.stuck)
             /\ SameTurn(h, c) /\ HoldsAgent(h, a, c.lease, b, c.stuck)
BY TurnFacts DEF Chat, SameTurn, ShowsTurn, HoldsAgent

(* The status, with the retry or the interruption that goes with it.       *)
LEMMA StatusFields ==
  ASSUME NEW c \in Chat, NEW s \in Statuses, NEW r \in Ids, NEW b \in BOOLEAN
  PROVE  LET d == [c EXCEPT !.status = s]
             e == [c EXCEPT !.retry = r, !.status = s]
             f == [c EXCEPT !.interrupted = b, !.status = s]
         IN  /\ ShowsTurn(d, c.active, c.retry, s) /\ SameAgent(d, c)
             /\ ShowsTurn(e, c.active, r, s) /\ SameAgent(e, c)
             /\ ShowsTurn(f, c.active, c.retry, s) /\ SameAgent(f, c)
BY DEF Chat, ShowsTurn, SameAgent, HoldsAgent

(* A turn that begins.                                                     *)
LEMMA BegunFields ==
  ASSUME NEW c \in Chat, NEW a \in Ids, NEW r \in Ids, NEW s \in Statuses, NEW b \in BOOLEAN
  PROVE  LET d == [c EXCEPT !.active = a, !.interrupted = FALSE, !.retry = r, !.status = s,
                            !.starting = b]
         IN  ShowsTurn(d, a, r, s) /\ HoldsAgent(d, c.agent, c.lease, b, c.stuck)
BY DEF Chat, ShowsTurn, HoldsAgent

(* A chat made anew, by a refresh or by a restart.                         *)
LEMMA FreshFields ==
  ASSUME NEW s \in Statuses, NEW r \in Ids
  PROVE  LET d == [Fresh EXCEPT !.retry = r, !.status = s]
         IN  /\ ShowsTurn(d, None, r, s) /\ HoldsAgent(d, None, None, FALSE, FALSE)
             /\ ShowsTurn(Fresh, None, None, "idle")
             /\ HoldsAgent(Fresh, None, None, FALSE, FALSE)
BY TurnFacts DEF Chat, Statuses, Fresh, ShowsTurn, HoldsAgent

(* What becomes of the turn whose coroutine throws, and of the one that    *)
(* may not go on.                                                          *)
Threw(t) ==
  \/ /\ ~Current(t)
     /\ ShowsTurn(chat', chat.active, chat.retry, chat.status)
     /\ run' = [run EXCEPT ![t] = "done"]
     /\ UNCHANGED <<disposal, outcomes>>
  \/ /\ Current(t) /\ chat.stuck
     /\ ShowsTurn(chat', None, request[t], "failed")
     /\ run' = [run EXCEPT ![t] = "done"]
     /\ outcomes' = [outcomes EXCEPT ![t] = @ \cup {"failed"}]
     /\ disposal' = disposal
  \/ /\ Current(t) /\ ~chat.stuck
     /\ ShowsTurn(chat', t, request[t], chat.status)
     /\ run' = [run EXCEPT ![t] = "fail"]
     /\ outcomes' = [outcomes EXCEPT ![t] = @ \cup {"failed"}]
     /\ disposal' = StartDisposal

GaveUp(t) ==
  /\ run' = [run EXCEPT ![t] = "done"]
  /\ \/ /\ daemon = "up" /\ chat.active = t
        /\ ShowsTurn(chat', None, chat.retry, "idle")
        /\ outcomes' = [outcomes EXCEPT ![t] = @ \cup {"stopped"}]
     \/ /\ ~(daemon = "up" /\ chat.active = t)
        /\ ShowsTurn(chat', chat.active, chat.retry, chat.status)
        /\ outcomes' = outcomes

(* finishWithError shows the failure once nothing has to be disposed of.   *)
LEMMA FinishWithErrorEffect ==
  ASSUME NEW c \in Chat, c.active \in Turns, request \in [Turns -> Ids], FinishWithError(c)
  PROVE  /\ SameAgent(chat', c)
         /\ IF c.stuck THEN ShowsTurn(chat', None, request[c.active], "failed")
                       ELSE ShowsTurn(chat', c.active, request[c.active], c.status)
<1>1. request[c.active] \in Ids /\ "failed" \in Statuses
  BY DEF Statuses
<1>2. CASE c.stuck
  BY <1>1, <1>2, OverFields DEF FinishWithError
<1>3. CASE ~c.stuck
  BY <1>1, <1>3, OverFields DEF FinishWithError
<1> QED BY <1>2, <1>3

(* A coroutine that throws fails its turn only while that is current.      *)
LEMMA RunFailsEffect ==
  ASSUME NEW t \in Turns, NEW c \in Chat, request \in [Turns -> Ids], RunFails(t, c),
         ShowsTurn(c, chat.active, chat.retry, chat.status), c.stuck = chat.stuck
  PROVE  SameAgent(chat', c) /\ Threw(t)
<1>0. /\ c.active = chat.active /\ c.retry = chat.retry /\ c.status = chat.status
  BY DEF ShowsTurn
<1>1. CASE Current(t)
  <2>1. FinishWithError(c) /\ run' = [run EXCEPT ![t] = Waiting(c)] /\ c.active = t
    BY <1>0, <1>1 DEF RunFails, Current
  <2>2. /\ SameAgent(chat', c)
        /\ IF c.stuck THEN ShowsTurn(chat', None, request[c.active], "failed")
                      ELSE ShowsTurn(chat', c.active, request[c.active], c.status)
    BY <2>1, FinishWithErrorEffect
  <2>3. /\ outcomes' = [outcomes EXCEPT ![t] = @ \cup {"failed"}]
        /\ disposal' = IF c.stuck THEN disposal ELSE StartDisposal
    BY <2>1 DEF FinishWithError, Outcome
  <2> QED BY <1>0, <1>1, <2>1, <2>2, <2>3 DEF Threw, Waiting
<1>2. CASE ~Current(t)
  BY <1>0, <1>2 DEF RunFails, Threw, SameAgent, ShowsTurn, HoldsAgent
<1> QED BY <1>1, <1>2

(* A coroutine that may not go on gives up its turn if it still has it.    *)
LEMMA StopsHereEffect ==
  ASSUME NEW t \in Turns, NEW c \in Chat, StopsHere(t, c),
         ShowsTurn(c, chat.active, chat.retry, chat.status)
  PROVE  SameAgent(chat', c) /\ GaveUp(t)
<1>0. /\ c.active = chat.active /\ c.retry = chat.retry /\ c.status = chat.status
  BY DEF ShowsTurn
<1>1. CASE daemon = "up" /\ c.active = t
  <2>1. "idle" \in Statuses /\ None \in Ids
    BY TurnFacts DEF Statuses
  <2>2. FinishInterrupted(t, c)
    BY <1>1 DEF StopsHere
  <2>3. SameAgent(chat', c) /\ ShowsTurn(chat', None, c.retry, "idle")
    BY <2>1, <2>2, OverFields DEF FinishInterrupted
  <2> QED BY <1>0, <1>1, <2>2, <2>3 DEF GaveUp, FinishInterrupted, Outcome
<1>2. CASE ~(daemon = "up" /\ c.active = t)
  BY <1>0, <1>2 DEF StopsHere, GaveUp, SameAgent, ShowsTurn, HoldsAgent
<1> QED BY <1>1, <1>2

(* What each action that changes the chat does to every variable.          *)
LEMMA BeginTurnEffect ==
  ASSUME chat \in Chat, begun \in 0..MaxTurns, BeginTurn
  PROVE  /\ ShowsTurn(chat', begun + 1, None, IF chat.agent = None THEN "starting" ELSE "running")
         /\ HoldsAgent(chat', chat.agent, chat.lease, chat.agent = None, chat.stuck)
         /\ begun + 1 \in Turns /\ begun' = begun + 1
         /\ daemon = "up" /\ mode = "draft" /\ chat.active = None
         /\ ~chat.stuck /\ chat.status # "unavailable"
         /\ \E r \in {begun + 1, chat.retry} \ {None} :
              request' = [request EXCEPT ![begun + 1] = r]
         /\ run' = [run EXCEPT ![begun + 1] = IF chat.agent = None THEN "acquire" ELSE "build"]
         /\ UNCHANGED <<mode, daemon, restarts, stream, call, agents, working, leases,
                        disposal, op, outcomes>>
<1>1. begun + 1 \in Turns
  BY TurnFacts DEF BeginTurn, MayBegin
<1>2. chat' = [chat EXCEPT !.active = begun + 1, !.interrupted = FALSE, !.retry = None,
                           !.status = IF chat.agent = None THEN "starting" ELSE "running",
                           !.starting = (chat.agent = None)]
  BY DEF BeginTurn
<1>3. /\ begun + 1 \in Ids /\ None \in Ids /\ (chat.agent = None) \in BOOLEAN
      /\ (IF chat.agent = None THEN "starting" ELSE "running") \in Statuses
  BY <1>1, TurnFacts DEF Statuses, Active
<1>4. /\ ShowsTurn(chat', begun + 1, None, IF chat.agent = None THEN "starting" ELSE "running")
      /\ HoldsAgent(chat', chat.agent, chat.lease, chat.agent = None, chat.stuck)
  BY <1>2, <1>3, BegunFields
<1>5. BeginTurn
  OBVIOUS
<1> QED BY <1>1, <1>4, <1>5 DEF BeginTurn, MayBegin, Requests

LEMMA InterruptEffect ==
  ASSUME chat \in Chat, Interrupt
  PROVE  /\ ShowsTurn(chat', chat.active, chat.retry, "interrupting") /\ SameAgent(chat', chat)
         /\ chat.active \in Turns /\ chat.status # "unavailable"
         /\ call' \in {call, [call EXCEPT ![chat.active] = "pending"]}
         /\ UNCHANGED <<mode, daemon, restarts, begun, request, run, stream, agents,
                        working, leases, disposal, op, outcomes>>
<1>1. "interrupting" \in Statuses /\ chat.active \in Ids
  BY DEF Statuses, Active, Chat
<1>2. chat' = [chat EXCEPT !.interrupted = TRUE, !.status = "interrupting"]
  BY DEF Interrupt
<1>3. ShowsTurn(chat', chat.active, chat.retry, "interrupting") /\ SameAgent(chat', chat)
  BY <1>1, <1>2, StatusFields DEF Chat
<1> QED BY <1>1, <1>3, TurnFacts DEF Interrupt

LEMMA AgentClosedEffect ==
  ASSUME chat \in Chat, AgentClosed
  PROVE  /\ ShowsTurn(chat', chat.active, chat.retry, chat.status)
         /\ disposal.pc = "agent"
         /\ stream' = EndStreams(disposal.agent) /\ working' = Idle(disposal.agent)
         /\ \/ /\ HoldsAgent(chat', None, chat.lease, chat.starting, chat.stuck)
               /\ disposal' = [disposal EXCEPT !.pc = "release"]
               /\ agents' = IF disposal.agent = None THEN agents
                            ELSE [agents EXCEPT ![disposal.agent] = "closed"]
            \/ /\ disposal.agent # None
               /\ HoldsAgent(chat', chat.agent, chat.lease, chat.starting, TRUE)
               /\ disposal' = [disposal EXCEPT !.pc = "revoke"]
               /\ agents' = agents
         /\ UNCHANGED <<mode, daemon, restarts, begun, request, run, call, leases, op, outcomes>>
<1>1. None \in Ids /\ TRUE \in BOOLEAN
  BY TurnFacts
<1>2. CASE /\ chat' = [chat EXCEPT !.agent = None]
           /\ disposal' = [disposal EXCEPT !.pc = "release"]
           /\ agents' = IF disposal.agent = None THEN agents
                        ELSE [agents EXCEPT ![disposal.agent] = "closed"]
  <2>1. /\ ShowsTurn(chat', chat.active, chat.retry, chat.status)
        /\ HoldsAgent(chat', None, chat.lease, chat.starting, chat.stuck)
    BY <1>1, <1>2, HoldFields DEF SameTurn
  <2> QED BY <1>2, <2>1 DEF AgentClosed
<1>3. CASE /\ disposal.agent # None
           /\ chat' = [chat EXCEPT !.stuck = TRUE]
           /\ disposal' = [disposal EXCEPT !.pc = "revoke"]
           /\ agents' = agents
  <2>1. /\ ShowsTurn(chat', chat.active, chat.retry, chat.status)
        /\ HoldsAgent(chat', chat.agent, chat.lease, chat.starting, TRUE)
    BY <1>1, <1>3, HoldFields DEF SameTurn
  <2> QED BY <1>3, <2>1 DEF AgentClosed
<1> QED BY <1>2, <1>3 DEF AgentClosed

LEMMA ProjectionReleasedEffect ==
  ASSUME chat \in Chat, ProjectionReleased
  PROVE  /\ ShowsTurn(chat', chat.active, chat.retry, chat.status)
         /\ \E b \in {chat.stuck, TRUE} :
              HoldsAgent(chat', chat.agent, chat.lease, chat.starting, b)
         /\ disposal.pc = "release" /\ disposal' = [disposal EXCEPT !.pc = "revoke"]
         /\ UNCHANGED <<mode, daemon, restarts, begun, request, run, stream, call, agents,
                        working, leases, op, outcomes>>
<1>1. None \in Ids /\ TRUE \in BOOLEAN
  BY TurnFacts
<1>2. CASE chat' = chat
  BY <1>2 DEF ProjectionReleased, ShowsTurn, HoldsAgent
<1>3. CASE chat' = [chat EXCEPT !.stuck = TRUE]
  <2>1. /\ ShowsTurn(chat', chat.active, chat.retry, chat.status)
        /\ HoldsAgent(chat', chat.agent, chat.lease, chat.starting, TRUE)
    BY <1>1, <1>3, HoldFields DEF SameTurn
  <2> QED BY <2>1 DEF ProjectionReleased
<1> QED BY <1>2, <1>3 DEF ProjectionReleased

LEMMA DisposalEndsEffect ==
  ASSUME chat \in Chat, DisposalEnds
  PROVE  /\ HoldsAgent(chat', chat.agent, None, chat.starting, chat.stuck)
         /\ LET active == IF Failing = {} THEN chat.active ELSE None
                status == IF Failing = {} THEN chat.status ELSE "failed"
            IN  IF op = "seal" /\ ~chat.stuck
                THEN ShowsTurn(chat', active, None, "unavailable")
                ELSE ShowsTurn(chat', active, chat.retry, status)
         /\ disposal.pc = "handler" /\ disposal' = NoDisposal
         /\ run' = [t \in Turns |-> IF run[t] = "fail" THEN "done" ELSE run[t]]
         /\ call' = [t \in Turns |-> IF call[t] = "fail" THEN "done" ELSE call[t]]
         /\ op' = IF op = "refresh" /\ ~chat.stuck THEN "commit" ELSE "none"
         /\ mode' = IF op = "refresh" /\ chat.stuck
                    THEN (IF mode = "refreshing" THEN "draft" ELSE "submitted") ELSE mode
         /\ UNCHANGED <<daemon, restarts, begun, request, stream, agents, working, leases,
                        outcomes>>
<1> DEFINE c == [chat EXCEPT !.lease = None]
           d == AfterFailures(c)
           active == IF Failing = {} THEN chat.active ELSE None
           status == IF Failing = {} THEN chat.status ELSE "failed"
<1>1. None \in Ids /\ TRUE \in BOOLEAN /\ "failed" \in Statuses /\ "unavailable" \in Statuses
  BY TurnFacts DEF Statuses
<1>2. SameTurn(c, chat) /\ HoldsAgent(c, chat.agent, None, chat.starting, chat.stuck)
  BY <1>1, HoldFields
<1>3. /\ c \in Chat /\ c.active = chat.active /\ c.retry = chat.retry /\ c.status = chat.status
      /\ c.agent = chat.agent /\ c.lease = None /\ c.starting = chat.starting
      /\ c.stuck = chat.stuck
  BY <1>2 DEF SameTurn, ShowsTurn, HoldsAgent
<1>4. chat' = AfterOperation(d)
  BY DEF DisposalEnds
<1>5. c.retry \in Ids
  BY <1>3 DEF Chat
<1> HIDE DEF c
<1>6. ShowsTurn(d, active, chat.retry, status) /\ SameAgent(d, c)
  <2>1. CASE Failing = {}
    BY <1>3, <2>1 DEF AfterFailures, ShowsTurn, SameAgent, HoldsAgent
  <2>2. CASE Failing # {}
    BY <1>1, <1>3, <1>5, <2>2, OverFields DEF AfterFailures
  <2> QED BY <2>1, <2>2
<1>7. /\ d \in Chat /\ d.active = active /\ d.retry = chat.retry /\ d.status = status
      /\ d.agent = chat.agent /\ d.lease = None /\ d.starting = chat.starting
      /\ d.stuck = chat.stuck
  BY <1>3, <1>6 DEF ShowsTurn, SameAgent, HoldsAgent
<1> HIDE DEF d, active, status
<1>8. CASE op = "seal" /\ ~chat.stuck
  <2>1. ShowsTurn(chat', d.active, None, "unavailable") /\ SameAgent(chat', d)
    BY <1>1, <1>4, <1>7, <1>8, StatusFields DEF AfterOperation
  <2>2. /\ HoldsAgent(chat', chat.agent, None, chat.starting, chat.stuck)
        /\ ShowsTurn(chat', active, None, "unavailable")
    BY <1>7, <2>1 DEF SameAgent, HoldsAgent
  <2> QED BY <1>8, <2>2 DEF DisposalEnds, active
<1>9. CASE ~(op = "seal" /\ ~chat.stuck)
  <2>1. /\ HoldsAgent(chat', chat.agent, None, chat.starting, chat.stuck)
        /\ ShowsTurn(chat', active, chat.retry, status)
    BY <1>4, <1>7, <1>9 DEF AfterOperation, ShowsTurn, HoldsAgent
  <2> QED BY <1>9, <2>1 DEF DisposalEnds, active, status
<1> QED BY <1>8, <1>9

LEMMA RestoreRevisionEffect ==
  ASSUME chat \in Chat, RestoreRevision
  PROVE  /\ op = "commit" /\ op' = "none"
         /\ \/ /\ mode' = "draft"
               /\ ShowsTurn(chat', None, None, "idle")
               /\ HoldsAgent(chat', None, None, FALSE, FALSE)
               /\ call' = [t \in Turns |-> IF call[t] = "none" THEN "none" ELSE "done"]
            \/ /\ mode' = IF mode = "refreshing" THEN "draft" ELSE "submitted"
               /\ UNCHANGED <<chat, call>>
         /\ UNCHANGED <<daemon, restarts, begun, request, run, stream, agents, working,
                        leases, disposal, outcomes>>
<1>1. "idle" \in Statuses /\ None \in Ids
  BY TurnFacts DEF Statuses
<1>2. /\ ShowsTurn(Fresh, None, None, "idle")
      /\ HoldsAgent(Fresh, None, None, FALSE, FALSE)
  BY <1>1, FreshFields
<1> QED BY <1>2 DEF RestoreRevision

LEMMA RestartEffect ==
  ASSUME chat \in Chat, request \in [Turns -> Ids], Restart
  PROVE  /\ HoldsAgent(chat', None, None, FALSE, FALSE)
         /\ ShowsTurn(chat', None, IF chat.active = None THEN chat.retry ELSE request[chat.active],
                      IF chat.active # None \/ chat.status \in Active
                      THEN "failed" ELSE chat.status)
         /\ daemon = "stopped" /\ daemon' = "up"
         /\ restarts < MaxRestarts /\ restarts' = restarts + 1
         /\ outcomes' = IF chat.active = None THEN outcomes
                        ELSE [outcomes EXCEPT ![chat.active] = @ \cup {"failed"}]
         /\ run' = [t \in Turns |-> IF run[t] = "none" THEN "none" ELSE "done"]
         /\ call' = [t \in Turns |-> IF call[t] = "none" THEN "none" ELSE "done"]
         /\ stream' = [t \in Turns |-> IF stream[t] = "open" THEN "ended" ELSE stream[t]]
         /\ agents' = [t \in Turns |-> IF agents[t] = "none" THEN "none" ELSE "closed"]
         /\ working' = [t \in Turns |-> None]
         /\ leases' = {}
         /\ disposal' = NoDisposal
         /\ UNCHANGED <<mode, begun, request, op>>
<1> DEFINE r == IF chat.active = None THEN chat.retry ELSE request[chat.active]
           s == IF chat.active # None \/ chat.status \in Active THEN "failed" ELSE chat.status
<1>1. r \in Ids /\ s \in Statuses
  BY TurnFacts DEF Chat, Statuses
<1>2. chat' = [Fresh EXCEPT !.retry = r, !.status = s]
  BY DEF Restart, Restored
<1>3. ShowsTurn(chat', None, r, s) /\ HoldsAgent(chat', None, None, FALSE, FALSE)
  BY <1>1, <1>2, FreshFields
<1> QED BY <1>3 DEF Restart

LEMMA OpenLeaseEffect ==
  ASSUME chat \in Chat, NEW t \in Turns, OpenLease(t)
  PROVE  /\ ShowsTurn(chat', chat.active, chat.retry, chat.status)
         /\ HoldsAgent(chat', chat.agent, t, chat.starting, chat.stuck)
         /\ run[t] = "acquire" /\ run' = [run EXCEPT ![t] = "spawn"]
         /\ leases' = leases \cup {t}
         /\ agents' = [agents EXCEPT ![t] = "starting"]
         /\ UNCHANGED <<mode, daemon, restarts, begun, request, stream, call, working,
                        disposal, op, outcomes>>
<1>1. chat' = [chat EXCEPT !.lease = t] /\ t \in Ids /\ TRUE \in BOOLEAN
  BY TurnFacts DEF OpenLease
<1>2. /\ ShowsTurn(chat', chat.active, chat.retry, chat.status)
      /\ HoldsAgent(chat', chat.agent, t, chat.starting, chat.stuck)
  BY <1>1, HoldFields DEF SameTurn
<1> QED BY <1>2 DEF OpenLease

LEMMA StartFailsEffect ==
  ASSUME chat \in Chat, request \in [Turns -> Ids], NEW t \in Turns, StartFails(t)
  PROVE  /\ HoldsAgent(chat', chat.agent, chat.lease, FALSE, chat.stuck)
         /\ Threw(t)
         /\ run[t] \in {"acquire", "spawn"}
         /\ agents' = IF run[t] = "spawn" THEN [agents EXCEPT ![t] = "closed"] ELSE agents
         /\ UNCHANGED <<mode, daemon, restarts, begun, request, stream, call, working,
                        leases, op>>
<1> DEFINE c == [chat EXCEPT !.starting = FALSE]
<1>1. /\ ShowsTurn(c, chat.active, chat.retry, chat.status)
      /\ HoldsAgent(c, chat.agent, chat.lease, FALSE, chat.stuck)
  BY HoldFields DEF Chat, SameTurn
<1>2. RunFails(t, c)
  BY DEF StartFails
<1>3. c \in Chat /\ c.stuck = chat.stuck
  BY <1>1 DEF ShowsTurn, HoldsAgent
<1> HIDE DEF c
<1>4. SameAgent(chat', c) /\ Threw(t)
  BY <1>1, <1>2, <1>3, RunFailsEffect
<1>5. HoldsAgent(chat', chat.agent, chat.lease, FALSE, chat.stuck)
  BY <1>1, <1>4 DEF SameAgent, HoldsAgent
<1> QED BY <1>4, <1>5 DEF StartFails

LEMMA SpawnedEffect ==
  ASSUME chat \in Chat, NEW t \in Turns, Spawned(t)
  PROVE  /\ HoldsAgent(chat', t, chat.lease, FALSE, chat.stuck)
         /\ run[t] = "spawn"
         /\ agents' = [agents EXCEPT ![t] = "ready"]
         /\ \/ /\ MayContinue(t)
               /\ ShowsTurn(chat', t, chat.retry, "running")
               /\ run' = [run EXCEPT ![t] = "build"]
               /\ outcomes' = outcomes
            \/ ~MayContinue(t) /\ GaveUp(t)
         /\ UNCHANGED <<mode, daemon, restarts, begun, request, stream, call, working,
                        leases, disposal, op>>
<1> DEFINE c == [chat EXCEPT !.agent = t, !.starting = FALSE]
<1>1. /\ ShowsTurn(c, chat.active, chat.retry, chat.status)
      /\ HoldsAgent(c, t, chat.lease, FALSE, chat.stuck)
  BY HoldFields, TurnFacts DEF Chat, SameTurn
<1>2. IF MayContinue(t) THEN /\ chat' = [c EXCEPT !.status = "running"]
                             /\ run' = [run EXCEPT ![t] = "build"]
                             /\ UNCHANGED outcomes
                        ELSE StopsHere(t, c)
  BY DEF Spawned
<1>3. /\ c \in Chat /\ c.active = chat.active /\ c.retry = chat.retry
      /\ c.agent = t /\ c.lease = chat.lease /\ c.starting = FALSE /\ c.stuck = chat.stuck
  BY <1>1 DEF ShowsTurn, HoldsAgent
<1>4. "running" \in Statuses /\ c.retry \in Ids /\ TRUE \in BOOLEAN
  BY <1>3 DEF Statuses, Active, Chat
<1> HIDE DEF c
<1>5. CASE MayContinue(t)
  <2>1. ShowsTurn(chat', c.active, c.retry, "running") /\ SameAgent(chat', c)
    BY <1>2, <1>3, <1>4, <1>5, StatusFields
  <2>2. /\ ShowsTurn(chat', t, chat.retry, "running")
        /\ HoldsAgent(chat', t, chat.lease, FALSE, chat.stuck)
    BY <1>3, <1>5, <2>1 DEF MayContinue, SameAgent, HoldsAgent
  <2> QED BY <1>2, <1>5, <2>2 DEF Spawned
<1>6. CASE ~MayContinue(t)
  <2>1. SameAgent(chat', c) /\ GaveUp(t)
    BY <1>1, <1>2, <1>3, <1>6, StopsHereEffect
  <2>2. HoldsAgent(chat', t, chat.lease, FALSE, chat.stuck)
    BY <1>3, <2>1 DEF SameAgent, HoldsAgent
  <2> QED BY <1>6, <2>1, <2>2 DEF Spawned
<1> QED BY <1>5, <1>6

LEMMA BuildFailsEffect ==
  ASSUME chat \in Chat, request \in [Turns -> Ids], NEW t \in Turns, BuildFails(t)
  PROVE  /\ SameAgent(chat', chat) /\ Threw(t)
         /\ run[t] = "build"
         /\ UNCHANGED <<mode, daemon, restarts, begun, request, stream, call, agents,
                        working, leases, op>>
<1>1. ShowsTurn(chat, chat.active, chat.retry, chat.status)
  BY DEF ShowsTurn
<1> QED BY <1>1, RunFailsEffect DEF BuildFails

LEMMA BuildStopsEffect ==
  ASSUME chat \in Chat, NEW t \in Turns, BuildStops(t)
  PROVE  /\ SameAgent(chat', chat) /\ GaveUp(t)
         /\ run[t] = "build" /\ ~MayContinue(t)
         /\ UNCHANGED <<mode, daemon, restarts, begun, request, stream, call, agents,
                        working, leases, disposal, op>>
<1>1. ShowsTurn(chat, chat.active, chat.retry, chat.status)
  BY DEF ShowsTurn
<1> QED BY <1>1, StopsHereEffect DEF BuildStops

LEMMA ConsumeEffect ==
  ASSUME chat \in Chat, request \in [Turns -> Ids], NEW t \in Turns, Consume(t)
  PROVE  /\ SameAgent(chat', chat)
         /\ run[t] = "stream" /\ stream[t] \in Ended
         /\ \/ /\ daemon = "up" /\ chat.active = t
               /\ ShowsTurn(chat', None, None, "idle")
               /\ run' = [run EXCEPT ![t] = "done"]
               /\ outcomes' = [outcomes EXCEPT ![t] = @ \cup {"completed"}]
               /\ disposal' = disposal
            \/ Threw(t)
            \/ GaveUp(t) /\ disposal' = disposal
         /\ UNCHANGED <<mode, daemon, restarts, begun, request, stream, call, agents,
                        working, leases, op>>
<1>1. ShowsTurn(chat, chat.active, chat.retry, chat.status)
  BY DEF ShowsTurn
<1>2. CASE stream[t] = "completed" /\ daemon = "up" /\ chat.active = t
  <2>1. "idle" \in Statuses /\ None \in Ids
    BY TurnFacts DEF Statuses
  <2>2. chat' = [chat EXCEPT !.active = None, !.interrupted = FALSE, !.retry = None,
                             !.status = "idle"]
    BY <1>2 DEF Consume
  <2>3. ShowsTurn(chat', None, None, "idle") /\ SameAgent(chat', chat)
    BY <2>1, <2>2, OverFields
  <2> QED BY <1>2, <2>3 DEF Consume, Outcome
<1>3. CASE ~(stream[t] = "completed" /\ daemon = "up" /\ chat.active = t) /\ MayContinue(t)
  <2>1. RunFails(t, chat)
    BY <1>3 DEF Consume
  <2> QED BY <1>1, <2>1, RunFailsEffect DEF Consume
<1>4. CASE ~(stream[t] = "completed" /\ daemon = "up" /\ chat.active = t) /\ ~MayContinue(t)
  <2>1. StopsHere(t, chat) /\ UNCHANGED disposal
    BY <1>4 DEF Consume
  <2> QED BY <1>1, <2>1, StopsHereEffect DEF Consume
<1> QED BY <1>2, <1>3, <1>4

LEMMA InterruptRejectedEffect ==
  ASSUME chat \in Chat, request \in [Turns -> Ids], NEW t \in Turns, InterruptRejected(t)
  PROVE  /\ SameAgent(chat', chat)
         /\ InterruptsReject
         /\ \/ /\ chat.active = None
               /\ call' = [call EXCEPT ![t] = "done"]
               /\ UNCHANGED <<chat, disposal, outcomes>>
            \/ /\ chat.active \in Turns
               /\ outcomes' = [outcomes EXCEPT ![chat.active] = @ \cup {"failed"}]
               /\ \/ /\ chat.stuck
                     /\ ShowsTurn(chat', None, request[chat.active], "failed")
                     /\ call' = [call EXCEPT ![t] = "done"]
                     /\ disposal' = disposal
                  \/ /\ ~chat.stuck
                     /\ ShowsTurn(chat', chat.active, request[chat.active], chat.status)
                     /\ call' = [call EXCEPT ![t] = "fail"]
                     /\ disposal' = StartDisposal
         /\ UNCHANGED <<mode, daemon, restarts, begun, request, run, stream, agents,
                        working, leases, op>>
<1>1. CASE chat.active = None
  BY <1>1 DEF InterruptRejected, SameAgent, HoldsAgent
<1>2. CASE chat.active # None
  <2>1. chat.active \in Turns /\ FinishWithError(chat) /\ call' = [call EXCEPT ![t] = Waiting(chat)]
    BY <1>2, TurnFacts DEF InterruptRejected, Chat
  <2>2. /\ SameAgent(chat', chat)
        /\ IF chat.stuck THEN ShowsTurn(chat', None, request[chat.active], "failed")
                         ELSE ShowsTurn(chat', chat.active, request[chat.active], chat.status)
    BY <2>1, FinishWithErrorEffect
  <2>3. /\ outcomes' = [outcomes EXCEPT ![chat.active] = @ \cup {"failed"}]
        /\ disposal' = IF chat.stuck THEN disposal ELSE StartDisposal
    BY <2>1 DEF FinishWithError, Outcome
  <2> QED BY <2>1, <2>2, <2>3 DEF InterruptRejected, Waiting
<1> QED BY <1>1, <1>2

(* The types, a group of variables at a time.                              *)
ReviewTypes ==
  /\ mode \in Modes /\ daemon \in {"up", "closing", "stopped"} /\ restarts \in 0..MaxRestarts
  /\ begun \in 0..MaxTurns /\ op \in {"none", "seal", "refresh", "commit"}
  /\ disposal \in [pc: {"none", "wait", "agent", "release", "revoke", "handler"}, agent: Ids]
TurnTypes ==
  /\ run \in [Turns -> Runs]
  /\ call \in [Turns -> {"none", "pending", "fail", "done"}]
  /\ outcomes \in [Turns -> SUBSET {"completed", "stopped", "failed"}]
RequestTypes ==
  /\ chat \in Chat /\ request \in [Turns -> Ids] /\ KnownTurns
  /\ \A t \in 1..begun : request[t] \in 1..t
AgentTypes ==
  /\ stream \in [Turns -> {"none", "open"} \cup Ended]
  /\ agents \in [Turns -> {"none", "starting", "ready", "closing", "closed"}]
  /\ working \in [Turns -> Ids] /\ leases \subseteq Turns

(* The groups together are the type invariant and KnownTurns.              *)
LEMMA TypeGroups ==
  TypeOK /\ KnownTurns <=> ReviewTypes /\ TurnTypes /\ RequestTypes /\ AgentTypes
BY DEF TypeOK, ReviewTypes, TurnTypes, RequestTypes, AgentTypes

(* A turn that throws or gives up.                                         *)
LEMMA ThrewTypes ==
  ASSUME ReviewTypes, TurnTypes, NEW t \in Turns, Threw(t)
  PROVE  /\ run' \in [Turns -> Runs]
         /\ outcomes' \in [Turns -> SUBSET {"completed", "stopped", "failed"}]
         /\ disposal' \in {disposal, StartDisposal}
BY DEF TurnTypes, Threw, Runs

LEMMA GaveUpTypes ==
  ASSUME TurnTypes, NEW t \in Turns, GaveUp(t)
  PROVE  /\ run' \in [Turns -> Runs]
         /\ outcomes' \in [Turns -> SUBSET {"completed", "stopped", "failed"}]
BY DEF TurnTypes, GaveUp, Runs

(* What either leaves of the chat's turn and of the request to retry.      *)
LEMMA TurnLeft ==
  ASSUME chat \in Chat, NEW t \in Turns, Threw(t) \/ GaveUp(t)
  PROVE  /\ chat' \in Chat /\ chat'.active \in {chat.active, None}
         /\ chat'.retry # chat.retry => chat.active = t /\ chat'.retry = request[t]
BY DEF Threw, GaveUp, Current, ShowsTurn

(* Every step keeps the types.                                             *)
LEMMA ReviewTypesStep ==
  ASSUME ReviewTypes, TurnTypes, RequestTypes, AgentTypes, OperationInv, [Next]_vars
  PROVE  ReviewTypes'
<1> USE TurnFacts DEF ReviewTypes, Modes
<1>0. chat \in Chat /\ request \in [Turns -> Ids] /\ begun \in 0..MaxTurns
  BY DEF ReviewTypes, RequestTypes
<1> USE <1>0
<1>1. CASE BeginTurn
  BY <1>1, BeginTurnEffect DEF ShowsTurn, HoldsAgent, SameAgent
<1>2. CASE Interrupt
  BY <1>2, InterruptEffect DEF ShowsTurn, HoldsAgent, SameAgent
<1>3. CASE DisposeStarted
  BY <1>3 DEF DisposeStarted, Chat
<1>4. CASE AgentClosed
  BY <1>4, AgentClosedEffect DEF EndStreams, Idle, ShowsTurn, HoldsAgent, SameAgent
<1>5. CASE ProjectionReleased
  BY <1>5, ProjectionReleasedEffect DEF ShowsTurn, HoldsAgent, SameAgent
<1>6. CASE LeaseRevoked
  BY <1>6 DEF LeaseRevoked
<1>7. CASE DisposalEnds
  BY <1>7, DisposalEndsEffect DEF Failing, NoDisposal, ShowsTurn, HoldsAgent, SameAgent
<1>8. CASE RecordSubmission
  BY <1>8 DEF RecordSubmission
<1>9. CASE Seal
  BY <1>9 DEF Seal, Sealable, StartDisposal
<1>10. CASE PrepareRefresh
  BY <1>10 DEF PrepareRefresh, StartDisposal
<1>11. CASE RestoreRevision
  BY <1>11, RestoreRevisionEffect DEF ShowsTurn, HoldsAgent, SameAgent
<1>12. CASE Remove
  BY <1>12 DEF Remove, StartDisposal
<1>13. CASE Close
  BY <1>13 DEF Close, StartDisposal
<1>14. CASE Stop
  BY <1>14 DEF Stop
<1>15. CASE Restart
  <2>1. /\ daemon' = "up" /\ restarts' = restarts + 1 /\ restarts < MaxRestarts
        /\ disposal' = NoDisposal /\ UNCHANGED <<mode, begun, op>>
    BY <1>15, RestartEffect
  <2> QED BY <2>1 DEF NoDisposal
<1>16. ASSUME NEW t \in Turns, OpenLease(t) PROVE ReviewTypes'
  BY <1>16, OpenLeaseEffect DEF ShowsTurn, HoldsAgent, SameAgent
<1>17. ASSUME NEW t \in Turns, StartFails(t) PROVE ReviewTypes'
  <2>1. disposal' \in {disposal, StartDisposal} /\ UNCHANGED <<mode, daemon, restarts, begun, op>>
    BY <1>17, StartFailsEffect, ThrewTypes
  <2> QED BY <2>1 DEF StartDisposal
<1>18. ASSUME NEW t \in Turns, Spawned(t) PROVE ReviewTypes'
  BY <1>18, SpawnedEffect DEF GaveUp, MayContinue, ShowsTurn, HoldsAgent, SameAgent
<1>19. ASSUME NEW t \in Turns, Send(t) PROVE ReviewTypes'
  BY <1>19 DEF Send, MayContinue, Sendable
<1>20. ASSUME NEW t \in Turns, BuildFails(t) PROVE ReviewTypes'
  BY <1>20, BuildFailsEffect DEF Threw, Current, StartDisposal, ShowsTurn, HoldsAgent, SameAgent
<1>21. ASSUME NEW t \in Turns, BuildStops(t) PROVE ReviewTypes'
  BY <1>21, BuildStopsEffect DEF GaveUp, MayContinue, ShowsTurn, HoldsAgent, SameAgent
<1>22. ASSUME NEW t \in Turns, Consume(t) PROVE ReviewTypes'
  BY <1>22, ConsumeEffect
     DEF Threw, Current, GaveUp, MayContinue, StartDisposal, Ended, ShowsTurn, HoldsAgent,
         SameAgent
<1>23. ASSUME NEW t \in Turns, LeaveStream(t) PROVE ReviewTypes'
  BY <1>23 DEF LeaveStream, EndStreams, Idle
<1>24. ASSUME NEW t \in Turns, InterruptHonoured(t) PROVE ReviewTypes'
  BY <1>24 DEF InterruptHonoured
<1>25. ASSUME NEW t \in Turns, InterruptRejected(t) PROVE ReviewTypes'
  BY <1>25, InterruptRejectedEffect DEF StartDisposal, ShowsTurn, HoldsAgent, SameAgent
<1>26. ASSUME NEW t \in Turns, AgentEnds(t) PROVE ReviewTypes'
  BY <1>26 DEF AgentEnds, Idle
<1>27. ASSUME NEW t \in Turns, AgentDies(t) PROVE ReviewTypes'
  BY <1>27 DEF AgentDies, EndStreams, Idle
<1>28. CASE UNCHANGED vars
  BY <1>28 DEF vars
<1> QED
  BY <1>1, <1>2, <1>3, <1>4, <1>5, <1>6, <1>7, <1>8, <1>9, <1>10, <1>11, <1>12, <1>13, <1>14,
     <1>15, <1>16, <1>17, <1>18, <1>19, <1>20, <1>21, <1>22, <1>23, <1>24, <1>25, <1>26, <1>27,
     <1>28
  DEF Next, Running, DisposalStep, RunStep, InterruptSettles

(* Every step keeps the coroutines' types.                                 *)
LEMMA TurnTypesStep ==
  ASSUME ReviewTypes, TurnTypes, RequestTypes, AgentTypes, OperationInv, [Next]_vars
  PROVE  TurnTypes'
<1> USE TurnFacts DEF TurnTypes, Runs
<1>0. chat \in Chat /\ request \in [Turns -> Ids] /\ begun \in 0..MaxTurns
  BY DEF ReviewTypes, RequestTypes
<1> USE <1>0
<1>1. CASE BeginTurn
  BY <1>1, BeginTurnEffect DEF ShowsTurn, HoldsAgent, SameAgent
<1>2. CASE Interrupt
  BY <1>2, InterruptEffect DEF ShowsTurn, HoldsAgent, SameAgent
<1>3. CASE DisposeStarted
  BY <1>3 DEF DisposeStarted
<1>4. CASE AgentClosed
  BY <1>4, AgentClosedEffect DEF EndStreams, Idle, ShowsTurn, HoldsAgent, SameAgent
<1>5. CASE ProjectionReleased
  BY <1>5, ProjectionReleasedEffect DEF ShowsTurn, HoldsAgent, SameAgent
<1>6. CASE LeaseRevoked
  BY <1>6 DEF LeaseRevoked
<1>7. CASE DisposalEnds
  BY <1>7, DisposalEndsEffect DEF Failing, NoDisposal, ShowsTurn, HoldsAgent, SameAgent
<1>8. CASE RecordSubmission
  BY <1>8 DEF RecordSubmission
<1>9. CASE Seal
  BY <1>9 DEF Seal, Sealable, StartDisposal
<1>10. CASE PrepareRefresh
  BY <1>10 DEF PrepareRefresh, StartDisposal
<1>11. CASE RestoreRevision
  BY <1>11, RestoreRevisionEffect DEF ShowsTurn, HoldsAgent, SameAgent
<1>12. CASE Remove
  BY <1>12 DEF Remove, StartDisposal
<1>13. CASE Close
  BY <1>13 DEF Close, StartDisposal
<1>14. CASE Stop
  BY <1>14 DEF Stop
<1>15. CASE Restart
  <2>1. /\ run' = [t \in Turns |-> IF run[t] = "none" THEN "none" ELSE "done"]
        /\ call' = [t \in Turns |-> IF call[t] = "none" THEN "none" ELSE "done"]
    BY <1>15, RestartEffect
  <2>2. outcomes' = IF chat.active = None THEN outcomes
                    ELSE [outcomes EXCEPT ![chat.active] = @ \cup {"failed"}]
    BY <1>15, RestartEffect
  <2>3. run' \in [Turns -> Runs] /\ call' \in [Turns -> {"none", "pending", "fail", "done"}]
    BY <2>1
  <2>4. outcomes' \in [Turns -> SUBSET {"completed", "stopped", "failed"}]
    BY <2>2
  <2> QED BY <2>3, <2>4
<1>16. ASSUME NEW t \in Turns, OpenLease(t) PROVE TurnTypes'
  BY <1>16, OpenLeaseEffect DEF ShowsTurn, HoldsAgent, SameAgent
<1>17. ASSUME NEW t \in Turns, StartFails(t) PROVE TurnTypes'
  <2>1. Threw(t) /\ UNCHANGED call
    BY <1>17, StartFailsEffect
  <2> QED BY <2>1, ThrewTypes
<1>18. ASSUME NEW t \in Turns, Spawned(t) PROVE TurnTypes'
  <2>1. \/ run' = [run EXCEPT ![t] = "build"] /\ UNCHANGED outcomes
        \/ GaveUp(t)
    BY <1>18, SpawnedEffect
  <2>2. UNCHANGED call
    BY <1>18, SpawnedEffect
  <2> QED BY <2>1, <2>2, GaveUpTypes
<1>19. ASSUME NEW t \in Turns, Send(t) PROVE TurnTypes'
  BY <1>19 DEF Send, MayContinue, Sendable
<1>20. ASSUME NEW t \in Turns, BuildFails(t) PROVE TurnTypes'
  BY <1>20, BuildFailsEffect DEF Threw, Current, StartDisposal, ShowsTurn, HoldsAgent, SameAgent
<1>21. ASSUME NEW t \in Turns, BuildStops(t) PROVE TurnTypes'
  <2>1. GaveUp(t) /\ UNCHANGED call
    BY <1>21, BuildStopsEffect
  <2> QED BY <2>1, GaveUpTypes
<1>22. ASSUME NEW t \in Turns, Consume(t) PROVE TurnTypes'
  BY <1>22, ConsumeEffect
     DEF Threw, Current, GaveUp, MayContinue, StartDisposal, Ended, ShowsTurn, HoldsAgent,
         SameAgent
<1>23. ASSUME NEW t \in Turns, LeaveStream(t) PROVE TurnTypes'
  BY <1>23 DEF LeaveStream, EndStreams, Idle
<1>24. ASSUME NEW t \in Turns, InterruptHonoured(t) PROVE TurnTypes'
  BY <1>24 DEF InterruptHonoured
<1>25. ASSUME NEW t \in Turns, InterruptRejected(t) PROVE TurnTypes'
  BY SMTT(40), <1>25, InterruptRejectedEffect DEF StartDisposal, ShowsTurn, HoldsAgent, SameAgent
<1>26. ASSUME NEW t \in Turns, AgentEnds(t) PROVE TurnTypes'
  BY <1>26 DEF AgentEnds, Idle
<1>27. ASSUME NEW t \in Turns, AgentDies(t) PROVE TurnTypes'
  BY <1>27 DEF AgentDies, EndStreams, Idle
<1>28. CASE UNCHANGED vars
  BY <1>28 DEF vars
<1> QED
  BY <1>1, <1>2, <1>3, <1>4, <1>5, <1>6, <1>7, <1>8, <1>9, <1>10, <1>11, <1>12, <1>13, <1>14,
     <1>15, <1>16, <1>17, <1>18, <1>19, <1>20, <1>21, <1>22, <1>23, <1>24, <1>25, <1>26, <1>27,
     <1>28
  DEF Next, Running, DisposalStep, RunStep, InterruptSettles

(* Every step keeps the agents' types.                                     *)
LEMMA AgentTypesStep ==
  ASSUME ReviewTypes, TurnTypes, RequestTypes, AgentTypes, OperationInv, [Next]_vars
  PROVE  AgentTypes'
<1> USE TurnFacts DEF AgentTypes, Ended
<1>0. chat \in Chat /\ request \in [Turns -> Ids] /\ begun \in 0..MaxTurns
  BY DEF ReviewTypes, RequestTypes
<1> USE <1>0
<1>1. CASE BeginTurn
  BY <1>1, BeginTurnEffect DEF ShowsTurn, HoldsAgent, SameAgent
<1>2. CASE Interrupt
  BY <1>2, InterruptEffect DEF ShowsTurn, HoldsAgent, SameAgent
<1>3. CASE DisposeStarted
  BY <1>3 DEF DisposeStarted
<1>4. CASE AgentClosed
  BY ZenonT(60), <1>4, AgentClosedEffect DEF EndStreams, Idle, ShowsTurn, HoldsAgent, SameAgent
<1>5. CASE ProjectionReleased
  BY <1>5, ProjectionReleasedEffect DEF ShowsTurn, HoldsAgent, SameAgent
<1>6. CASE LeaseRevoked
  BY <1>6 DEF LeaseRevoked
<1>7. CASE DisposalEnds
  BY <1>7, DisposalEndsEffect DEF Failing, NoDisposal, ShowsTurn, HoldsAgent, SameAgent
<1>8. CASE RecordSubmission
  BY <1>8 DEF RecordSubmission
<1>9. CASE Seal
  BY <1>9 DEF Seal, Sealable, StartDisposal
<1>10. CASE PrepareRefresh
  BY <1>10 DEF PrepareRefresh, StartDisposal
<1>11. CASE RestoreRevision
  BY <1>11, RestoreRevisionEffect DEF ShowsTurn, HoldsAgent, SameAgent
<1>12. CASE Remove
  BY <1>12 DEF Remove, StartDisposal
<1>13. CASE Close
  BY <1>13 DEF Close, StartDisposal
<1>14. CASE Stop
  BY <1>14 DEF Stop
<1>15. CASE Restart
  <2>1. /\ stream' = [t \in Turns |-> IF stream[t] = "open" THEN "ended" ELSE stream[t]]
        /\ agents' = [t \in Turns |-> IF agents[t] = "none" THEN "none" ELSE "closed"]
        /\ working' = [t \in Turns |-> None] /\ leases' = {}
    BY <1>15, RestartEffect
  <2> QED BY <2>1
<1>16. ASSUME NEW t \in Turns, OpenLease(t) PROVE AgentTypes'
  <2>1. /\ leases' = leases \cup {t} /\ agents' = [agents EXCEPT ![t] = "starting"]
        /\ UNCHANGED <<stream, working>>
    BY <1>16, OpenLeaseEffect
  <2> QED BY <2>1
<1>17. ASSUME NEW t \in Turns, StartFails(t) PROVE AgentTypes'
  <2>1. /\ agents' \in {agents, [agents EXCEPT ![t] = "closed"]}
        /\ UNCHANGED <<stream, working, leases>>
    BY <1>17, StartFailsEffect
  <2> QED BY <2>1
<1>18. ASSUME NEW t \in Turns, Spawned(t) PROVE AgentTypes'
  BY <1>18, SpawnedEffect DEF GaveUp, MayContinue, ShowsTurn, HoldsAgent, SameAgent
<1>19. ASSUME NEW t \in Turns, Send(t) PROVE AgentTypes'
  BY <1>19 DEF Send, MayContinue, Sendable
<1>20. ASSUME NEW t \in Turns, BuildFails(t) PROVE AgentTypes'
  BY <1>20, BuildFailsEffect DEF Threw, Current, StartDisposal, ShowsTurn, HoldsAgent, SameAgent
<1>21. ASSUME NEW t \in Turns, BuildStops(t) PROVE AgentTypes'
  BY ZenonT(60), <1>21, BuildStopsEffect
     DEF GaveUp, MayContinue, ShowsTurn, HoldsAgent, SameAgent
<1>22. ASSUME NEW t \in Turns, Consume(t) PROVE AgentTypes'
  BY <1>22, ConsumeEffect
     DEF Threw, Current, GaveUp, MayContinue, StartDisposal, Ended, ShowsTurn, HoldsAgent,
         SameAgent
<1>23. ASSUME NEW t \in Turns, LeaveStream(t) PROVE AgentTypes'
  BY <1>23 DEF LeaveStream, EndStreams, Idle
<1>24. ASSUME NEW t \in Turns, InterruptHonoured(t) PROVE AgentTypes'
  BY <1>24 DEF InterruptHonoured
<1>25. ASSUME NEW t \in Turns, InterruptRejected(t) PROVE AgentTypes'
  BY <1>25, InterruptRejectedEffect DEF StartDisposal, ShowsTurn, HoldsAgent, SameAgent
<1>26. ASSUME NEW t \in Turns, AgentEnds(t) PROVE AgentTypes'
  BY <1>26 DEF AgentEnds, Idle
<1>27. ASSUME NEW t \in Turns, AgentDies(t) PROVE AgentTypes'
  BY <1>27 DEF AgentDies, EndStreams, Idle
<1>28. CASE UNCHANGED vars
  BY <1>28 DEF vars
<1> QED
  BY <1>1, <1>2, <1>3, <1>4, <1>5, <1>6, <1>7, <1>8, <1>9, <1>10, <1>11, <1>12, <1>13, <1>14,
     <1>15, <1>16, <1>17, <1>18, <1>19, <1>20, <1>21, <1>22, <1>23, <1>24, <1>25, <1>26, <1>27,
     <1>28
  DEF Next, Running, DisposalStep, RunStep, InterruptSettles

(* Every step keeps the chat's type, and its requests of begun turns.      *)
LEMMA RequestTypesStep ==
  ASSUME ReviewTypes, TurnTypes, RequestTypes, AgentTypes, OperationInv, [Next]_vars
  PROVE  RequestTypes'
<1> USE TurnFacts DEF RequestTypes, KnownTurns
<1>0. chat \in Chat /\ request \in [Turns -> Ids] /\ begun \in 0..MaxTurns
  BY DEF ReviewTypes, RequestTypes
<1> USE <1>0
<1>1. CASE BeginTurn
  <2>1. PICK r \in {begun + 1, chat.retry} \ {None} :
               request' = [request EXCEPT ![begun + 1] = r]
    BY <1>1, BeginTurnEffect
  <2>2. /\ begun + 1 \in Turns /\ begun' = begun + 1
        /\ chat' \in Chat /\ chat'.active = begun + 1 /\ chat'.retry = None
    BY <1>1, BeginTurnEffect DEF ShowsTurn
  <2>3. r \in Ids /\ r \in 1..begun + 1
    BY <2>2 DEF Chat
  <2>4. \A u \in 1..begun : u \in Turns /\ request'[u] = request[u]
    BY <2>1, <2>2
  <2>5. request' \in [Turns -> Ids] /\ request'[begun + 1] = r
    BY <2>1, <2>2, <2>3
  <2> QED BY <2>2, <2>3, <2>4, <2>5
<1>2. CASE Interrupt
  BY <1>2, InterruptEffect DEF ShowsTurn, HoldsAgent, SameAgent
<1>3. CASE DisposeStarted
  BY <1>3 DEF DisposeStarted
<1>4. CASE AgentClosed
  BY <1>4, AgentClosedEffect DEF EndStreams, Idle, ShowsTurn, HoldsAgent, SameAgent
<1>5. CASE ProjectionReleased
  BY <1>5, ProjectionReleasedEffect DEF ShowsTurn, HoldsAgent, SameAgent
<1>6. CASE LeaseRevoked
  BY <1>6 DEF LeaseRevoked
<1>7. CASE DisposalEnds
  BY <1>7, DisposalEndsEffect DEF Failing, NoDisposal, ShowsTurn, HoldsAgent, SameAgent
<1>8. CASE RecordSubmission
  BY <1>8 DEF RecordSubmission
<1>9. CASE Seal
  BY <1>9 DEF Seal, Sealable, StartDisposal
<1>10. CASE PrepareRefresh
  BY <1>10 DEF PrepareRefresh, StartDisposal
<1>11. CASE RestoreRevision
  <2>1. /\ chat' = chat \/ ShowsTurn(chat', None, None, "idle")
        /\ UNCHANGED <<request, begun>>
    BY <1>11, RestoreRevisionEffect
  <2> QED BY <2>1 DEF ShowsTurn
<1>12. CASE Remove
  BY <1>12 DEF Remove, StartDisposal
<1>13. CASE Close
  BY <1>13 DEF Close, StartDisposal
<1>14. CASE Stop
  BY <1>14 DEF Stop
<1>15. CASE Restart
  <2>1. /\ chat' \in Chat /\ chat'.active = None
        /\ chat'.retry = IF chat.active = None THEN chat.retry ELSE request[chat.active]
        /\ UNCHANGED <<request, begun>>
    BY <1>15, RestartEffect DEF ShowsTurn
  <2>2. chat.active \in Ids
    BY DEF Chat
  <2> QED BY <2>1, <2>2
<1>16. ASSUME NEW t \in Turns, OpenLease(t) PROVE RequestTypes'
  BY <1>16, OpenLeaseEffect DEF ShowsTurn, HoldsAgent, SameAgent
<1>17. ASSUME NEW t \in Turns, StartFails(t) PROVE RequestTypes'
  <2>1. Threw(t) /\ UNCHANGED <<request, begun>>
    BY <1>17, StartFailsEffect
  <2>2. /\ chat' \in Chat /\ chat'.active \in {chat.active, None}
        /\ chat'.retry # chat.retry => chat.active = t /\ chat'.retry = request[t]
    BY <2>1, TurnLeft
  <2> QED BY <2>1, <2>2
<1>18. ASSUME NEW t \in Turns, Spawned(t) PROVE RequestTypes'
  <2>1. /\ (ShowsTurn(chat', t, chat.retry, "running") /\ chat.active = t) \/ GaveUp(t)
        /\ UNCHANGED <<request, begun>>
    BY <1>18, SpawnedEffect DEF MayContinue
  <2>2. /\ chat' \in Chat /\ chat'.active \in {chat.active, None}
        /\ chat'.retry # chat.retry => chat.active = t /\ chat'.retry = request[t]
    BY <2>1, TurnLeft DEF ShowsTurn
  <2> QED BY <2>1, <2>2
<1>19. ASSUME NEW t \in Turns, Send(t) PROVE RequestTypes'
  BY <1>19 DEF Send, MayContinue, Sendable
<1>20. ASSUME NEW t \in Turns, BuildFails(t) PROVE RequestTypes'
  <2>1. Threw(t) /\ UNCHANGED <<request, begun>>
    BY <1>20, BuildFailsEffect
  <2>2. /\ chat' \in Chat /\ chat'.active \in {chat.active, None}
        /\ chat'.retry # chat.retry => chat.active = t /\ chat'.retry = request[t]
    BY <2>1, TurnLeft
  <2> QED BY <2>1, <2>2
<1>21. ASSUME NEW t \in Turns, BuildStops(t) PROVE RequestTypes'
  <2>1. GaveUp(t) /\ UNCHANGED <<request, begun>>
    BY <1>21, BuildStopsEffect
  <2>2. /\ chat' \in Chat /\ chat'.active \in {chat.active, None}
        /\ chat'.retry # chat.retry => chat.active = t /\ chat'.retry = request[t]
    BY <2>1, TurnLeft
  <2> QED BY <2>1, <2>2
<1>22. ASSUME NEW t \in Turns, Consume(t) PROVE RequestTypes'
  BY <1>22, ConsumeEffect
     DEF Threw, Current, GaveUp, MayContinue, StartDisposal, Ended, ShowsTurn, HoldsAgent,
         SameAgent
<1>23. ASSUME NEW t \in Turns, LeaveStream(t) PROVE RequestTypes'
  BY <1>23 DEF LeaveStream, EndStreams, Idle
<1>24. ASSUME NEW t \in Turns, InterruptHonoured(t) PROVE RequestTypes'
  BY <1>24 DEF InterruptHonoured
<1>25. ASSUME NEW t \in Turns, InterruptRejected(t) PROVE RequestTypes'
  BY <1>25, InterruptRejectedEffect DEF StartDisposal, ShowsTurn, HoldsAgent, SameAgent
<1>26. ASSUME NEW t \in Turns, AgentEnds(t) PROVE RequestTypes'
  BY <1>26 DEF AgentEnds, Idle
<1>27. ASSUME NEW t \in Turns, AgentDies(t) PROVE RequestTypes'
  BY <1>27 DEF AgentDies, EndStreams, Idle
<1>28. CASE UNCHANGED vars
  BY <1>28 DEF vars
<1> QED
  BY <1>1, <1>2, <1>3, <1>4, <1>5, <1>6, <1>7, <1>8, <1>9, <1>10, <1>11, <1>12, <1>13, <1>14,
     <1>15, <1>16, <1>17, <1>18, <1>19, <1>20, <1>21, <1>22, <1>23, <1>24, <1>25, <1>26, <1>27,
     <1>28
  DEF Next, Running, DisposalStep, RunStep, InterruptSettles

(* An operation from outside keeps turns out, and turns keep it out.       *)
LEMMA OperationStep ==
  ASSUME TypeOK, OperationInv, [Next]_vars
  PROVE  OperationInv'
<1> USE TurnFacts DEF TypeOK, OperationInv
<1>1. CASE BeginTurn
  BY <1>1, BeginTurnEffect DEF ShowsTurn, HoldsAgent, SameAgent
<1>2. CASE Interrupt
  BY <1>2, InterruptEffect DEF ShowsTurn, HoldsAgent, SameAgent
<1>3. CASE DisposeStarted
  BY <1>3 DEF DisposeStarted
<1>4. CASE AgentClosed
  BY <1>4, AgentClosedEffect DEF EndStreams, Idle, ShowsTurn, HoldsAgent, SameAgent
<1>5. CASE ProjectionReleased
  BY <1>5, ProjectionReleasedEffect DEF ShowsTurn, HoldsAgent, SameAgent
<1>6. CASE LeaseRevoked
  BY <1>6 DEF LeaseRevoked
<1>7. CASE DisposalEnds
  <2>1. op' = IF op = "refresh" /\ ~chat.stuck THEN "commit" ELSE "none"
    BY <1>7, DisposalEndsEffect
  <2>2. mode' = IF op = "refresh" /\ chat.stuck
                THEN (IF mode = "refreshing" THEN "draft" ELSE "submitted") ELSE mode
    BY <1>7, DisposalEndsEffect
  <2>3. chat'.active \in {chat.active, None} /\ UNCHANGED daemon
    BY <1>7, DisposalEndsEffect DEF ShowsTurn
  <2>4. disposal'.pc = "none" /\ disposal.pc = "handler"
    BY <1>7, DisposalEndsEffect DEF NoDisposal
  <2>5. CASE op = "refresh"
    BY <2>1, <2>2, <2>3, <2>4, <2>5
  <2>6. CASE op # "refresh"
    BY <2>1, <2>2, <2>3, <2>4, <2>6
  <2> QED BY <2>5, <2>6
<1>8. CASE RecordSubmission
  BY <1>8 DEF RecordSubmission
<1>9. CASE Seal
  BY <1>9 DEF Seal, Sealable, StartDisposal
<1>10. CASE PrepareRefresh
  BY <1>10 DEF PrepareRefresh, StartDisposal
<1>11. CASE RestoreRevision
  BY <1>11, RestoreRevisionEffect DEF ShowsTurn, HoldsAgent, SameAgent
<1>12. CASE Remove
  BY <1>12 DEF Remove, StartDisposal
<1>13. CASE Close
  BY <1>13 DEF Close, StartDisposal
<1>14. CASE Stop
  BY <1>14 DEF Stop
<1>15. CASE Restart
  BY <1>15, RestartEffect DEF NoDisposal, ShowsTurn, HoldsAgent, SameAgent
<1>16. ASSUME NEW t \in Turns, OpenLease(t) PROVE OperationInv'
  BY <1>16, OpenLeaseEffect DEF ShowsTurn, HoldsAgent, SameAgent
<1>17. ASSUME NEW t \in Turns, StartFails(t) PROVE OperationInv'
  <2>1. Threw(t) /\ UNCHANGED <<mode, daemon, op>>
    BY <1>17, StartFailsEffect
  <2>2. /\ chat'.active \in {chat.active, None}
        /\ Current(t) \/ UNCHANGED disposal
    BY <2>1 DEF Threw, ShowsTurn, Current
  <2> QED BY <2>1, <2>2 DEF Current
<1>18. ASSUME NEW t \in Turns, Spawned(t) PROVE OperationInv'
  BY <1>18, SpawnedEffect DEF GaveUp, MayContinue, ShowsTurn, HoldsAgent, SameAgent
<1>19. ASSUME NEW t \in Turns, Send(t) PROVE OperationInv'
  BY <1>19 DEF Send, MayContinue, Sendable
<1>20. ASSUME NEW t \in Turns, BuildFails(t) PROVE OperationInv'
  BY <1>20, BuildFailsEffect DEF Threw, Current, StartDisposal, ShowsTurn, HoldsAgent, SameAgent
<1>21. ASSUME NEW t \in Turns, BuildStops(t) PROVE OperationInv'
  BY <1>21, BuildStopsEffect DEF GaveUp, MayContinue, ShowsTurn, HoldsAgent, SameAgent
<1>22. ASSUME NEW t \in Turns, Consume(t) PROVE OperationInv'
  BY <1>22, ConsumeEffect
     DEF Threw, Current, GaveUp, MayContinue, StartDisposal, Ended, ShowsTurn, HoldsAgent,
         SameAgent
<1>23. ASSUME NEW t \in Turns, LeaveStream(t) PROVE OperationInv'
  BY <1>23 DEF LeaveStream, EndStreams, Idle
<1>24. ASSUME NEW t \in Turns, InterruptHonoured(t) PROVE OperationInv'
  BY <1>24 DEF InterruptHonoured
<1>25. ASSUME NEW t \in Turns, InterruptRejected(t), daemon # "stopped" PROVE OperationInv'
  <2>1. /\ UNCHANGED <<mode, daemon, op>>
        /\ chat'.active \in {chat.active, None}
        /\ chat.active = None => UNCHANGED disposal
    BY <1>25, InterruptRejectedEffect DEF ShowsTurn
  <2>2. daemon # "stopped"
    BY <1>25
  <2> QED BY <2>1, <2>2
<1>26. ASSUME NEW t \in Turns, AgentEnds(t) PROVE OperationInv'
  BY <1>26 DEF AgentEnds, Idle
<1>27. ASSUME NEW t \in Turns, AgentDies(t) PROVE OperationInv'
  BY <1>27 DEF AgentDies, EndStreams, Idle
<1>28. CASE UNCHANGED vars
  BY <1>28 DEF vars
<1> QED
  BY <1>1, <1>2, <1>3, <1>4, <1>5, <1>6, <1>7, <1>8, <1>9, <1>10, <1>11, <1>12, <1>13, <1>14,
     <1>15, <1>16, <1>17, <1>18, <1>19, <1>20, <1>21, <1>22, <1>23, <1>24, <1>25, <1>26, <1>27,
     <1>28
  DEF Next, Running, DisposalStep, RunStep, InterruptSettles

(* The status follows the current turn.                                    *)
LEMMA BusyStep ==
  ASSUME TypeOK, OperationInv, LooksBusy, [Next]_vars
  PROVE  LooksBusy'
<1> USE TurnFacts DEF TypeOK, OperationInv, LooksBusy, Active
<1>1. CASE BeginTurn
  BY <1>1, BeginTurnEffect DEF ShowsTurn, HoldsAgent, SameAgent
<1>2. CASE Interrupt
  BY <1>2, InterruptEffect DEF ShowsTurn, HoldsAgent, SameAgent
<1>3. CASE DisposeStarted
  BY <1>3 DEF DisposeStarted
<1>4. CASE AgentClosed
  BY <1>4, AgentClosedEffect DEF EndStreams, Idle, ShowsTurn, HoldsAgent, SameAgent
<1>5. CASE ProjectionReleased
  BY <1>5, ProjectionReleasedEffect DEF ShowsTurn, HoldsAgent, SameAgent
<1>6. CASE LeaseRevoked
  BY <1>6 DEF LeaseRevoked
<1>7. CASE DisposalEnds
  BY <1>7, DisposalEndsEffect DEF Failing, NoDisposal, ShowsTurn, HoldsAgent, SameAgent
<1>8. CASE RecordSubmission
  BY <1>8 DEF RecordSubmission
<1>9. CASE Seal
  BY <1>9 DEF Seal, Sealable, StartDisposal
<1>10. CASE PrepareRefresh
  BY <1>10 DEF PrepareRefresh, StartDisposal
<1>11. CASE RestoreRevision
  BY <1>11, RestoreRevisionEffect DEF ShowsTurn, HoldsAgent, SameAgent
<1>12. CASE Remove
  BY <1>12 DEF Remove, StartDisposal
<1>13. CASE Close
  BY <1>13 DEF Close, StartDisposal
<1>14. CASE Stop
  BY <1>14 DEF Stop
<1>15. CASE Restart
  BY <1>15, RestartEffect DEF NoDisposal, ShowsTurn, HoldsAgent, SameAgent
<1>16. ASSUME NEW t \in Turns, OpenLease(t) PROVE LooksBusy'
  BY <1>16, OpenLeaseEffect DEF ShowsTurn, HoldsAgent, SameAgent
<1>17. ASSUME NEW t \in Turns, StartFails(t) PROVE LooksBusy'
  BY ZenonT(60), <1>17, StartFailsEffect
     DEF Threw, Current, StartDisposal, ShowsTurn, HoldsAgent, SameAgent
<1>18. ASSUME NEW t \in Turns, Spawned(t) PROVE LooksBusy'
  <2>1. CASE MayContinue(t)
    BY <1>18, <2>1, SpawnedEffect DEF ShowsTurn, GaveUp, MayContinue
  <2>2. CASE ~MayContinue(t)
    BY <1>18, <2>2, SpawnedEffect DEF ShowsTurn, GaveUp, MayContinue
  <2> QED BY <2>1, <2>2
<1>19. ASSUME NEW t \in Turns, Send(t) PROVE LooksBusy'
  BY <1>19 DEF Send, MayContinue, Sendable
<1>20. ASSUME NEW t \in Turns, BuildFails(t) PROVE LooksBusy'
  BY <1>20, BuildFailsEffect DEF Threw, Current, StartDisposal, ShowsTurn, HoldsAgent, SameAgent
<1>21. ASSUME NEW t \in Turns, BuildStops(t) PROVE LooksBusy'
  BY <1>21, BuildStopsEffect DEF GaveUp, MayContinue, ShowsTurn, HoldsAgent, SameAgent
<1>22. ASSUME NEW t \in Turns, Consume(t) PROVE LooksBusy'
  BY <1>22, ConsumeEffect
     DEF Threw, Current, GaveUp, MayContinue, StartDisposal, Ended, ShowsTurn, HoldsAgent,
         SameAgent
<1>23. ASSUME NEW t \in Turns, LeaveStream(t) PROVE LooksBusy'
  BY <1>23 DEF LeaveStream, EndStreams, Idle
<1>24. ASSUME NEW t \in Turns, InterruptHonoured(t) PROVE LooksBusy'
  BY <1>24 DEF InterruptHonoured
<1>25. ASSUME NEW t \in Turns, InterruptRejected(t) PROVE LooksBusy'
  BY <1>25, InterruptRejectedEffect DEF StartDisposal, ShowsTurn, HoldsAgent, SameAgent
<1>26. ASSUME NEW t \in Turns, AgentEnds(t) PROVE LooksBusy'
  BY <1>26 DEF AgentEnds, Idle
<1>27. ASSUME NEW t \in Turns, AgentDies(t) PROVE LooksBusy'
  BY <1>27 DEF AgentDies, EndStreams, Idle
<1>28. CASE UNCHANGED vars
  BY <1>28 DEF vars
<1> QED
  BY <1>1, <1>2, <1>3, <1>4, <1>5, <1>6, <1>7, <1>8, <1>9, <1>10, <1>11, <1>12, <1>13, <1>14,
     <1>15, <1>16, <1>17, <1>18, <1>19, <1>20, <1>21, <1>22, <1>23, <1>24, <1>25, <1>26, <1>27,
     <1>28
  DEF Next, Running, DisposalStep, RunStep, InterruptSettles

(***************************************************************************)
(* As long as no interruption is rejected, only the coroutine of the       *)
(* current turn ends it, in one of four ways.                              *)
(***************************************************************************)
RunBecomes(t, x) == run'[t] = x /\ \A u \in Turns \ {t} : run'[u] = run[u]
EndsWith(t, o) ==
  /\ outcomes[t] = {} => outcomes'[t] = {o}
  /\ \A u \in Turns \ {t} : outcomes'[u] = outcomes[u]

Completed(t) ==
  /\ daemon = "up" /\ ShowsTurn(chat', None, None, "idle")
  /\ RunBecomes(t, "done") /\ EndsWith(t, "completed") /\ UNCHANGED disposal
Stopped(t) ==
  /\ daemon = "up" /\ ShowsTurn(chat', None, chat.retry, "idle")
  /\ RunBecomes(t, "done") /\ EndsWith(t, "stopped") /\ UNCHANGED disposal
Failed(t) ==
  /\ daemon = "up" /\ ~chat.stuck /\ disposal.pc = "none"
  /\ ShowsTurn(chat', t, request[t], chat.status)
  /\ RunBecomes(t, "fail") /\ EndsWith(t, "failed")
  /\ disposal' = [pc |-> "wait", agent |-> None]
Built(t) ==
  /\ daemon = "up" /\ ShowsTurn(chat', t, chat.retry, "running")
  /\ RunBecomes(t, "build") /\ outcomes' = outcomes
(* The daemon is closing: the turn stays what the next daemon finds.       *)
Cut(t) ==
  /\ daemon # "up" /\ ShowsTurn(chat', t, chat.retry, chat.status)
  /\ RunBecomes(t, "done") /\ UNCHANGED <<disposal, outcomes>>

(* A coroutine that throws is that of the current turn.                    *)
LEMMA ThrewEnds ==
  ASSUME TypeOK, OperationInv, TurnInv, StartInv, WorkInv, NEW t \in Turns, Threw(t),
         run[t] \in {"acquire", "spawn", "build", "stream"}
  PROVE  chat.active = t /\ (Failed(t) \/ Cut(t))
<1>1. /\ run \in [Turns -> Runs]
      /\ outcomes \in [Turns -> SUBSET {"completed", "stopped", "failed"}]
      /\ chat.active = t
  BY DEF TypeOK, TurnInv, Suspended
<1>2. mode # "removed"
  BY <1>1, TurnFacts DEF OperationInv
<1>3. CASE daemon = "up"
  <2>1. ~chat.stuck /\ disposal.pc = "none"
    BY <1>1, <1>3 DEF StartInv, WorkInv
  <2>2. /\ ShowsTurn(chat', t, request[t], chat.status)
        /\ run' = [run EXCEPT ![t] = "fail"]
        /\ outcomes' = [outcomes EXCEPT ![t] = @ \cup {"failed"}]
        /\ disposal' = StartDisposal
    BY <1>1, <1>2, <1>3, <2>1 DEF Threw, Current
  <2>3. disposal' = [pc |-> "wait", agent |-> None]
    BY <2>1, <2>2 DEF StartDisposal
  <2>4. RunBecomes(t, "fail") /\ EndsWith(t, "failed")
    BY <1>1, <2>2 DEF RunBecomes, EndsWith
  <2> QED BY <1>1, <1>3, <2>1, <2>2, <2>3, <2>4 DEF Failed
<1>4. CASE daemon # "up"
  <2>1. /\ ShowsTurn(chat', t, chat.retry, chat.status)
        /\ run' = [run EXCEPT ![t] = "done"] /\ UNCHANGED <<disposal, outcomes>>
    BY <1>1, <1>4 DEF Threw, Current
  <2>2. RunBecomes(t, "done")
    BY <1>1, <2>1 DEF RunBecomes
  <2> QED BY <1>1, <1>4, <2>1, <2>2 DEF Cut
<1> QED BY <1>3, <1>4

(* And so is one that gives up.                                            *)
LEMMA GaveUpEnds ==
  ASSUME TypeOK, TurnInv, NEW t \in Turns, GaveUp(t), UNCHANGED disposal,
         run[t] \in {"spawn", "build", "stream"}
  PROVE  chat.active = t /\ (Stopped(t) \/ Cut(t))
<1>1. /\ run \in [Turns -> Runs]
      /\ outcomes \in [Turns -> SUBSET {"completed", "stopped", "failed"}]
      /\ chat.active = t
  BY DEF TypeOK, TurnInv, Suspended
<1>2. RunBecomes(t, "done")
  BY <1>1 DEF GaveUp, RunBecomes
<1>3. CASE daemon = "up"
  <2>1. EndsWith(t, "stopped")
    BY <1>1, <1>3 DEF GaveUp, EndsWith
  <2> QED BY <1>1, <1>2, <1>3, <2>1 DEF GaveUp, Stopped
<1>4. CASE daemon # "up"
  BY <1>1, <1>2, <1>4 DEF GaveUp, Cut
<1> QED BY <1>3, <1>4

(* What else those steps do.                                               *)
StartFailsDoes(t) ==
  /\ chat.active = t /\ run[t] \in {"acquire", "spawn"}
  /\ HoldsAgent(chat', chat.agent, chat.lease, FALSE, chat.stuck)
  /\ agents' = IF run[t] = "spawn" THEN [agents EXCEPT ![t] = "closed"] ELSE agents
  /\ UNCHANGED <<mode, daemon, restarts, begun, request, stream, call, working,
                 leases, op>>

SpawnedDoes(t) ==
  /\ chat.active = t /\ run[t] = "spawn"
  /\ HoldsAgent(chat', t, chat.lease, FALSE, chat.stuck)
  /\ agents' = [agents EXCEPT ![t] = "ready"]
  /\ UNCHANGED <<mode, daemon, restarts, begun, request, stream, call, working,
                 leases, disposal, op>>

BuildFailsDoes(t) ==
  /\ chat.active = t /\ run[t] = "build" /\ SameAgent(chat', chat)
  /\ UNCHANGED <<mode, daemon, restarts, begun, request, stream, call, agents,
                 working, leases, op>>

BuildStopsDoes(t) ==
  /\ chat.active = t /\ run[t] = "build" /\ SameAgent(chat', chat)
  /\ UNCHANGED <<mode, daemon, restarts, begun, request, stream, call, agents,
                 working, leases, disposal, op>>

ConsumeDoes(t) ==
  /\ chat.active = t /\ run[t] = "stream" /\ stream[t] # "open" /\ SameAgent(chat', chat)
  /\ UNCHANGED <<mode, daemon, restarts, begun, request, stream, call, agents,
                 working, leases, op>>

BeginTurnDoes ==
  /\ begun + 1 \in Turns /\ begun' = begun + 1
  /\ daemon = "up" /\ mode = "draft" /\ chat.active = None /\ op = "none"
  /\ ~chat.stuck /\ chat.status # "unavailable" /\ disposal.pc = "none"
  /\ \A u \in Turns : run[u] \in {"none", "done"}
  /\ ShowsTurn(chat', begun + 1, None, IF chat.agent = None THEN "starting" ELSE "running")
  /\ HoldsAgent(chat', chat.agent, chat.lease, chat.agent = None, chat.stuck)
  /\ RunBecomes(begun + 1, IF chat.agent = None THEN "acquire" ELSE "build")
  /\ UNCHANGED <<mode, daemon, restarts, stream, call, agents, working, leases,
                 disposal, op, outcomes>>

RestartDoes ==
  /\ HoldsAgent(chat', None, None, FALSE, FALSE)
  /\ ShowsTurn(chat', None, IF chat.active = None THEN chat.retry ELSE request[chat.active],
               IF chat.active # None \/ chat.status \in Active
               THEN "failed" ELSE chat.status)
  /\ daemon = "stopped" /\ daemon' = "up" /\ op = "none"
  /\ \A u \in Turns : /\ run'[u] \in {"none", "done"}
                      /\ agents'[u] \in {"none", "closed"}
                      /\ working'[u] = None
                      /\ call'[u] \in {"none", "done"}
                      /\ u # chat.active => outcomes'[u] = outcomes[u]
  /\ leases' = {} /\ disposal'.pc = "none"
  /\ UNCHANGED <<mode, begun, request, op>>

DisposalEndsDoes ==
  /\ HoldsAgent(chat', chat.agent, None, chat.starting, chat.stuck)
  /\ \/ /\ \A u \in Turns : run[u] # "fail"
        /\ IF op = "seal" /\ ~chat.stuck
           THEN ShowsTurn(chat', chat.active, None, "unavailable")
           ELSE ShowsTurn(chat', chat.active, chat.retry, chat.status)
     \/ /\ run[chat.active] = "fail" /\ chat.active \in Turns /\ op = "none"
        /\ ShowsTurn(chat', None, chat.retry, "failed")
  /\ disposal.pc = "handler" /\ disposal'.pc = "none"
  /\ \A u \in Turns : run'[u] = IF run[u] = "fail" THEN "done" ELSE run[u]
  /\ \A u \in Turns : call'[u] # "fail"
  /\ op' = IF op = "refresh" /\ ~chat.stuck THEN "commit" ELSE "none"
  /\ mode' = IF op = "refresh" /\ chat.stuck
             THEN (IF mode = "refreshing" THEN "draft" ELSE "submitted") ELSE mode
  /\ UNCHANGED <<daemon, restarts, begun, request, stream, agents, working, leases,
                 outcomes>>

(* Each step of a coroutine ends the current turn, or goes on with it.     *)
LEMMA StartFailsFacts ==
  ASSUME TypeOK, OperationInv, TurnInv, StartInv, WorkInv, NEW t \in Turns, StartFails(t)
  PROVE  StartFailsDoes(t) /\ (Failed(t) \/ Cut(t))
<1>1. chat \in Chat /\ request \in [Turns -> Ids]
  BY DEF TypeOK
<1> QED BY <1>1, StartFailsEffect, ThrewEnds DEF StartFailsDoes

LEMMA SpawnedFacts ==
  ASSUME TypeOK, TurnInv, NEW t \in Turns, Spawned(t)
  PROVE  SpawnedDoes(t) /\ (Built(t) \/ Stopped(t) \/ Cut(t))
<1>1. chat \in Chat /\ request \in [Turns -> Ids] /\ run \in [Turns -> Runs]
  BY DEF TypeOK
<1>2. CASE ~MayContinue(t) /\ GaveUp(t)
  <2>1. UNCHANGED disposal /\ run[t] = "spawn"
    BY <1>1, SpawnedEffect
  <2>2. chat.active = t /\ (Stopped(t) \/ Cut(t))
    BY <1>2, <2>1, GaveUpEnds
  <2> QED BY <1>1, <2>2, SpawnedEffect DEF SpawnedDoes
<1>3. CASE MayContinue(t)
  <2>1. /\ ShowsTurn(chat', t, chat.retry, "running") /\ run' = [run EXCEPT ![t] = "build"]
        /\ outcomes' = outcomes
    BY <1>1, <1>3, SpawnedEffect
  <2>2. RunBecomes(t, "build")
    BY <1>1, <2>1 DEF RunBecomes
  <2> QED BY <1>1, <1>3, <2>1, <2>2, SpawnedEffect DEF MayContinue, SpawnedDoes, Built
<1> QED BY <1>1, <1>2, <1>3, SpawnedEffect DEF SpawnedDoes

LEMMA BuildFailsFacts ==
  ASSUME TypeOK, OperationInv, TurnInv, StartInv, WorkInv, NEW t \in Turns, BuildFails(t)
  PROVE  BuildFailsDoes(t) /\ (Failed(t) \/ Cut(t))
<1>1. chat \in Chat /\ request \in [Turns -> Ids]
  BY DEF TypeOK
<1> QED BY <1>1, BuildFailsEffect, ThrewEnds DEF BuildFailsDoes

LEMMA BuildStopsFacts ==
  ASSUME TypeOK, TurnInv, NEW t \in Turns, BuildStops(t)
  PROVE  BuildStopsDoes(t) /\ (Stopped(t) \/ Cut(t))
<1>1. chat \in Chat
  BY DEF TypeOK
<1> QED BY <1>1, BuildStopsEffect, GaveUpEnds DEF BuildStopsDoes

LEMMA ConsumeFacts ==
  ASSUME TypeOK, OperationInv, TurnInv, StartInv, WorkInv, NEW t \in Turns, Consume(t)
  PROVE  ConsumeDoes(t) /\ (Completed(t) \/ Failed(t) \/ Stopped(t) \/ Cut(t))
<1>1. /\ chat \in Chat /\ request \in [Turns -> Ids] /\ run \in [Turns -> Runs]
      /\ outcomes \in [Turns -> SUBSET {"completed", "stopped", "failed"}]
  BY DEF TypeOK
<1>2. run[t] = "stream" /\ stream[t] # "open"
  BY <1>1, ConsumeEffect DEF Ended
<1>3. chat.active = t
  BY <1>2 DEF TurnInv, Suspended
<1>4. CASE /\ daemon = "up" /\ chat.active = t
           /\ ShowsTurn(chat', None, None, "idle")
           /\ run' = [run EXCEPT ![t] = "done"]
           /\ outcomes' = [outcomes EXCEPT ![t] = @ \cup {"completed"}]
           /\ disposal' = disposal
  <2>1. RunBecomes(t, "done") /\ EndsWith(t, "completed")
    BY <1>1, <1>4 DEF RunBecomes, EndsWith
  <2>2. Completed(t)
    BY <1>4, <2>1 DEF Completed
  <2> QED BY <1>1, <1>2, <1>3, <2>2, ConsumeEffect DEF ConsumeDoes
<1>5. CASE Threw(t)
  <2>1. Failed(t) \/ Cut(t)
    BY <1>2, <1>5, ThrewEnds
  <2> QED BY <1>1, <1>2, <1>3, <2>1, ConsumeEffect DEF ConsumeDoes
<1>6. CASE GaveUp(t) /\ disposal' = disposal
  <2>1. Stopped(t) \/ Cut(t)
    BY <1>2, <1>6, GaveUpEnds
  <2> QED BY <1>1, <1>2, <1>3, <2>1, ConsumeEffect DEF ConsumeDoes
<1> QED BY <1>1, <1>4, <1>5, <1>6, ConsumeEffect

(* A turn begins when nothing is suspended, disposed of or waited for.     *)
LEMMA BeginTurnFacts ==
  ASSUME TypeOK, OperationInv, TurnInv, DisposalInv, BeginTurn
  PROVE  BeginTurnDoes
<1>1. chat \in Chat /\ begun \in 0..MaxTurns /\ run \in [Turns -> Runs]
      /\ op \in {"none", "seal", "refresh", "commit"}
  BY DEF TypeOK
<1>2. /\ begun + 1 \in Turns /\ begun' = begun + 1
      /\ daemon = "up" /\ mode = "draft" /\ chat.active = None
      /\ ~chat.stuck /\ chat.status # "unavailable"
      /\ ShowsTurn(chat', begun + 1, None, IF chat.agent = None THEN "starting" ELSE "running")
      /\ HoldsAgent(chat', chat.agent, chat.lease, chat.agent = None, chat.stuck)
      /\ UNCHANGED <<mode, daemon, restarts, stream, call, agents, working, leases,
                     disposal, op, outcomes>>
  BY <1>1, BeginTurnEffect
<1>3. run' = [run EXCEPT ![begun + 1] = IF chat.agent = None THEN "acquire" ELSE "build"]
  BY <1>1, BeginTurnEffect
<1>4. RunBecomes(begun + 1, IF chat.agent = None THEN "acquire" ELSE "build")
  BY <1>1, <1>2, <1>3 DEF RunBecomes
<1>5. \A u \in Turns : run[u] \in {"none", "done"}
  BY <1>2, TurnFacts DEF TurnInv, Suspended
<1>6. op = "none"
  BY <1>1, <1>2 DEF OperationInv
<1>7. disposal.pc = "none"
  BY <1>2, <1>5, <1>6 DEF DisposalInv
<1> QED BY <1>2, <1>4, <1>5, <1>6, <1>7 DEF BeginTurnDoes

(* A restarted daemon has no coroutine, agent, lease or disposal.          *)
LEMMA RestartFacts ==
  ASSUME TypeOK, OperationInv, Restart
  PROVE  RestartDoes
<1>1. /\ chat \in Chat /\ request \in [Turns -> Ids] /\ op \in {"none", "seal", "refresh", "commit"}
      /\ outcomes \in [Turns -> SUBSET {"completed", "stopped", "failed"}]
  BY DEF TypeOK
<1>2. /\ HoldsAgent(chat', None, None, FALSE, FALSE)
      /\ ShowsTurn(chat', None, IF chat.active = None THEN chat.retry ELSE request[chat.active],
                   IF chat.active # None \/ chat.status \in Active
                   THEN "failed" ELSE chat.status)
      /\ daemon = "stopped" /\ daemon' = "up" /\ leases' = {} /\ disposal' = NoDisposal
      /\ UNCHANGED <<mode, begun, request, op>>
  BY <1>1, RestartEffect
<1>3. /\ run' = [t \in Turns |-> IF run[t] = "none" THEN "none" ELSE "done"]
      /\ call' = [t \in Turns |-> IF call[t] = "none" THEN "none" ELSE "done"]
      /\ agents' = [t \in Turns |-> IF agents[t] = "none" THEN "none" ELSE "closed"]
      /\ working' = [t \in Turns |-> None]
  BY <1>1, RestartEffect
<1>4. outcomes' = IF chat.active = None THEN outcomes
                  ELSE [outcomes EXCEPT ![chat.active] = @ \cup {"failed"}]
  BY <1>1, RestartEffect
<1>5. \A u \in Turns : u # chat.active => outcomes'[u] = outcomes[u]
  BY <1>1, <1>4
<1>6. op = "none" /\ disposal'.pc = "none"
  BY <1>1, <1>2 DEF OperationInv, NoDisposal
<1> QED BY <1>2, <1>3, <1>5, <1>6 DEF RestartDoes

(* A disposal ends a turn exactly when it was the turn that failed.        *)
LEMMA DisposalEndsFacts ==
  ASSUME ~InterruptsReject, TypeOK, OperationInv, TurnInv, DisposalEnds
  PROVE  DisposalEndsDoes
<1>1. chat \in Chat /\ chat.active \in Ids /\ op \in {"none", "seal", "refresh", "commit"}
  BY DEF TypeOK, Chat
<1>2. /\ HoldsAgent(chat', chat.agent, None, chat.starting, chat.stuck)
      /\ LET active == IF Failing = {} THEN chat.active ELSE None
             status == IF Failing = {} THEN chat.status ELSE "failed"
         IN  IF op = "seal" /\ ~chat.stuck
             THEN ShowsTurn(chat', active, None, "unavailable")
             ELSE ShowsTurn(chat', active, chat.retry, status)
  BY <1>1, DisposalEndsEffect
<1>3. /\ disposal.pc = "handler" /\ disposal' = NoDisposal
      /\ run' = [t \in Turns |-> IF run[t] = "fail" THEN "done" ELSE run[t]]
      /\ call' = [t \in Turns |-> IF call[t] = "fail" THEN "done" ELSE call[t]]
  BY <1>1, DisposalEndsEffect
<1>4. /\ op' = IF op = "refresh" /\ ~chat.stuck THEN "commit" ELSE "none"
      /\ mode' = IF op = "refresh" /\ chat.stuck
                 THEN (IF mode = "refreshing" THEN "draft" ELSE "submitted") ELSE mode
      /\ UNCHANGED <<daemon, restarts, begun, request, stream, agents, working, leases, outcomes>>
  BY <1>1, DisposalEndsEffect
<1>5. Failing = {t \in Turns : run[t] = "fail"}
  BY DEF TurnInv, Failing
<1>6. /\ \A u \in Turns : run'[u] = IF run[u] = "fail" THEN "done" ELSE run[u]
      /\ \A u \in Turns : call'[u] # "fail"
      /\ disposal'.pc = "none"
  BY <1>3 DEF NoDisposal
<1>7. CASE Failing = {}
  BY <1>2, <1>3, <1>4, <1>5, <1>6, <1>7 DEF DisposalEndsDoes
<1>8. CASE Failing # {}
  <2>1. PICK u \in Turns : run[u] = "fail"
    BY <1>5, <1>8
  <2>2. chat.active = u
    BY <2>1 DEF TurnInv, Suspended
  <2>3. op = "none"
    BY <2>2, TurnFacts DEF OperationInv
  <2> QED BY <1>2, <1>3, <1>4, <1>6, <1>8, <2>1, <2>2, <2>3 DEF DisposalEndsDoes
<1> QED BY <1>7, <1>8

AgentLives == {"none", "starting", "ready", "closing", "closed"}

AgentClosedDoes ==
  /\ disposal.pc = "agent" /\ ShowsTurn(chat', chat.active, chat.retry, chat.status)
  /\ \A a \in Turns : working'[a] = None
  /\ \/ /\ disposal'.pc = "release"
        /\ HoldsAgent(chat', None, chat.lease, chat.starting, chat.stuck)
        /\ \A a \in Turns : agents'[a] = IF a = chat.agent THEN "closed" ELSE agents[a]
     \/ /\ disposal'.pc = "revoke" /\ chat.agent # None
        /\ HoldsAgent(chat', chat.agent, chat.lease, chat.starting, TRUE)
        /\ agents' = agents
  /\ UNCHANGED <<mode, daemon, restarts, begun, request, run, call, leases, op, outcomes>>

(* Closing the agent leaves none that works.                               *)
LEMMA AgentClosedFacts ==
  ASSUME TypeOK, WorkInv, DisposalInv, AgentClosed
  PROVE  AgentClosedDoes
<1>1. /\ chat \in Chat /\ chat.agent \in Ids /\ agents \in [Turns -> AgentLives]
      /\ working \in [Turns -> Ids]
      /\ disposal \in [pc: {"none", "wait", "agent", "release", "revoke", "handler"}, agent: Ids]
  BY DEF TypeOK, Chat, AgentLives
<1>2. disposal.pc = "agent" /\ disposal.agent = chat.agent
  BY DEF AgentClosed, DisposalInv
<1>3. \A a \in Turns : working'[a] = None
  <2>1. working' = Idle(disposal.agent)
    BY <1>1, AgentClosedEffect
  <2>2. CASE chat.agent = None
    BY <1>2, <2>1, <2>2, TurnFacts DEF Idle, WorkInv
  <2>3. CASE chat.agent # None
    BY <1>1, <1>2, <2>1, <2>3 DEF Idle, WorkInv
  <2> QED BY <2>2, <2>3
<1>4. /\ ShowsTurn(chat', chat.active, chat.retry, chat.status)
      /\ UNCHANGED <<mode, daemon, restarts, begun, request, run, call, leases, op, outcomes>>
  BY <1>1, AgentClosedEffect
<1>5. CASE /\ HoldsAgent(chat', None, chat.lease, chat.starting, chat.stuck)
           /\ disposal' = [disposal EXCEPT !.pc = "release"]
           /\ agents' = IF disposal.agent = None THEN agents
                        ELSE [agents EXCEPT ![disposal.agent] = "closed"]
  <2>1. disposal'.pc = "release"
    BY <1>1, <1>5
  <2>2. \A a \in Turns : agents'[a] = IF a = chat.agent THEN "closed" ELSE agents[a]
    BY <1>1, <1>2, <1>5, TurnFacts
  <2> QED BY <1>2, <1>3, <1>4, <1>5, <2>1, <2>2 DEF AgentClosedDoes
<1>6. CASE /\ disposal.agent # None
           /\ HoldsAgent(chat', chat.agent, chat.lease, chat.starting, TRUE)
           /\ disposal' = [disposal EXCEPT !.pc = "revoke"]
           /\ agents' = agents
  <2>1. disposal'.pc = "revoke"
    BY <1>1, <1>6
  <2> QED BY <1>2, <1>3, <1>4, <1>6, <2>1 DEF AgentClosedDoes
<1> QED BY <1>1, <1>5, <1>6, AgentClosedEffect

ProjectionReleasedDoes ==
  /\ disposal.pc = "release" /\ disposal'.pc = "revoke"
  /\ ShowsTurn(chat', chat.active, chat.retry, chat.status)
  /\ chat'.agent = chat.agent /\ chat'.lease = chat.lease /\ chat'.starting = chat.starting
  /\ chat.stuck => chat'.stuck
  /\ UNCHANGED <<mode, daemon, restarts, begun, request, run, stream, call, agents,
                 working, leases, op, outcomes>>

(* Releasing the projection leaves the turn and the agent alone.           *)
LEMMA ProjectionReleasedFacts ==
  ASSUME TypeOK, ProjectionReleased
  PROVE  ProjectionReleasedDoes
<1>1. /\ chat \in Chat
      /\ disposal \in [pc: {"none", "wait", "agent", "release", "revoke", "handler"}, agent: Ids]
  BY DEF TypeOK
<1>2. disposal' = [disposal EXCEPT !.pc = "revoke"] /\ disposal.pc = "release"
  BY <1>1, ProjectionReleasedEffect
<1>3. disposal'.pc = "revoke"
  BY <1>1, <1>2
<1> QED BY <1>1, <1>2, <1>3, ProjectionReleasedEffect DEF ProjectionReleasedDoes, HoldsAgent

(* Who starts a disposal joins the one there is.                           *)
Joins == /\ disposal.pc = "none" => disposal'.pc = "wait"
         /\ disposal.pc # "none" => disposal' = disposal

LEMMA JoinFacts == disposal' = StartDisposal => Joins
BY DEF StartDisposal, Joins

(* A turn is suspended only while it is current.                           *)
LEMMA TurnStep ==
  ASSUME ~InterruptsReject, ChatInv, TurnInv, StartInv, LeasesHeld, AgentInv, WorkInv,
         DisposalInv, [Next]_vars
  PROVE  TurnInv'
<1> USE TurnFacts
<1>0. /\ chat \in Chat /\ begun \in 0..MaxTurns /\ run \in [Turns -> Runs]
      /\ chat.active \in Ids /\ chat.agent \in Ids /\ request \in [Turns -> Ids]
      /\ TypeOK /\ OperationInv
      /\ call \in [Turns -> {"none", "pending", "fail", "done"}]
  BY DEF ChatInv, TypeOK, Chat
<1> USE <1>0
<1>1. CASE BeginTurn
  <2>1. BeginTurnDoes
    BY <1>1, BeginTurnFacts
  <2> QED
    BY <2>1 DEF BeginTurnDoes, RunBecomes, ShowsTurn, HoldsAgent, SameAgent, TurnInv, Suspended
<1>2. CASE Interrupt
  BY <1>2, InterruptEffect DEF ShowsTurn, HoldsAgent, SameAgent, TurnInv, Suspended
<1>3. CASE DisposeStarted
  BY <1>3 DEF DisposeStarted, TurnInv, Suspended
<1>4. CASE AgentClosed
  <2>1. AgentClosedDoes
    BY <1>4, AgentClosedFacts
  <2> QED
    BY <2>1 DEF AgentClosedDoes, RunBecomes, ShowsTurn, HoldsAgent, SameAgent, TurnInv, Suspended
<1>5. CASE ProjectionReleased
  <2>1. ProjectionReleasedDoes
    BY <1>5, ProjectionReleasedFacts
  <2> QED
    BY <2>1
       DEF ProjectionReleasedDoes, RunBecomes, ShowsTurn, HoldsAgent, SameAgent, TurnInv,
           Suspended
<1>6. CASE LeaseRevoked
  BY <1>6 DEF LeaseRevoked, TurnInv, Suspended
<1>7. CASE DisposalEnds
  <2>1. DisposalEndsDoes
    BY <1>7, DisposalEndsFacts
  <2> QED
    BY <2>1 DEF DisposalEndsDoes, RunBecomes, ShowsTurn, HoldsAgent, SameAgent, TurnInv, Suspended
<1>8. CASE RecordSubmission
  BY <1>8 DEF RecordSubmission, TurnInv, Suspended
<1>9. CASE Seal
  BY <1>9 DEF Seal, Sealable, StartDisposal, TurnInv, Suspended
<1>10. CASE PrepareRefresh
  BY <1>10 DEF PrepareRefresh, StartDisposal, TurnInv, Suspended
<1>11. CASE RestoreRevision
  BY <1>11, RestoreRevisionEffect
     DEF ShowsTurn, HoldsAgent, SameAgent, OperationInv, TurnInv, Suspended
<1>12. CASE Remove
  BY <1>12 DEF Remove, StartDisposal, OperationInv, TurnInv, Suspended
<1>13. CASE Close
  BY <1>13 DEF Close, StartDisposal, TurnInv, Suspended
<1>14. CASE Stop
  BY <1>14 DEF Stop, TurnInv, Suspended
<1>15. CASE Restart
  <2>1. RestartDoes
    BY <1>15, RestartFacts
  <2> QED
    BY <2>1 DEF RestartDoes, RunBecomes, ShowsTurn, HoldsAgent, SameAgent, TurnInv, Suspended
<1>16. ASSUME NEW t \in Turns, OpenLease(t) PROVE TurnInv'
  BY <1>16, OpenLeaseEffect DEF ShowsTurn, HoldsAgent, SameAgent, TurnInv, Suspended
<1>17. ASSUME NEW t \in Turns, StartFails(t) PROVE TurnInv'
  <2>1. StartFailsDoes(t) /\ (Failed(t) \/ Cut(t))
    BY <1>17, StartFailsFacts
  <2>2. CASE Failed(t)
    BY <2>1, <2>2
       DEF StartFailsDoes, Failed, RunBecomes, EndsWith, ShowsTurn, HoldsAgent, SameAgent,
           TurnInv, Suspended
  <2>3. CASE Cut(t)
    BY <2>1, <2>3
       DEF StartFailsDoes, Cut, RunBecomes, EndsWith, ShowsTurn, HoldsAgent, SameAgent, TurnInv,
           Suspended
  <2> QED BY <2>1, <2>2, <2>3
<1>18. ASSUME NEW t \in Turns, Spawned(t) PROVE TurnInv'
  <2>1. SpawnedDoes(t) /\ (Built(t) \/ Stopped(t) \/ Cut(t))
    BY <1>18, SpawnedFacts
  <2>2. CASE Built(t)
    BY <2>1, <2>2
       DEF SpawnedDoes, Built, RunBecomes, EndsWith, ShowsTurn, HoldsAgent, SameAgent, TurnInv,
           Suspended
  <2>3. CASE Stopped(t)
    BY SMTT(40), <2>1, <2>3
       DEF SpawnedDoes, Stopped, RunBecomes, EndsWith, ShowsTurn, HoldsAgent, SameAgent,
           TurnInv, Suspended
  <2>4. CASE Cut(t)
    BY <2>1, <2>4
       DEF SpawnedDoes, Cut, RunBecomes, EndsWith, ShowsTurn, HoldsAgent, SameAgent, TurnInv,
           Suspended
  <2> QED BY <2>1, <2>2, <2>3, <2>4
<1>19. ASSUME NEW t \in Turns, Send(t) PROVE TurnInv'
  BY <1>19 DEF Send, MayContinue, Sendable, TurnInv, Suspended
<1>20. ASSUME NEW t \in Turns, BuildFails(t) PROVE TurnInv'
  <2>1. BuildFailsDoes(t) /\ (Failed(t) \/ Cut(t))
    BY <1>20, BuildFailsFacts
  <2>2. CASE Failed(t)
    BY <2>1, <2>2
       DEF BuildFailsDoes, Failed, RunBecomes, EndsWith, ShowsTurn, HoldsAgent, SameAgent,
           TurnInv, Suspended
  <2>3. CASE Cut(t)
    BY <2>1, <2>3
       DEF BuildFailsDoes, Cut, RunBecomes, EndsWith, ShowsTurn, HoldsAgent, SameAgent, TurnInv,
           Suspended
  <2> QED BY <2>1, <2>2, <2>3
<1>21. ASSUME NEW t \in Turns, BuildStops(t) PROVE TurnInv'
  <2>1. BuildStopsDoes(t) /\ (Stopped(t) \/ Cut(t))
    BY <1>21, BuildStopsFacts
  <2>2. CASE Stopped(t)
    BY <2>1, <2>2
       DEF BuildStopsDoes, Stopped, RunBecomes, EndsWith, ShowsTurn, HoldsAgent, SameAgent,
           TurnInv, Suspended
  <2>3. CASE Cut(t)
    BY <2>1, <2>3
       DEF BuildStopsDoes, Cut, RunBecomes, EndsWith, ShowsTurn, HoldsAgent, SameAgent, TurnInv,
           Suspended
  <2> QED BY <2>1, <2>2, <2>3
<1>22. ASSUME NEW t \in Turns, Consume(t) PROVE TurnInv'
  <2>1. ConsumeDoes(t) /\ (Completed(t) \/ Failed(t) \/ Stopped(t) \/ Cut(t))
    BY <1>22, ConsumeFacts
  <2>2. CASE Completed(t)
    BY <2>1, <2>2
       DEF ConsumeDoes, Completed, RunBecomes, EndsWith, ShowsTurn, HoldsAgent, SameAgent,
           TurnInv, Suspended
  <2>3. CASE Failed(t)
    BY <2>1, <2>3
       DEF ConsumeDoes, Failed, RunBecomes, EndsWith, ShowsTurn, HoldsAgent, SameAgent, TurnInv,
           Suspended
  <2>4. CASE Stopped(t)
    BY <2>1, <2>4
       DEF ConsumeDoes, Stopped, RunBecomes, EndsWith, ShowsTurn, HoldsAgent, SameAgent,
           TurnInv, Suspended
  <2>5. CASE Cut(t)
    BY <2>1, <2>5
       DEF ConsumeDoes, Cut, RunBecomes, EndsWith, ShowsTurn, HoldsAgent, SameAgent, TurnInv,
           Suspended
  <2> QED BY <2>1, <2>2, <2>3, <2>4, <2>5
<1>23. ASSUME NEW t \in Turns, LeaveStream(t) PROVE TurnInv'
  BY <1>23 DEF LeaveStream, EndStreams, Idle, TurnInv, Suspended
<1>24. ASSUME NEW t \in Turns, InterruptHonoured(t) PROVE TurnInv'
  BY <1>24 DEF InterruptHonoured, TurnInv, Suspended
<1>25. ASSUME NEW t \in Turns, InterruptRejected(t) PROVE TurnInv'
  BY <1>25, InterruptRejectedEffect
     DEF StartDisposal, ShowsTurn, HoldsAgent, SameAgent, TurnInv, Suspended
<1>26. ASSUME NEW t \in Turns, AgentEnds(t) PROVE TurnInv'
  BY <1>26 DEF AgentEnds, Idle, TurnInv, Suspended
<1>27. ASSUME NEW t \in Turns, AgentDies(t) PROVE TurnInv'
  BY <1>27 DEF AgentDies, EndStreams, Idle, TurnInv, Suspended
<1>28. CASE UNCHANGED vars
  BY <1>28 DEF vars, TurnInv, Suspended
<1> QED
  BY <1>1, <1>2, <1>3, <1>4, <1>5, <1>6, <1>7, <1>8, <1>9, <1>10, <1>11, <1>12, <1>13, <1>14,
     <1>15, <1>16, <1>17, <1>18, <1>19, <1>20, <1>21, <1>22, <1>23, <1>24, <1>25, <1>26, <1>27,
     <1>28
  DEF Next, Running, DisposalStep, RunStep, InterruptSettles

(* Nothing gets in the way of a start.                                     *)
LEMMA StartStep ==
  ASSUME ~InterruptsReject, ChatInv, TurnInv, StartInv, LeasesHeld, AgentInv, WorkInv,
         DisposalInv, [Next]_vars
  PROVE  (StartInv /\ LeasesHeld)'
<1> USE TurnFacts
<1>0. /\ chat \in Chat /\ begun \in 0..MaxTurns /\ run \in [Turns -> Runs]
      /\ chat.active \in Ids /\ chat.agent \in Ids /\ request \in [Turns -> Ids]
      /\ TypeOK /\ OperationInv
  BY DEF ChatInv, TypeOK, Chat
<1> USE <1>0
<1>1. CASE BeginTurn
  <2>1. BeginTurnDoes
    BY <1>1, BeginTurnFacts
  <2> QED
    BY ZenonT(60), <2>1
       DEF BeginTurnDoes, RunBecomes, ShowsTurn, HoldsAgent, SameAgent, TurnInv, Suspended,
           StartInv, LeasesHeld, DisposalInv, OperationInv
<1>2. CASE Interrupt
  BY <1>2, InterruptEffect
     DEF ShowsTurn, HoldsAgent, SameAgent, TurnInv, Suspended, StartInv, LeasesHeld,
         DisposalInv, OperationInv
<1>3. CASE DisposeStarted
  BY <1>3 DEF DisposeStarted, TurnInv, Suspended, StartInv, LeasesHeld, DisposalInv, OperationInv
<1>4. CASE AgentClosed
  <2>1. AgentClosedDoes
    BY <1>4, AgentClosedFacts
  <2> QED
    BY <2>1
       DEF AgentClosedDoes, RunBecomes, ShowsTurn, HoldsAgent, SameAgent, TurnInv, Suspended,
           StartInv, LeasesHeld, DisposalInv, OperationInv
<1>5. CASE ProjectionReleased
  <2>1. ProjectionReleasedDoes
    BY <1>5, ProjectionReleasedFacts
  <2> QED
    BY <2>1
       DEF ProjectionReleasedDoes, RunBecomes, ShowsTurn, HoldsAgent, SameAgent, TurnInv,
           Suspended, StartInv, LeasesHeld, DisposalInv, OperationInv
<1>6. CASE LeaseRevoked
  BY <1>6 DEF LeaseRevoked, TurnInv, Suspended, StartInv, LeasesHeld, DisposalInv, OperationInv
<1>7. CASE DisposalEnds
  <2>1. DisposalEndsDoes
    BY <1>7, DisposalEndsFacts
  <2> QED
    BY <2>1
       DEF DisposalEndsDoes, RunBecomes, ShowsTurn, HoldsAgent, SameAgent, TurnInv, Suspended,
           StartInv, LeasesHeld, DisposalInv, OperationInv
<1>8. CASE RecordSubmission
  BY <1>8
     DEF RecordSubmission, TurnInv, Suspended, StartInv, LeasesHeld, DisposalInv, OperationInv
<1>9. CASE Seal
  BY <1>9
     DEF Seal, Sealable, StartDisposal, TurnInv, Suspended, StartInv, LeasesHeld, DisposalInv,
         OperationInv
<1>10. CASE PrepareRefresh
  BY <1>10
     DEF PrepareRefresh, StartDisposal, TurnInv, Suspended, StartInv, LeasesHeld, DisposalInv,
         OperationInv
<1>11. CASE RestoreRevision
  BY ZenonT(60), <1>11, RestoreRevisionEffect
     DEF ShowsTurn, HoldsAgent, SameAgent, TurnInv, Suspended, StartInv, LeasesHeld,
         DisposalInv, OperationInv
<1>12. CASE Remove
  BY <1>12
     DEF Remove, StartDisposal, TurnInv, Suspended, StartInv, LeasesHeld, DisposalInv,
         OperationInv
<1>13. CASE Close
  BY <1>13
     DEF Close, StartDisposal, TurnInv, Suspended, StartInv, LeasesHeld, DisposalInv,
         OperationInv
<1>14. CASE Stop
  BY <1>14 DEF Stop, TurnInv, Suspended, StartInv, LeasesHeld, DisposalInv, OperationInv
<1>15. CASE Restart
  <2>1. RestartDoes
    BY <1>15, RestartFacts
  <2> QED
    BY <2>1
       DEF RestartDoes, RunBecomes, ShowsTurn, HoldsAgent, SameAgent, TurnInv, Suspended,
           StartInv, LeasesHeld, DisposalInv, OperationInv
<1>16. ASSUME NEW t \in Turns, OpenLease(t) PROVE (StartInv /\ LeasesHeld)'
  <2>1. /\ chat.active = t /\ chat.agent = None /\ leases = {} /\ chat.starting
    BY <1>16, OpenLeaseEffect DEF TurnInv, Suspended, StartInv
  <2>2. /\ RunBecomes(t, "spawn") /\ leases' = {t}
        /\ HoldsAgent(chat', None, t, chat.starting, chat.stuck)
        /\ UNCHANGED <<disposal, daemon>>
    BY ZenonT(60), <1>16, <2>1, OpenLeaseEffect DEF RunBecomes
  <2>3. \A u \in Turns \ {t} : run[u] \in {"none", "done"}
    BY <2>1 DEF TurnInv, Suspended
  <2>4. LeasesHeld'
    BY <2>2 DEF LeasesHeld, HoldsAgent
  <2>5. StartInv'
    BY <2>1, <2>2, <2>3 DEF StartInv, HoldsAgent, RunBecomes
  <2> QED BY <2>4, <2>5
<1>17. ASSUME NEW t \in Turns, StartFails(t) PROVE (StartInv /\ LeasesHeld)'
  <2>1. StartFailsDoes(t) /\ (Failed(t) \/ Cut(t))
    BY <1>17, StartFailsFacts
  <2>2. CASE Failed(t)
    BY <2>1, <2>2
       DEF StartFailsDoes, Failed, RunBecomes, EndsWith, ShowsTurn, HoldsAgent, SameAgent,
           TurnInv, Suspended, StartInv, LeasesHeld, DisposalInv, OperationInv
  <2>3. CASE Cut(t)
    BY <2>1, <2>3
       DEF StartFailsDoes, Cut, RunBecomes, EndsWith, ShowsTurn, HoldsAgent, SameAgent, TurnInv,
           Suspended, StartInv, LeasesHeld, DisposalInv, OperationInv
  <2> QED BY <2>1, <2>2, <2>3
<1>18. ASSUME NEW t \in Turns, Spawned(t) PROVE (StartInv /\ LeasesHeld)'
  <2>1. SpawnedDoes(t) /\ (Built(t) \/ Stopped(t) \/ Cut(t))
    BY <1>18, SpawnedFacts
  <2>2. CASE Built(t)
    BY <2>1, <2>2
       DEF SpawnedDoes, Built, RunBecomes, EndsWith, ShowsTurn, HoldsAgent, SameAgent, TurnInv,
           Suspended, StartInv, LeasesHeld, DisposalInv, OperationInv
  <2>3. CASE Stopped(t)
    BY <2>1, <2>3
       DEF SpawnedDoes, Stopped, RunBecomes, EndsWith, ShowsTurn, HoldsAgent, SameAgent,
           TurnInv, Suspended, StartInv, LeasesHeld, DisposalInv, OperationInv
  <2>4. CASE Cut(t)
    BY <2>1, <2>4
       DEF SpawnedDoes, Cut, RunBecomes, EndsWith, ShowsTurn, HoldsAgent, SameAgent, TurnInv,
           Suspended, StartInv, LeasesHeld, DisposalInv, OperationInv
  <2> QED BY <2>1, <2>2, <2>3, <2>4
<1>19. ASSUME NEW t \in Turns, Send(t) PROVE (StartInv /\ LeasesHeld)'
  BY <1>19
     DEF Send, MayContinue, Sendable, TurnInv, Suspended, StartInv, LeasesHeld, DisposalInv,
         OperationInv
<1>20. ASSUME NEW t \in Turns, BuildFails(t) PROVE (StartInv /\ LeasesHeld)'
  <2>1. BuildFailsDoes(t) /\ (Failed(t) \/ Cut(t))
    BY <1>20, BuildFailsFacts
  <2>2. CASE Failed(t)
    BY <2>1, <2>2
       DEF BuildFailsDoes, Failed, RunBecomes, EndsWith, ShowsTurn, HoldsAgent, SameAgent,
           TurnInv, Suspended, StartInv, LeasesHeld, DisposalInv, OperationInv
  <2>3. CASE Cut(t)
    BY <2>1, <2>3
       DEF BuildFailsDoes, Cut, RunBecomes, EndsWith, ShowsTurn, HoldsAgent, SameAgent, TurnInv,
           Suspended, StartInv, LeasesHeld, DisposalInv, OperationInv
  <2> QED BY <2>1, <2>2, <2>3
<1>21. ASSUME NEW t \in Turns, BuildStops(t) PROVE (StartInv /\ LeasesHeld)'
  <2>1. BuildStopsDoes(t) /\ (Stopped(t) \/ Cut(t))
    BY <1>21, BuildStopsFacts
  <2>2. CASE Stopped(t)
    BY <2>1, <2>2
       DEF BuildStopsDoes, Stopped, RunBecomes, EndsWith, ShowsTurn, HoldsAgent, SameAgent,
           TurnInv, Suspended, StartInv, LeasesHeld, DisposalInv, OperationInv
  <2>3. CASE Cut(t)
    BY <2>1, <2>3
       DEF BuildStopsDoes, Cut, RunBecomes, EndsWith, ShowsTurn, HoldsAgent, SameAgent, TurnInv,
           Suspended, StartInv, LeasesHeld, DisposalInv, OperationInv
  <2> QED BY <2>1, <2>2, <2>3
<1>22. ASSUME NEW t \in Turns, Consume(t) PROVE (StartInv /\ LeasesHeld)'
  <2>1. ConsumeDoes(t) /\ (Completed(t) \/ Failed(t) \/ Stopped(t) \/ Cut(t))
    BY <1>22, ConsumeFacts
  <2>2. CASE Completed(t)
    BY <2>1, <2>2
       DEF ConsumeDoes, Completed, RunBecomes, EndsWith, ShowsTurn, HoldsAgent, SameAgent,
           TurnInv, Suspended, StartInv, LeasesHeld, DisposalInv, OperationInv
  <2>3. CASE Failed(t)
    BY <2>1, <2>3
       DEF ConsumeDoes, Failed, RunBecomes, EndsWith, ShowsTurn, HoldsAgent, SameAgent, TurnInv,
           Suspended, StartInv, LeasesHeld, DisposalInv, OperationInv
  <2>4. CASE Stopped(t)
    BY <2>1, <2>4
       DEF ConsumeDoes, Stopped, RunBecomes, EndsWith, ShowsTurn, HoldsAgent, SameAgent,
           TurnInv, Suspended, StartInv, LeasesHeld, DisposalInv, OperationInv
  <2>5. CASE Cut(t)
    BY <2>1, <2>5
       DEF ConsumeDoes, Cut, RunBecomes, EndsWith, ShowsTurn, HoldsAgent, SameAgent, TurnInv,
           Suspended, StartInv, LeasesHeld, DisposalInv, OperationInv
  <2> QED BY <2>1, <2>2, <2>3, <2>4, <2>5
<1>23. ASSUME NEW t \in Turns, LeaveStream(t) PROVE (StartInv /\ LeasesHeld)'
  BY <1>23
     DEF LeaveStream, EndStreams, Idle, TurnInv, Suspended, StartInv, LeasesHeld, DisposalInv,
         OperationInv
<1>24. ASSUME NEW t \in Turns, InterruptHonoured(t) PROVE (StartInv /\ LeasesHeld)'
  BY <1>24
     DEF InterruptHonoured, TurnInv, Suspended, StartInv, LeasesHeld, DisposalInv, OperationInv
<1>25. ASSUME NEW t \in Turns, InterruptRejected(t) PROVE (StartInv /\ LeasesHeld)'
  BY <1>25, InterruptRejectedEffect
     DEF StartDisposal, ShowsTurn, HoldsAgent, SameAgent, TurnInv, Suspended, StartInv,
         LeasesHeld, DisposalInv, OperationInv
<1>26. ASSUME NEW t \in Turns, AgentEnds(t) PROVE (StartInv /\ LeasesHeld)'
  BY <1>26
     DEF AgentEnds, Idle, TurnInv, Suspended, StartInv, LeasesHeld, DisposalInv, OperationInv
<1>27. ASSUME NEW t \in Turns, AgentDies(t) PROVE (StartInv /\ LeasesHeld)'
  BY <1>27
     DEF AgentDies, EndStreams, Idle, TurnInv, Suspended, StartInv, LeasesHeld, DisposalInv,
         OperationInv
<1>28. CASE UNCHANGED vars
  BY <1>28 DEF vars, TurnInv, Suspended, StartInv, LeasesHeld, DisposalInv, OperationInv
<1> QED
  BY <1>1, <1>2, <1>3, <1>4, <1>5, <1>6, <1>7, <1>8, <1>9, <1>10, <1>11, <1>12, <1>13, <1>14,
     <1>15, <1>16, <1>17, <1>18, <1>19, <1>20, <1>21, <1>22, <1>23, <1>24, <1>25, <1>26, <1>27,
     <1>28
  DEF Next, Running, DisposalStep, RunStep, InterruptSettles

(* The chat keeps hold of its agent.                                       *)
LEMMA AgentStep ==
  ASSUME ~InterruptsReject, ChatInv, TurnInv, StartInv, LeasesHeld, AgentInv, WorkInv,
         DisposalInv, [Next]_vars
  PROVE  AgentInv'
<1> USE TurnFacts
<1>0. /\ chat \in Chat /\ begun \in 0..MaxTurns /\ run \in [Turns -> Runs]
      /\ chat.active \in Ids /\ chat.agent \in Ids /\ request \in [Turns -> Ids]
      /\ TypeOK /\ OperationInv
      /\ agents \in [Turns -> {"none", "starting", "ready", "closing", "closed"}]
  BY DEF ChatInv, TypeOK, Chat
<1> USE <1>0
<1>1. CASE BeginTurn
  <2>1. BeginTurnDoes
    BY <1>1, BeginTurnFacts
  <2> QED
    BY <2>1
       DEF BeginTurnDoes, RunBecomes, ShowsTurn, HoldsAgent, SameAgent, StartInv, AgentInv,
           NoUnattendedAgent, DisposalInv
<1>2. CASE Interrupt
  BY <1>2, InterruptEffect
     DEF ShowsTurn, HoldsAgent, SameAgent, StartInv, AgentInv, NoUnattendedAgent, DisposalInv
<1>3. CASE DisposeStarted
  BY <1>3 DEF DisposeStarted, StartInv, AgentInv, NoUnattendedAgent, DisposalInv
<1>4. CASE AgentClosed
  <2>1. AgentClosedDoes
    BY <1>4, AgentClosedFacts
  <2> QED
    BY <2>1
       DEF AgentClosedDoes, RunBecomes, ShowsTurn, HoldsAgent, SameAgent, StartInv, AgentInv,
           NoUnattendedAgent, DisposalInv
<1>5. CASE ProjectionReleased
  <2>1. ProjectionReleasedDoes
    BY <1>5, ProjectionReleasedFacts
  <2> QED
    BY <2>1
       DEF ProjectionReleasedDoes, RunBecomes, ShowsTurn, HoldsAgent, SameAgent, StartInv,
           AgentInv, NoUnattendedAgent, DisposalInv
<1>6. CASE LeaseRevoked
  BY <1>6 DEF LeaseRevoked, StartInv, AgentInv, NoUnattendedAgent, DisposalInv
<1>7. CASE DisposalEnds
  <2>1. DisposalEndsDoes
    BY <1>7, DisposalEndsFacts
  <2> QED
    BY <2>1
       DEF DisposalEndsDoes, RunBecomes, ShowsTurn, HoldsAgent, SameAgent, StartInv, AgentInv,
           NoUnattendedAgent, DisposalInv
<1>8. CASE RecordSubmission
  BY <1>8 DEF RecordSubmission, StartInv, AgentInv, NoUnattendedAgent, DisposalInv
<1>9. CASE Seal
  BY <1>9 DEF Seal, Sealable, StartDisposal, StartInv, AgentInv, NoUnattendedAgent, DisposalInv
<1>10. CASE PrepareRefresh
  BY <1>10 DEF PrepareRefresh, StartDisposal, StartInv, AgentInv, NoUnattendedAgent, DisposalInv
<1>11. CASE RestoreRevision
  <2>1. op = "commit" /\ chat.active = None /\ chat.agent = None /\ disposal.pc = "none"
    BY <1>11, RestoreRevisionEffect DEF OperationInv, DisposalInv
  <2>2. ~chat.starting
    BY <2>1 DEF StartInv, TurnInv, Suspended
  <2>3. \A a \in Turns : agents[a] \in {"none", "closed"}
    BY <2>1, <2>2 DEF AgentInv, NoUnattendedAgent
  <2>4. agents' = agents
    BY <1>11, RestoreRevisionEffect
  <2> QED BY <2>3, <2>4 DEF AgentInv, NoUnattendedAgent
<1>12. CASE Remove
  BY <1>12 DEF Remove, StartDisposal, StartInv, AgentInv, NoUnattendedAgent, DisposalInv
<1>13. CASE Close
  BY <1>13 DEF Close, StartDisposal, StartInv, AgentInv, NoUnattendedAgent, DisposalInv
<1>14. CASE Stop
  BY <1>14 DEF Stop, StartInv, AgentInv, NoUnattendedAgent, DisposalInv
<1>15. CASE Restart
  <2>1. RestartDoes
    BY <1>15, RestartFacts
  <2> QED
    BY <2>1
       DEF RestartDoes, RunBecomes, ShowsTurn, HoldsAgent, SameAgent, StartInv, AgentInv,
           NoUnattendedAgent, DisposalInv
<1>16. ASSUME NEW t \in Turns, OpenLease(t) PROVE AgentInv'
  BY <1>16, OpenLeaseEffect
     DEF ShowsTurn, HoldsAgent, SameAgent, StartInv, AgentInv, NoUnattendedAgent, DisposalInv
<1>17. ASSUME NEW t \in Turns, StartFails(t) PROVE AgentInv'
  <2>1. StartFailsDoes(t)
    BY <1>17, StartFailsFacts
  <2>2. \A a \in Turns \ {t} : agents[a] \in {"none", "closed"}
    BY <2>1 DEF StartFailsDoes, StartInv, AgentInv, NoUnattendedAgent, TurnInv, Suspended
  <2>3. run[t] = "acquire" => agents[t] \in {"none", "closed"}
    BY <2>1 DEF StartFailsDoes, StartInv, AgentInv, NoUnattendedAgent
  <2>4. \A a \in Turns : agents'[a] \in {"none", "closed"}
    BY <2>1, <2>2, <2>3 DEF StartFailsDoes
  <2> QED BY <2>4 DEF AgentInv, NoUnattendedAgent
<1>18. ASSUME NEW t \in Turns, Spawned(t) PROVE AgentInv'
  <2>1. SpawnedDoes(t)
    BY <1>18, SpawnedFacts
  <2>2. \A a \in Turns \ {t} : agents[a] \in {"none", "closed"}
    BY <2>1 DEF SpawnedDoes, StartInv, AgentInv, NoUnattendedAgent, TurnInv, Suspended
  <2>3. \A a \in Turns : agents'[a] = IF a = t THEN "ready" ELSE agents[a]
    BY <2>1 DEF SpawnedDoes
  <2>4. chat'.agent = t
    BY <2>1 DEF SpawnedDoes, HoldsAgent
  <2> QED BY <2>2, <2>3, <2>4 DEF AgentInv, NoUnattendedAgent
<1>19. ASSUME NEW t \in Turns, Send(t) PROVE AgentInv'
  BY <1>19 DEF Send, MayContinue, Sendable, StartInv, AgentInv, NoUnattendedAgent, DisposalInv
<1>20. ASSUME NEW t \in Turns, BuildFails(t) PROVE AgentInv'
  <2>1. BuildFailsDoes(t) /\ (Failed(t) \/ Cut(t))
    BY <1>20, BuildFailsFacts
  <2>2. CASE Failed(t)
    BY SMTT(40), <2>1, <2>2
       DEF BuildFailsDoes, Failed, RunBecomes, EndsWith, ShowsTurn, HoldsAgent, SameAgent,
           StartInv, AgentInv, NoUnattendedAgent, DisposalInv
  <2>3. CASE Cut(t)
    BY <2>1, <2>3
       DEF BuildFailsDoes, Cut, RunBecomes, EndsWith, ShowsTurn, HoldsAgent, SameAgent,
           StartInv, AgentInv, NoUnattendedAgent, DisposalInv
  <2> QED BY <2>1, <2>2, <2>3
<1>21. ASSUME NEW t \in Turns, BuildStops(t) PROVE AgentInv'
  <2>1. BuildStopsDoes(t) /\ (Stopped(t) \/ Cut(t))
    BY <1>21, BuildStopsFacts
  <2>2. CASE Stopped(t)
    BY <2>1, <2>2
       DEF BuildStopsDoes, Stopped, RunBecomes, EndsWith, ShowsTurn, HoldsAgent, SameAgent,
           StartInv, AgentInv, NoUnattendedAgent, DisposalInv
  <2>3. CASE Cut(t)
    BY <2>1, <2>3
       DEF BuildStopsDoes, Cut, RunBecomes, EndsWith, ShowsTurn, HoldsAgent, SameAgent,
           StartInv, AgentInv, NoUnattendedAgent, DisposalInv
  <2> QED BY <2>1, <2>2, <2>3
<1>22. ASSUME NEW t \in Turns, Consume(t) PROVE AgentInv'
  <2>1. ConsumeDoes(t) /\ (Completed(t) \/ Failed(t) \/ Stopped(t) \/ Cut(t))
    BY <1>22, ConsumeFacts
  <2>2. \A a \in Turns : agents[a] # "starting"
    BY <2>1 DEF ConsumeDoes, AgentInv, NoUnattendedAgent, TurnInv, Suspended
  <2>3. agents' = agents /\ chat'.agent = chat.agent /\ chat'.stuck = chat.stuck
    BY <2>1 DEF ConsumeDoes, SameAgent, HoldsAgent
  <2>4. disposal' = disposal \/ disposal.pc = "none"
    BY <2>1 DEF Completed, Failed, Stopped, Cut
  <2> QED BY <2>2, <2>3, <2>4 DEF AgentInv, NoUnattendedAgent
<1>23. ASSUME NEW t \in Turns, LeaveStream(t) PROVE AgentInv'
  BY <1>23 DEF LeaveStream, EndStreams, Idle, StartInv, AgentInv, NoUnattendedAgent, DisposalInv
<1>24. ASSUME NEW t \in Turns, InterruptHonoured(t) PROVE AgentInv'
  BY <1>24 DEF InterruptHonoured, StartInv, AgentInv, NoUnattendedAgent, DisposalInv
<1>25. ASSUME NEW t \in Turns, InterruptRejected(t) PROVE AgentInv'
  BY <1>25, InterruptRejectedEffect
     DEF StartDisposal, ShowsTurn, HoldsAgent, SameAgent, StartInv, AgentInv, NoUnattendedAgent,
         DisposalInv
<1>26. ASSUME NEW t \in Turns, AgentEnds(t) PROVE AgentInv'
  BY <1>26 DEF AgentEnds, Idle, StartInv, AgentInv, NoUnattendedAgent, DisposalInv
<1>27. ASSUME NEW t \in Turns, AgentDies(t) PROVE AgentInv'
  BY <1>27 DEF AgentDies, EndStreams, Idle, StartInv, AgentInv, NoUnattendedAgent, DisposalInv
<1>28. CASE UNCHANGED vars
  BY <1>28 DEF vars, StartInv, AgentInv, NoUnattendedAgent, DisposalInv
<1> QED
  BY <1>1, <1>2, <1>3, <1>4, <1>5, <1>6, <1>7, <1>8, <1>9, <1>10, <1>11, <1>12, <1>13, <1>14,
     <1>15, <1>16, <1>17, <1>18, <1>19, <1>20, <1>21, <1>22, <1>23, <1>24, <1>25, <1>26, <1>27,
     <1>28
  DEF Next, Running, DisposalStep, RunStep, InterruptSettles

(* An agent works for the current turn.                                    *)
LEMMA WorkStep ==
  ASSUME ~InterruptsReject, ChatInv, TurnInv, StartInv, LeasesHeld, AgentInv, WorkInv,
         DisposalInv, [Next]_vars
  PROVE  WorkInv'
<1> USE TurnFacts
<1>0. /\ chat \in Chat /\ begun \in 0..MaxTurns /\ run \in [Turns -> Runs]
      /\ chat.active \in Ids /\ chat.agent \in Ids /\ request \in [Turns -> Ids]
      /\ TypeOK /\ OperationInv
      /\ agents \in [Turns -> {"none", "starting", "ready", "closing", "closed"}]
      /\ working \in [Turns -> Ids]
      /\ stream \in [Turns -> {"none", "open"} \cup Ended]
  BY DEF ChatInv, TypeOK, Chat
<1> USE <1>0
<1>1. CASE BeginTurn
  <2>1. BeginTurnDoes
    BY <1>1, BeginTurnFacts
  <2> QED
    BY <2>1
       DEF BeginTurnDoes, RunBecomes, ShowsTurn, HoldsAgent, SameAgent, TurnInv, Suspended,
           StartInv, AgentInv, NoUnattendedAgent, WorkInv
<1>2. CASE Interrupt
  BY <1>2, InterruptEffect
     DEF ShowsTurn, HoldsAgent, SameAgent, TurnInv, Suspended, StartInv, AgentInv,
         NoUnattendedAgent, WorkInv
<1>3. CASE DisposeStarted
  BY <1>3 DEF DisposeStarted, TurnInv, Suspended, StartInv, AgentInv, NoUnattendedAgent, WorkInv
<1>4. CASE AgentClosed
  <2>1. AgentClosedDoes
    BY <1>4, AgentClosedFacts
  <2> QED
    BY <2>1
       DEF AgentClosedDoes, RunBecomes, ShowsTurn, HoldsAgent, SameAgent, TurnInv, Suspended,
           StartInv, AgentInv, NoUnattendedAgent, WorkInv
<1>5. CASE ProjectionReleased
  <2>1. ProjectionReleasedDoes
    BY <1>5, ProjectionReleasedFacts
  <2> QED
    BY <2>1
       DEF ProjectionReleasedDoes, RunBecomes, ShowsTurn, HoldsAgent, SameAgent, TurnInv,
           Suspended, StartInv, AgentInv, NoUnattendedAgent, WorkInv
<1>6. CASE LeaseRevoked
  BY <1>6 DEF LeaseRevoked, TurnInv, Suspended, StartInv, AgentInv, NoUnattendedAgent, WorkInv
<1>7. CASE DisposalEnds
  <2>1. DisposalEndsDoes
    BY <1>7, DisposalEndsFacts
  <2> QED
    BY <2>1
       DEF DisposalEndsDoes, RunBecomes, ShowsTurn, HoldsAgent, SameAgent, TurnInv, Suspended,
           StartInv, AgentInv, NoUnattendedAgent, WorkInv
<1>8. CASE RecordSubmission
  BY <1>8 DEF RecordSubmission, TurnInv, Suspended, StartInv, AgentInv, NoUnattendedAgent, WorkInv
<1>9. CASE Seal
  <2>1. chat.active = None /\ UNCHANGED <<run, working, daemon>>
    BY <1>9 DEF Seal, Sealable
  <2>2. \A a \in Turns : working[a] = None
    BY <2>1 DEF WorkInv
  <2>3. \A u \in Turns : run[u] \notin {"build", "stream"}
    BY <2>1 DEF TurnInv, Suspended
  <2> QED BY <2>1, <2>2, <2>3 DEF WorkInv
<1>10. CASE PrepareRefresh
  <2>1. chat.active = None /\ UNCHANGED <<run, working, daemon>>
    BY <1>10 DEF PrepareRefresh
  <2>2. \A a \in Turns : working[a] = None
    BY <2>1 DEF WorkInv
  <2>3. \A u \in Turns : run[u] \notin {"build", "stream"}
    BY <2>1 DEF TurnInv, Suspended
  <2> QED BY <2>1, <2>2, <2>3 DEF WorkInv
<1>11. CASE RestoreRevision
  <2>1. chat.active = None /\ UNCHANGED <<run, working, daemon>>
    BY <1>11, RestoreRevisionEffect DEF OperationInv
  <2>2. \A a \in Turns : working[a] = None
    BY <2>1 DEF WorkInv
  <2>3. \A u \in Turns : run[u] \notin {"build", "stream"}
    BY <2>1 DEF TurnInv, Suspended
  <2> QED BY <2>1, <2>2, <2>3 DEF WorkInv
<1>12. CASE Remove
  BY <1>12
     DEF Remove, StartDisposal, TurnInv, Suspended, StartInv, AgentInv, NoUnattendedAgent,
         WorkInv
<1>13. CASE Close
  BY <1>13
     DEF Close, StartDisposal, TurnInv, Suspended, StartInv, AgentInv, NoUnattendedAgent,
         WorkInv
<1>14. CASE Stop
  BY <1>14 DEF Stop, TurnInv, Suspended, StartInv, AgentInv, NoUnattendedAgent, WorkInv
<1>15. CASE Restart
  <2>1. RestartDoes
    BY <1>15, RestartFacts
  <2> QED
    BY SMTT(40), <2>1
       DEF RestartDoes, RunBecomes, ShowsTurn, HoldsAgent, SameAgent, TurnInv, Suspended,
           StartInv, AgentInv, NoUnattendedAgent, WorkInv
<1>16. ASSUME NEW t \in Turns, OpenLease(t) PROVE WorkInv'
  BY <1>16, OpenLeaseEffect
     DEF ShowsTurn, HoldsAgent, SameAgent, TurnInv, Suspended, StartInv, AgentInv,
         NoUnattendedAgent, WorkInv
<1>17. ASSUME NEW t \in Turns, StartFails(t) PROVE WorkInv'
  <2>1. StartFailsDoes(t) /\ (Failed(t) \/ Cut(t))
    BY <1>17, StartFailsFacts
  <2>2. CASE Failed(t)
    BY <2>1, <2>2
       DEF StartFailsDoes, Failed, RunBecomes, EndsWith, ShowsTurn, HoldsAgent, SameAgent,
           TurnInv, Suspended, StartInv, AgentInv, NoUnattendedAgent, WorkInv
  <2>3. CASE Cut(t)
    BY <2>1, <2>3
       DEF StartFailsDoes, Cut, RunBecomes, EndsWith, ShowsTurn, HoldsAgent, SameAgent, TurnInv,
           Suspended, StartInv, AgentInv, NoUnattendedAgent, WorkInv
  <2> QED BY <2>1, <2>2, <2>3
<1>18. ASSUME NEW t \in Turns, Spawned(t) PROVE WorkInv'
  <2>1. SpawnedDoes(t) /\ (Built(t) \/ Stopped(t) \/ Cut(t))
    BY <1>18, SpawnedFacts
  <2>2. CASE Built(t)
    BY <2>1, <2>2
       DEF SpawnedDoes, Built, RunBecomes, EndsWith, ShowsTurn, HoldsAgent, SameAgent, TurnInv,
           Suspended, StartInv, AgentInv, NoUnattendedAgent, WorkInv
  <2>3. CASE Stopped(t)
    BY <2>1, <2>3
       DEF SpawnedDoes, Stopped, RunBecomes, EndsWith, ShowsTurn, HoldsAgent, SameAgent,
           TurnInv, Suspended, StartInv, AgentInv, NoUnattendedAgent, WorkInv
  <2>4. CASE Cut(t)
    BY <2>1, <2>4
       DEF SpawnedDoes, Cut, RunBecomes, EndsWith, ShowsTurn, HoldsAgent, SameAgent, TurnInv,
           Suspended, StartInv, AgentInv, NoUnattendedAgent, WorkInv
  <2> QED BY <2>1, <2>2, <2>3, <2>4
<1>19. ASSUME NEW t \in Turns, Send(t) PROVE WorkInv'
  BY <1>19
     DEF Send, MayContinue, Sendable, TurnInv, Suspended, StartInv, AgentInv, NoUnattendedAgent,
         WorkInv
<1>20. ASSUME NEW t \in Turns, BuildFails(t) PROVE WorkInv'
  <2>1. BuildFailsDoes(t) /\ (Failed(t) \/ Cut(t))
    BY <1>20, BuildFailsFacts
  <2>2. \A a \in Turns : working[a] = None
    BY <2>1 DEF BuildFailsDoes, WorkInv
  <2>3. \A u \in Turns \ {t} : run[u] \notin {"build", "stream"}
    BY <2>1 DEF BuildFailsDoes, TurnInv, Suspended
  <2>4. run'[t] \in {"fail", "done"} /\ \A u \in Turns \ {t} : run'[u] = run[u]
    BY <2>1 DEF Failed, Cut, RunBecomes
  <2>5. working' = working
    BY <2>1 DEF BuildFailsDoes
  <2> QED BY <2>2, <2>3, <2>4, <2>5 DEF WorkInv
<1>21. ASSUME NEW t \in Turns, BuildStops(t) PROVE WorkInv'
  <2>1. BuildStopsDoes(t) /\ (Stopped(t) \/ Cut(t))
    BY <1>21, BuildStopsFacts
  <2>2. \A a \in Turns : working[a] = None
    BY <2>1 DEF BuildStopsDoes, WorkInv
  <2>3. \A u \in Turns \ {t} : run[u] \notin {"build", "stream"}
    BY <2>1 DEF BuildStopsDoes, TurnInv, Suspended
  <2>4. run'[t] \in {"fail", "done"} /\ \A u \in Turns \ {t} : run'[u] = run[u]
    BY <2>1 DEF Stopped, Cut, RunBecomes
  <2>5. working' = working
    BY <2>1 DEF BuildStopsDoes
  <2> QED BY <2>2, <2>3, <2>4, <2>5 DEF WorkInv
<1>22. ASSUME NEW t \in Turns, Consume(t) PROVE WorkInv'
  <2>1. ConsumeDoes(t) /\ (Completed(t) \/ Failed(t) \/ Stopped(t) \/ Cut(t))
    BY <1>22, ConsumeFacts
  <2>2. \A a \in Turns : working[a] = None
    BY <2>1 DEF ConsumeDoes, WorkInv
  <2>3. \A u \in Turns \ {t} : run[u] \notin {"build", "stream"}
    BY <2>1 DEF ConsumeDoes, TurnInv, Suspended
  <2>4. run'[t] \in {"fail", "done"} /\ \A u \in Turns \ {t} : run'[u] = run[u]
    BY <2>1 DEF Completed, Failed, Stopped, Cut, RunBecomes
  <2>5. working' = working
    BY <2>1 DEF ConsumeDoes
  <2> QED BY <2>2, <2>3, <2>4, <2>5 DEF WorkInv
<1>23. ASSUME NEW t \in Turns, LeaveStream(t) PROVE WorkInv'
  BY <1>23
     DEF LeaveStream, EndStreams, Idle, TurnInv, Suspended, StartInv, AgentInv,
         NoUnattendedAgent, WorkInv
<1>24. ASSUME NEW t \in Turns, InterruptHonoured(t) PROVE WorkInv'
  BY <1>24
     DEF InterruptHonoured, TurnInv, Suspended, StartInv, AgentInv, NoUnattendedAgent, WorkInv
<1>25. ASSUME NEW t \in Turns, InterruptRejected(t) PROVE WorkInv'
  BY <1>25, InterruptRejectedEffect
     DEF StartDisposal, ShowsTurn, HoldsAgent, SameAgent, TurnInv, Suspended, StartInv,
         AgentInv, NoUnattendedAgent, WorkInv
<1>26. ASSUME NEW t \in Turns, AgentEnds(t) PROVE WorkInv'
  BY <1>26 DEF AgentEnds, Idle, TurnInv, Suspended, StartInv, AgentInv, NoUnattendedAgent, WorkInv
<1>27. ASSUME NEW t \in Turns, AgentDies(t) PROVE WorkInv'
  BY <1>27
     DEF AgentDies, EndStreams, Idle, TurnInv, Suspended, StartInv, AgentInv, NoUnattendedAgent,
         WorkInv
<1>28. CASE UNCHANGED vars
  BY <1>28 DEF vars, TurnInv, Suspended, StartInv, AgentInv, NoUnattendedAgent, WorkInv
<1> QED
  BY <1>1, <1>2, <1>3, <1>4, <1>5, <1>6, <1>7, <1>8, <1>9, <1>10, <1>11, <1>12, <1>13, <1>14,
     <1>15, <1>16, <1>17, <1>18, <1>19, <1>20, <1>21, <1>22, <1>23, <1>24, <1>25, <1>26, <1>27,
     <1>28
  DEF Next, Running, DisposalStep, RunStep, InterruptSettles

(* A disposal does what it says.                                           *)
LEMMA DisposalInvStep ==
  ASSUME ~InterruptsReject, ChatInv, TurnInv, StartInv, LeasesHeld, AgentInv, WorkInv,
         DisposalInv, [Next]_vars
  PROVE  DisposalInv'
<1> USE TurnFacts
<1>0. /\ chat \in Chat /\ begun \in 0..MaxTurns /\ run \in [Turns -> Runs]
      /\ chat.active \in Ids /\ chat.agent \in Ids /\ request \in [Turns -> Ids]
      /\ TypeOK /\ OperationInv
  BY DEF ChatInv, TypeOK, Chat
<1> USE <1>0
<1>1. CASE BeginTurn
  <2>1. BeginTurnDoes
    BY <1>1, BeginTurnFacts
  <2> QED
    BY <2>1
       DEF BeginTurnDoes, RunBecomes, ShowsTurn, HoldsAgent, SameAgent, OperationInv, TurnInv,
           Suspended, StartInv, LeasesHeld, DisposalInv
<1>2. CASE Interrupt
  BY <1>2, InterruptEffect
     DEF ShowsTurn, HoldsAgent, SameAgent, OperationInv, TurnInv, Suspended, StartInv,
         LeasesHeld, DisposalInv
<1>3. CASE DisposeStarted
  BY <1>3 DEF DisposeStarted, OperationInv, TurnInv, Suspended, StartInv, LeasesHeld, DisposalInv
<1>4. CASE AgentClosed
  <2>1. AgentClosedDoes
    BY <1>4, AgentClosedFacts
  <2> QED
    BY <2>1
       DEF AgentClosedDoes, RunBecomes, ShowsTurn, HoldsAgent, SameAgent, OperationInv, TurnInv,
           Suspended, StartInv, LeasesHeld, DisposalInv
<1>5. CASE ProjectionReleased
  <2>1. ProjectionReleasedDoes
    BY <1>5, ProjectionReleasedFacts
  <2> QED
    BY <2>1
       DEF ProjectionReleasedDoes, RunBecomes, ShowsTurn, HoldsAgent, SameAgent, OperationInv,
           TurnInv, Suspended, StartInv, LeasesHeld, DisposalInv
<1>6. CASE LeaseRevoked
  BY <1>6 DEF LeaseRevoked, OperationInv, TurnInv, Suspended, StartInv, LeasesHeld, DisposalInv
<1>7. CASE DisposalEnds
  <2>1. DisposalEndsDoes
    BY <1>7, DisposalEndsFacts
  <2> QED
    BY <2>1
       DEF DisposalEndsDoes, RunBecomes, ShowsTurn, HoldsAgent, SameAgent, OperationInv,
           TurnInv, Suspended, StartInv, LeasesHeld, DisposalInv
<1>8. CASE RecordSubmission
  BY <1>8
     DEF RecordSubmission, OperationInv, TurnInv, Suspended, StartInv, LeasesHeld, DisposalInv
<1>9. CASE Seal
  BY <1>9
     DEF Seal, Sealable, StartDisposal, OperationInv, TurnInv, Suspended, StartInv, LeasesHeld,
         DisposalInv
<1>10. CASE PrepareRefresh
  BY <1>10
     DEF PrepareRefresh, StartDisposal, OperationInv, TurnInv, Suspended, StartInv, LeasesHeld,
         DisposalInv
<1>11. CASE RestoreRevision
  BY <1>11, RestoreRevisionEffect
     DEF ShowsTurn, HoldsAgent, SameAgent, OperationInv, TurnInv, Suspended, StartInv,
         LeasesHeld, DisposalInv
<1>12. CASE Remove
  BY <1>12
     DEF Remove, StartDisposal, OperationInv, TurnInv, Suspended, StartInv, LeasesHeld,
         DisposalInv
<1>13. CASE Close
  BY <1>13
     DEF Close, StartDisposal, OperationInv, TurnInv, Suspended, StartInv, LeasesHeld,
         DisposalInv
<1>14. CASE Stop
  BY <1>14 DEF Stop, OperationInv, TurnInv, Suspended, StartInv, LeasesHeld, DisposalInv
<1>15. CASE Restart
  <2>1. RestartDoes
    BY <1>15, RestartFacts
  <2> QED
    BY <2>1
       DEF RestartDoes, RunBecomes, ShowsTurn, HoldsAgent, SameAgent, OperationInv, TurnInv,
           Suspended, StartInv, LeasesHeld, DisposalInv
<1>16. ASSUME NEW t \in Turns, OpenLease(t) PROVE DisposalInv'
  BY <1>16, OpenLeaseEffect
     DEF ShowsTurn, HoldsAgent, SameAgent, OperationInv, TurnInv, Suspended, StartInv,
         LeasesHeld, DisposalInv
<1>17. ASSUME NEW t \in Turns, StartFails(t) PROVE DisposalInv'
  <2>1. StartFailsDoes(t) /\ (Failed(t) \/ Cut(t))
    BY <1>17, StartFailsFacts
  <2>2. CASE Failed(t)
    BY <2>1, <2>2
       DEF StartFailsDoes, Failed, RunBecomes, EndsWith, ShowsTurn, HoldsAgent, SameAgent,
           OperationInv, TurnInv, Suspended, StartInv, LeasesHeld, DisposalInv
  <2>3. CASE Cut(t)
    BY <2>1, <2>3
       DEF StartFailsDoes, Cut, RunBecomes, EndsWith, ShowsTurn, HoldsAgent, SameAgent,
           OperationInv, TurnInv, Suspended, StartInv, LeasesHeld, DisposalInv
  <2> QED BY <2>1, <2>2, <2>3
<1>18. ASSUME NEW t \in Turns, Spawned(t) PROVE DisposalInv'
  <2>1. SpawnedDoes(t) /\ (Built(t) \/ Stopped(t) \/ Cut(t))
    BY <1>18, SpawnedFacts
  <2>2. CASE Built(t)
    BY <2>1, <2>2
       DEF SpawnedDoes, Built, RunBecomes, EndsWith, ShowsTurn, HoldsAgent, SameAgent,
           OperationInv, TurnInv, Suspended, StartInv, LeasesHeld, DisposalInv
  <2>3. CASE Stopped(t)
    BY <2>1, <2>3
       DEF SpawnedDoes, Stopped, RunBecomes, EndsWith, ShowsTurn, HoldsAgent, SameAgent,
           OperationInv, TurnInv, Suspended, StartInv, LeasesHeld, DisposalInv
  <2>4. CASE Cut(t)
    BY <2>1, <2>4
       DEF SpawnedDoes, Cut, RunBecomes, EndsWith, ShowsTurn, HoldsAgent, SameAgent,
           OperationInv, TurnInv, Suspended, StartInv, LeasesHeld, DisposalInv
  <2> QED BY <2>1, <2>2, <2>3, <2>4
<1>19. ASSUME NEW t \in Turns, Send(t) PROVE DisposalInv'
  BY <1>19
     DEF Send, MayContinue, Sendable, OperationInv, TurnInv, Suspended, StartInv, LeasesHeld,
         DisposalInv
<1>20. ASSUME NEW t \in Turns, BuildFails(t) PROVE DisposalInv'
  <2>1. BuildFailsDoes(t) /\ (Failed(t) \/ Cut(t))
    BY <1>20, BuildFailsFacts
  <2>2. CASE Failed(t)
    BY <2>1, <2>2
       DEF BuildFailsDoes, Failed, RunBecomes, EndsWith, ShowsTurn, HoldsAgent, SameAgent,
           OperationInv, TurnInv, Suspended, StartInv, LeasesHeld, DisposalInv
  <2>3. CASE Cut(t)
    BY <2>1, <2>3
       DEF BuildFailsDoes, Cut, RunBecomes, EndsWith, ShowsTurn, HoldsAgent, SameAgent,
           OperationInv, TurnInv, Suspended, StartInv, LeasesHeld, DisposalInv
  <2> QED BY <2>1, <2>2, <2>3
<1>21. ASSUME NEW t \in Turns, BuildStops(t) PROVE DisposalInv'
  <2>1. BuildStopsDoes(t) /\ (Stopped(t) \/ Cut(t))
    BY <1>21, BuildStopsFacts
  <2>2. CASE Stopped(t)
    BY <2>1, <2>2
       DEF BuildStopsDoes, Stopped, RunBecomes, EndsWith, ShowsTurn, HoldsAgent, SameAgent,
           OperationInv, TurnInv, Suspended, StartInv, LeasesHeld, DisposalInv
  <2>3. CASE Cut(t)
    BY <2>1, <2>3
       DEF BuildStopsDoes, Cut, RunBecomes, EndsWith, ShowsTurn, HoldsAgent, SameAgent,
           OperationInv, TurnInv, Suspended, StartInv, LeasesHeld, DisposalInv
  <2> QED BY <2>1, <2>2, <2>3
<1>22. ASSUME NEW t \in Turns, Consume(t) PROVE DisposalInv'
  <2>1. ConsumeDoes(t) /\ (Completed(t) \/ Failed(t) \/ Stopped(t) \/ Cut(t))
    BY <1>22, ConsumeFacts
  <2>2. CASE Completed(t)
    BY <2>1, <2>2
       DEF ConsumeDoes, Completed, RunBecomes, EndsWith, ShowsTurn, HoldsAgent, SameAgent,
           OperationInv, TurnInv, Suspended, StartInv, LeasesHeld, DisposalInv
  <2>3. CASE Failed(t)
    BY <2>1, <2>3
       DEF ConsumeDoes, Failed, RunBecomes, EndsWith, ShowsTurn, HoldsAgent, SameAgent,
           OperationInv, TurnInv, Suspended, StartInv, LeasesHeld, DisposalInv
  <2>4. CASE Stopped(t)
    BY <2>1, <2>4
       DEF ConsumeDoes, Stopped, RunBecomes, EndsWith, ShowsTurn, HoldsAgent, SameAgent,
           OperationInv, TurnInv, Suspended, StartInv, LeasesHeld, DisposalInv
  <2>5. CASE Cut(t)
    BY <2>1, <2>5
       DEF ConsumeDoes, Cut, RunBecomes, EndsWith, ShowsTurn, HoldsAgent, SameAgent,
           OperationInv, TurnInv, Suspended, StartInv, LeasesHeld, DisposalInv
  <2> QED BY <2>1, <2>2, <2>3, <2>4, <2>5
<1>23. ASSUME NEW t \in Turns, LeaveStream(t) PROVE DisposalInv'
  BY <1>23
     DEF LeaveStream, EndStreams, Idle, OperationInv, TurnInv, Suspended, StartInv, LeasesHeld,
         DisposalInv
<1>24. ASSUME NEW t \in Turns, InterruptHonoured(t) PROVE DisposalInv'
  BY <1>24
     DEF InterruptHonoured, OperationInv, TurnInv, Suspended, StartInv, LeasesHeld, DisposalInv
<1>25. ASSUME NEW t \in Turns, InterruptRejected(t) PROVE DisposalInv'
  BY <1>25, InterruptRejectedEffect
     DEF StartDisposal, ShowsTurn, HoldsAgent, SameAgent, OperationInv, TurnInv, Suspended,
         StartInv, LeasesHeld, DisposalInv
<1>26. ASSUME NEW t \in Turns, AgentEnds(t) PROVE DisposalInv'
  BY <1>26
     DEF AgentEnds, Idle, OperationInv, TurnInv, Suspended, StartInv, LeasesHeld, DisposalInv
<1>27. ASSUME NEW t \in Turns, AgentDies(t) PROVE DisposalInv'
  BY <1>27
     DEF AgentDies, EndStreams, Idle, OperationInv, TurnInv, Suspended, StartInv, LeasesHeld,
         DisposalInv
<1>28. CASE UNCHANGED vars
  BY <1>28 DEF vars, OperationInv, TurnInv, Suspended, StartInv, LeasesHeld, DisposalInv
<1> QED
  BY <1>1, <1>2, <1>3, <1>4, <1>5, <1>6, <1>7, <1>8, <1>9, <1>10, <1>11, <1>12, <1>13, <1>14,
     <1>15, <1>16, <1>17, <1>18, <1>19, <1>20, <1>21, <1>22, <1>23, <1>24, <1>25, <1>26, <1>27,
     <1>28
  DEF Next, Running, DisposalStep, RunStep, InterruptSettles

(* However the coroutine of the current turn goes on, the ledger is right. *)
LEMMA LedgerOfTurn ==
  ASSUME LedgerInv, NEW t \in Turns, chat.active = t, run[t] \notin {"none", "fail", "done"},
         begun \in 0..MaxTurns, t <= begun, UNCHANGED <<begun, request>>,
         \/ Completed(t) \/ Stopped(t) \/ Failed(t)
         \/ Built(t) \/ Cut(t)
  PROVE  LedgerInv'
<1>1. t # None /\ outcomes[t] = {} /\ chat.retry = None
  BY TurnFacts DEF LedgerInv
<1>2. /\ \A u \in Turns \ {t} : outcomes'[u] = outcomes[u]
      /\ \A u \in Turns : u > begun' => u # t /\ outcomes[u] = {}
  BY TurnFacts DEF LedgerInv, Completed, Stopped, Failed, Built, Cut, EndsWith
<1>3. \A u \in Turns : u > begun' => outcomes'[u] = {}
  BY <1>2
<1>4. CASE Completed(t) \/ Stopped(t)
  <2>1. chat'.active = None
    BY <1>4 DEF Completed, Stopped, ShowsTurn
  <2> QED BY <1>3, <2>1 DEF LedgerInv
<1>5. CASE Failed(t)
  <2>1. /\ chat'.active = t /\ chat'.retry = request[t] /\ run'[t] = "fail"
        /\ outcomes'[t] = {"failed"}
    BY <1>1, <1>5 DEF Failed, ShowsTurn, RunBecomes, EndsWith
  <2> QED BY <1>3, <2>1 DEF LedgerInv
<1>6. CASE Built(t) \/ Cut(t)
  <2>1. chat'.active = t /\ chat'.retry = None /\ run'[t] # "fail" /\ outcomes'[t] = {}
    BY <1>1, <1>6 DEF Built, Cut, ShowsTurn, RunBecomes
  <2> QED BY <1>3, <2>1 DEF LedgerInv
<1> QED BY <1>4, <1>5, <1>6

(* A turn ends once.                                                       *)
LEMMA LedgerStep ==
  ASSUME ~InterruptsReject, ChatInv, TurnInv, StartInv, LeasesHeld, AgentInv, WorkInv,
         DisposalInv, LedgerInv, [Next]_vars
  PROVE  LedgerInv'
<1> USE TurnFacts
<1>0. /\ chat \in Chat /\ begun \in 0..MaxTurns /\ run \in [Turns -> Runs]
      /\ chat.active \in Ids /\ chat.agent \in Ids /\ request \in [Turns -> Ids]
      /\ TypeOK /\ OperationInv
      /\ KnownTurns
  BY DEF ChatInv, TypeOK, Chat
<1> USE <1>0
<1>1. CASE BeginTurn
  <2>1. BeginTurnDoes
    BY <1>1, BeginTurnFacts
  <2> QED
    BY <2>1
       DEF BeginTurnDoes, RunBecomes, ShowsTurn, HoldsAgent, SameAgent, OperationInv, TurnInv,
           Suspended, LedgerInv, KnownTurns
<1>2. CASE Interrupt
  BY <1>2, InterruptEffect
     DEF ShowsTurn, HoldsAgent, SameAgent, OperationInv, TurnInv, Suspended, LedgerInv,
         KnownTurns
<1>3. CASE DisposeStarted
  BY <1>3 DEF DisposeStarted, OperationInv, TurnInv, Suspended, LedgerInv, KnownTurns
<1>4. CASE AgentClosed
  <2>1. AgentClosedDoes
    BY <1>4, AgentClosedFacts
  <2> QED
    BY <2>1
       DEF AgentClosedDoes, RunBecomes, ShowsTurn, HoldsAgent, SameAgent, OperationInv, TurnInv,
           Suspended, LedgerInv, KnownTurns
<1>5. CASE ProjectionReleased
  <2>1. ProjectionReleasedDoes
    BY <1>5, ProjectionReleasedFacts
  <2> QED
    BY <2>1
       DEF ProjectionReleasedDoes, RunBecomes, ShowsTurn, HoldsAgent, SameAgent, OperationInv,
           TurnInv, Suspended, LedgerInv, KnownTurns
<1>6. CASE LeaseRevoked
  BY <1>6 DEF LeaseRevoked, OperationInv, TurnInv, Suspended, LedgerInv, KnownTurns
<1>7. CASE DisposalEnds
  <2>1. DisposalEndsDoes
    BY <1>7, DisposalEndsFacts
  <2> QED
    BY <2>1
       DEF DisposalEndsDoes, RunBecomes, ShowsTurn, HoldsAgent, SameAgent, OperationInv,
           TurnInv, Suspended, LedgerInv, KnownTurns
<1>8. CASE RecordSubmission
  BY <1>8 DEF RecordSubmission, OperationInv, TurnInv, Suspended, LedgerInv, KnownTurns
<1>9. CASE Seal
  BY <1>9
     DEF Seal, Sealable, StartDisposal, OperationInv, TurnInv, Suspended, LedgerInv, KnownTurns
<1>10. CASE PrepareRefresh
  BY <1>10
     DEF PrepareRefresh, StartDisposal, OperationInv, TurnInv, Suspended, LedgerInv, KnownTurns
<1>11. CASE RestoreRevision
  BY <1>11, RestoreRevisionEffect
     DEF ShowsTurn, HoldsAgent, SameAgent, OperationInv, TurnInv, Suspended, LedgerInv,
         KnownTurns
<1>12. CASE Remove
  BY <1>12 DEF Remove, StartDisposal, OperationInv, TurnInv, Suspended, LedgerInv, KnownTurns
<1>13. CASE Close
  BY <1>13 DEF Close, StartDisposal, OperationInv, TurnInv, Suspended, LedgerInv, KnownTurns
<1>14. CASE Stop
  BY <1>14 DEF Stop, OperationInv, TurnInv, Suspended, LedgerInv, KnownTurns
<1>15. CASE Restart
  <2>1. RestartDoes
    BY <1>15, RestartFacts
  <2> QED
    BY <2>1
       DEF RestartDoes, RunBecomes, ShowsTurn, HoldsAgent, SameAgent, OperationInv, TurnInv,
           Suspended, LedgerInv, KnownTurns
<1>16. ASSUME NEW t \in Turns, OpenLease(t) PROVE LedgerInv'
  BY <1>16, OpenLeaseEffect
     DEF ShowsTurn, HoldsAgent, SameAgent, OperationInv, TurnInv, Suspended, LedgerInv,
         KnownTurns
<1>17. ASSUME NEW t \in Turns, StartFails(t) PROVE LedgerInv'
  <2>1. StartFailsDoes(t) /\ (Failed(t) \/ Cut(t))
    BY <1>17, StartFailsFacts
  <2>2. /\ chat.active = t /\ run[t] \notin {"none", "fail", "done"}
        /\ t <= begun /\ UNCHANGED <<begun, request>>
    BY <2>1 DEF StartFailsDoes, KnownTurns
  <2> QED BY <2>1, <2>2, LedgerOfTurn
<1>18. ASSUME NEW t \in Turns, Spawned(t) PROVE LedgerInv'
  <2>1. SpawnedDoes(t) /\ (Built(t) \/ Stopped(t) \/ Cut(t))
    BY <1>18, SpawnedFacts
  <2>2. /\ chat.active = t /\ run[t] \notin {"none", "fail", "done"}
        /\ t <= begun /\ UNCHANGED <<begun, request>>
    BY <2>1 DEF SpawnedDoes, KnownTurns
  <2> QED BY <2>1, <2>2, LedgerOfTurn
<1>19. ASSUME NEW t \in Turns, Send(t) PROVE LedgerInv'
  BY <1>19
     DEF Send, MayContinue, Sendable, OperationInv, TurnInv, Suspended, LedgerInv, KnownTurns
<1>20. ASSUME NEW t \in Turns, BuildFails(t) PROVE LedgerInv'
  <2>1. BuildFailsDoes(t) /\ (Failed(t) \/ Cut(t))
    BY <1>20, BuildFailsFacts
  <2>2. /\ chat.active = t /\ run[t] \notin {"none", "fail", "done"}
        /\ t <= begun /\ UNCHANGED <<begun, request>>
    BY <2>1 DEF BuildFailsDoes, KnownTurns
  <2> QED BY <2>1, <2>2, LedgerOfTurn
<1>21. ASSUME NEW t \in Turns, BuildStops(t) PROVE LedgerInv'
  <2>1. BuildStopsDoes(t) /\ (Stopped(t) \/ Cut(t))
    BY <1>21, BuildStopsFacts
  <2>2. /\ chat.active = t /\ run[t] \notin {"none", "fail", "done"}
        /\ t <= begun /\ UNCHANGED <<begun, request>>
    BY <2>1 DEF BuildStopsDoes, KnownTurns
  <2> QED BY <2>1, <2>2, LedgerOfTurn
<1>22. ASSUME NEW t \in Turns, Consume(t) PROVE LedgerInv'
  <2>1. ConsumeDoes(t) /\ (Completed(t) \/ Failed(t) \/ Stopped(t) \/ Cut(t))
    BY <1>22, ConsumeFacts
  <2>2. /\ chat.active = t /\ run[t] \notin {"none", "fail", "done"}
        /\ t <= begun /\ UNCHANGED <<begun, request>>
    BY <2>1 DEF ConsumeDoes, KnownTurns
  <2> QED BY <2>1, <2>2, LedgerOfTurn
<1>23. ASSUME NEW t \in Turns, LeaveStream(t) PROVE LedgerInv'
  BY <1>23
     DEF LeaveStream, EndStreams, Idle, OperationInv, TurnInv, Suspended, LedgerInv, KnownTurns
<1>24. ASSUME NEW t \in Turns, InterruptHonoured(t) PROVE LedgerInv'
  BY <1>24 DEF InterruptHonoured, OperationInv, TurnInv, Suspended, LedgerInv, KnownTurns
<1>25. ASSUME NEW t \in Turns, InterruptRejected(t) PROVE LedgerInv'
  BY <1>25, InterruptRejectedEffect
     DEF StartDisposal, ShowsTurn, HoldsAgent, SameAgent, OperationInv, TurnInv, Suspended,
         LedgerInv, KnownTurns
<1>26. ASSUME NEW t \in Turns, AgentEnds(t) PROVE LedgerInv'
  BY <1>26 DEF AgentEnds, Idle, OperationInv, TurnInv, Suspended, LedgerInv, KnownTurns
<1>27. ASSUME NEW t \in Turns, AgentDies(t) PROVE LedgerInv'
  BY <1>27
     DEF AgentDies, EndStreams, Idle, OperationInv, TurnInv, Suspended, LedgerInv, KnownTurns
<1>28. CASE UNCHANGED vars
  BY <1>28 DEF vars, OperationInv, TurnInv, Suspended, LedgerInv, KnownTurns
<1> QED
  BY <1>1, <1>2, <1>3, <1>4, <1>5, <1>6, <1>7, <1>8, <1>9, <1>10, <1>11, <1>12, <1>13, <1>14,
     <1>15, <1>16, <1>17, <1>18, <1>19, <1>20, <1>21, <1>22, <1>23, <1>24, <1>25, <1>26, <1>27,
     <1>28
  DEF Next, Running, DisposalStep, RunStep, InterruptSettles

(* What was sealed stays quiet, and what failed can be retried.            *)
LEMMA SealStep ==
  ASSUME ~InterruptsReject, ChatInv, TurnInv, StartInv, LeasesHeld, AgentInv, WorkInv,
         DisposalInv, LedgerInv, SealedIsQuiet, FailedCanRetry, [Next]_vars
  PROVE  (SealedIsQuiet /\ FailedCanRetry)'
<1> USE TurnFacts
<1>0. /\ chat \in Chat /\ begun \in 0..MaxTurns /\ run \in [Turns -> Runs]
      /\ chat.active \in Ids /\ chat.agent \in Ids /\ request \in [Turns -> Ids]
      /\ TypeOK /\ OperationInv
      /\ KnownTurns
      /\ \A t \in Turns : t <= begun => request[t] # None
      /\ ChatInv
  BY DEF ChatInv, TypeOK, Chat
<1> USE <1>0
<1>1. CASE BeginTurn
  <2>1. BeginTurnDoes
    BY <1>1, BeginTurnFacts
  <2> QED
    BY <2>1
       DEF BeginTurnDoes, RunBecomes, ShowsTurn, HoldsAgent, SameAgent, OperationInv, TurnInv,
           Suspended, DisposalInv, LedgerInv, SealedIsQuiet, FailedCanRetry
<1>2. CASE Interrupt
  BY <1>2, InterruptEffect
     DEF ShowsTurn, HoldsAgent, SameAgent, OperationInv, TurnInv, Suspended, DisposalInv,
         LedgerInv, SealedIsQuiet, FailedCanRetry
<1>3. CASE DisposeStarted
  BY <1>3
     DEF DisposeStarted, OperationInv, TurnInv, Suspended, DisposalInv, LedgerInv,
         SealedIsQuiet, FailedCanRetry
<1>4. CASE AgentClosed
  <2>1. AgentClosedDoes
    BY <1>4, AgentClosedFacts
  <2> QED
    BY <2>1
       DEF AgentClosedDoes, RunBecomes, ShowsTurn, HoldsAgent, SameAgent, OperationInv, TurnInv,
           Suspended, DisposalInv, LedgerInv, SealedIsQuiet, FailedCanRetry
<1>5. CASE ProjectionReleased
  <2>1. ProjectionReleasedDoes
    BY <1>5, ProjectionReleasedFacts
  <2> QED
    BY <2>1
       DEF ProjectionReleasedDoes, RunBecomes, ShowsTurn, HoldsAgent, SameAgent, OperationInv,
           TurnInv, Suspended, DisposalInv, LedgerInv, SealedIsQuiet, FailedCanRetry
<1>6. CASE LeaseRevoked
  BY <1>6
     DEF LeaseRevoked, OperationInv, TurnInv, Suspended, DisposalInv, LedgerInv, SealedIsQuiet,
         FailedCanRetry
<1>7. CASE DisposalEnds
  <2>1. DisposalEndsDoes
    BY <1>7, DisposalEndsFacts
  <2>2. \A u \in Turns : run'[u] = IF run[u] = "fail" THEN "done" ELSE run[u]
    BY <2>1 DEF DisposalEndsDoes
  <2>3. leases' = leases /\ chat'.agent = chat.agent /\ chat'.stuck = chat.stuck
    BY <2>1 DEF DisposalEndsDoes, HoldsAgent
  <2>4. CASE op = "seal" /\ ~chat.stuck
    <3>1. chat.active = None /\ chat.agent = None /\ leases = {}
      BY <2>1, <2>4 DEF DisposalEndsDoes, OperationInv, DisposalInv
    <3>2. chat'.active = None /\ chat'.status = "unavailable"
      BY <2>1, <2>4, <3>1 DEF DisposalEndsDoes, ShowsTurn
    <3>3. \A u \in Turns : run[u] \in {"none", "done"}
      BY <3>1 DEF TurnInv, Suspended
    <3> QED BY <2>2, <2>3, <3>1, <3>2, <3>3 DEF SealedIsQuiet, FailedCanRetry
  <2>5. CASE ~(op = "seal" /\ ~chat.stuck) /\ \A u \in Turns : run[u] # "fail"
    <3>1. SameTurn(chat', chat)
      BY <2>1, <2>5 DEF DisposalEndsDoes, SameTurn
    <3> QED BY <2>2, <2>3, <3>1 DEF SameTurn, ShowsTurn, SealedIsQuiet, FailedCanRetry
  <2>6. CASE \E u \in Turns : run[u] = "fail"
    <3>1. /\ run[chat.active] = "fail" /\ chat.active \in Turns
          /\ ShowsTurn(chat', None, chat.retry, "failed")
      BY <2>1, <2>6 DEF DisposalEndsDoes
    <3>2. chat.retry # None
      BY <3>1 DEF LedgerInv, KnownTurns
    <3> QED BY <3>1, <3>2 DEF ShowsTurn, SealedIsQuiet, FailedCanRetry
  <2> QED BY <2>4, <2>5, <2>6
<1>8. CASE RecordSubmission
  BY <1>8
     DEF RecordSubmission, OperationInv, TurnInv, Suspended, DisposalInv, LedgerInv,
         SealedIsQuiet, FailedCanRetry
<1>9. CASE Seal
  BY <1>9
     DEF Seal, Sealable, StartDisposal, OperationInv, TurnInv, Suspended, DisposalInv,
         LedgerInv, SealedIsQuiet, FailedCanRetry
<1>10. CASE PrepareRefresh
  BY <1>10
     DEF PrepareRefresh, StartDisposal, OperationInv, TurnInv, Suspended, DisposalInv,
         LedgerInv, SealedIsQuiet, FailedCanRetry
<1>11. CASE RestoreRevision
  BY <1>11, RestoreRevisionEffect
     DEF ShowsTurn, HoldsAgent, SameAgent, OperationInv, TurnInv, Suspended, DisposalInv,
         LedgerInv, SealedIsQuiet, FailedCanRetry
<1>12. CASE Remove
  BY <1>12
     DEF Remove, StartDisposal, OperationInv, TurnInv, Suspended, DisposalInv, LedgerInv,
         SealedIsQuiet, FailedCanRetry
<1>13. CASE Close
  BY <1>13
     DEF Close, StartDisposal, OperationInv, TurnInv, Suspended, DisposalInv, LedgerInv,
         SealedIsQuiet, FailedCanRetry
<1>14. CASE Stop
  BY <1>14
     DEF Stop, OperationInv, TurnInv, Suspended, DisposalInv, LedgerInv, SealedIsQuiet,
         FailedCanRetry
<1>15. CASE Restart
  <2>1. RestartDoes
    BY <1>15, RestartFacts
  <2>2. /\ chat'.active = None /\ chat'.agent = None /\ leases' = {}
        /\ \A u \in Turns : run'[u] \in {"none", "done"}
    BY <2>1 DEF RestartDoes, ShowsTurn, HoldsAgent
  <2>3. CASE chat.active # None
    <3>1. request[chat.active] # None
      BY <2>3 DEF KnownTurns
    <3> QED BY <2>1, <2>2, <2>3, <3>1 DEF RestartDoes, ShowsTurn, SealedIsQuiet, FailedCanRetry
  <2>4. CASE chat.active = None
    <3>1. chat.status \notin Active
      BY <2>4 DEF ChatInv, LooksBusy
    <3> QED BY <2>1, <2>2, <2>4, <3>1 DEF RestartDoes, ShowsTurn, SealedIsQuiet, FailedCanRetry
  <2> QED BY <2>3, <2>4
<1>16. ASSUME NEW t \in Turns, OpenLease(t) PROVE (SealedIsQuiet /\ FailedCanRetry)'
  BY <1>16, OpenLeaseEffect
     DEF ShowsTurn, HoldsAgent, SameAgent, OperationInv, TurnInv, Suspended, DisposalInv,
         LedgerInv, SealedIsQuiet, FailedCanRetry
<1>17. ASSUME NEW t \in Turns, StartFails(t) PROVE (SealedIsQuiet /\ FailedCanRetry)'
  <2>1. StartFailsDoes(t) /\ (Failed(t) \/ Cut(t))
    BY <1>17, StartFailsFacts
  <2>2. CASE Failed(t)
    BY <2>1, <2>2
       DEF StartFailsDoes, Failed, RunBecomes, EndsWith, ShowsTurn, HoldsAgent, SameAgent,
           OperationInv, TurnInv, Suspended, DisposalInv, LedgerInv, SealedIsQuiet,
           FailedCanRetry
  <2>3. CASE Cut(t)
    BY <2>1, <2>3
       DEF StartFailsDoes, Cut, RunBecomes, EndsWith, ShowsTurn, HoldsAgent, SameAgent,
           OperationInv, TurnInv, Suspended, DisposalInv, LedgerInv, SealedIsQuiet,
           FailedCanRetry
  <2> QED BY <2>1, <2>2, <2>3
<1>18. ASSUME NEW t \in Turns, Spawned(t) PROVE (SealedIsQuiet /\ FailedCanRetry)'
  <2>1. SpawnedDoes(t) /\ (Built(t) \/ Stopped(t) \/ Cut(t))
    BY <1>18, SpawnedFacts
  <2>2. CASE Built(t)
    BY <2>1, <2>2
       DEF SpawnedDoes, Built, RunBecomes, EndsWith, ShowsTurn, HoldsAgent, SameAgent,
           OperationInv, TurnInv, Suspended, DisposalInv, LedgerInv, SealedIsQuiet,
           FailedCanRetry
  <2>3. CASE Stopped(t)
    BY <2>1, <2>3
       DEF SpawnedDoes, Stopped, RunBecomes, EndsWith, ShowsTurn, HoldsAgent, SameAgent,
           OperationInv, TurnInv, Suspended, DisposalInv, LedgerInv, SealedIsQuiet,
           FailedCanRetry
  <2>4. CASE Cut(t)
    BY <2>1, <2>4
       DEF SpawnedDoes, Cut, RunBecomes, EndsWith, ShowsTurn, HoldsAgent, SameAgent,
           OperationInv, TurnInv, Suspended, DisposalInv, LedgerInv, SealedIsQuiet,
           FailedCanRetry
  <2> QED BY <2>1, <2>2, <2>3, <2>4
<1>19. ASSUME NEW t \in Turns, Send(t) PROVE (SealedIsQuiet /\ FailedCanRetry)'
  BY <1>19
     DEF Send, MayContinue, Sendable, OperationInv, TurnInv, Suspended, DisposalInv, LedgerInv,
         SealedIsQuiet, FailedCanRetry
<1>20. ASSUME NEW t \in Turns, BuildFails(t) PROVE (SealedIsQuiet /\ FailedCanRetry)'
  <2>1. BuildFailsDoes(t) /\ (Failed(t) \/ Cut(t))
    BY <1>20, BuildFailsFacts
  <2>2. CASE Failed(t)
    BY <2>1, <2>2
       DEF BuildFailsDoes, Failed, RunBecomes, EndsWith, ShowsTurn, HoldsAgent, SameAgent,
           OperationInv, TurnInv, Suspended, DisposalInv, LedgerInv, SealedIsQuiet,
           FailedCanRetry
  <2>3. CASE Cut(t)
    BY <2>1, <2>3
       DEF BuildFailsDoes, Cut, RunBecomes, EndsWith, ShowsTurn, HoldsAgent, SameAgent,
           OperationInv, TurnInv, Suspended, DisposalInv, LedgerInv, SealedIsQuiet,
           FailedCanRetry
  <2> QED BY <2>1, <2>2, <2>3
<1>21. ASSUME NEW t \in Turns, BuildStops(t) PROVE (SealedIsQuiet /\ FailedCanRetry)'
  <2>1. BuildStopsDoes(t) /\ (Stopped(t) \/ Cut(t))
    BY <1>21, BuildStopsFacts
  <2>2. CASE Stopped(t)
    BY <2>1, <2>2
       DEF BuildStopsDoes, Stopped, RunBecomes, EndsWith, ShowsTurn, HoldsAgent, SameAgent,
           OperationInv, TurnInv, Suspended, DisposalInv, LedgerInv, SealedIsQuiet,
           FailedCanRetry
  <2>3. CASE Cut(t)
    BY <2>1, <2>3
       DEF BuildStopsDoes, Cut, RunBecomes, EndsWith, ShowsTurn, HoldsAgent, SameAgent,
           OperationInv, TurnInv, Suspended, DisposalInv, LedgerInv, SealedIsQuiet,
           FailedCanRetry
  <2> QED BY <2>1, <2>2, <2>3
<1>22. ASSUME NEW t \in Turns, Consume(t) PROVE (SealedIsQuiet /\ FailedCanRetry)'
  <2>1. ConsumeDoes(t) /\ (Completed(t) \/ Failed(t) \/ Stopped(t) \/ Cut(t))
    BY <1>22, ConsumeFacts
  <2>2. CASE Completed(t)
    BY <2>1, <2>2
       DEF ConsumeDoes, Completed, RunBecomes, EndsWith, ShowsTurn, HoldsAgent, SameAgent,
           OperationInv, TurnInv, Suspended, DisposalInv, LedgerInv, SealedIsQuiet,
           FailedCanRetry
  <2>3. CASE Failed(t)
    BY <2>1, <2>3
       DEF ConsumeDoes, Failed, RunBecomes, EndsWith, ShowsTurn, HoldsAgent, SameAgent,
           OperationInv, TurnInv, Suspended, DisposalInv, LedgerInv, SealedIsQuiet,
           FailedCanRetry
  <2>4. CASE Stopped(t)
    BY <2>1, <2>4
       DEF ConsumeDoes, Stopped, RunBecomes, EndsWith, ShowsTurn, HoldsAgent, SameAgent,
           OperationInv, TurnInv, Suspended, DisposalInv, LedgerInv, SealedIsQuiet,
           FailedCanRetry
  <2>5. CASE Cut(t)
    BY <2>1, <2>5
       DEF ConsumeDoes, Cut, RunBecomes, EndsWith, ShowsTurn, HoldsAgent, SameAgent,
           OperationInv, TurnInv, Suspended, DisposalInv, LedgerInv, SealedIsQuiet,
           FailedCanRetry
  <2> QED BY <2>1, <2>2, <2>3, <2>4, <2>5
<1>23. ASSUME NEW t \in Turns, LeaveStream(t) PROVE (SealedIsQuiet /\ FailedCanRetry)'
  BY <1>23
     DEF LeaveStream, EndStreams, Idle, OperationInv, TurnInv, Suspended, DisposalInv,
         LedgerInv, SealedIsQuiet, FailedCanRetry
<1>24. ASSUME NEW t \in Turns, InterruptHonoured(t) PROVE (SealedIsQuiet /\ FailedCanRetry)'
  BY <1>24
     DEF InterruptHonoured, OperationInv, TurnInv, Suspended, DisposalInv, LedgerInv,
         SealedIsQuiet, FailedCanRetry
<1>25. ASSUME NEW t \in Turns, InterruptRejected(t) PROVE (SealedIsQuiet /\ FailedCanRetry)'
  BY <1>25, InterruptRejectedEffect
     DEF StartDisposal, ShowsTurn, HoldsAgent, SameAgent, OperationInv, TurnInv, Suspended,
         DisposalInv, LedgerInv, SealedIsQuiet, FailedCanRetry
<1>26. ASSUME NEW t \in Turns, AgentEnds(t) PROVE (SealedIsQuiet /\ FailedCanRetry)'
  BY <1>26
     DEF AgentEnds, Idle, OperationInv, TurnInv, Suspended, DisposalInv, LedgerInv,
         SealedIsQuiet, FailedCanRetry
<1>27. ASSUME NEW t \in Turns, AgentDies(t) PROVE (SealedIsQuiet /\ FailedCanRetry)'
  BY <1>27
     DEF AgentDies, EndStreams, Idle, OperationInv, TurnInv, Suspended, DisposalInv, LedgerInv,
         SealedIsQuiet, FailedCanRetry
<1>28. CASE UNCHANGED vars
  BY <1>28
     DEF vars, OperationInv, TurnInv, Suspended, DisposalInv, LedgerInv, SealedIsQuiet,
         FailedCanRetry
<1> QED
  BY <1>1, <1>2, <1>3, <1>4, <1>5, <1>6, <1>7, <1>8, <1>9, <1>10, <1>11, <1>12, <1>13, <1>14,
     <1>15, <1>16, <1>17, <1>18, <1>19, <1>20, <1>21, <1>22, <1>23, <1>24, <1>25, <1>26, <1>27,
     <1>28
  DEF Next, Running, DisposalStep, RunStep, InterruptSettles

(***************************************************************************)
(* The invariants hold from the start and in every step.                   *)
(***************************************************************************)
(* The unconditional invariant holds at the start.                         *)
LEMMA ChatInitially == Init => ChatInv
<1> USE TurnFacts
<1>1. ASSUME Init PROVE TypeOK
  <2>1. Fresh \in Chat /\ NoDisposal.pc = "none" /\ NoDisposal.agent = None
    BY FreshFields DEF ShowsTurn, NoDisposal, Statuses
  <2>2. disposal \in [pc: {"none", "wait", "agent", "release", "revoke", "handler"}, agent: Ids]
    BY <1>1 DEF Init, NoDisposal
  <2> QED BY <1>1, <2>1, <2>2 DEF Init, TypeOK, Modes, Runs, Ended
<1>2. ASSUME Init PROVE KnownTurns /\ OperationInv /\ LooksBusy
  BY <1>2 DEF Init, Fresh, NoDisposal, KnownTurns, OperationInv, LooksBusy, Active
<1> QED BY <1>1, <1>2 DEF ChatInv

(* The unconditional invariant holds in every behaviour.                   *)
LEMMA ChatAlways == Spec => []ChatInv
<1>1. ChatInv /\ [Next]_vars => ChatInv'
  <2> SUFFICES ASSUME ChatInv, [Next]_vars PROVE ChatInv'
    OBVIOUS
  <2>1. /\ TypeOK /\ KnownTurns /\ OperationInv /\ LooksBusy
        /\ ReviewTypes /\ TurnTypes /\ RequestTypes /\ AgentTypes
    BY TypeGroups DEF ChatInv
  <2>2. ReviewTypes' /\ TurnTypes' /\ RequestTypes' /\ AgentTypes'
    BY <2>1, ReviewTypesStep, TurnTypesStep, RequestTypesStep, AgentTypesStep
  <2>3. TypeOK' /\ KnownTurns'
    BY <2>2 DEF TypeOK, KnownTurns, ReviewTypes, TurnTypes, RequestTypes, AgentTypes
  <2> QED BY <2>1, <2>3, OperationStep, BusyStep DEF ChatInv
<1> QED BY <1>1, ChatInitially, PTL DEF Spec

(* The invariant that needs interruptions accepted holds at the start.     *)
LEMMA AttendedInitially == Init => AttendedInv
<1> SUFFICES ASSUME Init PROVE AttendedInv
  OBVIOUS
<1> USE TurnFacts
<1>1. /\ chat.active = None /\ chat.retry = None /\ chat.agent = None /\ ~chat.starting
      /\ ~chat.stuck /\ chat.status = "idle" /\ chat.lease = None
  BY DEF Init, Fresh
<1>2. /\ \A t \in Turns : /\ run[t] = "none" /\ call[t] = "none" /\ agents[t] = "none"
                          /\ working[t] = None /\ outcomes[t] = {}
      /\ leases = {} /\ disposal.pc = "none" /\ op = "none" /\ daemon = "up"
  BY DEF Init, NoDisposal
<1>3. TurnInv /\ StartInv /\ LeasesHeld /\ AgentInv /\ WorkInv
  BY <1>1, <1>2
     DEF TurnInv, Suspended, StartInv, LeasesHeld, AgentInv, NoUnattendedAgent, WorkInv
<1>4. DisposalInv /\ LedgerInv /\ SealedIsQuiet /\ FailedCanRetry
  BY <1>1, <1>2 DEF DisposalInv, LedgerInv, SealedIsQuiet, FailedCanRetry
<1> QED BY <1>3, <1>4 DEF AttendedInv

(* It holds as long as no interruption is rejected.                        *)
LEMMA AttendedAlways == ~InterruptsReject => (Spec => []AttendedInv)
<1> SUFFICES ASSUME ~InterruptsReject PROVE Spec => []AttendedInv
  OBVIOUS
<1>1. ChatInv /\ AttendedInv /\ [Next]_vars => AttendedInv'
  BY TurnStep, StartStep, AgentStep, WorkStep, DisposalInvStep, LedgerStep, SealStep
     DEF AttendedInv
<1> QED BY <1>1, AttendedInitially, ChatAlways, PTL DEF Spec

(***************************************************************************)
(* What follows, whatever becomes of interruptions.                        *)
(***************************************************************************)
(* Every variable keeps its type.                                          *)
THEOREM ChatTypeCorrect == Spec => []TypeOK
<1>1. ChatInv => TypeOK
  BY DEF ChatInv
<1> QED BY <1>1, ChatAlways, PTL

(* A chat looks busy exactly while it has a current turn: even a failure   *)
(* charged to the wrong turn leaves no chat that looks busy for ever.      *)
THEOREM BusyChatLooksBusy == Spec => []LooksBusyWhileBusy
<1>1. ChatInv => LooksBusyWhileBusy
  BY DEF ChatInv, LooksBusy, LooksBusyWhileBusy
<1> QED BY <1>1, ChatAlways, PTL

(***************************************************************************)
(* What follows as long as no interruption is rejected.                    *)
(***************************************************************************)
(* Every agent that runs is the chat's or about to be, and the server      *)
(* accepts no lease but the one the chat will revoke.                      *)
THEOREM AgentsAlwaysAttended == ~InterruptsReject => (Spec => []AgentsAttended)
<1> SUFFICES ASSUME ~InterruptsReject PROVE Spec => []AgentsAttended
  OBVIOUS
<1>1. ChatInv /\ AttendedInv => AgentsAttended
  BY DEF ChatInv, AttendedInv, AgentInv, AgentsAttended
<1> QED BY <1>1, ChatAlways, AttendedAlways, PTL

(* An agent works for the turn the user sees as running.                   *)
THEOREM AgentsWorkForCurrentTurn == ~InterruptsReject => (Spec => []WorksForCurrentTurn)
<1> SUFFICES ASSUME ~InterruptsReject PROVE Spec => []WorksForCurrentTurn
  OBVIOUS
<1>1. AttendedInv => WorksForCurrentTurn
  BY DEF AttendedInv, WorkInv, WorksForCurrentTurn
<1> QED BY <1>1, AttendedAlways, PTL

(* A chat that was sealed, closed or refreshed has nothing left running.   *)
THEOREM OverChatIsQuiet == ~InterruptsReject => (Spec => []QuietWhenOver)
<1> SUFFICES ASSUME ~InterruptsReject PROVE Spec => []QuietWhenOver
  OBVIOUS
<1>1. ChatInv /\ AttendedInv => QuietWhenOver
  <2> SUFFICES ASSUME ChatInv, AttendedInv PROVE QuietWhenOver
    OBVIOUS
  <2>1. /\ TypeOK /\ OperationInv /\ TurnInv /\ StartInv /\ AgentInv /\ WorkInv /\ DisposalInv
        /\ SealedIsQuiet
    BY DEF ChatInv, AttendedInv
  <2>2. agents \in [Turns -> {"none", "starting", "ready", "closing", "closed"}]
    BY <2>1 DEF TypeOK
  <2>3. StoppedIsQuiet
    <3> SUFFICES ASSUME daemon = "stopped", ~chat.stuck
                 PROVE  \A a \in Turns : agents[a] \in {"none", "closed"} /\ working[a] = None
      BY DEF StoppedIsQuiet
    <3>1. disposal.pc = "none" /\ chat.agent = None /\ ~chat.starting
      BY <2>1 DEF OperationInv, DisposalInv, StartInv
    <3> QED BY <2>1, <2>2, <3>1, TurnFacts DEF AgentInv, NoUnattendedAgent, WorkInv
  <2>4. RevisionsShareNoAgent
    <3> SUFFICES ASSUME op = "commit"
                 PROVE  chat.agent = None /\ \A a \in Turns : agents[a] \in {"none", "closed"}
      BY DEF RevisionsShareNoAgent
    <3>1. chat.active = None /\ chat.agent = None
      BY <2>1 DEF OperationInv, DisposalInv
    <3>2. ~chat.starting
      BY <2>1, <3>1, TurnFacts DEF StartInv, TurnInv, Suspended
    <3> QED BY <2>1, <2>2, <3>1, <3>2, TurnFacts DEF AgentInv, NoUnattendedAgent
  <2> QED BY <2>1, <2>3, <2>4 DEF QuietWhenOver
<1> QED BY <1>1, ChatAlways, AttendedAlways, PTL

(* A busy chat can be stopped and a failed one retried.                    *)
THEOREM ShownIsAlwaysTrue == ~InterruptsReject => (Spec => []ShownIsTrue)
<1> SUFFICES ASSUME ~InterruptsReject PROVE Spec => []ShownIsTrue
  OBVIOUS
<1>1. ChatInv /\ AttendedInv => ShownIsTrue
  BY DEF ChatInv, AttendedInv, LooksBusy, LooksBusyWhileBusy, ShownIsTrue
<1> QED BY <1>1, ChatAlways, AttendedAlways, PTL

(***************************************************************************)
(* The chat implements its contract.                                       *)
(***************************************************************************)
(* How the contract sees the ends of turns, and the request to retry.      *)
EndsShown == [t \in Turns |-> IF t = chat.active THEN {} ELSE outcomes[t]]
Retryable == IF chat.active = None THEN chat.retry ELSE None

(* A step is one of the contract, or one it does not see.                  *)
ContractStep == Contract!Next \/ UNCHANGED Contract!vars

(* The contract does not see what leaves turns, requests and ends alone.   *)
LEMMA Unseen ==
  ASSUME UNCHANGED <<begun, request, outcomes>>,
         chat'.active = chat.active, chat'.retry = chat.retry
  PROVE  ContractStep
BY DEF ContractStep, Contract!vars

(* Requests are discarded between turns.                                   *)
LEMMA Discarded ==
  ASSUME UNCHANGED <<begun, request, outcomes>>,
         chat.active = None, chat'.active = None, chat'.retry = None
  PROVE  ContractStep
BY DEF ContractStep, Contract!Next, Contract!MoveOn, None

(* The current turn ends: what it was asked is kept if it failed.          *)
LEMMA TurnEnds ==
  ASSUME TypeOK, LedgerInv, UNCHANGED <<begun, request>>, chat.active \in Turns,
         NEW o \in {"completed", "stopped", "failed"},
         outcomes' \in [Turns -> SUBSET {"completed", "stopped", "failed"}],
         outcomes'[chat.active] = {o},
         \A u \in Turns \ {chat.active} : outcomes'[u] = outcomes[u],
         chat'.active = None,
         chat'.retry = IF o = "failed" THEN request[chat.active] ELSE None
  PROVE  ContractStep
<1> USE TurnFacts
<1>1. EndsShown' = [EndsShown EXCEPT ![chat.active] = {o}]
  BY DEF EndsShown
<1>2. chat.active # 0 /\ Retryable = None /\ Retryable' = chat'.retry
  BY DEF Retryable
<1>3. CASE o = "failed"
  <2>1. Contract!Fail
    BY <1>1, <1>2, <1>3 DEF Contract!Fail, Contract!Ends, EndsShown, Retryable
  <2> QED BY <2>1 DEF ContractStep, Contract!Next
<1>4. CASE o # "failed"
  <2>1. Contract!End
    BY <1>1, <1>2, <1>4 DEF Contract!End, Contract!Ends, EndsShown, Retryable
  <2> QED BY <2>1 DEF ContractStep, Contract!Next
<1> QED BY <1>3, <1>4

(* How the contract sees the turn that its own coroutine ends.             *)
LEMMA EndSeen ==
  ASSUME TypeOK, (TypeOK)', LedgerInv, NEW t \in Turns, chat.active = t, run[t] # "fail",
         UNCHANGED <<begun, request>>,
         Completed(t) \/ Failed(t) \/ Stopped(t) \/ Built(t) \/ Cut(t)
  PROVE  ContractStep
<1> USE TurnFacts
<1>1. /\ outcomes[t] = {} /\ chat.retry = None
      /\ outcomes \in [Turns -> SUBSET {"completed", "stopped", "failed"}]
      /\ outcomes' \in [Turns -> SUBSET {"completed", "stopped", "failed"}]
  BY DEF TypeOK, LedgerInv
<1>2. CASE Completed(t)
  BY <1>1, <1>2, TurnEnds DEF Completed, EndsWith, ShowsTurn
<1>3. CASE Stopped(t)
  BY <1>1, <1>3, TurnEnds DEF Stopped, EndsWith, ShowsTurn
<1>4. CASE Failed(t)
  <2>1. chat'.active = t /\ \A u \in Turns \ {t} : outcomes'[u] = outcomes[u]
    BY <1>4 DEF Failed, EndsWith, ShowsTurn
  <2>2. EndsShown' = EndsShown /\ Retryable' = Retryable
    BY <2>1 DEF EndsShown, Retryable
  <2> QED BY <2>1, <2>2 DEF ContractStep, Contract!vars, EndsShown, Retryable
<1>5. CASE Built(t) \/ Cut(t)
  BY <1>5, Unseen DEF Built, Cut, ShowsTurn
<1> QED BY <1>2, <1>3, <1>4, <1>5

(* Every step is one of the contract or unseen by it.                      *)
LEMMA ContractKept ==
  ASSUME ~InterruptsReject, ChatInv, ChatInv', TurnInv, StartInv, WorkInv, DisposalInv,
         LedgerInv, [Next]_vars
  PROVE  ContractStep
<1> USE TurnFacts
<1>0. /\ chat \in Chat /\ begun \in 0..MaxTurns /\ request \in [Turns -> Ids]
      /\ chat.active \in Ids /\ outcomes \in [Turns -> SUBSET {"completed", "stopped", "failed"}]
      /\ outcomes' \in [Turns -> SUBSET {"completed", "stopped", "failed"}]
      /\ TypeOK /\ TypeOK' /\ OperationInv
  BY DEF ChatInv, TypeOK, Chat
<1> USE <1>0
<1>1. CASE BeginTurn
  <2>1. BeginTurnDoes
    BY <1>1, BeginTurnFacts
  <2>2. \E r \in {begun + 1, chat.retry} \ {None} : request' = [request EXCEPT ![begun + 1] = r]
    BY <1>1, BeginTurnEffect
  <2>3. outcomes[begun + 1] = {}
    BY <2>1 DEF BeginTurnDoes, LedgerInv
  <2>4. chat.active = None /\ chat'.active = begun + 1 /\ begun' = begun + 1 /\ outcomes' = outcomes
    BY <2>1 DEF BeginTurnDoes, ShowsTurn
  <2>5. EndsShown' = EndsShown
    BY <2>3, <2>4 DEF EndsShown
  <2>6. begun < MaxTurns
    BY <2>1 DEF BeginTurnDoes
  <2>7. Retryable = chat.retry /\ Retryable' = 0
    BY <2>4 DEF Retryable
  <2>8. Contract!Begin
    BY <2>2, <2>4, <2>5, <2>6, <2>7 DEF Contract!Begin, EndsShown, Retryable
  <2> QED BY <2>8 DEF ContractStep, Contract!Next
<1>2. CASE Interrupt
  <2>1. /\ UNCHANGED <<begun, request, outcomes>>
        /\ chat'.active = chat.active /\ chat'.retry = chat.retry
    BY <1>2, InterruptEffect DEF ShowsTurn
  <2> QED BY <2>1, Unseen
<1>3. CASE DisposeStarted
  <2>1. /\ UNCHANGED <<begun, request, outcomes>>
        /\ chat'.active = chat.active /\ chat'.retry = chat.retry
    BY <1>3 DEF DisposeStarted
  <2> QED BY <2>1, Unseen
<1>4. CASE AgentClosed
  <2>1. /\ UNCHANGED <<begun, request, outcomes>>
        /\ chat'.active = chat.active /\ chat'.retry = chat.retry
    BY <1>4, AgentClosedEffect DEF ShowsTurn
  <2> QED BY <2>1, Unseen
<1>5. CASE ProjectionReleased
  <2>1. /\ UNCHANGED <<begun, request, outcomes>>
        /\ chat'.active = chat.active /\ chat'.retry = chat.retry
    BY <1>5, ProjectionReleasedEffect DEF ShowsTurn
  <2> QED BY <2>1, Unseen
<1>6. CASE LeaseRevoked
  <2>1. /\ UNCHANGED <<begun, request, outcomes>>
        /\ chat'.active = chat.active /\ chat'.retry = chat.retry
    BY <1>6 DEF LeaseRevoked
  <2> QED BY <2>1, Unseen
<1>7. CASE DisposalEnds
  <2>1. DisposalEndsDoes
    BY <1>7, DisposalEndsFacts
  <2>2. UNCHANGED <<begun, request, outcomes>>
    BY <2>1 DEF DisposalEndsDoes
  <2>3. CASE op = "seal" /\ ~chat.stuck
    <3>1. chat.active = None /\ chat'.active = None /\ chat'.retry = None
      BY <2>1, <2>3 DEF DisposalEndsDoes, ShowsTurn, OperationInv
    <3> QED BY <2>2, <3>1, Discarded
  <2>4. CASE ~(op = "seal" /\ ~chat.stuck) /\ \A u \in Turns : run[u] # "fail"
    <3>1. chat'.active = chat.active /\ chat'.retry = chat.retry
      BY <2>1, <2>4 DEF DisposalEndsDoes, ShowsTurn
    <3> QED BY <2>2, <3>1, Unseen
  <2>5. CASE \E u \in Turns : run[u] = "fail"
    <3>1. chat.active \in Turns /\ run[chat.active] = "fail"
      BY <2>1, <2>5 DEF DisposalEndsDoes
    <3>2. chat'.active = None /\ chat'.retry = chat.retry
      BY <2>1, <2>5 DEF DisposalEndsDoes, ShowsTurn
    <3>3. outcomes[chat.active] = {"failed"} /\ chat.retry = request[chat.active]
      BY <3>1 DEF LedgerInv
    <3> QED BY <2>2, <3>1, <3>2, <3>3, TurnEnds DEF TypeOK
  <2> QED BY <2>3, <2>4, <2>5
<1>8. CASE RecordSubmission
  <2>1. /\ UNCHANGED <<begun, request, outcomes>>
        /\ chat'.active = chat.active /\ chat'.retry = chat.retry
    BY <1>8 DEF RecordSubmission
  <2> QED BY <2>1, Unseen
<1>9. CASE Seal
  <2>1. /\ UNCHANGED <<begun, request, outcomes>>
        /\ chat'.active = chat.active /\ chat'.retry = chat.retry
    BY <1>9 DEF Seal, Sealable
  <2> QED BY <2>1, Unseen
<1>10. CASE PrepareRefresh
  <2>1. /\ UNCHANGED <<begun, request, outcomes>>
        /\ chat'.active = chat.active /\ chat'.retry = chat.retry
    BY <1>10 DEF PrepareRefresh
  <2> QED BY <2>1, Unseen
<1>11. CASE RestoreRevision
  <2>1. chat.active = None /\ UNCHANGED <<begun, request, outcomes>>
    BY <1>11, RestoreRevisionEffect DEF OperationInv
  <2>2. CASE UNCHANGED chat
    BY <2>1, <2>2, Unseen
  <2>3. CASE ShowsTurn(chat', None, None, "idle")
    BY <2>1, <2>3, Discarded DEF ShowsTurn
  <2> QED BY <1>11, <2>2, <2>3, RestoreRevisionEffect
<1>12. CASE Remove
  <2>1. /\ UNCHANGED <<begun, request, outcomes>>
        /\ chat'.active = chat.active /\ chat'.retry = chat.retry
    BY <1>12 DEF Remove
  <2> QED BY <2>1, Unseen
<1>13. CASE Close
  <2>1. /\ UNCHANGED <<begun, request, outcomes>>
        /\ chat'.active = chat.active /\ chat'.retry = chat.retry
    BY <1>13 DEF Close
  <2> QED BY <2>1, Unseen
<1>14. CASE Stop
  <2>1. /\ UNCHANGED <<begun, request, outcomes>>
        /\ chat'.active = chat.active /\ chat'.retry = chat.retry
    BY <1>14 DEF Stop
  <2> QED BY <2>1, Unseen
<1>15. CASE Restart
  <2>1. RestartDoes
    BY <1>15, RestartFacts
  <2>2. CASE chat.active = None
    <3>1. UNCHANGED <<begun, request, outcomes>>
      BY <1>15, <2>2, RestartEffect
    <3> QED BY <2>1, <2>2, <3>1, Unseen DEF RestartDoes, ShowsTurn
  <2>3. CASE chat.active # None
    <3>1. outcomes' = [outcomes EXCEPT ![chat.active] = @ \cup {"failed"}]
      BY <1>15, <2>3, RestartEffect
    <3>2. outcomes[chat.active] \in {{}, {"failed"}}
      BY <2>3 DEF LedgerInv
    <3>3. /\ outcomes'[chat.active] = {"failed"}
          /\ \A u \in Turns \ {chat.active} : outcomes'[u] = outcomes[u]
      BY <2>3, <3>1, <3>2
    <3>4. /\ chat'.active = None /\ chat'.retry = request[chat.active]
          /\ UNCHANGED <<begun, request>> /\ chat.active \in Turns
      BY <2>1, <2>3 DEF RestartDoes, ShowsTurn
    <3> QED BY <3>3, <3>4, TurnEnds
  <2> QED BY <2>2, <2>3
<1>16. ASSUME NEW t \in Turns, OpenLease(t) PROVE ContractStep
  <2>1. /\ UNCHANGED <<begun, request, outcomes>>
        /\ chat'.active = chat.active /\ chat'.retry = chat.retry
    BY <1>16, OpenLeaseEffect DEF ShowsTurn
  <2> QED BY <2>1, Unseen
<1>17. ASSUME NEW t \in Turns, StartFails(t) PROVE ContractStep
  <2>1. /\ chat.active = t /\ run[t] # "fail" /\ UNCHANGED <<begun, request>>
        /\ Failed(t) \/ Cut(t)
    BY <1>17, StartFailsFacts DEF StartFailsDoes
  <2> QED BY <2>1, EndSeen
<1>18. ASSUME NEW t \in Turns, Spawned(t) PROVE ContractStep
  <2>1. /\ chat.active = t /\ run[t] # "fail" /\ UNCHANGED <<begun, request>>
        /\ Built(t) \/ Stopped(t) \/ Cut(t)
    BY <1>18, SpawnedFacts DEF SpawnedDoes
  <2> QED BY <2>1, EndSeen
<1>19. ASSUME NEW t \in Turns, Send(t) PROVE ContractStep
  <2>1. /\ UNCHANGED <<begun, request, outcomes>>
        /\ chat'.active = chat.active /\ chat'.retry = chat.retry
    BY <1>19 DEF Send
  <2> QED BY <2>1, Unseen
<1>20. ASSUME NEW t \in Turns, BuildFails(t) PROVE ContractStep
  <2>1. /\ chat.active = t /\ run[t] # "fail" /\ UNCHANGED <<begun, request>>
        /\ Failed(t) \/ Cut(t)
    BY <1>20, BuildFailsFacts DEF BuildFailsDoes
  <2> QED BY <2>1, EndSeen
<1>21. ASSUME NEW t \in Turns, BuildStops(t) PROVE ContractStep
  <2>1. /\ chat.active = t /\ run[t] # "fail" /\ UNCHANGED <<begun, request>>
        /\ Stopped(t) \/ Cut(t)
    BY <1>21, BuildStopsFacts DEF BuildStopsDoes
  <2> QED BY <2>1, EndSeen
<1>22. ASSUME NEW t \in Turns, Consume(t) PROVE ContractStep
  <2>1. /\ chat.active = t /\ run[t] # "fail" /\ UNCHANGED <<begun, request>>
        /\ Completed(t) \/ Failed(t) \/ Stopped(t) \/ Cut(t)
    BY <1>22, ConsumeFacts DEF ConsumeDoes
  <2> QED BY <2>1, EndSeen
<1>23. ASSUME NEW t \in Turns, LeaveStream(t) PROVE ContractStep
  <2>1. /\ UNCHANGED <<begun, request, outcomes>>
        /\ chat'.active = chat.active /\ chat'.retry = chat.retry
    BY <1>23 DEF LeaveStream
  <2> QED BY <2>1, Unseen
<1>24. ASSUME NEW t \in Turns, InterruptHonoured(t) PROVE ContractStep
  <2>1. /\ UNCHANGED <<begun, request, outcomes>>
        /\ chat'.active = chat.active /\ chat'.retry = chat.retry
    BY <1>24 DEF InterruptHonoured
  <2> QED BY <2>1, Unseen
<1>25. ASSUME NEW t \in Turns, InterruptRejected(t) PROVE ContractStep
  BY <1>25, InterruptRejectedEffect
<1>26. ASSUME NEW t \in Turns, AgentEnds(t) PROVE ContractStep
  <2>1. /\ UNCHANGED <<begun, request, outcomes>>
        /\ chat'.active = chat.active /\ chat'.retry = chat.retry
    BY <1>26 DEF AgentEnds
  <2> QED BY <2>1, Unseen
<1>27. ASSUME NEW t \in Turns, AgentDies(t) PROVE ContractStep
  <2>1. /\ UNCHANGED <<begun, request, outcomes>>
        /\ chat'.active = chat.active /\ chat'.retry = chat.retry
    BY <1>27 DEF AgentDies
  <2> QED BY <2>1, Unseen
<1>28. CASE UNCHANGED vars
  <2>1. UNCHANGED <<begun, request, outcomes, chat>>
    BY <1>28 DEF vars
  <2> QED BY <2>1, Unseen
<1> QED
  BY <1>1, <1>2, <1>3, <1>4, <1>5, <1>6, <1>7, <1>8, <1>9, <1>10, <1>11, <1>12, <1>13, <1>14,
     <1>15, <1>16, <1>17, <1>18, <1>19, <1>20, <1>21, <1>22, <1>23, <1>24, <1>25, <1>26, <1>27,
     <1>28
  DEF Next, Running, DisposalStep, RunStep, InterruptSettles

(* The chat starts as its contract does.                                   *)
LEMMA ContractInitially == Init => Contract!Init
BY TurnFacts DEF Init, Fresh, Contract!Init, Turns

(* Turns run one at a time and each ends once, and what a failed or cut    *)
(* turn was asked can be asked again.                                      *)
THEOREM ChatKeepsContract == ~InterruptsReject => (Spec => KeepsContract)
<1> SUFFICES ASSUME ~InterruptsReject PROVE Spec => KeepsContract
  OBVIOUS
<1>1. ChatInv /\ ChatInv' /\ AttendedInv /\ [Next]_vars => [Contract!Next]_(Contract!vars)
  BY ContractKept DEF ContractStep, AttendedInv
<1> QED
  BY <1>1, ContractInitially, ChatAlways, AttendedAlways, PTL DEF Spec, KeepsContract, Contract!Spec

=============================================================================
