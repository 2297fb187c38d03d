-------------------------- MODULE AgentSessions_proofs --------------------------
(***************************************************************************)
(* Theorems about the agent sessions, for any number of turns.             *)
(*                                                                         *)
(* The invariant is about the pipes: a turn goes into one end of them and  *)
(* comes out of the other, and while the session reads and no turn/start   *)
(* was given up, nothing else of a turn is in them.  Both backends, and    *)
(* both kinds of process, keep it; what a stream receives is therefore     *)
(* about its own turn, and a chat without a turn has empty pipes.          *)
(***************************************************************************)
EXTENDS AgentSessionsProperties, SequenceTheorems, TLAPS

(***************************************************************************)
(* What may be in the pipes and pending when n turns have been sent.       *)
(***************************************************************************)
Interruptions(n) == [kind: {"interrupt"}, by: Callers, turn: 1..n]
Requests(n) == {Starting(k): k \in 1..n} \cup Interruptions(n)

CodexInput(n) ==
  {Message(Starting(k), k): k \in 1..n}
    \cup [kind: {"interrupt"}, request: Interruptions(n), about: 1..n]
ClaudeInput(n) == [kind: {"user", "interrupt"}, about: 1..n]
Inputs(n) == CodexInput(n) \cup ClaudeInput(n)

Written(n) == [kind: {"started", "delta", "edit", "completed", "aborted"}, of: 1..n]
CodexAnswer(n) == [kind: {"answer"}, request: Requests(n), ok: BOOLEAN]
ClaudeAnswer(n) == [kind: {"answer"}, of: 1..n]
Outputs(n) == Written(n) \cup CodexAnswer(n) \cup ClaudeAnswer(n)

(* What begins a turn, what tells something about one, what ends it, and   *)
(* the answer to its turn/start.                                           *)
Begins(m) == m.kind \in {"user", "start"}
Tells(m) == m.kind # "answer"
Ends(m) == m.kind \in {"completed", "aborted"}
StartAnswer(m, k) == m \in {AnswerTo(Starting(k), ok): ok \in BOOLEAN}
Starts(m) == \E k \in Turns: StartAnswer(m, k)

NoneBegins(in) == \A i \in 1..Len(in): ~Begins(in[i])
NoneTells(out) == \A i \in 1..Len(out): ~Tells(out[i])
NoneStarts(out) == \A i \in 1..Len(out): ~Starts(out[i])
NoneEnds(out) == \A i \in 1..Len(out): ~Ends(out[i])
NoneRefused(out) == \A i \in 1..Len(out): ~(Starts(out[i]) /\ ~out[i].ok)

(* The pipes of a session whose active turn is act, while the process      *)
(* works on the turn run: everything in them that begins or tells of a     *)
(* turn is of that one, in the order in which a turn passes through them.  *)
PipeInputs(in, out, run, act) ==
  \A i \in 1..Len(in): Begins(in[i]) =>
    /\ act # 0 /\ in[i].about = act /\ run = 0
    /\ \A j \in 1..Len(in): Begins(in[j]) => i = j
    /\ NoneTells(out) /\ NoneStarts(out)

PipeTells(out, run, act) ==
  \A i \in 1..Len(out):
    /\ Tells(out[i]) => act # 0 /\ out[i].of = act
    /\ Ends(out[i]) => run = 0 /\ \A j \in 1..Len(out): Tells(out[j]) => j <= i

PipeStarts(out, run, act) ==
  \A i \in 1..Len(out): Starts(out[i]) =>
    /\ act # 0 /\ StartAnswer(out[i], act)
    /\ \A j \in 1..Len(out): (Tells(out[j]) => i < j) /\ (Starts(out[j]) => i = j)
    /\ ~out[i].ok => run = 0 /\ NoneTells(out)

Pipe(in, out, run, act) ==
  /\ run \in {0, act}
  /\ PipeInputs(in, out, run, act)
  /\ PipeTells(out, run, act) /\ PipeStarts(out, run, act)

(***************************************************************************)
(* Lemmas: sequences.                                                      *)
(***************************************************************************)
LEMMA TailFacts ==
  ASSUME NEW S, NEW s \in Seq(S), s # <<>>
  PROVE  /\ Tail(s) \in Seq(S) /\ Head(s) \in S /\ Head(s) = s[1] /\ 1 \in 1..Len(s)
         /\ Len(s) \in Nat /\ Len(Tail(s)) \in Nat
         /\ \A i \in 1..Len(Tail(s)): Tail(s)[i] = s[i + 1] /\ i + 1 \in 1..Len(s)
BY HeadTailProperties, LenProperties

LEMMA AppendFacts ==
  ASSUME NEW S, NEW s \in Seq(S), NEW e \in S
  PROVE  /\ Append(s, e) \in Seq(S)
         /\ Len(s) \in Nat /\ Len(Append(s, e)) = Len(s) + 1
         /\ \A i \in 1..Len(s): Append(s, e)[i] = s[i]
         /\ Append(s, e)[Len(s) + 1] = e
         /\ \A i \in 1..Len(Append(s, e)): i \in 1..Len(s) \/ i = Len(s) + 1
BY AppendProperties, LenProperties

LEMMA PairAppended ==
  ASSUME NEW S, NEW s \in Seq(S), NEW a \in S, NEW b \in S
  PROVE  s \o <<a, b>> = Append(Append(s, a), b) /\ s \o <<a, b>> \in Seq(S)
<1>1. s \o <<a, b>> = Append(Append(s, a), b)
  OBVIOUS
<1>2. Append(Append(s, a), b) \in Seq(S)
  BY AppendFacts
<1> QED BY <1>1, <1>2

LEMMA SingleAppended ==
  ASSUME NEW S, NEW s \in Seq(S), NEW a \in S
  PROVE  s \o <<a>> = Append(s, a)
OBVIOUS

(***************************************************************************)
(* Lemmas: what a step does to the pipes.                                  *)
(***************************************************************************)
(* What comes out of a pipe leaves it in order.                            *)
LEMMA TailOfInput ==
  ASSUME NEW n \in Nat, NEW in \in Seq(Inputs(n)), NEW out \in Seq(Outputs(n)),
         NEW run, NEW act, Pipe(in, out, run, act), in # <<>>
  PROVE  /\ Pipe(Tail(in), out, run, act)
         /\ Begins(Head(in)) => NoneBegins(Tail(in))
         /\ NoneBegins(in) => NoneBegins(Tail(in))
BY TailFacts, Z3 DEF Pipe, PipeInputs, NoneBegins

LEMMA TailOfOutput ==
  ASSUME NEW n \in Nat, NEW in \in Seq(Inputs(n)), NEW out \in Seq(Outputs(n)),
         NEW run, NEW act, Pipe(in, out, run, act), out # <<>>
  PROVE  Pipe(in, Tail(out), run, act)
<1>1. /\ \A i \in 1..Len(Tail(out)): Tail(out)[i] = out[i + 1] /\ i + 1 \in 1..Len(out)
      /\ Len(out) \in Nat /\ Len(Tail(out)) \in Nat
  BY TailFacts
<1>2. PipeInputs(in, Tail(out), run, act)
  BY <1>1 DEF Pipe, PipeInputs, NoneTells, NoneStarts
<1>3. PipeTells(Tail(out), run, act)
  BY <1>1 DEF Pipe, PipeTells
<1>4. PipeStarts(Tail(out), run, act)
  BY <1>1 DEF Pipe, PipeStarts, NoneTells
<1> QED BY <1>2, <1>3, <1>4 DEF Pipe

(* The pipes of a session without a turn are empty of turns.               *)
LEMMA IdlePipe ==
  ASSUME NEW in, NEW out, NEW run
  PROVE  Pipe(in, out, run, 0)
           <=> run = 0 /\ NoneBegins(in) /\ NoneTells(out) /\ NoneStarts(out)
BY DEF Pipe, PipeInputs, PipeTells, PipeStarts, NoneBegins, NoneTells, NoneStarts, Tells, Ends

LEMMA FreePipe ==
  ASSUME NEW in, NEW out, NEW act,
         NoneBegins(in), NoneTells(out), NoneStarts(out)
  PROVE  Pipe(in, out, 0, act)
BY DEF Pipe, PipeInputs, PipeTells, PipeStarts, NoneBegins, NoneTells, NoneStarts, Tells, Ends

(* A turn goes in.                                                         *)
LEMMA BeginPipe ==
  ASSUME NEW n \in Nat, NEW in \in Seq(Inputs(n)), NEW out \in Seq(Outputs(n)), NEW run,
         Pipe(in, out, run, 0), NEW m \in Inputs(n), m.about # 0
  PROVE  Pipe(Append(in, m), out, run, m.about)
<1>1. run = 0 /\ NoneBegins(in) /\ NoneTells(out) /\ NoneStarts(out)
  BY IdlePipe
<1>2. PipeInputs(Append(in, m), out, run, m.about)
  BY <1>1, AppendFacts, Z3 DEF PipeInputs, NoneBegins
<1>3. PipeTells(out, run, m.about) /\ PipeStarts(out, run, m.about)
  BY <1>1 DEF PipeTells, PipeStarts, NoneTells, NoneStarts, Tells, Ends
<1> QED BY <1>1, <1>2, <1>3 DEF Pipe

(* Anything else goes in.                                                  *)
LEMMA AskPipe ==
  ASSUME NEW n \in Nat, NEW in \in Seq(Inputs(n)), NEW out, NEW run, NEW act,
         Pipe(in, out, run, act), NEW m \in Inputs(n), ~Begins(m)
  PROVE  Pipe(Append(in, m), out, run, act)
<1>1. PipeInputs(Append(in, m), out, run, act)
  BY AppendFacts, Z3 DEF Pipe, PipeInputs
<1> QED BY <1>1 DEF Pipe

(* The process takes up the turn, or is done with it.                      *)
LEMMA RunPipe ==
  ASSUME NEW n \in Nat, NEW in \in Seq(Inputs(n)), NEW out \in Seq(Outputs(n)),
         NEW run, NEW act, Pipe(in, out, run, act)
  PROVE  /\ Pipe(in, out, 0, act)
         /\ NoneBegins(in) /\ NoneEnds(out) /\ NoneRefused(out) => Pipe(in, out, act, act)
         /\ run # 0 => NoneBegins(in) /\ NoneEnds(out) /\ NoneRefused(out)
<1>1. Pipe(in, out, 0, act)
  BY DEF Pipe, PipeInputs, PipeTells, PipeStarts
<1>2. ASSUME NoneBegins(in), NoneEnds(out), NoneRefused(out)
      PROVE  Pipe(in, out, act, act)
  BY <1>2 DEF Pipe, PipeInputs, PipeTells, PipeStarts, NoneBegins, NoneEnds, NoneRefused
<1>3. run # 0 => NoneBegins(in) /\ NoneEnds(out) /\ NoneRefused(out)
  BY DEF Pipe, PipeInputs, PipeTells, PipeStarts, NoneBegins, NoneEnds, NoneRefused
<1> QED BY <1>1, <1>2, <1>3

(* The process answers something that began no turn.                       *)
LEMMA AnswerPipe ==
  ASSUME NEW n \in Nat, NEW in \in Seq(Inputs(n)), NEW out \in Seq(Outputs(n)),
         NEW run, NEW act, Pipe(in, out, run, act),
         NEW m \in Outputs(n), ~Tells(m), ~Starts(m)
  PROVE  Pipe(in, Append(out, m), run, act)
<1>0. ~Ends(m)
  BY DEF Ends, Tells
<1>1. PipeInputs(in, Append(out, m), run, act)
  BY AppendFacts, Z3 DEF Pipe, PipeInputs, NoneTells, NoneStarts
<1>2. PipeTells(Append(out, m), run, act)
  BY <1>0, AppendFacts, Z3 DEF Pipe, PipeTells
<1>3. PipeStarts(Append(out, m), run, act)
  BY AppendFacts, Z3 DEF Pipe, PipeStarts, NoneTells
<1> QED BY <1>1, <1>2, <1>3 DEF Pipe

(* It answers the turn/start of its turn.                                  *)
LEMMA StartPipe ==
  ASSUME NEW n \in Nat, NEW in \in Seq(Inputs(n)), NEW out \in Seq(Outputs(n)),
         NEW act, Pipe(in, out, 0, act), act # 0,
         NoneBegins(in), NoneTells(out), NoneStarts(out),
         NEW m \in Outputs(n), ~Tells(m), StartAnswer(m, act)
  PROVE  /\ Pipe(in, Append(out, m), 0, act) /\ NoneTells(Append(out, m))
         /\ m.ok => NoneRefused(Append(out, m)) /\ NoneEnds(Append(out, m))
<1>0. ~Ends(m)
  BY DEF Ends, Tells
<1>1. PipeInputs(in, Append(out, m), 0, act)
  BY DEF PipeInputs, NoneBegins
<1>2. NoneTells(Append(out, m))
  BY AppendFacts, Z3 DEF NoneTells
<1>3. PipeTells(Append(out, m), 0, act)
  BY <1>2 DEF PipeTells, NoneTells, Tells, Ends
<1>4. PipeStarts(Append(out, m), 0, act)
  BY <1>2, AppendFacts, Z3 DEF PipeStarts, NoneTells, NoneStarts
<1>5. m.ok => NoneRefused(Append(out, m))
  BY AppendFacts, Z3 DEF NoneRefused, NoneStarts
<1>6. NoneEnds(Append(out, m))
  BY <1>2 DEF NoneEnds, NoneTells, Tells, Ends
<1> QED BY <1>1, <1>2, <1>3, <1>4, <1>5, <1>6 DEF Pipe

(* It tells something of its turn.                                         *)
LEMMA TellPipe ==
  ASSUME NEW n \in Nat, NEW in \in Seq(Inputs(n)), NEW out \in Seq(Outputs(n)),
         NEW run, NEW act, Pipe(in, out, run, act), act # 0,
         NoneBegins(in), NoneEnds(out), NoneRefused(out),
         NEW m \in Outputs(n), Tells(m), m.of = act, Ends(m) => run = 0
  PROVE  Pipe(in, Append(out, m), run, act)
<1>1. PipeInputs(in, Append(out, m), run, act)
  BY DEF PipeInputs, NoneBegins
<1>2. PipeTells(Append(out, m), run, act)
  BY AppendFacts, Z3 DEF Pipe, PipeTells, NoneEnds
<1>3. ~Starts(m)
  BY DEF Starts, StartAnswer, AnswerTo, Tells
<1>4. PipeStarts(Append(out, m), run, act)
  BY <1>3, AppendFacts, Z3 DEF Pipe, PipeStarts, NoneRefused
<1> QED BY <1>1, <1>2, <1>4 DEF Pipe

(* What ends the turn is the last thing that comes out of it.              *)
LEMMA EndPipe ==
  ASSUME NEW n \in Nat, NEW in \in Seq(Inputs(n)), NEW out \in Seq(Outputs(n)),
         NEW run, NEW act, Pipe(in, out, run, act), out # <<>>,
         \/ Ends(Head(out))
         \/ Starts(Head(out)) /\ ~Head(out).ok
  PROVE  Pipe(in, Tail(out), run, 0)
<1>1. /\ \A i \in 1..Len(Tail(out)): Tail(out)[i] = out[i + 1] /\ i + 1 \in 1..Len(out)
      /\ Len(out) \in Nat /\ Len(Tail(out)) \in Nat /\ Head(out) = out[1] /\ 1 \in 1..Len(out)
  BY TailFacts
<1>2. CASE Ends(Head(out))
  <2>1. Tells(out[1]) /\ run = 0
    BY <1>1, <1>2 DEF Pipe, PipeTells, Tells, Ends
  <2>2. NoneBegins(in)
    BY <1>1, <2>1 DEF Pipe, PipeInputs, NoneBegins, NoneTells
  <2>3. NoneTells(Tail(out))
    BY <1>1, <1>2 DEF Pipe, PipeTells, NoneTells
  <2>4. NoneStarts(Tail(out))
    BY <1>1, <2>1 DEF Pipe, PipeStarts, NoneStarts
  <2> QED BY <2>1, <2>2, <2>3, <2>4, IdlePipe
<1>3. CASE Starts(Head(out)) /\ ~Head(out).ok
  <2>1. run = 0 /\ NoneTells(out)
    BY <1>1, <1>3 DEF Pipe, PipeStarts
  <2>2. NoneBegins(in)
    BY <1>1, <1>3 DEF Pipe, PipeInputs, NoneBegins, NoneStarts
  <2>3. NoneTells(Tail(out))
    BY <1>1, <2>1 DEF NoneTells
  <2>4. NoneStarts(Tail(out))
    BY <1>1, <1>3 DEF Pipe, PipeStarts, NoneStarts
  <2> QED BY <2>1, <2>2, <2>3, <2>4, IdlePipe
<1> QED BY <1>2, <1>3

(***************************************************************************)
(* The inductive invariant.                                                *)
(***************************************************************************)
SessionTypes ==
  /\ backend \in {"codex", "claude"} /\ daemon \in {"up", "crashed"}
  /\ chat \in {"starting", "ready", "busy", "disposing", "closed"}
  /\ sent \in 0..MaxTurns /\ running \in 0..sent
  /\ closing \in {"no", "interrupting", "exiting", "killing", "done", "unconfirmed", "unawaited"}
  /\ proc \in {"up", "dying", "down"} /\ client \in {"open", "closed"}
  /\ flagged \subseteq Turns /\ asking \subseteq Turns
  /\ late \in BOOLEAN /\ failed \in BOOLEAN
  /\ queue \in [Turns -> Seq(Events)]

In(b, n) == IF b = "codex" THEN CodexInput(n) ELSE ClaudeInput(n)
Out(b, n) == Written(n) \cup IF b = "codex" THEN CodexAnswer(n) ELSE ClaudeAnswer(n)

PipeTypes ==
  /\ stdin \in Seq(In(backend, sent)) /\ stdout \in Seq(Out(backend, sent))
  /\ requests \subseteq Requests(sent)
  /\ waiting \subseteq Callers \X (1..sent)
  /\ ident \in [Turns -> 0..sent]

(* Every turn that was sent is over but the active one, which is the last. *)
TurnInv ==
  /\ turn \in {0, sent} /\ active \in {0, sent}
  /\ ended = (1..sent) \ {active}
  /\ chat = "starting" => sent = 0
  /\ chat = "ready" => turn = 0 /\ active = 0

(* What is closed has no request and no turn, and asks for none.           *)
ClosedInv ==
  /\ backend = "codex" => ~failed
  /\ backend = "claude" => client = "open" /\ ~late /\ requests = {} /\ closing # "interrupting"
  /\ client = "closed" => requests = {} /\ active = 0
  /\ (backend = "codex" /\ closing \in {"exiting", "killing", "done"}) => client = "closed"
  /\ (backend = "claude" /\ (closing # "no" \/ failed)) => active = 0
  /\ (backend = "claude" /\ closing # "no" /\ ~failed) => chat \in {"disposing", "closed"}
  /\ closing = "done" => proc = "down"

(* As long as the session reads and no turn/start was given up, the pipes  *)
(* hold nothing but the active turn.                                       *)
Reads ==
  /\ client = "open" /\ ~late /\ ~failed
  /\ backend = "claude" => closing = "no"

PipeInv == Reads => Pipe(stdin, stdout, running, active)

Shape == SessionTypes /\ PipeTypes /\ TurnInv /\ ClosedInv
AgentInv == Shape /\ PipeInv /\ OwnEvents

(***************************************************************************)
(* What a step does to the streams of the turns.                           *)
(***************************************************************************)
SameTurns == UNCHANGED <<active, ended, sent>>
TurnOver == active # 0 /\ active' = 0 /\ ended' = ended \cup {active} /\ sent' = sent
TurnBegun == chat = "ready" /\ sent < MaxTurns /\ sent' = sent + 1 /\ active' = sent + 1
             /\ ended' = ended
TurnRefused == /\ chat = "ready" /\ sent < MaxTurns /\ sent' = sent + 1 /\ active' = active
               /\ ended' = ended \cup {sent + 1}

QueuePops(k) == queue[k] # <<>> /\ queue' = [queue EXCEPT ![k] = Tail(@)]
QueueTakes(k, e) == (e.of = k \/ late) /\ queue' = [queue EXCEPT ![k] = Append(@, e)]
QueueIs(k, e) == e.of = k /\ queue' = [queue EXCEPT ![k] = <<e>>]
QueueStep ==
  \/ queue' = queue
  \/ \E k \in Turns: QueuePops(k)
  \/ \E k \in Turns, e \in Events: QueueTakes(k, e) \/ QueueIs(k, e)

LEMMA TurnFacts ==
  /\ MaxTurns \in Nat /\ Turns = 1..MaxTurns /\ 0 \notin Turns
  /\ \A n \in 0..MaxTurns: 1..n \subseteq Turns /\ n \in Nat
  /\ \A k \in 0..MaxTurns, kind \in Kinds:
       Event(kind, k) \in Events /\ Event(kind, k).of = k /\ Event(kind, k).kind = kind
BY MaxTurnsAssumption DEF Turns, Events, Event

(* Only the end of a turn pushes an event and takes the turn away.         *)
LEMMA FinishEffect ==
  ASSUME SessionTypes, TurnInv, sent' = sent, NEW e \in Events,
         active = 0 \/ e.of = active \/ late, Finish(<<e>>)
  PROVE  /\ SameTurns \/ TurnOver
         /\ active' = 0 /\ QueueStep
<1>1. CASE active = 0
  BY <1>1 DEF Finish, streamVars, SameTurns, QueueStep
<1>2. CASE active # 0
  <2>1. active \in Turns
    BY <1>2, TurnFacts DEF SessionTypes, TurnInv
  <2>2. queue' = [queue EXCEPT ![active] = queue[active] \o <<e>>]
    BY <1>2, <2>1 DEF Finish, Push
  <2>3. queue[active] \o <<e>> = Append(queue[active], e)
    BY <2>1, SingleAppended DEF SessionTypes
  <2>4. QueueTakes(active, e)
    BY <1>2, <2>2, <2>3 DEF QueueTakes
  <2> QED BY <1>2, <2>1, <2>4 DEF Finish, TurnOver, QueueStep
<1> QED BY <1>1, <1>2

LEMMA PushEffect ==
  ASSUME SessionTypes, TurnInv, UNCHANGED <<active, ended, sent>>, NEW e \in Events,
         active # 0, e.of = active \/ late, Push(<<e>>)
  PROVE  SameTurns /\ QueueStep
<1>1. active \in Turns
  BY TurnFacts DEF SessionTypes, TurnInv
<1>2. queue' = [queue EXCEPT ![active] = queue[active] \o <<e>>]
  BY DEF Push
<1>3. queue[active] \o <<e>> = Append(queue[active], e)
  BY <1>1, SingleAppended DEF SessionTypes
<1> QED BY <1>1, <1>2, <1>3 DEF QueueStep, QueueTakes, SameTurns

(* A turn that could not be started ends with an error.                    *)
LEMMA NotStartedEffect ==
  ASSUME SessionTypes, TurnInv, sent' = sent, NEW k \in 1..sent, NotStarted(k)
  PROVE  /\ SameTurns \/ TurnOver
         /\ k = active => active' = 0
         /\ k # active => UNCHANGED streamVars
         /\ QueueStep
<1>0. k \in Turns /\ sent \in Nat
  BY TurnFacts DEF SessionTypes
<1>1. CASE k \in ended
  BY <1>1 DEF NotStarted, streamVars, SameTurns, QueueStep, TurnInv
<1>2. CASE k \notin ended
  <2>1. k = active /\ active # 0
    BY <1>0, <1>2 DEF TurnInv
  <2>2. Event("error", k) \in Events /\ Event("error", k).of = k
    BY <1>0, TurnFacts DEF Kinds
  <2> QED BY <1>0, <1>2, <2>1, <2>2 DEF NotStarted, TurnOver, QueueStep, QueueTakes
<1> QED BY <1>1, <1>2

(* What comes of a step for the types of the streams and for whose events  *)
(* they hold.                                                              *)
LEMMA QueueStepKeeps ==
  ASSUME SessionTypes, OwnEvents, QueueStep, late' \in BOOLEAN, late => late'
  PROVE  queue' \in [Turns -> Seq(Events)] /\ OwnEvents'
<1> USE DEF SessionTypes
<1>1. CASE queue' = queue
  BY <1>1 DEF OwnEvents
<1>2. ASSUME NEW k \in Turns, QueuePops(k)
      PROVE  queue' \in [Turns -> Seq(Events)] /\ OwnEvents'
  BY <1>2, TailFacts DEF QueuePops, OwnEvents
<1>3. ASSUME NEW k \in Turns, NEW e \in Events, QueueTakes(k, e)
      PROVE  queue' \in [Turns -> Seq(Events)] /\ OwnEvents'
  <2>1. Append(queue[k], e) \in Seq(Events)
    BY AppendFacts
  <2>2. ASSUME e.of = k, ~late PROVE \A i \in 1..Len(Append(queue[k], e)): Append(queue[k], e)[i].of = k
    BY <2>2, AppendFacts, Z3 DEF OwnEvents
  <2> QED BY <1>3, <2>1, <2>2 DEF QueueTakes, OwnEvents
<1>4. ASSUME NEW k \in Turns, NEW e \in Events, QueueIs(k, e)
      PROVE  queue' \in [Turns -> Seq(Events)] /\ OwnEvents'
  <2>1. <<e>> \in Seq(Events) /\ \A i \in 1..Len(<<e>>): <<e>>[i] = e
    OBVIOUS
  <2> QED BY <1>4, <2>1 DEF QueueIs, OwnEvents
<1> QED BY <1>1, <1>2, <1>3, <1>4 DEF QueueStep

(* What is read is about the active turn, unless a turn/start was given up.*)
LEMMA HeadFacts ==
  ASSUME AgentInv, stdout # <<>>
  PROVE  /\ backend = "codex" => Head(stdout) \in Written(sent) \cup CodexAnswer(sent)
         /\ backend = "claude" => Head(stdout) \in Written(sent) \cup ClaudeAnswer(sent)
         /\ Tells(Head(stdout)) => Head(stdout) \in Written(sent)
         /\ \A kind \in {"delta", "completed", "aborted"}:
              Head(stdout).kind = kind => Head(stdout) \in Events
         /\ (Tells(Head(stdout)) /\ Reads) => active # 0 /\ Head(stdout).of = active
         /\ stdout \in Seq(Outputs(sent)) /\ Tail(stdout) \in Seq(Outputs(sent))
<1>0. sent \in Nat /\ 1..sent \subseteq 0..MaxTurns
  BY TurnFacts DEF AgentInv, Shape, SessionTypes
<1>1. stdout \in Seq(Out(backend, sent))
  BY DEF AgentInv, Shape, PipeTypes
<1>2. Head(stdout) \in Out(backend, sent) /\ Head(stdout) = stdout[1] /\ 1 \in 1..Len(stdout)
  BY <1>1, TailFacts
<1>3. Out(backend, sent) \subseteq Outputs(sent)
  BY DEF Out, Outputs
<1>4. stdout \in Seq(Outputs(sent))
  BY <1>1, <1>3, SeqMonotonic
<1>5. Tail(stdout) \in Seq(Outputs(sent))
  BY <1>4, TailFacts
<1>6. Tells(Head(stdout)) => Head(stdout) \in Written(sent)
  BY <1>2 DEF Tells, Out, CodexAnswer, ClaudeAnswer
<1>7. \A kind \in {"delta", "completed", "aborted"}:
        Head(stdout).kind = kind => Head(stdout) \in Events
  BY <1>0, <1>6 DEF Tells, Written, Events, Kinds
<1>8. (Tells(Head(stdout)) /\ Reads) => active # 0 /\ Head(stdout).of = active
  BY <1>2 DEF AgentInv, PipeInv, Pipe, PipeTells
<1>9. backend = "codex" => Head(stdout) \in Written(sent) \cup CodexAnswer(sent)
  BY <1>2 DEF Out
<1>10. backend = "claude" => Head(stdout) \in Written(sent) \cup ClaudeAnswer(sent)
  BY <1>2 DEF Out
<1> QED BY <1>4, <1>5, <1>6, <1>7, <1>8, <1>9, <1>10

(***************************************************************************)
(* The streams, under the steps of Codex.                                  *)
(***************************************************************************)
StreamStep == (SameTurns \/ TurnOver \/ TurnBegun \/ TurnRefused) /\ QueueStep

LEMMA ConversationStreams ==
  ASSUME AgentInv, Conversation
  PROVE  StreamStep
<1>1. CASE Consume
  <2>1. turn \in Turns
    BY <1>1, TurnFacts DEF Consume, AgentInv, Shape, TurnInv, SessionTypes
  <2> QED BY <1>1, <2>1 DEF Consume, StreamStep, SameTurns, QueueStep, QueuePops
<1>2. CASE Started \/ StreamEnds \/ Disposed
  BY <1>2 DEF Started, StreamEnds, Disposed, streamVars, StreamStep, SameTurns, QueueStep
<1> QED BY <1>1, <1>2 DEF Conversation

LEMMA SendStreams ==
  ASSUME AgentInv, Send
  PROVE  StreamStep
<1>0. sent + 1 \in Turns /\ chat = "ready" /\ sent < MaxTurns /\ sent' = sent + 1
  BY TurnFacts DEF Send, Begin, AgentInv, Shape, SessionTypes
<1>1. CASE client = "open"
  BY <1>0, <1>1 DEF Send, StreamStep, TurnBegun, QueueStep
<1>2. CASE client # "open"
  <2>1. Event("error", sent + 1) \in Events /\ Event("error", sent + 1).of = sent + 1
    BY <1>0, TurnFacts DEF Kinds
  <2> QED BY <1>0, <1>2, <2>1 DEF Send, StreamStep, TurnRefused, QueueStep, QueueIs
<1> QED BY <1>1, <1>2

LEMMA GivenUpStreams ==
  ASSUME AgentInv, NEW r \in requests, GivenUp(r), sent' = sent
  PROVE  StreamStep
<1>1. r.turn \in 1..sent
  BY DEF AgentInv, Shape, PipeTypes, Requests, Interruptions, Starting, Request
<1> QED BY <1>1, NotStartedEffect
      DEF AgentInv, Shape, GivenUp, StreamStep, SameTurns, QueueStep, streamVars

LEMMA FailStreams ==
  ASSUME AgentInv, Fail, sent' = sent
  PROVE  StreamStep /\ active' = 0
<1>1. Event("error", active) \in Events /\ Event("error", active).of = active
  BY TurnFacts DEF Kinds, AgentInv, Shape, TurnInv, SessionTypes
<1> QED BY <1>1, FinishEffect DEF Fail, AgentInv, Shape, StreamStep

(* Reading what the server wrote.                                          *)
LEMMA ReadStreams ==
  ASSUME AgentInv, backend = "codex",
         Answer \/ TurnStarted \/ Delta \/ Edit \/ TurnCompleted \/ TurnAborted
  PROVE  StreamStep
<1>0. SessionTypes /\ TurnInv
  BY DEF AgentInv, Shape
<1>1. CASE Answer
  <2> DEFINE m == Head(stdout)
  <2>1. sent' = sent
    BY <1>1 DEF Answer, Read
  <2>2. CASE m.request \notin requests \/ (m.ok /\ UNCHANGED streamVars)
    BY <1>1, <2>1, <2>2 DEF Answer, streamVars, StreamStep, SameTurns, QueueStep
  <2>3. CASE m.request \in requests /\ ~m.ok
    <3>1. GivenUp(m.request)
      BY <1>1, <2>3 DEF Answer
    <3> QED BY <2>1, <2>3, <3>1, GivenUpStreams
  <2> QED BY <1>1, <2>2, <2>3 DEF Answer
<1>2. CASE TurnStarted
  BY <1>2 DEF TurnStarted, Notified, Read, streamVars, StreamStep, SameTurns, QueueStep
<1>3. CASE Delta
  <2>1. /\ UNCHANGED <<active, ended, sent>> /\ stdout # <<>> /\ client = "open"
        /\ Head(stdout).kind = "delta"
        /\ IF active = 0 \/ Foreign THEN UNCHANGED queue ELSE Push(<<Head(stdout)>>)
    BY <1>3 DEF Delta, Notified, Read
  <2>2. CASE active = 0 \/ Foreign
    BY <2>1, <2>2 DEF StreamStep, SameTurns, QueueStep
  <2>3. CASE ~(active = 0 \/ Foreign)
    <3>1. Head(stdout) \in Events /\ (Head(stdout).of = active \/ late)
      BY <2>1, HeadFacts DEF Tells, Reads, AgentInv, Shape, ClosedInv
    <3> QED BY <1>0, <2>1, <2>3, <3>1, PushEffect DEF StreamStep
  <2> QED BY <2>2, <2>3
<1>4. CASE Edit
  <2>1. /\ UNCHANGED <<active, ended, sent>> /\ stdout # <<>> /\ client = "open"
        /\ Head(stdout).kind = "edit"
        /\ IF active = 0 \/ Foreign THEN UNCHANGED queue
           ELSE Push(<<Event("error", Head(stdout).of)>>)
    BY <1>4 DEF Edit, Notified, Read
  <2>2. CASE active = 0 \/ Foreign
    BY <2>1, <2>2 DEF StreamStep, SameTurns, QueueStep
  <2>3. CASE ~(active = 0 \/ Foreign)
    <3>1. Head(stdout).of \in 1..sent /\ (Head(stdout).of = active \/ late)
      BY <2>1, HeadFacts DEF Tells, Reads, AgentInv, Shape, ClosedInv, Written
    <3>2. Event("error", Head(stdout).of) \in Events
          /\ Event("error", Head(stdout).of).of = Head(stdout).of
      BY <1>0, <3>1, TurnFacts DEF Kinds, SessionTypes
    <3> QED BY <1>0, <2>1, <2>3, <3>1, <3>2, PushEffect DEF StreamStep
  <2> QED BY <2>2, <2>3
<1>5. CASE TurnCompleted \/ TurnAborted
  <2>1. /\ sent' = sent /\ stdout # <<>> /\ client = "open" /\ Finish(<<Head(stdout)>>)
        /\ Head(stdout).kind \in {"completed", "aborted"}
    BY <1>5 DEF TurnCompleted, TurnAborted, Notified, Read
  <2>2. Head(stdout) \in Events /\ (Head(stdout).of = active \/ late)
    BY <2>1, HeadFacts DEF Tells, Reads, AgentInv, Shape, ClosedInv
  <2> QED BY <1>0, <2>1, <2>2, FinishEffect DEF StreamStep
<1> QED BY <1>1, <1>2, <1>3, <1>4, <1>5

LEMMA CodexStreams ==
  ASSUME AgentInv, CodexNext
  PROVE  StreamStep
<1> USE DEF CodexNext
<1>1. CASE Conversation
  BY <1>1, ConversationStreams
<1>2. CASE Answer \/ TurnStarted \/ Delta \/ Edit \/ TurnCompleted \/ TurnAborted
  BY <1>2, ReadStreams
<1>3. CASE CodexTimeouts
  BY <1>3, GivenUpStreams DEF CodexTimeouts, Timeout
<1>4. CASE Send
  BY <1>4, SendStreams
<1>5. CASE Nonsense
  BY <1>5, FailStreams DEF Nonsense
<1>6. CASE Exits
  BY <1>6, FailStreams DEF Exits, StreamStep, SameTurns, QueueStep, streamVars
<1>7. CASE CloseContinues
  <2>1. sent' = sent /\ Finish(<<>>)
    BY <1>7 DEF CloseContinues
  <2>2. CASE active = 0
    BY <2>1, <2>2 DEF Finish, StreamStep, SameTurns, QueueStep, streamVars
  <2>3. CASE active # 0
    <3>1. active \in Turns /\ queue[active] \in Seq(Events)
      BY <2>3, TurnFacts DEF AgentInv, Shape, TurnInv, SessionTypes
    <3>2. queue[active] \o <<>> = queue[active]
      BY <3>1, ConcatEmptySeq
    <3>3. queue' = queue
      BY <2>1, <2>3, <3>1, <3>2 DEF Finish, Push, AgentInv, Shape, SessionTypes
    <3> QED BY <2>1, <2>3, <3>3 DEF Finish, StreamStep, TurnOver, QueueStep
  <2> QED BY <2>2, <2>3
<1>8. CASE \/ Stop \/ Retire \/ StartFails \/ Close \/ Exited \/ Kill
           \/ Server \/ \E c \in waiting: CallContinues(c)
  <2>1. UNCHANGED <<streamVars, sent>>
    BY <1>8 DEF Stop, Retire, StartFails, Close, Exited, Kill, Server, ServerReads, Completes,
                Says, CallContinues, chatVars
  <2> QED BY <2>1 DEF streamVars, StreamStep, SameTurns, QueueStep
<1> QED BY <1>1, <1>2, <1>3, <1>4, <1>5, <1>6, <1>7, <1>8 DEF CodexSteps

(***************************************************************************)
(* The streams, under the steps of Claude.                                 *)
(***************************************************************************)
(* The session was reading when it took what the process wrote.            *)
LEMMA TakeFacts ==
  ASSUME AgentInv, NEW kind \in {"answer", "delta", "completed", "aborted"}, Take(kind)
  PROVE  /\ sent' = sent /\ stdout # <<>> /\ Head(stdout).kind = kind /\ Reads
         /\ kind # "answer" => /\ Head(stdout) \in Written(sent) /\ Head(stdout) \in Events
                                /\ active # 0 /\ Head(stdout).of = active
                                /\ Event("error", Head(stdout).of) \in Events
                                /\ Event("error", Head(stdout).of).of = active
<1>1. /\ sent' = sent /\ stdout # <<>> /\ Head(stdout).kind = kind /\ Reads
  BY DEF Take, chatVars, Reads, AgentInv, Shape, ClosedInv
<1>2. CASE kind # "answer"
  <2>1. /\ Head(stdout) \in Written(sent) /\ Head(stdout) \in Events
        /\ active # 0 /\ Head(stdout).of = active
    BY <1>1, <1>2, HeadFacts DEF Tells
  <2>2. active \in 0..MaxTurns
    BY TurnFacts DEF AgentInv, Shape, TurnInv, SessionTypes
  <2> QED BY <1>1, <2>1, <2>2, TurnFacts DEF Kinds
<1> QED BY <1>1, <1>2

LEMMA EndedStreams ==
  ASSUME AgentInv, Finish(<<Event("error", active)>>), sent' = sent
  PROVE  StreamStep /\ active' = 0
<1>1. Event("error", active) \in Events /\ Event("error", active).of = active
  BY TurnFacts DEF Kinds, AgentInv, Shape, TurnInv, SessionTypes
<1> QED BY <1>1, FinishEffect DEF AgentInv, Shape, StreamStep

LEMMA ClaudeStreams ==
  ASSUME AgentInv, ClaudeNext
  PROVE  StreamStep
<1> USE DEF ClaudeNext
<1>0. SessionTypes /\ TurnInv
  BY DEF AgentInv, Shape
<1>1. CASE Conversation
  BY <1>1, ConversationStreams
<1>2. CASE Text
  <2>1. Take("delta")
    BY <1>2 DEF Text
  <2>2. CASE active = 0
    BY <1>2, <2>1, <2>2, TakeFacts DEF Text
  <2>3. CASE active # 0
    BY <1>0, <1>2, <2>1, <2>3, TakeFacts, PushEffect DEF Text, StreamStep
  <2> QED BY <2>2, <2>3
<1>3. CASE Result \/ Aborted
  <2>1. Take("completed") \/ Take("aborted")
    BY <1>3 DEF Result, Aborted
  <2>2. PICK e \in {Head(stdout), Event("error", Head(stdout).of)}: Finish(<<e>>)
    BY <1>3 DEF Result, Aborted
  <2>3. e \in Events /\ e.of = active /\ sent' = sent
    BY <2>1, <2>2, TakeFacts
  <2> QED BY <1>0, <2>2, <2>3, FinishEffect DEF StreamStep
<1>4. CASE PumpEnds \/ PumpFails \/ ClaudeClose
  <2>1. Finish(<<Event("error", active)>>) /\ sent' = sent
    BY <1>4 DEF PumpEnds, PumpFails, PumpFailed, ClaudeClose, chatVars
  <2> QED BY <2>1, EndedStreams
<1>5. CASE ClaudeSend
  <2>1. CASE closing = "no" /\ ~failed
    BY <1>5, <2>1 DEF ClaudeSend, Begin, StreamStep, TurnBegun, QueueStep
  <2>2. CASE ~(closing = "no" /\ ~failed)
    BY <1>5, <2>2 DEF ClaudeSend, StreamStep, SameTurns, QueueStep
  <2> QED BY <2>1, <2>2
<1>6. CASE \/ AskingAnswered \/ ClaudeExited \/ ClaudeKill \/ ClaudeStop \/ Retire
           \/ ClaudeStartFails \/ Unconfirmed \/ ProcessExits \/ Claude
           \/ \E k \in Turns: AskingFails(k)
  <2>1. UNCHANGED <<streamVars, sent>>
    BY <1>6 DEF AskingAnswered, Take, ClaudeExited, ClaudeKill, ClaudeStop, Retire,
                ClaudeStartFails, Unconfirmed, ProcessExits, Claude, ClaudeReads, Completes,
                Says, AskingFails, chatVars
  <2> QED BY <2>1 DEF streamVars, StreamStep, SameTurns, QueueStep
<1> QED BY <1>1, <1>2, <1>3, <1>4, <1>5, <1>6 DEF ClaudeSteps

LEMMA Streams ==
  ASSUME AgentInv, Next
  PROVE  StreamStep
BY CodexStreams, ClaudeStreams DEF Next

(***************************************************************************)
(* The chat and its turn.                                                  *)
(***************************************************************************)
ChatGoesOn == UNCHANGED <<chat, turn, sent>>
ChatCloses == chat' \in {"disposing", "closed"} /\ turn' \in {0, turn} /\ sent' = sent
TurnEnds == /\ turn # 0 /\ turn \in ended /\ turn' = 0 /\ chat # "starting" /\ sent' = sent
            /\ chat' \in {"ready", "disposing", chat}

ChatStep ==
  \/ ChatGoesOn \/ ChatCloses \/ TurnEnds
  \/ /\ chat = "ready" /\ sent < MaxTurns /\ chat' = "busy"
     /\ sent' = sent + 1 /\ turn' = sent + 1
  \/ chat = "starting" /\ chat' = "ready" /\ UNCHANGED <<turn, sent>>

LEMMA ConversationChat ==
  ASSUME AgentInv, Conversation
  PROVE  ChatStep
<1>1. CASE StreamEnds
  <2>1. chat # "starting"
    BY <1>1 DEF StreamEnds, AgentInv, Shape, TurnInv
  <2> QED BY <1>1, <2>1 DEF StreamEnds, ChatStep, TurnEnds
<1>2. CASE Started \/ Consume \/ Disposed
  BY <1>2 DEF Started, Consume, Disposed, ChatStep, ChatGoesOn, ChatCloses
<1> QED BY <1>1, <1>2 DEF Conversation

LEMMA CodexChat ==
  ASSUME AgentInv, CodexNext
  PROVE  ChatStep
<1> USE DEF CodexNext
<1>1. CASE Conversation
  BY <1>1, ConversationChat
<1>2. CASE Send
  BY <1>2 DEF Send, Begin, ChatStep
<1>3. CASE Answer \/ CodexTimeouts \/ Nonsense \/ Exits \/ CloseContinues
  <2>1. UNCHANGED <<turn, sent>> /\ chat' \in {chat, "disposing"}
    BY <1>3 DEF Answer, Read, CodexTimeouts, Timeout, GivenUp, Rejected, Dispose, Nonsense, Fail,
                Exits, CloseContinues, Accepted
  <2> QED BY <2>1 DEF ChatStep, ChatGoesOn, ChatCloses
<1>4. CASE \/ TurnStarted \/ Delta \/ Edit \/ TurnCompleted \/ TurnAborted
           \/ Stop \/ Retire \/ StartFails \/ Close \/ Exited \/ Kill
           \/ Server \/ \E c \in waiting: CallContinues(c)
  <2>1. UNCHANGED <<turn, sent>> /\ chat' \in {chat, "disposing", "closed"}
    BY <1>4 DEF TurnStarted, Delta, Edit, TurnCompleted, TurnAborted, Notified, Read, Stop, Retire,
                StartFails, Close, Exited, Kill, Server, ServerReads, Completes, Says,
                CallContinues, chatVars
  <2> QED BY <2>1 DEF ChatStep, ChatGoesOn, ChatCloses
<1> QED BY <1>1, <1>2, <1>3, <1>4 DEF CodexSteps

LEMMA ClaudeChat ==
  ASSUME AgentInv, ClaudeNext
  PROVE  ChatStep
<1> USE DEF ClaudeNext
<1>1. CASE Conversation
  BY <1>1, ConversationChat
<1>2. CASE ClaudeSend
  BY <1>2 DEF ClaudeSend, Begin, ChatStep, ChatCloses
<1>3. CASE \/ AskingAnswered \/ Text \/ Result \/ Aborted \/ PumpEnds \/ PumpFails
           \/ ClaudeClose \/ ClaudeExited \/ ClaudeKill \/ ClaudeStop \/ Retire
           \/ ClaudeStartFails \/ Unconfirmed \/ ProcessExits \/ Claude
           \/ \E k \in Turns: AskingFails(k)
  <2>1. UNCHANGED <<turn, sent>> /\ chat' \in {chat, "disposing"}
    BY <1>3 DEF AskingAnswered, Text, Result, Aborted, Take, PumpEnds, PumpFails, PumpFailed,
                ClaudeClose, ClaudeExited, ClaudeKill, ClaudeStop, Retire, ClaudeStartFails,
                Unconfirmed, ProcessExits, Claude, ClaudeReads, Completes, Says, AskingFails,
                Dispose, chatVars
  <2> QED BY <2>1 DEF ChatStep, ChatGoesOn, ChatCloses
<1> QED BY <1>1, <1>2, <1>3 DEF ClaudeSteps

LEMMA TurnsKept ==
  ASSUME AgentInv, Next
  PROVE  TurnInv' /\ sent' \in sent..MaxTurns
<1>1. StreamStep /\ ChatStep
  BY Streams, CodexChat, ClaudeChat DEF Next
<1>2. TurnInv /\ sent \in 0..MaxTurns /\ MaxTurns \in Nat
  BY TurnFacts DEF AgentInv, Shape, SessionTypes
<1>3. CASE SameTurns
  BY <1>1, <1>2, <1>3 DEF SameTurns, ChatStep, ChatGoesOn, ChatCloses, TurnEnds, TurnInv
<1>4. CASE TurnOver
  BY <1>1, <1>2, <1>4 DEF TurnOver, ChatStep, ChatGoesOn, ChatCloses, TurnEnds, TurnInv
<1>5. CASE TurnBegun
  BY <1>1, <1>2, <1>5 DEF TurnBegun, ChatStep, ChatGoesOn, ChatCloses, TurnEnds, TurnInv
<1>6. CASE TurnRefused
  BY <1>1, <1>2, <1>6 DEF TurnRefused, ChatStep, ChatGoesOn, ChatCloses, TurnEnds, TurnInv
<1> QED BY <1>1, <1>3, <1>4, <1>5, <1>6 DEF StreamStep

(***************************************************************************)
(* Types of what is in the pipes and pending.                              *)
(***************************************************************************)
(* What was of a type stays of it when more turns are sent.                *)
LEMMA TypesGrow ==
  ASSUME SessionTypes, PipeTypes, sent' \in sent..MaxTurns, backend' = backend
  PROVE  /\ stdin \in Seq(In(backend', sent')) /\ (stdin # <<>> => Tail(stdin) \in Seq(In(backend', sent')))
         /\ <<>> \in Seq(In(backend', sent')) /\ <<>> \in Seq(Out(backend', sent'))
         /\ stdout \in Seq(Out(backend', sent')) /\ (stdout # <<>> => Tail(stdout) \in Seq(Out(backend', sent')))
         /\ requests \subseteq Requests(sent') /\ waiting \subseteq Callers \X (1..sent')
         /\ ident \in [Turns -> 0..sent'] /\ running \in 0..sent'
<1>0. sent \in Nat /\ sent' \in Nat /\ 1..sent \subseteq 1..sent' /\ 0..sent \subseteq 0..sent'
  BY TurnFacts DEF SessionTypes
<1>1. Interruptions(sent) \subseteq Interruptions(sent')
  BY <1>0 DEF Interruptions
<1>2. Requests(sent) \subseteq Requests(sent')
  BY <1>0, <1>1 DEF Requests
<1>3. In(backend, sent) \subseteq In(backend', sent')
  BY <1>0, <1>1 DEF In, CodexInput, ClaudeInput
<1>4. Out(backend, sent) \subseteq Out(backend', sent')
  BY <1>0, <1>2 DEF Out, Written, CodexAnswer, ClaudeAnswer
<1>5. stdin \in Seq(In(backend', sent')) /\ stdout \in Seq(Out(backend', sent'))
  BY <1>3, <1>4, SeqMonotonic DEF PipeTypes
<1>6. /\ stdin # <<>> => Tail(stdin) \in Seq(In(backend', sent'))
      /\ stdout # <<>> => Tail(stdout) \in Seq(Out(backend', sent'))
  BY <1>5, TailFacts
<1>7. <<>> \in Seq(In(backend', sent')) /\ <<>> \in Seq(Out(backend', sent'))
  BY EmptySeq
<1> QED BY <1>0, <1>2, <1>5, <1>6, <1>7 DEF PipeTypes, SessionTypes

(* Whose interruption is meant, under the steps of Codex.                  *)
LEMMA CodexWaiting ==
  ASSUME AgentInv, CodexNext
  PROVE  waiting' \subseteq Callers \X (1..sent')
<1> USE DEF CodexNext
<1>1. waiting \subseteq Callers \X (1..sent) /\ active \in 0..sent /\ sent \in Nat
  BY TurnFacts DEF AgentInv, Shape, PipeTypes, TurnInv, SessionTypes
<1>2. sent' = sent \/ sent' = sent + 1
  BY CodexChat DEF ChatStep, ChatGoesOn, ChatCloses, TurnEnds
<1>3. ASSUME NEW by \in Callers, Called(by)
      PROVE  waiting' \subseteq Callers \X (1..sent)
  BY <1>1, <1>3 DEF Called
<1>4. CASE Stop \/ Edit \/ Close
  <2>1. waiting' = waiting \/ \E by \in Callers: Called(by)
    BY <1>4 DEF Stop, Edit, Close, Callers
  <2>2. waiting' \subseteq Callers \X (1..sent)
    BY <1>1, <1>3, <2>1
  <2> QED BY <1>1, <1>2, <2>2
<1>5. ASSUME NEW c \in waiting, CallContinues(c)
      PROVE  waiting' \subseteq waiting
  BY <1>5 DEF CallContinues
<1>6. CASE \/ (Conversation /\ UNCHANGED codexVars)
           \/ Answer \/ TurnStarted \/ Delta \/ TurnCompleted \/ TurnAborted
           \/ CloseContinues \/ Exited \/ Kill \/ CodexTimeouts \/ Send
           \/ (Retire /\ UNCHANGED codexVars) \/ StartFails \/ Nonsense \/ Exits \/ Server
  <2>1. waiting' = waiting
    BY <1>6 DEF Answer, TurnStarted, Delta, TurnCompleted, TurnAborted, Notified, Read,
                CloseContinues, Exited, Kill, CodexTimeouts, Timeout, Send, StartFails, Nonsense,
                Exits, Server, ServerReads, codexVars
  <2> QED BY <1>1, <1>2, <2>1
<1> QED BY <1>1, <1>2, <1>4, <1>5, <1>6 DEF CodexSteps

(* The pending requests.                                                   *)
LEMMA CodexRequests ==
  ASSUME AgentInv, CodexNext
  PROVE  /\ requests' \subseteq Requests(sent')
         /\ client' = "closed" => requests' = {}
<1> USE DEF CodexNext
<1>1. /\ requests \subseteq Requests(sent) /\ waiting \subseteq Callers \X (1..sent)
      /\ sent \in Nat /\ (client = "closed" => requests = {} /\ active = 0)
      /\ client \in {"open", "closed"}
  BY TurnFacts DEF AgentInv, Shape, PipeTypes, ClosedInv, SessionTypes
<1>2. sent' = sent \/ sent' = sent + 1
  BY CodexChat DEF ChatStep, ChatGoesOn, ChatCloses, TurnEnds
<1>3. Requests(sent) \subseteq Requests(sent')
  BY <1>1, <1>2 DEF Requests, Interruptions
<1>4. CASE Send
  <2>1. sent' = sent + 1 /\ Starting(sent + 1) \in Requests(sent') /\ client' = client
    BY <1>1, <1>4 DEF Send, Begin, Requests
  <2> QED BY <1>1, <1>3, <1>4, <2>1 DEF Send
<1>5. ASSUME NEW c \in waiting, CallContinues(c)
      PROVE  /\ requests' \subseteq Requests(sent')
             /\ client' = "closed" => requests' = {}
  <2>1. client' = client /\ sent' = sent
    BY <1>5 DEF CallContinues, chatVars
  <2>2. Interruption(c) \in Requests(sent')
    BY <1>1, <2>1 DEF Requests, Interruptions, Interruption, Request
  <2>3. client = "closed" => c[2] \in ended
    BY <1>1 DEF AgentInv, Shape, TurnInv
  <2> QED BY <1>1, <1>3, <1>5, <2>1, <2>2, <2>3 DEF CallContinues
<1>6. CASE Nonsense \/ CloseContinues \/ (Exits /\ client = "open")
  <2>1. requests' = {}
    BY <1>6 DEF Nonsense, CloseContinues, Exits, Fail, Rejected
  <2> QED BY <2>1
<1>7. CASE StartFails
  <2>1. sent = 0 /\ requests' = requests
    BY <1>7 DEF StartFails, AgentInv, Shape, TurnInv
  <2>2. Requests(0) = {}
    BY DEF Requests, Interruptions
  <2> QED BY <1>1, <1>3, <2>1, <2>2
<1>8. CASE \/ (Conversation /\ UNCHANGED codexVars)
           \/ Answer \/ TurnStarted \/ Delta \/ Edit \/ TurnCompleted \/ TurnAborted
           \/ Close \/ Exited \/ Kill \/ CodexTimeouts \/ Stop
           \/ (Retire /\ UNCHANGED codexVars) \/ (Exits /\ client # "open")
           \/ Server
  <2>1. requests' \subseteq requests /\ client' = client
    BY <1>8 DEF Answer, Accepted, GivenUp, Rejected, TurnStarted, Delta, Edit, TurnCompleted,
                TurnAborted, Notified, Read, Close, Exited, Kill, CodexTimeouts, Timeout, Stop,
                Exits, Server, ServerReads, codexVars
  <2> QED BY <1>1, <1>3, <2>1
<1> QED BY <1>4, <1>5, <1>6, <1>7, <1>8 DEF CodexSteps

(* The id a turn was told.                                                 *)
LEMMA CodexIdent ==
  ASSUME AgentInv, CodexNext
  PROVE  ident' \in [Turns -> 0..sent']
<1> USE DEF CodexNext
<1>1. /\ ident \in [Turns -> 0..sent] /\ sent \in Nat
      /\ requests \subseteq Requests(sent)
  BY TurnFacts DEF AgentInv, Shape, PipeTypes, SessionTypes
<1>2. sent' = sent \/ sent' = sent + 1
  BY CodexChat DEF ChatStep, ChatGoesOn, ChatCloses, TurnEnds
<1>3. ASSUME NEW k \in Turns, NEW x \in 0..sent, ident' = [ident EXCEPT ![k] = x]
      PROVE  ident' \in [Turns -> 0..sent']
  BY <1>1, <1>2, <1>3
<1>4. ident' = ident => ident' \in [Turns -> 0..sent']
  BY <1>1, <1>2
<1>5. CASE Answer
  <2>1. CASE ident' = ident
    BY <1>4, <2>1
  <2>2. CASE ident' # ident
    <3> DEFINE r == Head(stdout).request
    <3>1. r \in requests /\ ident' = [ident EXCEPT ![r.turn] = r.turn]
      BY <1>5, <2>2 DEF Answer, Accepted
    <3>2. r.turn \in 1..sent
      BY <1>1, <3>1 DEF Requests, Interruptions, Starting, Request
    <3>3. r.turn \in Turns
      BY <3>2, TurnFacts DEF AgentInv, Shape, SessionTypes
    <3>4. r.turn \in 0..sent
      BY <1>1, <3>2
    <3> HIDE DEF r
    <3> QED BY <1>3, <3>1, <3>3, <3>4
  <2> QED BY <2>1, <2>2
<1>6. CASE TurnStarted
  <2>1. stdout # <<>> /\ Tells(Head(stdout))
    BY <1>6 DEF TurnStarted, Notified, Read, Tells
  <2>2. Head(stdout).of \in 0..sent
    BY <1>1, <2>1, HeadFacts DEF Written
  <2>3. active # 0 => active \in Turns
    BY TurnFacts DEF AgentInv, Shape, TurnInv, SessionTypes
  <2> QED BY <1>3, <1>4, <1>6, <2>2, <2>3 DEF TurnStarted
<1>7. CASE \/ (Conversation /\ UNCHANGED codexVars) \/ (\E c \in waiting: CallContinues(c))
           \/ Delta \/ Edit \/ TurnCompleted \/ TurnAborted
           \/ Close \/ CloseContinues \/ Exited \/ Kill \/ CodexTimeouts \/ Send \/ Stop
           \/ (Retire /\ UNCHANGED codexVars) \/ StartFails \/ Nonsense \/ Exits \/ Server
  <2>1. ident' = ident
    BY <1>7 DEF CallContinues, Delta, Edit, TurnCompleted, TurnAborted, Close, CloseContinues,
                Exited, Kill, CodexTimeouts, Timeout, Send, Stop, StartFails, Nonsense, Exits,
                Server, ServerReads, codexVars
  <2> QED BY <1>4, <2>1
<1> QED BY <1>5, <1>6, <1>7 DEF CodexSteps

(* What the process reads and writes.                                      *)
LEMMA EventTypes ==
  ASSUME SessionTypes, NEW k \in 1..sent,
         NEW kind \in {"started", "delta", "edit", "completed", "aborted"}
  PROVE  Event(kind, k) \in Out(backend, sent)
BY DEF Event, Out, Written

LEMMA SaysTypes ==
  ASSUME AgentInv, sent' = sent, backend' = backend,
         Completes \/ \E kind \in {"delta", "edit"}: Says(kind)
  PROVE  /\ stdin' = stdin /\ stdout' \in Seq(Out(backend', sent'))
         /\ running' \in {0, running}
<1>1. /\ SessionTypes /\ stdout \in Seq(Out(backend, sent))
  BY DEF AgentInv, Shape, PipeTypes
<1>2. running # 0 => running \in 1..sent
  BY <1>1, TurnFacts DEF SessionTypes
<1>3. CASE Completes
  BY <1>1, <1>2, <1>3, EventTypes, AppendFacts DEF Completes
<1>4. ASSUME NEW kind \in {"delta", "edit"}, Says(kind)
      PROVE  /\ stdin' = stdin /\ stdout' \in Seq(Out(backend', sent'))
             /\ running' = running
  BY <1>1, <1>2, <1>4, EventTypes, AppendFacts DEF Says
<1> QED BY <1>3, <1>4

LEMMA ServerTypes ==
  ASSUME AgentInv, backend = "codex", sent' = sent, ServerReads
  PROVE  /\ stdin' \in Seq(In(backend, sent)) /\ stdout' \in Seq(Out(backend, sent))
         /\ running' \in 0..sent
<1> DEFINE m == Head(stdin)
<1>1. /\ SessionTypes /\ stdout \in Seq(Out(backend, sent)) /\ stdin \in Seq(In(backend, sent))
      /\ sent \in Nat /\ running \in 0..sent
  BY TurnFacts DEF AgentInv, Shape, PipeTypes, SessionTypes
<1>2. stdin # <<>> /\ stdin' = Tail(stdin)
  BY DEF ServerReads
<1>3. m \in CodexInput(sent) /\ Tail(stdin) \in Seq(In(backend, sent))
  BY <1>1, <1>2, TailFacts DEF In
<1>4. m.request \in Requests(sent) /\ m.about \in 1..sent
  BY <1>3 DEF CodexInput, Message, Requests
<1>5. \A ok \in BOOLEAN: AnswerTo(m.request, ok) \in Out(backend, sent)
  BY <1>4 DEF AnswerTo, Out, CodexAnswer
<1>6. Event("started", m.about) \in Out(backend, sent)
      /\ Event("aborted", m.about) \in Out(backend, sent)
  BY <1>1, <1>4, EventTypes
<1>7. stdout \o <<AnswerTo(m.request, TRUE), Event("started", m.about)>> \in Seq(Out(backend, sent))
  BY <1>1, <1>5, <1>6, PairAppended
<1>8. stdout \o <<AnswerTo(m.request, TRUE), Event("aborted", m.about)>> \in Seq(Out(backend, sent))
  BY <1>1, <1>5, <1>6, PairAppended
<1>9. Append(stdout, AnswerTo(m.request, FALSE)) \in Seq(Out(backend, sent))
  BY <1>1, <1>5, AppendFacts
<1>10. stdout' \in Seq(Out(backend, sent)) /\ running' \in {0, m.about, running}
  BY <1>7, <1>8, <1>9 DEF ServerReads
<1> QED BY <1>1, <1>2, <1>3, <1>4, <1>10

LEMMA CodexPipes ==
  ASSUME AgentInv, CodexNext, UNCHANGED claudeVars
  PROVE  PipeTypes' /\ running' \in 0..sent'
<1> USE DEF CodexNext
<1>1. SessionTypes /\ PipeTypes /\ backend = "codex" /\ sent \in Nat
  BY TurnFacts DEF AgentInv, Shape, SessionTypes
<1>2. sent' \in sent..MaxTurns
  BY TurnsKept DEF Next
<1>3. /\ requests' \subseteq Requests(sent') /\ waiting' \subseteq Callers \X (1..sent')
      /\ ident' \in [Turns -> 0..sent']
  BY CodexRequests, CodexWaiting, CodexIdent
<1> SUFFICES /\ stdin' \in Seq(In(backend', sent')) /\ stdout' \in Seq(Out(backend', sent'))
             /\ running' \in 0..sent'
  BY <1>3 DEF PipeTypes
<1>4. CASE Send
  <2>1. /\ UNCHANGED <<backend, stdout, running>> /\ sent' = sent + 1
        /\ stdin' \in {stdin, Append(stdin, Message(Starting(sent'), sent'))}
    BY <1>4 DEF Send, Begin
  <2>2. Message(Starting(sent'), sent') \in In(backend', sent')
    BY <1>1, <2>1 DEF In, CodexInput
  <2> QED BY <1>1, <1>2, <2>1, <2>2, TypesGrow, AppendFacts
<1>5. ASSUME NEW c \in waiting, CallContinues(c)
      PROVE  /\ stdin' \in Seq(In(backend', sent')) /\ stdout' \in Seq(Out(backend', sent'))
             /\ running' \in 0..sent'
  <2> DEFINE m == Message(Interruption(c), ident[c[2]])
  <2>1. /\ UNCHANGED <<backend, stdout, running, sent>>
        /\ stdin' = stdin \/ (ident[c[2]] # 0 /\ stdin' = Append(stdin, m))
    BY <1>5 DEF CallContinues, chatVars
  <2>2. c[1] \in Callers /\ c[2] \in 1..sent /\ c[2] \in Turns /\ ident[c[2]] \in 0..sent
    BY <1>1, TurnFacts DEF PipeTypes, SessionTypes
  <2>3. ident[c[2]] # 0 => m \in In(backend', sent')
    BY <1>1, <2>1, <2>2 DEF In, CodexInput, Message, Interruption, Request, Interruptions
  <2> HIDE DEF m
  <2>4. stdin \in Seq(In(backend', sent')) /\ stdout' \in Seq(Out(backend', sent'))
        /\ running' \in 0..sent'
    BY <1>1, <1>2, <2>1, TypesGrow
  <2> QED BY <2>1, <2>3, <2>4, AppendFacts
<1>6. CASE Server
  <2>1. sent' = sent /\ backend' = backend
    BY <1>6 DEF Server, ServerReads, Completes, Says, chatVars
  <2>2. CASE ServerReads
    BY <1>1, <2>1, <2>2, ServerTypes
  <2>3. CASE ~ServerReads
    BY <1>1, <1>2, <1>6, <2>1, <2>3, SaysTypes, TypesGrow DEF Server
  <2> QED BY <2>2, <2>3
<1>7. CASE Nonsense \/ Exits \/ CloseContinues
  <2>1. UNCHANGED <<backend, sent>> /\ stdin' \in {stdin, <<>>} /\ stdout' \in {stdout, <<>>}
        /\ running' \in {0, running}
    BY <1>7 DEF Nonsense, Exits, CloseContinues, Fail, Deaf, Gone
  <2>2. /\ {stdin, <<>>} \subseteq Seq(In(backend', sent'))
        /\ {stdout, <<>>} \subseteq Seq(Out(backend', sent')) /\ {0, running} \subseteq 0..sent'
    BY <1>1, <1>2, <2>1, TypesGrow
  <2> QED BY <2>1, <2>2
<1>8. CASE Answer \/ TurnStarted \/ Delta \/ Edit \/ TurnCompleted \/ TurnAborted
  <2>1. /\ UNCHANGED <<backend, sent, stdin, running>> /\ stdout # <<>> /\ stdout' = Tail(stdout)
    BY <1>8 DEF Answer, TurnStarted, Delta, Edit, TurnCompleted, TurnAborted, Notified, Read
  <2> QED BY <1>1, <1>2, <2>1, TypesGrow
<1>9. CASE \/ (Conversation /\ UNCHANGED codexVars) \/ Close \/ Exited \/ Kill \/ Stop
           \/ CodexTimeouts \/ (Retire /\ UNCHANGED codexVars) \/ StartFails
  <2>1. UNCHANGED <<backend, stdin, stdout, running>>
    BY <1>9 DEF Conversation, Started, Consume, StreamEnds, Disposed, Close, Exited, Kill, Stop,
                CodexTimeouts, Timeout, Retire, StartFails, procVars
  <2> QED BY <1>1, <1>2, <2>1, TypesGrow
<1> QED BY <1>4, <1>5, <1>6, <1>7, <1>8, <1>9 DEF CodexSteps

LEMMA ClaudePipes ==
  ASSUME AgentInv, ClaudeNext, UNCHANGED codexVars
  PROVE  PipeTypes' /\ running' \in 0..sent'
<1> USE DEF ClaudeNext
<1>1. SessionTypes /\ PipeTypes /\ backend = "claude" /\ sent \in Nat /\ sent \in 0..MaxTurns
  BY TurnFacts DEF AgentInv, Shape, SessionTypes
<1>2. sent' \in sent..MaxTurns
  BY TurnsKept DEF Next
<1>3. backend' = backend
  BY DEF ClaudeSteps, Conversation, Started, Consume, StreamEnds, Disposed, AskingAnswered, Text,
         Result, Aborted, Take, PumpEnds, PumpFails, ClaudeClose, ClaudeExited, ClaudeKill,
         AskingFails, ClaudeSend, ClaudeStop, Retire, ClaudeStartFails, Unconfirmed, ProcessExits,
         Claude, ClaudeReads, Completes, Says
<1>4. /\ requests' \subseteq Requests(sent') /\ waiting' \subseteq Callers \X (1..sent')
      /\ ident' \in [Turns -> 0..sent']
  BY <1>1, <1>2, <1>3, TypesGrow DEF codexVars
<1> SUFFICES /\ stdin' \in Seq(In(backend', sent')) /\ stdout' \in Seq(Out(backend', sent'))
             /\ running' \in 0..sent'
  BY <1>4 DEF PipeTypes
<1>5. CASE ClaudeSend
  <2>1. /\ UNCHANGED <<stdout, running>>
        /\ stdin' = stdin \/ (sent' = sent + 1 /\ stdin' = Append(stdin, Input("user", sent')))
    BY <1>5 DEF ClaudeSend, Begin
  <2>2. sent' = sent + 1 => Input("user", sent') \in In(backend', sent')
    BY <1>1, <1>3 DEF In, ClaudeInput, Input
  <2>3. stdin \in Seq(In(backend', sent')) /\ stdout' \in Seq(Out(backend', sent'))
        /\ running' \in 0..sent'
    BY <1>1, <1>2, <1>3, <2>1, TypesGrow
  <2> QED BY <2>1, <2>2, <2>3, AppendFacts
<1>6. CASE ClaudeStop
  <2>1. /\ UNCHANGED <<stdout, running, sent>>
        /\ stdin' = stdin \/ (active # 0 /\ stdin' = Append(stdin, Input("interrupt", active)))
    BY <1>6 DEF ClaudeStop
  <2>2. active # 0 => Input("interrupt", active) \in In(backend', sent')
    BY <1>1, <1>3, <2>1 DEF In, ClaudeInput, Input, AgentInv, Shape, TurnInv
  <2>3. stdin \in Seq(In(backend', sent')) /\ stdout' \in Seq(Out(backend', sent'))
        /\ running' \in 0..sent'
    BY <1>1, <1>2, <1>3, <2>1, TypesGrow
  <2> QED BY <2>1, <2>2, <2>3, AppendFacts
<1>7. CASE Claude
  <2>1. sent' = sent
    BY <1>7 DEF Claude, ClaudeReads, Completes, Says, chatVars
  <2>2. CASE ClaudeReads
    <3> DEFINE m == Head(stdin)
    <3>1. stdin # <<>> /\ stdin' = Tail(stdin)
      BY <2>2 DEF ClaudeReads
    <3>2. m \in ClaudeInput(sent)
      BY <1>1, <3>1, TailFacts DEF PipeTypes, In
    <3>3. m.about \in 1..sent
      BY <3>2 DEF ClaudeInput
    <3>4. Event("answer", m.about) \in Out(backend, sent)
      BY <1>1, <3>3 DEF Event, Out, ClaudeAnswer
    <3>5. running # 0 => Event("aborted", running) \in Out(backend, sent)
      BY <1>1, EventTypes DEF SessionTypes
    <3>6. stdout \in Seq(Out(backend, sent)) /\ running \in 0..sent
      BY <1>1 DEF PipeTypes, SessionTypes
    <3>7. Append(stdout, Event("answer", m.about)) \in Seq(Out(backend, sent))
      BY <3>4, <3>6, AppendFacts
    <3>8. running # 0 =>
            stdout \o <<Event("answer", m.about), Event("aborted", running)>> \in Seq(Out(backend, sent))
      BY <3>4, <3>5, <3>6, PairAppended
    <3>9. stdout' \in Seq(Out(backend, sent)) /\ running' \in {0, m.about, running}
      BY <2>2, <3>6, <3>7, <3>8 DEF ClaudeReads
    <3> QED BY <1>1, <1>2, <1>3, <2>1, <3>1, <3>3, <3>6, <3>9, TypesGrow
  <2>3. CASE ~ClaudeReads
    BY <1>1, <1>2, <1>3, <1>7, <2>1, <2>3, SaysTypes, TypesGrow DEF Claude
  <2> QED BY <2>2, <2>3
<1>8. CASE ProcessExits
  BY <1>1, <1>2, <1>3, <1>8, TypesGrow DEF ProcessExits, Gone
<1>9. CASE AskingAnswered \/ Text \/ Result \/ Aborted
  <2>1. UNCHANGED <<stdin, running>> /\ stdout # <<>> /\ stdout' = Tail(stdout)
    BY <1>9 DEF AskingAnswered, Text, Result, Aborted, Take
  <2> QED BY <1>1, <1>2, <1>3, <2>1, TypesGrow
<1>10. CASE \/ (Conversation /\ UNCHANGED claudeVars) \/ PumpEnds \/ PumpFails \/ ClaudeClose
            \/ ClaudeExited \/ ClaudeKill \/ (Retire /\ UNCHANGED claudeVars)
            \/ ClaudeStartFails \/ Unconfirmed \/ \E k \in Turns: AskingFails(k)
  <2>1. UNCHANGED <<stdin, stdout, running>>
    BY <1>10 DEF Conversation, Started, Consume, StreamEnds, Disposed, PumpEnds, PumpFails,
                 ClaudeClose, ClaudeExited, ClaudeKill, Retire, ClaudeStartFails, Unconfirmed,
                 AskingFails, procVars
  <2> QED BY <1>1, <1>2, <1>3, <2>1, TypesGrow
<1> QED BY <1>5, <1>6, <1>7, <1>8, <1>9, <1>10 DEF ClaudeSteps

(***************************************************************************)
(* The other types, and what is closed.                                    *)
(***************************************************************************)
OtherTypes ==
  /\ backend \in {"codex", "claude"} /\ daemon \in {"up", "crashed"}
  /\ chat \in {"starting", "ready", "busy", "disposing", "closed"}
  /\ closing \in {"no", "interrupting", "exiting", "killing", "done", "unconfirmed", "unawaited"}
  /\ proc \in {"up", "dying", "down"} /\ client \in {"open", "closed"}
  /\ flagged \subseteq Turns /\ asking \subseteq Turns
  /\ late \in BOOLEAN /\ failed \in BOOLEAN

LEMMA ConversationOther ==
  ASSUME AgentInv, Conversation
  PROVE  /\ UNCHANGED <<backend, closing, proc, active, ended>>
         /\ chat' \in {"starting", "ready", "busy", "disposing", "closed"}
BY DEF Conversation, Started, Consume, StreamEnds, Disposed, procVars, streamVars, AgentInv, Shape,
       SessionTypes

LEMMA CodexOther ==
  ASSUME AgentInv, CodexNext, UNCHANGED claudeVars
  PROVE  OtherTypes' /\ backend' = backend /\ (late => late')
<1> USE DEF CodexNext
<1>1. OtherTypes /\ SessionTypes /\ backend = "codex" /\ daemon = "up"
  BY DEF AgentInv, Shape, SessionTypes, OtherTypes
<1>2. CASE Conversation /\ UNCHANGED codexVars
  BY <1>1, <1>2, ConversationOther DEF codexVars, claudeVars, OtherTypes, Conversation, Started,
     Consume, StreamEnds, Disposed
<1>3. CASE CodexTimeouts
  <2>1. PICK r \in requests: Timeout(r)
    BY <1>3 DEF CodexTimeouts
  <2>2. late' \in BOOLEAN /\ (late => late')
    BY <1>1, <2>1 DEF Timeout, OtherTypes
  <2> QED BY <1>1, <2>1, <2>2
        DEF Timeout, GivenUp, Rejected, Dispose, OtherTypes, claudeVars, procVars
<1>4. CASE Answer \/ Nonsense \/ Exits \/ CloseContinues
  BY <1>1, <1>4 DEF Answer, Read, GivenUp, Accepted, Rejected, Dispose, Nonsense, Exits,
     CloseContinues, Fail, Deaf, Gone, OtherTypes, claudeVars
<1>5. CASE TurnStarted \/ Delta \/ Edit \/ TurnCompleted \/ TurnAborted
  BY <1>1, <1>5 DEF TurnStarted, Delta, Edit, TurnCompleted, TurnAborted, Notified, Read,
     OtherTypes, claudeVars
<1>6. CASE Send \/ Stop \/ (Retire /\ UNCHANGED codexVars)
  BY <1>1, <1>6 DEF Send, Begin, Stop, Retire, codexVars, procVars, OtherTypes, claudeVars
<1>7. CASE Close \/ Exited \/ Kill \/ StartFails
  BY <1>1, <1>7 DEF Close, Exited, Kill, StartFails, chatVars, codexVars, procVars, OtherTypes,
     claudeVars
<1>8. CASE Server \/ \E c \in waiting: CallContinues(c)
  <2>1. UNCHANGED <<backend, daemon, chat, closing, proc, client, late, claudeVars>>
    BY <1>8 DEF Server, ServerReads, Completes, Says, CallContinues, chatVars, codexVars
  <2> QED BY <1>1, <2>1 DEF OtherTypes, claudeVars
<1> QED BY <1>2, <1>3, <1>4, <1>5, <1>6, <1>7, <1>8 DEF CodexSteps

LEMMA CodexClosed ==
  ASSUME AgentInv, CodexNext, UNCHANGED claudeVars
  PROVE  ClosedInv'
<1> USE DEF CodexNext
<1>1. /\ ClosedInv /\ OtherTypes /\ backend = "codex" /\ TurnInv
      /\ (active' = active \/ active' = 0 \/ (active' = sent + 1 /\ sent' = sent + 1))
  BY CodexStreams DEF AgentInv, Shape, SessionTypes, OtherTypes, StreamStep, SameTurns, TurnOver,
     TurnBegun, TurnRefused
<1>2. /\ backend' = "codex" /\ ~failed' /\ (client' = "closed" => requests' = {})
  BY <1>1, CodexOther, CodexRequests DEF ClosedInv, claudeVars
<1> SUFFICES /\ client' = "closed" => active' = 0
             /\ closing' \in {"exiting", "killing", "done"} => client' = "closed"
             /\ closing' = "done" => proc' = "down"
  BY <1>2 DEF ClosedInv
<1>3. CASE Send
  BY <1>1, <1>3 DEF Send, ClosedInv
<1>4. CASE Nonsense \/ CloseContinues
  <2>1. active' = 0 /\ client' = "closed"
    <3>1. CASE Nonsense
      BY <3>1, FailStreams DEF Nonsense, Fail, Deaf
    <3>2. CASE CloseContinues
      BY <3>2 DEF CloseContinues, Deaf, Finish, streamVars
    <3> QED BY <1>4, <3>1, <3>2
  <2> QED BY <1>1, <1>4, <2>1 DEF Nonsense, CloseContinues, ClosedInv
<1>5. CASE Exits
  <2>1. client = "open" => active' = 0 /\ client' = "closed"
    BY <1>5, FailStreams DEF Exits, Fail, Deaf
  <2> QED BY <1>1, <1>5, <2>1 DEF Exits, Gone, ClosedInv, OtherTypes, streamVars
<1>6. CASE StartFails
  BY <1>1, <1>6 DEF StartFails, TurnInv, streamVars
<1>7. CASE Close \/ Exited \/ Kill
  BY <1>1, <1>7 DEF Close, Exited, Kill, ClosedInv, streamVars, procVars, codexVars
<1>8. CASE \/ (Conversation /\ UNCHANGED codexVars)
           \/ (Retire /\ UNCHANGED codexVars) \/ Stop \/ CodexTimeouts \/ Server
           \/ Answer \/ TurnStarted \/ Delta \/ Edit \/ TurnCompleted \/ TurnAborted
           \/ \E c \in waiting: CallContinues(c)
  <2>1. UNCHANGED <<closing, client, proc, sent>>
    BY <1>8, ConversationOther
       DEF codexVars, Conversation, Started, Consume, StreamEnds, Disposed, Retire, Stop,
           CodexTimeouts, Timeout, Server, ServerReads, Completes, Says, Answer, TurnStarted, Delta,
           Edit, TurnCompleted, TurnAborted, Notified, Read, CallContinues, chatVars, procVars
  <2>2. sent \in Nat
    BY TurnFacts DEF AgentInv, Shape, SessionTypes
  <2> QED BY <1>1, <2>1, <2>2 DEF ClosedInv
<1> QED BY <1>3, <1>4, <1>5, <1>6, <1>7, <1>8 DEF CodexSteps

LEMMA ClaudeOther ==
  ASSUME AgentInv, ClaudeNext, UNCHANGED codexVars
  PROVE  OtherTypes' /\ ClosedInv' /\ late' = late /\ backend' = backend
<1> USE DEF ClaudeNext
<1>1. /\ ClosedInv /\ OtherTypes /\ backend = "claude" /\ TurnInv /\ UNCHANGED codexVars
      /\ (active' = active \/ active' = 0 \/ (active' = sent + 1 /\ sent' = sent + 1))
      /\ sent \in Nat /\ (active # 0 => active \in Turns)
  BY ClaudeStreams, TurnFacts
     DEF AgentInv, Shape, SessionTypes, OtherTypes, StreamStep, SameTurns, TurnOver, TurnBegun,
         TurnRefused, TurnInv
<1> SUFFICES /\ OtherTypes' /\ backend' = "claude" /\ closing' # "interrupting"
             /\ (closing' # "no" \/ failed') => active' = 0
             /\ (closing' # "no" /\ ~failed') => chat' \in {"disposing", "closed"}
             /\ closing' = "done" => proc' = "down"
  BY <1>1 DEF ClosedInv, codexVars
<1> USE <1>1 DEF ClosedInv, OtherTypes, codexVars
<1>2. CASE Conversation /\ UNCHANGED claudeVars
  BY <1>2, ConversationOther DEF Conversation, Started, Consume, StreamEnds, Disposed, claudeVars
<1>3. CASE PumpEnds \/ PumpFails \/ ClaudeClose
  <2>1. active' = 0
    BY <1>3, EndedStreams DEF PumpEnds, PumpFails, PumpFailed, ClaudeClose, chatVars
  <2> QED BY <1>3, <2>1 DEF PumpEnds, PumpFails, PumpFailed, ClaudeClose, chatVars, procVars,
                            claudeVars
<1>4. CASE ClaudeSend
  BY <1>4 DEF ClaudeSend, Begin, claudeVars
<1>5. CASE ClaudeStop \/ \E k \in Turns: AskingFails(k)
  BY <1>5 DEF ClaudeStop, AskingFails, Dispose, streamVars, procVars
<1>6. CASE AskingAnswered \/ Text \/ Result \/ Aborted
  BY <1>6 DEF AskingAnswered, Text, Result, Aborted, Take, chatVars
<1>7. CASE ClaudeExited \/ ClaudeKill \/ Unconfirmed
  BY <1>7 DEF ClaudeExited, ClaudeKill, Unconfirmed, chatVars, streamVars, procVars, claudeVars
<1>8. CASE (Retire /\ UNCHANGED claudeVars) \/ ClaudeStartFails
  BY <1>8 DEF Retire, ClaudeStartFails, streamVars, procVars, claudeVars
<1>9. CASE ProcessExits \/ Claude
  BY <1>9 DEF ProcessExits, Gone, Claude, ClaudeReads, Completes, Says, chatVars, streamVars,
              claudeVars
<1> QED BY <1>2, <1>3, <1>4, <1>5, <1>6, <1>7, <1>8, <1>9 DEF ClaudeSteps

LEMMA ShapeKept ==
  ASSUME AgentInv, Next
  PROVE  Shape' /\ OwnEvents' /\ backend' = backend
<1>1. /\ SessionTypes /\ OwnEvents /\ sent \in Nat
  BY TurnFacts DEF AgentInv, Shape, SessionTypes
<1>2. TurnInv' /\ sent' \in sent..MaxTurns /\ QueueStep
  BY TurnsKept, Streams DEF StreamStep
<1>3. CASE CodexNext /\ UNCHANGED claudeVars
  <2>1. /\ OtherTypes' /\ backend' = backend /\ (late => late') /\ ClosedInv' /\ PipeTypes'
        /\ running' \in 0..sent'
    BY <1>3, CodexOther, CodexClosed, CodexPipes
  <2>2. queue' \in [Turns -> Seq(Events)] /\ OwnEvents'
    BY <1>1, <1>2, <2>1, QueueStepKeeps DEF OtherTypes
  <2> QED BY <1>1, <1>2, <2>1, <2>2 DEF Shape, SessionTypes, OtherTypes
<1>4. CASE ClaudeNext /\ UNCHANGED codexVars
  <2>1. /\ OtherTypes' /\ backend' = backend /\ late' = late /\ ClosedInv' /\ PipeTypes'
        /\ running' \in 0..sent'
    BY <1>4, ClaudeOther, ClaudePipes
  <2>2. queue' \in [Turns -> Seq(Events)] /\ OwnEvents'
    BY <1>1, <1>2, <2>1, QueueStepKeeps DEF OtherTypes
  <2> QED BY <1>1, <1>2, <2>1, <2>2 DEF Shape, SessionTypes, OtherTypes
<1> QED BY <1>3, <1>4 DEF Next

(***************************************************************************)
(* The pipes.                                                              *)
(***************************************************************************)
LEMMA PipesOf ==
  ASSUME AgentInv
  PROVE  /\ sent \in Nat /\ stdin \in Seq(Inputs(sent)) /\ stdout \in Seq(Outputs(sent))
         /\ running \in 0..sent /\ active \in {0, sent}
         /\ stdin # <<>> => Tail(stdin) \in Seq(Inputs(sent)) /\ Head(stdin) \in In(backend, sent)
                            /\ Head(stdin) = stdin[1] /\ 1 \in 1..Len(stdin)
<1>1. sent \in Nat /\ running \in 0..sent /\ active \in {0, sent}
  BY TurnFacts DEF AgentInv, Shape, SessionTypes, TurnInv
<1>2. stdin \in Seq(In(backend, sent)) /\ stdout \in Seq(Out(backend, sent))
  BY DEF AgentInv, Shape, PipeTypes
<1>3. In(backend, sent) \subseteq Inputs(sent) /\ Out(backend, sent) \subseteq Outputs(sent)
  BY DEF In, Inputs, Out, Outputs
<1>4. stdin \in Seq(Inputs(sent)) /\ stdout \in Seq(Outputs(sent))
  BY <1>2, <1>3, SeqMonotonic
<1> QED BY <1>1, <1>2, <1>4, TailFacts

(* A session that does not read does not read again.                       *)
LEMMA ReadsBefore ==
  ASSUME AgentInv, Next, Reads'
  PROVE  Reads
<1>0. OtherTypes /\ SessionTypes /\ ClosedInv
  BY DEF AgentInv, Shape, SessionTypes, OtherTypes
<1>1. CASE CodexNext /\ UNCHANGED claudeVars
  <2>1. backend = "codex" /\ (late => late') /\ failed' = failed
    BY <1>1, CodexOther DEF CodexNext, claudeVars
  <2>2. client' = client \/ client' = "closed"
    BY <1>1 DEF CodexNext, CodexSteps, CodexTimeouts, Timeout, CallContinues, Answer, TurnStarted,
       Delta, Edit, TurnCompleted, TurnAborted, Notified, Read, Close, CloseContinues, Deaf, Exited,
       Kill, Send, Stop, StartFails, Nonsense, Fail, Exits, Server, ServerReads, codexVars
  <2> QED BY <2>1, <2>2 DEF Reads
<1>2. CASE ClaudeNext /\ UNCHANGED codexVars
  <2>1. backend' = backend /\ backend = "claude" /\ client' = client /\ late' = late
    BY <1>2, ClaudeOther DEF ClaudeNext, codexVars
  <2>2. (failed => failed') /\ (closing # "no" => closing' # "no")
    <3> USE DEF ClaudeNext
    <3>1. CASE Conversation /\ UNCHANGED claudeVars
      BY <3>1, ConversationOther DEF claudeVars
    <3>2. CASE AskingAnswered \/ Text \/ Result \/ Aborted
      BY <3>2 DEF AskingAnswered, Text, Result, Aborted, Take
    <3>3. CASE PumpEnds \/ PumpFails \/ ClaudeClose \/ ClaudeExited \/ ClaudeKill \/ Unconfirmed
      BY <3>3 DEF PumpEnds, PumpFails, PumpFailed, ClaudeClose, ClaudeExited, ClaudeKill,
         Unconfirmed, claudeVars
    <3>4. CASE \/ (Retire /\ UNCHANGED claudeVars) \/ ClaudeStartFails \/ ClaudeSend \/ ClaudeStop
               \/ \E k \in Turns: AskingFails(k)
      BY <3>4 DEF Retire, ClaudeStartFails, ClaudeSend, ClaudeStop, AskingFails, claudeVars
    <3>5. CASE ProcessExits \/ Claude
      BY <3>5 DEF ProcessExits, Claude, ClaudeReads, Completes, Says, claudeVars
    <3> QED BY <1>2, <3>1, <3>2, <3>3, <3>4, <3>5 DEF ClaudeSteps
  <2> QED BY <2>1, <2>2 DEF Reads
<1> QED BY <1>1, <1>2 DEF Next

LEMMA SaysPipe ==
  ASSUME AgentInv, Pipe(stdin, stdout, running, active), UNCHANGED <<active, sent>>,
         Completes \/ \E kind \in {"delta", "edit"}: Says(kind)
  PROVE  Pipe(stdin', stdout', running', active')
<1>1. /\ sent \in Nat /\ stdin \in Seq(Inputs(sent)) /\ stdout \in Seq(Outputs(sent))
      /\ running \in 1..sent /\ stdin' = stdin
  BY PipesOf DEF Completes, Says
<1>2. running = active /\ active # 0
  BY <1>1 DEF Pipe
<1>3. /\ NoneBegins(stdin) /\ NoneEnds(stdout) /\ NoneRefused(stdout)
      /\ Pipe(stdin, stdout, 0, active)
  BY <1>1, RunPipe
<1>4. \A kind \in {"delta", "edit", "completed"}:
        LET m == Event(kind, running) IN
        /\ m \in Outputs(sent) /\ Tells(m) /\ m.of = active /\ (Ends(m) <=> kind = "completed")
  BY <1>1, <1>2 DEF Event, Outputs, Written, Tells, Ends
<1>5. CASE Completes
  <2> DEFINE m == Event("completed", running)
  <2>1. m \in Outputs(sent) /\ Tells(m) /\ m.of = active
    BY <1>4
  <2>2. stdout' = Append(stdout, m) /\ running' = 0
    BY <1>5 DEF Completes
  <2> HIDE DEF m
  <2>3. Pipe(stdin, Append(stdout, m), 0, active)
    BY <1>1, <1>2, <1>3, <2>1, TellPipe
  <2> QED BY <1>1, <2>2, <2>3
<1>6. ASSUME NEW kind \in {"delta", "edit"}, Says(kind)
      PROVE  Pipe(stdin', stdout', running', active')
  <2> DEFINE m == Event(kind, running)
  <2>1. m \in Outputs(sent) /\ Tells(m) /\ m.of = active /\ ~Ends(m)
    BY <1>4
  <2>2. stdout' = Append(stdout, m) /\ running' = running
    BY <1>6 DEF Says
  <2> HIDE DEF m
  <2>3. Pipe(stdin, Append(stdout, m), running, active)
    BY <1>1, <1>2, <1>3, <2>1, TellPipe
  <2> QED BY <1>1, <2>2, <2>3
<1> QED BY <1>5, <1>6

(* An interruption that finds a turn: it is the active one, and its end is *)
(* the last thing that is told of it.                                      *)
LEMMA AbortPipe ==
  ASSUME NEW n \in Nat, NEW in \in Seq(Inputs(n)), NEW out \in Seq(Outputs(n)),
         NEW run \in 1..n, NEW act, Pipe(in, out, run, act),
         NEW a \in Outputs(n), ~Tells(a), ~Starts(a)
  PROVE  Pipe(in, out \o <<a, Event("aborted", run)>>, 0, act)
<1> DEFINE e == Event("aborted", run)
<1>1. run = act /\ act # 0
  BY DEF Pipe
<1>2. e \in Outputs(n) /\ Tells(e) /\ e.of = act
  BY <1>1 DEF Event, Outputs, Written, Tells
<1>3. out \o <<a, e>> = Append(Append(out, a), e)
  BY <1>2, PairAppended
<1> HIDE DEF e
<1>4. Append(out, a) \in Seq(Outputs(n)) /\ Pipe(in, Append(out, a), run, act)
  BY AnswerPipe, AppendFacts
<1>5. /\ NoneBegins(in) /\ NoneEnds(Append(out, a)) /\ NoneRefused(Append(out, a))
      /\ Pipe(in, Append(out, a), 0, act)
  <2> DEFINE more == Append(out, a)
  <2>1. more \in Seq(Outputs(n)) /\ Pipe(in, more, run, act) /\ run # 0
    BY <1>1, <1>4
  <2> HIDE DEF more
  <2>2. NoneBegins(in) /\ NoneEnds(more) /\ NoneRefused(more) /\ Pipe(in, more, 0, act)
    BY <2>1, RunPipe
  <2> QED BY <2>2 DEF more
<1>6. Pipe(in, Append(Append(out, a), e), 0, act)
  BY <1>1, <1>2, <1>4, <1>5, TellPipe
<1> QED BY <1>3, <1>6 DEF e

(* The server reads its input.                                             *)
LEMMA ServerPipe ==
  ASSUME AgentInv, backend = "codex", Pipe(stdin, stdout, running, active),
         UNCHANGED <<active, sent>>, ServerReads
  PROVE  Pipe(stdin', stdout', running', active')
<1> DEFINE m == Head(stdin)  in == Tail(stdin)  yes == AnswerTo(m.request, TRUE)
           no == AnswerTo(m.request, FALSE)  begun == Event("started", m.about)
<1>1. stdin # <<>> /\ stdin' = in
  BY DEF ServerReads
<1>2. /\ sent \in Nat /\ stdin \in Seq(Inputs(sent)) /\ stdout \in Seq(Outputs(sent))
      /\ in \in Seq(Inputs(sent)) /\ m \in CodexInput(sent) /\ m = stdin[1] /\ 1 \in 1..Len(stdin)
      /\ running \in 0..sent
  BY <1>1, PipesOf DEF In
<1>3. /\ m.request.kind = m.kind /\ m.kind \in {"start", "interrupt"} /\ m.about \in 1..sent
      /\ m.request \in Requests(sent)
      /\ m.kind = "start" => m.request = Starting(m.about)
  BY <1>2 DEF CodexInput, Message, Starting, Request, Interruptions, Requests
<1>4. /\ yes \in Outputs(sent) /\ no \in Outputs(sent) /\ ~Tells(yes) /\ ~Tells(no)
      /\ yes.ok = TRUE /\ no.ok = FALSE
  BY <1>3 DEF AnswerTo, Outputs, CodexAnswer, Tells
<1>5. begun \in Outputs(sent) /\ Tells(begun) /\ ~Ends(begun) /\ begun.of = m.about
  BY <1>3 DEF Event, Outputs, Written, Tells, Ends
<1>6. ASSUME m.kind = "interrupt"
      PROVE  ~Starts(yes) /\ ~Starts(no)
  <2>1. yes.request.kind = "interrupt" /\ no.request.kind = "interrupt"
    BY <1>3, <1>6 DEF AnswerTo
  <2> HIDE DEF yes, no
  <2>2. \A a: Starts(a) => a.request.kind = "start"
    BY DEF Starts, StartAnswer, AnswerTo, Starting, Request
  <2> QED BY <2>1, <2>2
<1>7. Pipe(in, stdout, running, active)
  BY <1>1, <1>2, TailOfInput
<1>8. ASSUME m.kind = "start"
      PROVE  /\ active # 0 /\ m.about = active /\ running = 0 /\ NoneBegins(in)
             /\ NoneTells(stdout) /\ NoneStarts(stdout)
             /\ StartAnswer(yes, active) /\ StartAnswer(no, active)
  <2>1. Begins(m)
    BY <1>8 DEF Begins
  <2>2. /\ active # 0 /\ m.about = active /\ running = 0
        /\ NoneTells(stdout) /\ NoneStarts(stdout)
    BY <1>2, <2>1 DEF Pipe, PipeInputs
  <2>3. NoneBegins(in)
    BY <1>1, <1>2, <2>1, TailOfInput
  <2>4. StartAnswer(yes, active) /\ StartAnswer(no, active)
    BY <1>3, <1>8, <2>2 DEF StartAnswer
  <2> QED BY <2>2, <2>3, <2>4
<1> HIDE DEF m, in, yes, no, begun
<1>9. CASE m.request.kind = "start" /\ running = 0 /\ running' = m.about
           /\ stdout' = stdout \o <<yes, begun>>
  <2> DEFINE out == Append(stdout, yes)
  <2>1. m.kind = "start"
    BY <1>3, <1>9
  <2>2. out \in Seq(Outputs(sent)) /\ stdout \o <<yes, begun>> = Append(out, begun)
    BY <1>2, <1>4, <1>5, AppendFacts, PairAppended
  <2>3. /\ Pipe(in, out, 0, active) /\ NoneTells(out) /\ NoneRefused(out) /\ NoneEnds(out)
    BY <1>2, <1>4, <1>7, <1>8, <1>9, <2>1, StartPipe
  <2> HIDE DEF out
  <2>4. Pipe(in, out, active, active)
    BY <1>2, <1>8, <2>1, <2>2, <2>3, RunPipe
  <2>5. Pipe(in, Append(out, begun), active, active)
    BY <1>2, <1>5, <1>8, <2>1, <2>2, <2>3, <2>4, TellPipe
  <2> QED BY <1>1, <1>8, <1>9, <2>1, <2>2, <2>5
<1>10. CASE m.request.kind = "interrupt" /\ running = m.about /\ running' = 0
            /\ stdout' = stdout \o <<yes, Event("aborted", m.about)>>
  <2>1. Pipe(in, stdout \o <<yes, Event("aborted", running)>>, 0, active)
    BY <1>2, <1>3, <1>4, <1>6, <1>7, <1>10, AbortPipe
  <2> QED BY <1>1, <1>10, <2>1
<1>11. CASE running' = running /\ stdout' = Append(stdout, no)
  <2>1. CASE m.kind = "start"
    BY <1>1, <1>2, <1>4, <1>7, <1>8, <1>11, <2>1, StartPipe
  <2>2. CASE m.kind = "interrupt"
    BY <1>1, <1>2, <1>4, <1>6, <1>7, <1>11, <2>2, AnswerPipe
  <2> QED BY <1>3, <2>1, <2>2
<1> QED BY <1>9, <1>10, <1>11 DEF ServerReads, m, in, yes, no, begun

(* The session reads what the server wrote.                                *)
LEMMA CodexReadPipe ==
  ASSUME AgentInv, backend = "codex", Pipe(stdin, stdout, running, active),
         Answer \/ TurnStarted \/ Delta \/ Edit \/ TurnCompleted \/ TurnAborted
  PROVE  Pipe(stdin', stdout', running', active')
<1>1. /\ stdout # <<>> /\ stdout' = Tail(stdout) /\ UNCHANGED <<stdin, running, sent>>
  BY DEF Answer, TurnStarted, Delta, Edit, TurnCompleted, TurnAborted, Notified, Read
<1>2. /\ sent \in Nat /\ stdin \in Seq(Inputs(sent)) /\ stdout \in Seq(Outputs(sent))
  BY PipesOf
<1>3. Pipe(stdin, Tail(stdout), running, active)
  BY <1>1, <1>2, TailOfOutput
<1>4. ASSUME Ends(Head(stdout)) \/ (Starts(Head(stdout)) /\ ~Head(stdout).ok)
      PROVE  Pipe(stdin, Tail(stdout), running, 0)
  BY <1>1, <1>2, <1>4, EndPipe
<1>5. CASE TurnStarted \/ Delta \/ Edit
  BY <1>1, <1>3, <1>5 DEF TurnStarted, Delta, Edit, streamVars
<1>6. CASE TurnCompleted \/ TurnAborted
  <2>1. Ends(Head(stdout)) /\ active' = 0
    BY <1>6 DEF TurnCompleted, TurnAborted, Notified, Read, Finish, streamVars, Ends
  <2> QED BY <1>1, <1>4, <2>1
<1>7. CASE Answer
  <2> DEFINE m == Head(stdout)
  <2>1. m.kind = "answer" /\ m \in CodexAnswer(sent)
    BY <1>1, <1>7, HeadFacts DEF Answer, Read, Written
  <2>2. CASE active' = active
    BY <1>1, <1>3, <2>2
  <2>3. CASE active' # active
    <3>1. /\ m.request \in requests /\ ~m.ok /\ m.request.kind = "start" /\ NotStarted(m.request.turn)
      BY <1>7, <2>3 DEF Answer, GivenUp, streamVars
    <3>2. m.request \in Requests(sent)
      BY <3>1 DEF AgentInv, Shape, PipeTypes
    <3>3. m.request.turn \in 1..sent /\ m.request = Starting(m.request.turn)
      <4> DEFINE r == m.request
      <4>1. r \in Requests(sent) /\ r.kind = "start"
        BY <3>1, <3>2
      <4> HIDE DEF r
      <4>2. PICK k \in 1..sent: r = Starting(k)
        BY <4>1 DEF Requests, Interruptions
      <4>3. r.turn = k
        BY <4>2 DEF Starting, Request
      <4> QED BY <4>2, <4>3 DEF r
    <3>4. m.request.turn \in Turns
      BY <3>3, TurnFacts DEF AgentInv, Shape, SessionTypes
    <3>5. m = AnswerTo(m.request, m.ok) /\ m.ok \in BOOLEAN
      BY <2>1 DEF CodexAnswer, AnswerTo
    <3>6. Starts(m)
      BY <3>3, <3>4, <3>5 DEF Starts, StartAnswer
    <3>7. active' = 0
      BY <2>3, <3>1 DEF NotStarted, streamVars
    <3> QED BY <1>1, <1>4, <3>1, <3>6, <3>7
  <2> QED BY <2>2, <2>3
<1> QED BY <1>5, <1>6, <1>7

LEMMA CodexPipe ==
  ASSUME AgentInv, CodexNext, UNCHANGED claudeVars, Reads, Reads'
  PROVE  Pipe(stdin', stdout', running', active')
<1> USE DEF CodexNext
<1>1. /\ backend = "codex" /\ Pipe(stdin, stdout, running, active) /\ client = "open"
      /\ client' = "open" /\ ~late'
  BY DEF AgentInv, PipeInv, Reads
<1>2. /\ sent \in Nat /\ stdin \in Seq(Inputs(sent)) /\ stdout \in Seq(Outputs(sent))
  BY PipesOf
<1>3. CASE Send
  <2> DEFINE k == sent + 1  m == Message(Starting(k), k)
  <2>1. /\ stdin' = Append(stdin, m) /\ active' = k /\ active = 0 /\ UNCHANGED <<stdout, running>>
    BY <1>1, <1>3 DEF Send, Begin, AgentInv, Shape, TurnInv
  <2>2. m \in Inputs(k) /\ m.about = k /\ k # 0 /\ k \in Nat
    BY <1>2 DEF Inputs, CodexInput, Message
  <2>3. Inputs(sent) \subseteq Inputs(k) /\ Outputs(sent) \subseteq Outputs(k)
    BY <1>2 DEF Inputs, CodexInput, ClaudeInput, Interruptions, Outputs, Written, CodexAnswer,
                ClaudeAnswer, Requests
  <2>4. stdin \in Seq(Inputs(k)) /\ stdout \in Seq(Outputs(k))
    BY <1>2, <2>3, SeqMonotonic
  <2> HIDE DEF m, k
  <2>5. Pipe(Append(stdin, m), stdout, running, m.about)
    BY <1>1, <2>1, <2>2, <2>4, BeginPipe
  <2> QED BY <2>1, <2>2, <2>5
<1>4. ASSUME NEW c \in waiting, CallContinues(c)
      PROVE  Pipe(stdin', stdout', running', active')
  <2> DEFINE m == Message(Interruption(c), ident[c[2]])
  <2>1. /\ UNCHANGED <<stdout, running, active>>
        /\ stdin' = stdin \/ (ident[c[2]] # 0 /\ stdin' = Append(stdin, m))
    BY <1>4 DEF CallContinues, streamVars
  <2>2. c[1] \in Callers /\ c[2] \in 1..sent /\ c[2] \in Turns /\ ident[c[2]] \in 0..sent
    BY TurnFacts DEF AgentInv, Shape, PipeTypes, SessionTypes
  <2>3. ident[c[2]] # 0 => m \in Inputs(sent) /\ ~Begins(m)
    BY <1>2, <2>2 DEF Inputs, CodexInput, Message, Interruption, Request, Interruptions, Begins
  <2> HIDE DEF m
  <2>4. ident[c[2]] # 0 => Pipe(Append(stdin, m), stdout, running, active)
    BY <1>1, <1>2, <2>3, AskPipe
  <2> QED BY <1>1, <2>1, <2>4
<1>5. CASE Answer \/ TurnStarted \/ Delta \/ Edit \/ TurnCompleted \/ TurnAborted
  BY <1>1, <1>5, CodexReadPipe
<1>6. CASE CodexTimeouts
  <2>1. PICK r \in requests: Timeout(r)
    BY <1>6 DEF CodexTimeouts
  <2>2. /\ UNCHANGED <<stdin, stdout, running>> /\ late' = (late \/ r.kind = "start")
        /\ (r.kind # "start" => active' = active)
    BY <2>1 DEF Timeout, GivenUp, procVars, streamVars
  <2> QED BY <1>1, <2>2
<1>7. CASE Nonsense \/ Exits \/ CloseContinues \/ StartFails
  <2>1. client' = "closed"
    BY <1>1, <1>7 DEF Nonsense, Exits, CloseContinues, StartFails, Fail, Deaf
  <2> QED BY <1>1, <2>1
<1>8. CASE Server
  <2>1. UNCHANGED <<active, sent>>
    BY <1>8 DEF Server, ServerReads, Completes, Says, chatVars, streamVars
  <2> QED BY <1>1, <1>8, <2>1, ServerPipe, SaysPipe DEF Server
<1>9. CASE \/ (Conversation /\ UNCHANGED codexVars) \/ Close \/ Exited \/ Kill \/ Stop
           \/ (Retire /\ UNCHANGED codexVars)
  <2>1. UNCHANGED <<stdin, stdout, running, active>>
    BY <1>9 DEF Conversation, Started, Consume, StreamEnds, Disposed, Close, Exited, Kill, Stop,
                Retire, procVars, streamVars
  <2> QED BY <1>1, <2>1
<1> QED BY <1>3, <1>4, <1>5, <1>6, <1>7, <1>8, <1>9 DEF CodexSteps

LEMMA ClaudeReadsPipe ==
  ASSUME AgentInv, backend = "claude", Pipe(stdin, stdout, running, active),
         UNCHANGED <<active, sent>>, ClaudeReads
  PROVE  Pipe(stdin', stdout', running', active')
<1> DEFINE m == Head(stdin)  in == Tail(stdin)  answer == Event("answer", m.about)
<1>1. stdin # <<>> /\ stdin' = in
  BY DEF ClaudeReads
<1>2. /\ sent \in Nat /\ stdin \in Seq(Inputs(sent)) /\ stdout \in Seq(Outputs(sent))
      /\ in \in Seq(Inputs(sent)) /\ m \in ClaudeInput(sent) /\ m = stdin[1] /\ 1 \in 1..Len(stdin)
      /\ running \in 0..sent
  BY <1>1, PipesOf DEF In
<1>3. m.about \in 1..sent
  BY <1>2 DEF ClaudeInput
<1>4. answer \in Outputs(sent) /\ ~Tells(answer) /\ ~Starts(answer)
  BY <1>3 DEF Event, Outputs, ClaudeAnswer, Tells, Starts, StartAnswer, AnswerTo
<1>5. Pipe(in, stdout, running, active)
  BY <1>1, <1>2, TailOfInput
<1>6. CASE m.kind = "user" /\ running = 0 /\ running' = m.about /\ stdout' = stdout
  <2>1. Begins(m)
    BY <1>6 DEF Begins
  <2>2. m.about = active /\ NoneTells(stdout) /\ NoneStarts(stdout)
    BY <1>2, <2>1 DEF Pipe, PipeInputs
  <2>3. NoneBegins(in)
    BY <1>1, <1>2, <2>1, TailOfInput
  <2>4. NoneEnds(stdout) /\ NoneRefused(stdout)
    BY <2>2 DEF NoneEnds, NoneRefused, NoneTells, NoneStarts, Tells, Ends
  <2>5. Pipe(in, stdout, active, active)
    BY <1>2, <1>5, <2>3, <2>4, RunPipe
  <2> QED BY <1>1, <1>6, <2>2, <2>5
<1> HIDE DEF m, in, answer
<1>7. CASE running # 0 /\ running' = 0 /\ stdout' = stdout \o <<answer, Event("aborted", running)>>
  <2>1. Pipe(in, stdout \o <<answer, Event("aborted", running)>>, 0, active)
    BY <1>2, <1>4, <1>5, <1>7, AbortPipe
  <2> QED BY <1>1, <1>7, <2>1
<1>8. CASE running' = running /\ stdout' = Append(stdout, answer)
  <2>1. Pipe(in, Append(stdout, answer), running, active)
    BY <1>2, <1>4, <1>5, AnswerPipe
  <2> QED BY <1>1, <1>8, <2>1
<1> QED BY <1>6, <1>7, <1>8 DEF ClaudeReads, m, in, answer

(* A process that is gone reads nothing any more.                          *)
LEMMA GonePipe ==
  ASSUME NEW n \in Nat, NEW in \in Seq(Inputs(n)), NEW out \in Seq(Outputs(n)),
         NEW run, NEW act, Pipe(in, out, run, act)
  PROVE  Pipe(<<>>, out, 0, act)
<1>1. Pipe(in, out, 0, act)
  BY RunPipe
<1>2. PipeInputs(<<>>, out, 0, act)
  BY DEF PipeInputs
<1> QED BY <1>1, <1>2 DEF Pipe

LEMMA ClaudePipe ==
  ASSUME AgentInv, ClaudeNext, UNCHANGED codexVars, Reads, Reads'
  PROVE  Pipe(stdin', stdout', running', active')
<1> USE DEF ClaudeNext
<1>1. /\ backend = "claude" /\ backend' = "claude" /\ Pipe(stdin, stdout, running, active)
      /\ closing' = "no" /\ ~failed'
  BY ClaudeOther DEF AgentInv, PipeInv, Reads
<1>2. /\ sent \in Nat /\ stdin \in Seq(Inputs(sent)) /\ stdout \in Seq(Outputs(sent))
      /\ active \in {0, sent}
  BY PipesOf
<1>3. CASE ClaudeSend
  <2> DEFINE k == sent + 1  m == Input("user", k)
  <2>1. CASE chat = "ready" /\ active' = k /\ stdin' = Append(stdin, m)
    <3>1. active = 0 /\ UNCHANGED <<stdout, running>>
      BY <1>3, <2>1 DEF ClaudeSend, AgentInv, Shape, TurnInv
    <3>2. m \in Inputs(k) /\ m.about = k /\ k # 0 /\ k \in Nat
      BY <1>2 DEF Inputs, ClaudeInput, Input
    <3>3. Inputs(sent) \subseteq Inputs(k) /\ Outputs(sent) \subseteq Outputs(k)
      BY <1>2 DEF Inputs, CodexInput, ClaudeInput, Interruptions, Outputs, Written, CodexAnswer,
                  ClaudeAnswer, Requests
    <3>4. stdin \in Seq(Inputs(k)) /\ stdout \in Seq(Outputs(k))
      BY <1>2, <3>3, SeqMonotonic
    <3> HIDE DEF m, k
    <3>5. Pipe(Append(stdin, m), stdout, running, m.about)
      BY <1>1, <3>1, <3>2, <3>4, BeginPipe
    <3> QED BY <2>1, <3>1, <3>2, <3>5
  <2>2. CASE UNCHANGED <<active, stdin>>
    BY <1>1, <1>3, <2>2 DEF ClaudeSend
  <2> QED BY <1>3, <2>1, <2>2 DEF ClaudeSend, Begin
<1>4. CASE ClaudeStop
  <2> DEFINE m == Input("interrupt", active)
  <2>1. /\ UNCHANGED <<stdout, running, active>>
        /\ stdin' = stdin \/ (active # 0 /\ stdin' = Append(stdin, m))
    BY <1>4 DEF ClaudeStop, streamVars
  <2>2. active # 0 => m \in Inputs(sent) /\ ~Begins(m)
    BY <1>2 DEF Inputs, ClaudeInput, Input, Begins
  <2> HIDE DEF m
  <2>3. active # 0 => Pipe(Append(stdin, m), stdout, running, active)
    BY <1>1, <1>2, <2>2, AskPipe
  <2> QED BY <1>1, <2>1, <2>3
<1>5. CASE AskingAnswered \/ Text \/ Result \/ Aborted
  <2>1. stdout # <<>> /\ stdout' = Tail(stdout) /\ UNCHANGED <<stdin, running>>
    BY <1>5 DEF AskingAnswered, Text, Result, Aborted, Take
  <2>2. CASE AskingAnswered \/ Text
    <3>1. active' = active
      BY <2>2 DEF AskingAnswered, Text, streamVars
    <3> QED BY <1>1, <1>2, <2>1, <3>1, TailOfOutput
  <2>3. CASE Result \/ Aborted
    <3>1. Ends(Head(stdout)) /\ active' = 0
      BY <2>3 DEF Result, Aborted, Take, Finish, streamVars, Ends
    <3> QED BY <1>1, <1>2, <2>1, <3>1, EndPipe
  <2> QED BY <1>5, <2>2, <2>3
<1>6. CASE PumpEnds \/ PumpFails \/ ClaudeClose
  BY <1>1, <1>6 DEF PumpEnds, PumpFails, PumpFailed, ClaudeClose
<1>7. CASE ProcessExits
  <2>1. stdin' = <<>> /\ running' = 0 /\ UNCHANGED <<stdout, active>>
    BY <1>7 DEF ProcessExits, Gone, streamVars
  <2> QED BY <1>1, <1>2, <2>1, GonePipe
<1>8. CASE Claude
  <2>1. UNCHANGED <<active, sent>>
    BY <1>8 DEF Claude, ClaudeReads, Completes, Says, chatVars, streamVars
  <2> QED BY <1>1, <1>8, <2>1, ClaudeReadsPipe, SaysPipe DEF Claude
<1>9. CASE \/ (Conversation /\ UNCHANGED claudeVars) \/ ClaudeExited \/ ClaudeKill
           \/ (Retire /\ UNCHANGED claudeVars) \/ ClaudeStartFails \/ Unconfirmed
           \/ \E k \in Turns: AskingFails(k)
  <2>1. UNCHANGED <<stdin, stdout, running, active>>
    BY <1>9 DEF Conversation, Started, Consume, StreamEnds, Disposed, ClaudeExited, ClaudeKill,
                Retire, ClaudeStartFails, Unconfirmed, AskingFails, procVars, streamVars
  <2> QED BY <1>1, <2>1
<1> QED BY <1>3, <1>4, <1>5, <1>6, <1>7, <1>8, <1>9 DEF ClaudeSteps

(***************************************************************************)
(* The theorems.                                                           *)
(***************************************************************************)
LEMMA AgentInvInit == Init => AgentInv
<1> SUFFICES ASSUME Init PROVE AgentInv
  OBVIOUS
<1> USE DEF Init, AgentInit, CodexInit, ClaudeInit
<1>1. <<>> \in Seq(Events) /\ stdin \in Seq(In(backend, sent)) /\ stdout \in Seq(Out(backend, sent))
  OBVIOUS
<1>2. SessionTypes
  <2>1. queue \in [Turns -> Seq(Events)]
    BY <1>1
  <2>2. sent \in 0..MaxTurns /\ running \in 0..sent
    BY TurnFacts
  <2> QED BY <2>1, <2>2 DEF SessionTypes
<1>3. PipeTypes
  BY <1>1, TurnFacts DEF PipeTypes
<1>4. TurnInv /\ ClosedInv
  BY TurnFacts DEF TurnInv, ClosedInv
<1>5. Pipe(<<>>, <<>>, 0, 0)
  BY FreePipe DEF NoneBegins, NoneTells, NoneStarts
<1>6. OwnEvents
  BY DEF OwnEvents
<1> QED BY <1>2, <1>3, <1>4, <1>5, <1>6 DEF AgentInv, Shape, PipeInv

LEMMA AgentInvKept == AgentInv /\ [Next]_vars => AgentInv'
<1> SUFFICES ASSUME AgentInv, [Next]_vars PROVE AgentInv'
  OBVIOUS
<1>1. CASE Next
  <2>1. Shape' /\ OwnEvents'
    BY <1>1, ShapeKept
  <2>2. ASSUME Reads'
        PROVE  Pipe(stdin', stdout', running', active')
    BY <1>1, <2>2, ReadsBefore, CodexPipe, ClaudePipe DEF Next
  <2> QED BY <2>1, <2>2 DEF AgentInv, PipeInv
<1>2. CASE UNCHANGED vars
  <2> USE <1>2 DEF vars, agentVars, codexVars, claudeVars, chatVars, streamVars, procVars
  <2>1. SessionTypes' /\ TurnInv'
    BY DEF AgentInv, Shape, SessionTypes, TurnInv
  <2>2. PipeTypes' /\ ClosedInv'
    BY DEF AgentInv, Shape, PipeTypes, ClosedInv
  <2>3. PipeInv' /\ OwnEvents'
    BY DEF AgentInv, PipeInv, Reads, OwnEvents
  <2> QED BY <2>1, <2>2, <2>3 DEF AgentInv, Shape
<1> QED BY <1>1, <1>2

LEMMA AgentInvHolds == Spec => []AgentInv
<1> QED BY AgentInvInit, AgentInvKept, PTL DEF Spec

LEMMA OwnFollows == AgentInv => StreamsAreOwn
<1> SUFFICES ASSUME AgentInv PROVE StreamsAreOwn
  OBVIOUS
<1> USE DEF AgentInv, Shape, SessionTypes, PipeTypes, TurnInv
<1>1. /\ sent \in Nat /\ turn \in 0..MaxTurns /\ active \in (0..sent) \ ended
      /\ ended \subseteq 1..sent
  BY TurnFacts
<1>2. flagged \cup asking \subseteq Turns /\ \A k \in Turns: queue[k] \in Seq(Events)
  OBVIOUS
<1>3. TypeOK
  BY <1>1, <1>2 DEF TypeOK
<1> QED BY <1>3 DEF StreamsAreOwn

LEMMA QuietFollows == AgentInv => QuietWhenIdle
<1> SUFFICES ASSUME AgentInv PROVE QuietWhenIdle
  OBVIOUS
<1>1. SessionTypes /\ TurnInv /\ ClosedInv
  BY DEF AgentInv, Shape
<1>2. ASSUME chat = "ready", ~late, client = "open", ~failed
      PROVE  running = 0 /\ NoneBegins(stdin)
  <2>1. Reads /\ active = 0
    BY <1>1, <1>2 DEF Reads, ClosedInv, TurnInv
  <2> QED BY <2>1, IdlePipe DEF AgentInv, PipeInv
<1>3. IdleMeansIdle
  BY <1>2 DEF IdleMeansIdle, NoneBegins, Begins
<1>4. ClosedMeansGone
  BY <1>1 DEF ClosedMeansGone, SessionTypes, TurnInv, ClosedInv
<1> QED BY <1>3, <1>4 DEF QuietWhenIdle

(* The stream of a turn never holds an event of another one: whatever the  *)
(* process is late with, a turn of a session that is used again is told    *)
(* its own text and its own end only (codex/backend.ts:218,                *)
(* claude/backend.ts:193).                                                 *)
THEOREM StreamsAreAlwaysOwn == Spec => []StreamsAreOwn
<1> QED BY AgentInvHolds, OwnFollows, PTL

(* An agent whose chat has no turn works on none and has none to begin,    *)
(* and when close() has resolved nothing of the agent is left: no process, *)
(* no pending request, no open stream (codex/backend.ts:180-191,           *)
(* claude/backend.ts:211-222).                                             *)
THEOREM IdleIsAlwaysQuiet == Spec => []QuietWhenIdle
<1> QED BY AgentInvHolds, QuietFollows, PTL
=============================================================================
