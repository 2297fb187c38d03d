------------------------------ MODULE CodexSession ------------------------------
(***************************************************************************)
(* A Codex session (agents/codex/backend.ts) over the JSON-RPC client of   *)
(* codex app-server (agents/codex/app-server-client.ts).                   *)
(*                                                                         *)
(* Requests are pending until they are answered or time out; what awaits   *)
(* a request goes on at once.  interrupt() is called by the human, by the  *)
(* session itself when Codex tries to edit a file, and by close(); the     *)
(* calls are told apart by who made them.                                  *)
(***************************************************************************)
EXTENDS AgentSession, FiniteSets

VARIABLES
  client,    (* the JSON-RPC client: open or closed                        *)
  requests,  (* its pending requests                                       *)
  ident,     (* the turn id each active turn was told                      *)
  waiting,   (* calls of interrupt() that wait for their turn to start     *)
  late,      (* history: a turn/start was given up                         *)
  daemon     (* "up"; "crashed" after an unhandled rejection               *)

codexVars == <<client, requests, ident, waiting, late, daemon>>

Callers == {"human", "edit", "close"}
Calls == Callers \X Turns
Request(kind, by, k) == [kind |-> kind, by |-> by, turn |-> k]
Starting(k) == Request("start", "chat", k)
Interruption(c) == Request("interrupt", c[1], c[2])

(* What is written: a request, and the turn it is about.                   *)
Message(r, k) == [kind |-> r.kind, request |-> r, about |-> k]

CodexInit ==
  /\ client = "open" /\ requests = {} /\ ident = [k \in Turns |-> 0]
  /\ waiting = {} /\ late = FALSE /\ daemon = "up"

(***************************************************************************)
(* Requests.                                                               *)
(***************************************************************************)
(* Rejected interruptions: the chat disposes of the agent when it was the  *)
(* human's, close() goes on, and nobody handles the session's own.         *)
Rejected(rs) ==
  /\ requests' = requests \ rs
  /\ IF \E r \in rs: r.by = "human" THEN Dispose ELSE UNCHANGED chat
  /\ daemon' = IF \E r \in rs: r.by = "edit" THEN "crashed" ELSE daemon

(* startTurn is rejected: its turn ends with an error, unless it did.      *)
NotStarted(k) ==
  IF k \in ended THEN UNCHANGED streamVars
  ELSE /\ queue' = [queue EXCEPT ![k] = Append(@, Event("error", k))]
       /\ ended' = ended \cup {k}
       /\ active' = IF active = k THEN 0 ELSE active

GivenUp(r) ==
  /\ Rejected({r})
  /\ IF r.kind = "start" THEN NotStarted(r.turn) ELSE UNCHANGED streamVars

Timeout(r) ==
  /\ r \in requests
  /\ GivenUp(r)
  /\ late' = (late \/ r.kind = "start")
  /\ UNCHANGED <<backend, turn, stopping, answered, sent, closing, procVars, client, ident,
                 waiting>>

(***************************************************************************)
(* send                                                                    *)
(***************************************************************************)
Send ==
  /\ backend = "codex" /\ Begin
  /\ UNCHANGED <<backend, closing, proc, stdout, running, said, client, ident, waiting, late,
                 daemon>>
  /\ LET k == sent + 1 IN
       IF client = "open"
       THEN /\ requests' = requests \cup {Starting(k)}
            /\ stdin' = Append(stdin, Message(Starting(k), k))
            /\ active' = k /\ UNCHANGED <<queue, ended>>
       ELSE /\ queue' = [queue EXCEPT ![k] = <<Event("error", k)>>]
            /\ ended' = ended \cup {k}
            /\ UNCHANGED <<active, requests, stdin>>

(***************************************************************************)
(* interrupt                                                               *)
(***************************************************************************)
(* A call waits for the start of the turn that is active.                  *)
Called(by) == waiting' = IF active = 0 THEN waiting ELSE waiting \cup {<<by, active>>}

Stop ==
  /\ backend = "codex" /\ chat = "busy" /\ ~stopping
  /\ stopping' = TRUE
  /\ Called("human")
  /\ UNCHANGED <<backend, chat, turn, answered, sent, streamVars, closing, procVars,
                 client, requests, ident, late, daemon>>

(* A turn that ended meanwhile needs no interruption.                      *)
CallContinues(c) ==
  /\ c \in waiting /\ Starting(c[2]) \notin requests
  /\ waiting' = waiting \ {c}
  /\ IF ident[c[2]] = 0 \/ c[2] \in ended
     THEN UNCHANGED <<requests, stdin>>
     ELSE /\ requests' = requests \cup {Interruption(c)}
          /\ stdin' = Append(stdin, Message(Interruption(c), ident[c[2]]))
  /\ UNCHANGED <<backend, chatVars, streamVars, closing, proc, stdout, running, said, client,
                 ident, late, daemon>>

(***************************************************************************)
(* What the server writes.                                                 *)
(***************************************************************************)
Read(kind) ==
  /\ backend = "codex" /\ client = "open" /\ stdout # <<>> /\ Head(stdout).kind = kind
  /\ stdout' = Tail(stdout)
  /\ UNCHANGED <<backend, turn, stopping, answered, sent, closing, proc, stdin, running,
                 said, client, late>>

Notified(kind) == Read(kind) /\ UNCHANGED <<chat, requests, daemon>>

Accepted(r) ==
  /\ requests' = requests \ {r}
  /\ ident' = IF r.kind = "start" THEN [ident EXCEPT ![r.turn] = r.turn] ELSE ident
  /\ UNCHANGED <<chat, daemon>>

(* Slip: an answered interruption ends the turn's stream by itself.        *)
AnswerEnding ==
  /\ Read("answer")
  /\ LET m == Head(stdout) IN
       IF m.request \notin requests THEN UNCHANGED <<chat, requests, daemon, streamVars, ident>>
       ELSE IF ~m.ok THEN GivenUp(m.request) /\ UNCHANGED ident
       ELSE /\ Accepted(m.request)
            /\ IF m.request.kind = "start" THEN UNCHANGED streamVars
               ELSE Finish(<<Event("error", active)>>)
  /\ UNCHANGED waiting

(* An answer to a request that was given up is dropped.                    *)
Answer ==
  /\ Read("answer")
  /\ LET m == Head(stdout) IN
       IF m.request \notin requests THEN UNCHANGED <<chat, requests, daemon, streamVars, ident>>
       ELSE IF ~m.ok THEN GivenUp(m.request) /\ UNCHANGED ident
       ELSE Accepted(m.request) /\ UNCHANGED streamVars
  /\ UNCHANGED waiting

TurnStarted ==
  /\ Notified("started")
  /\ ident' = IF active = 0 THEN ident ELSE [ident EXCEPT ![active] = Head(stdout).of]
  /\ UNCHANGED <<streamVars, waiting>>

(* A notification about another turn than the one that is active.          *)
Foreign == active # 0 /\ ident[active] # 0 /\ Head(stdout).of # ident[active]

Delta ==
  /\ Notified("delta")
  /\ IF active = 0 \/ Foreign THEN UNCHANGED queue ELSE Push(<<Head(stdout)>>)
  /\ UNCHANGED <<active, ended, ident, waiting>>

(* Slip: the attempt to edit a file ends the turn for the session.         *)
EditEnding ==
  /\ Notified("edit")
  /\ IF active = 0 \/ Foreign THEN UNCHANGED <<streamVars, waiting>>
     ELSE Finish(<<Event("error", Head(stdout).of)>>) /\ Called("edit")
  /\ UNCHANGED ident

(* An attempt to edit a file is reported, and the turn is interrupted.     *)
Edit ==
  /\ Notified("edit")
  /\ IF active = 0 \/ Foreign THEN UNCHANGED <<queue, waiting>>
     ELSE Push(<<Event("error", Head(stdout).of)>>) /\ Called("edit")
  /\ UNCHANGED <<active, ended, ident>>

(* turn/completed carries the turn, not its id beside it: nothing tells    *)
(* whose it is.                                                            *)
TurnCompleted ==
  /\ Notified("completed")
  /\ Finish(<<Head(stdout)>>)
  /\ UNCHANGED <<ident, waiting>>

TurnAborted ==
  /\ Notified("aborted")
  /\ Finish(<<Head(stdout)>>)
  /\ UNCHANGED <<ident, waiting>>

(* A closed client reads nothing any more.                                 *)
Deaf == client' = "closed" /\ stdout' = <<>>

(* #fail, when the process exits or writes what cannot be read.            *)
Fail ==
  /\ Deaf
  /\ Rejected(requests)
  /\ Finish(<<Event("error", active)>>)

Nonsense ==
  /\ backend = "codex" /\ client = "open" /\ proc = "up"
  /\ Fail
  /\ UNCHANGED <<backend, turn, stopping, answered, sent, closing, proc, stdin, running, said,
                 ident, waiting, late>>

Exits ==
  /\ backend = "codex" /\ proc # "down"
  /\ Gone
  /\ IF client = "open" THEN Fail
     ELSE UNCHANGED <<chat, stdout, client, requests, daemon, streamVars>>
  /\ UNCHANGED <<backend, turn, stopping, answered, sent, closing, ident, waiting, late>>

(***************************************************************************)
(* close                                                                   *)
(***************************************************************************)
Close ==
  /\ backend = "codex" /\ chat = "disposing" /\ closing = "no"
  /\ closing' = "interrupting"
  /\ Called("close")
  /\ UNCHANGED <<backend, chatVars, streamVars, procVars, client, requests, ident, late,
                 daemon>>

(* The interruption is over, however it went: listeners go, the stream     *)
(* ends, the client closes and the process gets SIGTERM.                   *)
CloseContinues ==
  /\ backend = "codex" /\ closing = "interrupting"
  /\ \A k \in Turns: <<"close", k>> \notin waiting /\ Interruption(<<"close", k>>) \notin requests
  /\ closing' = "exiting"
  /\ Finish(<<>>)
  /\ Deaf /\ Rejected(requests)
  /\ UNCHANGED <<backend, turn, stopping, answered, sent, proc, stdin, running, said, ident,
                 waiting, late>>

Exited ==
  /\ backend = "codex" /\ closing \in {"exiting", "killing"} /\ proc = "down"
  /\ closing' = "done"
  /\ UNCHANGED <<backend, chatVars, streamVars, procVars, codexVars>>

(* The process did not exit within a second: SIGKILL.                      *)
Kill ==
  /\ backend = "codex" /\ closing = "exiting" /\ proc # "down"
  /\ closing' = "killing" /\ proc' = "dying"
  /\ UNCHANGED <<backend, chatVars, streamVars, stdin, stdout, running, said, codexVars>>

(* start() fails: the process is told to go, and not waited for.           *)
StartFails ==
  /\ backend = "codex" /\ chat = "starting"
  /\ chat' = "closed" /\ closing' = "unawaited"
  /\ client' = "closed"
  /\ UNCHANGED <<backend, turn, stopping, answered, sent, streamVars, procVars, requests,
                 ident, waiting, late, daemon>>

(***************************************************************************)
(* codex app-server                                                        *)
(***************************************************************************)
AnswerTo(r, ok) == [kind |-> "answer", request |-> r, ok |-> ok]

ServerReads ==
  /\ proc = "up" /\ stdin # <<>>
  /\ stdin' = Tail(stdin)
  /\ LET r == Head(stdin).request  k == Head(stdin).about IN
       \/ /\ r.kind = "start" /\ running = 0
          /\ running' = k /\ said' = FALSE
          /\ stdout' = stdout \o <<AnswerTo(r, TRUE), Event("started", k)>>
       \/ /\ r.kind = "interrupt" /\ running = k
          /\ running' = 0 /\ said' = FALSE
          /\ stdout' = stdout \o <<AnswerTo(r, TRUE), Event("aborted", k)>>
       \/ /\ r.kind = "start" \/ running # k
          /\ stdout' = Append(stdout, AnswerTo(r, FALSE))
          /\ UNCHANGED <<running, said>>
  /\ UNCHANGED <<backend, chatVars, streamVars, closing, proc, codexVars>>

(* What the server does while nobody reads it is left out.                 *)
Server ==
  /\ backend = "codex" /\ client = "open"
  /\ \/ ServerReads
     \/ Completes /\ UNCHANGED codexVars
     \/ \E kind \in {"delta", "edit"}: Says(kind) /\ UNCHANGED codexVars

(***************************************************************************)
CodexSteps ==
  \/ Conversation /\ UNCHANGED codexVars
  \/ \E c \in waiting: CallContinues(c)
  \/ Answer \/ TurnStarted \/ Delta \/ Edit \/ TurnCompleted \/ TurnAborted
  \/ Close \/ CloseContinues \/ Exited \/ Kill

CodexTimeouts == \E r \in requests: Timeout(r)

CodexNext ==
  /\ backend = "codex" /\ daemon = "up"
  /\ \/ CodexSteps \/ CodexTimeouts
     \/ Send \/ Stop \/ (Retire /\ UNCHANGED codexVars) \/ StartFails
     \/ Nonsense \/ Exits \/ Server
=============================================================================
