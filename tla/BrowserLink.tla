------------------------------ MODULE BrowserLink ------------------------------
(***************************************************************************)
(* What connects one browser tab to the daemon: the event socket that      *)
(* carries every published event in order (events/event-bus.ts,            *)
(* api/app.ts, web/events.tsx), HTTP requests whose answers arrive in any  *)
(* order (web/api.ts), and credentials that die with the daemon process    *)
(* (api/access.ts).  The daemon is reduced to what the tab sees of it: one *)
(* saved review and its chat.                                              *)
(***************************************************************************)
EXTENDS Naturals, Sequences, SequencesExt

CONSTANTS
  None,          (* nothing was loaded, requested or pinned                *)
  MaxChanges,    (* bound: changes of the review and its chat              *)
  MaxTroubles    (* bound: lost sockets, failed requests and restarts      *)

ASSUME BoundsAssumption == {MaxChanges, MaxTroubles} \subseteq Nat
(* What stands for no chat is none.                                        *)
ASSUME SentinelAssumption == \A n \in 0..MaxChanges: None \notin [1..n -> 1..MaxChanges]

VARIABLES
  review,     (* the saved review: its revision and status                *)
  log,        (* its chat: the change that made each chat revision         *)
  changes,    (* changes so far                                            *)
  process,    (* the daemon process                                        *)
  cookie,     (* the process whose credentials the browser holds           *)
  socket,     (* the event socket, as the tab sees it                      *)
  wire,       (* events on their way                                       *)
  drops,      (* lost sockets so far                                       *)
  flight,     (* the request of each kind that is on its way               *)
  fails       (* failed requests so far                                    *)

daemonVars == <<review, log, changes, process>>
linkVars == <<cookie, socket, wire, drops>>
requestVars == <<flight, fails>>

(***************************************************************************)
(* Requests.  The daemon serves a request when it is sent; its answer      *)
(* takes any time to arrive, so answers overtake each other and events.    *)
(* "again" is a refresh() that a gap or a command asks for: no later       *)
(* request aborts it.  Bound: one of each kind, and one command, at a time.*)
(***************************************************************************)
Reads == {"session", "diff", "chat", "chat again", "drafts", "drafts again", "list"}
Commands == {"edit", "say", "update"}
Kinds == Reads \cup Commands

Idle == [at |-> "idle", rev |-> 0, data |-> None]
Abort(f, kinds) == [k \in Kinds |-> IF k \in kinds THEN Idle ELSE f[k]]

(* The revision hook of the HTTP API: a request of an older revision is    *)
(* refused.  The session itself and the lists need no revision.            *)
Current(kind, rev) == kind \in {"session", "list"} \/ rev = review.rev

(* Without the credentials of this process nothing is served.              *)
Outcome(kind, rev) ==
  IF cookie # process THEN "denied" ELSE IF Current(kind, rev) THEN "answered" ELSE "refused"

Answer(f, kind, rev, data) ==
  LET at == Outcome(kind, rev)
  IN [f EXCEPT ![kind] = [at |-> at, rev |-> rev,
                          data |-> IF at = "answered" THEN data ELSE None]]

Content(kind) == IF kind \in {"chat", "chat again"} THEN log ELSE review
Send(f, kind, rev) == Answer(f, kind, rev, Content(kind))

Trouble == drops + fails + process < MaxTroubles

(* An answer arrives, or the request fails: refused, lost with its process,*)
(* or for a reason of its own (bound: drafts and commands only as refused: *)
(* of their failure the tab shows a message and nothing else).             *)
Arrives(kind) == flight[kind].at = "answered" /\ UNCHANGED fails

Fails(kind) ==
  \/ flight[kind].at = "refused" /\ UNCHANGED fails
  \/ /\ flight[kind].at = "answered"
     /\ kind \in {"session", "diff", "chat", "chat again", "list"}
     /\ Trouble /\ fails' = fails + 1

LinkInit ==
  /\ review = [rev |-> 0, status |-> "draft"]
  /\ log = <<>> /\ changes = 0 /\ process = 0
  /\ cookie = 0 /\ socket = "connecting" /\ wire = <<>> /\ drops = 0
  /\ fails = 0

(***************************************************************************)
(* The daemon's changes and what it publishes.                             *)
(***************************************************************************)
Listening == socket \in {"accepted", "open"}
Publish(event) == wire' = IF Listening THEN Append(wire, event) ELSE wire

Snapshot == [type |-> "daemon.snapshot"]
ChatEvent(rev, change) == [type |-> "chat.event", rev |-> rev, change |-> change]
Updated(r) == [type |-> "session.updated", review |-> r]

(* A chat change takes the next revision and is published.                 *)
Speak ==
  /\ log' = Append(log, changes')
  /\ Publish(ChatEvent(Len(log) + 1, changes'))
  /\ UNCHANGED review

Replace(r) == review' = r /\ Publish(Updated(r))

(* A draft comment is created, edited or removed: which, is left out.      *)
EditDrafts ==
  /\ Replace(review)
  /\ UNCHANGED log

(* The review moves to a new revision: its chat gets a notice of which no  *)
(* event is published.                                                     *)
Refresh ==
  /\ Replace([rev |-> review.rev + 1, status |-> "draft"])
  /\ log' = Append(log, changes')

SetStatus(status) ==
  /\ Replace([review EXCEPT !.status = status])
  /\ UNCHANGED log

(* The review is submitted, or a submission found not to have happened.    *)
Submit == review.status = "draft" /\ SetStatus("submitted")
Reconcile == review.status = "submitted" /\ SetStatus("draft")

Change == changes < MaxChanges /\ changes' = changes + 1

(* Others are at work as well: the agent speaks and edits drafts, and from *)
(* another window the review is refreshed, submitted or reconciled.  Bound:*)
(* one person, so not while this tab waits for an update of its own.       *)
OthersWork ==
  /\ Change
  /\ \/ review.status = "draft" /\ (Speak \/ EditDrafts)
     \/ flight["update"] = Idle /\ (Refresh \/ Submit \/ Reconcile)
  /\ UNCHANGED <<process, cookie, socket, drops, requestVars>>

(* What a command does to the review, when it can.                         *)
Does(kind) ==
  \/ kind = "say" /\ review.status = "draft" /\ Speak
  \/ kind = "edit" /\ review.status = "draft" /\ EditDrafts
  \/ kind = "update" /\ (Refresh \/ Submit \/ Reconcile)

(***************************************************************************)
(* The event socket.                                                       *)
(***************************************************************************)
(* The daemon subscribes the socket and sends a snapshot in one step.      *)
Accept ==
  /\ socket = "connecting" /\ cookie = process
  /\ socket' = "accepted" /\ wire' = <<Snapshot>>
  /\ UNCHANGED <<daemonVars, cookie, drops, requestVars>>

(* It closes, or is refused; what it carried is lost.                      *)
Closed == socket' = "checking" /\ wire' = <<>>

Reject ==
  /\ socket = "connecting" /\ cookie # process
  /\ Closed /\ UNCHANGED <<daemonVars, cookie, drops, requestVars>>

Drop ==
  /\ Listening
  /\ Trouble /\ drops' = drops + 1
  /\ Closed /\ UNCHANGED <<daemonVars, cookie, requestVars>>

(* The tab asks whether it is still authenticated; that it is, or that the *)
(* question fails, makes it connect again after a while.                   *)
Reconnect ==
  /\ socket = "checking" /\ cookie = process
  /\ socket' = "connecting"
  /\ UNCHANGED <<daemonVars, cookie, wire, drops, requestVars>>

(***************************************************************************)
(* The daemon is killed and started again.  It has the review, which is    *)
(* saved before it is published, and a prefix of the chat, which is saved  *)
(* a while after; when a turn was cut off a notice says so.                *)
(***************************************************************************)
Lost == [k \in Kinds |-> IF flight[k] = Idle THEN Idle
                         ELSE [at |-> "refused", rev |-> flight[k].rev, data |-> None]]

Restart ==
  /\ Trouble /\ process' = process + 1
  /\ \E k \in 0..Len(log):
       \/ log' = SubSeq(log, 1, k) /\ UNCHANGED changes
       \/ Change /\ log' = Append(SubSeq(log, 1, k), changes')
  /\ socket' = (IF Listening THEN "checking" ELSE socket)
  /\ wire' = <<>>
  /\ flight' = Lost
  /\ UNCHANGED <<review, cookie, drops, fails>>
=============================================================================
