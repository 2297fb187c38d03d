------------------------------ MODULE ReviewView ------------------------------
(***************************************************************************)
(* The review page of the browser (web/review/review-page.tsx): it loads   *)
(* the session and its diff, follows the daemon's events, and mounts the   *)
(* workspace, whose hooks keep a replica of the chat (use-chat.ts) and of  *)
(* the drafts (use-comments.ts).                                           *)
(***************************************************************************)
EXTENDS BrowserLink

VARIABLES
  route,      (* "home" or "review"                                        *)
  page,       (* what the page shows: session, revision of the diff, alert *)
  pinned,     (* revision and status the page was loaded for               *)
  chat,       (* the chat replica and its error                            *)
  notes       (* the drafts: the session they are of, kept for a revision  *)

viewVars == <<route, page, pinned, chat, notes>>

Blank == [at |-> "loading", s |-> None, diff |-> None, warn |-> FALSE]
Ready(s, diff, warn) == [at |-> "ready", s |-> s, diff |-> diff, warn |-> warn]
NoChat == [log |-> None, err |-> FALSE]

(* The workspace is mounted when there is a draft and its diff to show.    *)
Workspace(p) == p.at = "ready" /\ p.diff # None /\ p.s.status = "draft"
Mounted == route = "review" /\ Workspace(page)

(* The session whose drafts are on the screen: the one kept for this       *)
(* revision, or else the one the page was loaded with.                     *)
Keep(rev, s) == [key |-> rev, of |-> s]
Drafts == IF notes # None /\ notes.key = page.s.rev THEN notes.of ELSE page.s

(***************************************************************************)
(* Loads.                                                                  *)
(***************************************************************************)
Hooks == {"chat", "chat again", "drafts", "drafts again"}

Load(f) == Send(Abort(f, {"session", "diff"}), "session", 0)
Fetch(f, rev) == Send(Send(f, "chat", rev), "drafts", rev)

(* With the workspace go the answers its hooks and its forms wait for.     *)
Unmount(f) == Abort(f, Hooks \cup {"edit", "say"})

(* The workspace's state lives while it is mounted; its effects fetch anew *)
(* when it mounts and when the revision changes.                           *)
Render(p, f) ==
  /\ page' = p
  /\ IF Workspace(page) /\ Workspace(p)
     THEN UNCHANGED <<chat, notes>>
     ELSE chat' = NoChat /\ notes' = None
  /\ flight' = CASE ~Workspace(p) -> Unmount(f)
                 [] Workspace(p) /\ Workspace(page) /\ page.s.rev = p.s.rev -> f
                 [] OTHER -> Fetch(f, p.s.rev)

(* The effect of the page runs again: what it was loaded for is forgotten. *)
Reload(f) == pinned' = None /\ flight' = Load(f)

Loaded(s, diff, f) ==
  /\ pinned' = s
  /\ Render(Ready(s, diff, FALSE), f)
  /\ UNCHANGED <<daemonVars, linkVars, route>>

ReceiveSession ==
  /\ Arrives("session")
  /\ LET s == flight["session"].data
         f == Abort(flight, {"session"})
     IN \/ s.status = "submitted" /\ Loaded(s, None, f)
        \/ /\ s.status = "draft"
           /\ flight' = Answer(f, "diff", s.rev, s)
           /\ UNCHANGED <<daemonVars, linkVars, viewVars>>

ReceiveDiff ==
  /\ Arrives("diff")
  /\ LET s == flight["diff"].data IN Loaded(s, s.rev, Abort(flight, {"diff"}))

(* A failed load leaves what the page shows, under an alert.               *)
LoadFails(kind) ==
  /\ kind \in {"session", "diff"} /\ Fails(kind)
  /\ flight' = Abort(flight, {kind})
  /\ page' = IF page.at = "ready" THEN [page EXCEPT !.warn = TRUE]
                                  ELSE [Blank EXCEPT !.at = "error"]
  /\ UNCHANGED <<daemonVars, linkVars, route, pinned, chat, notes>>

(* Retry, or Reload review.                                                *)
Retry ==
  /\ route = "review"
  /\ page.at = "error" \/ page.warn
  /\ Reload(flight)
  /\ UNCHANGED <<daemonVars, linkVars, fails, route, page, chat, notes>>

(***************************************************************************)
(* The hooks of the workspace.                                             *)
(***************************************************************************)
(* Slip: the last answer wins.                                             *)
TakeAnyChat(loaded) == chat' = [log |-> loaded, err |-> FALSE]

(* An answer older than the replica is not taken.                          *)
TakeChat(loaded) ==
  chat' = [log |-> IF chat.log # None /\ Len(chat.log) > Len(loaded) THEN chat.log ELSE loaded,
           err |-> FALSE]

(* refresh() forgets an answer for a revision the page has left.           *)
Overdue(kind) ==
  kind \in {"chat again", "drafts again"} /\ flight[kind].rev # page.s.rev

ReceiveChat(kind) ==
  /\ kind \in {"chat", "chat again"} /\ Arrives(kind)
  /\ IF Overdue(kind) THEN UNCHANGED chat ELSE TakeChat(flight[kind].data)
  /\ flight' = Abort(flight, {kind})
  /\ UNCHANGED <<daemonVars, linkVars, route, page, pinned, notes>>

ChatFails(kind) ==
  /\ kind \in {"chat", "chat again"} /\ Fails(kind)
  /\ chat' = [chat EXCEPT !.err = @ \/ ~Overdue(kind)]
  /\ flight' = Abort(flight, {kind})
  /\ UNCHANGED <<daemonVars, linkVars, route, page, pinned, notes>>

ReceiveDrafts(kind) ==
  /\ kind \in {"drafts", "drafts again"} /\ Arrives(kind)
  /\ notes' = IF Overdue(kind) THEN notes ELSE Keep(flight[kind].rev, flight[kind].data)
  /\ flight' = Abort(flight, {kind})
  /\ UNCHANGED <<daemonVars, linkVars, route, page, pinned, chat>>

DraftsFail(kind) ==
  /\ kind \in {"drafts", "drafts again"} /\ Fails(kind)
  /\ flight' = Abort(flight, {kind})
  /\ UNCHANGED <<daemonVars, linkVars, viewVars>>

(***************************************************************************)
(* Commands.                                                               *)
(***************************************************************************)
Idling(kinds) == \A kind \in kinds: flight[kind] = Idle

(* The user edits a draft, writes to the agent, or submits, refreshes or   *)
(* reconciles the review; the daemon may refuse.  Bound: on a page that    *)
(* has loaded, one thing at a time.                                        *)
Command(kind) ==
  /\ kind \in Commands /\ Idling(Kinds)
  /\ \/ Workspace(page)
     \/ kind = "update" /\ page.at = "ready"
  /\ IF Outcome(kind, page.s.rev) = "answered"
     THEN Change /\ Does(kind)
     ELSE UNCHANGED <<review, log, changes, wire>>
  /\ flight' = Answer(flight, kind, page.s.rev, review')
  /\ UNCHANGED <<process, cookie, socket, drops, fails, viewVars>>

(* An edit and a message are followed by a refresh() of what they changed. *)
Again == [edit |-> "drafts again", say |-> "chat again"]

ReceiveCommand(kind) ==
  /\ kind \in DOMAIN Again /\ Arrives(kind) /\ flight[Again[kind]] = Idle
  /\ flight' = Send(Abort(flight, {kind}), Again[kind], flight[kind].rev)
  /\ UNCHANGED <<daemonVars, linkVars, viewVars>>

(* A submission and a refresh answer with the session: submitted, it is    *)
(* shown at once; a draft is loaded anew.                                  *)
ReceiveUpdate ==
  /\ Arrives("update")
  /\ LET s == flight["update"].data
         f == Abort(flight, {"update"})
     IN \/ /\ s.status = "submitted" /\ Render(Ready(s, None, page.warn), f)
           /\ UNCHANGED pinned
        \/ /\ s.status = "draft" /\ Reload(f)
           /\ UNCHANGED <<page, chat, notes>>
  /\ UNCHANGED <<daemonVars, linkVars, route>>

CommandFails(kind) ==
  /\ kind \in Commands /\ Fails(kind)
  /\ flight' = Abort(flight, {kind})
  /\ UNCHANGED <<daemonVars, linkVars, viewVars>>

(***************************************************************************)
(* Events, as the page and its hooks take them.                            *)
(***************************************************************************)
(* Slip: an event during a load is taken as the one the load is for.       *)
PageEventTrusting(event) ==
  LET same == event.type = "session.updated" /\ (pinned # None => event.review = pinned)
  IN IF same
     THEN /\ page' = IF page.at = "ready" THEN [page EXCEPT !.s = event.review] ELSE page
          /\ UNCHANGED flight
     ELSE flight' = Load(flight) /\ UNCHANGED page

(* The page follows a change of what it was loaded for with a load.        *)
PageEvent(event) ==
  LET same == pinned # None /\ event.type = "session.updated" /\ event.review = pinned
  IN IF same
     THEN /\ page' = IF page.at = "ready" THEN [page EXCEPT !.s = event.review] ELSE page
          /\ UNCHANGED flight
     ELSE flight' = Load(flight) /\ UNCHANGED page

(* Slip: the drafts of any revision are taken.                             *)
DraftsEventAny(event) ==
  notes' = IF Workspace(page) /\ event.type = "session.updated"
           THEN Keep(page.s.rev, event.review) ELSE notes

DraftsEvent(event) ==
  notes' = IF /\ Workspace(page) /\ event.type = "session.updated"
              /\ event.review.rev = page.s.rev
           THEN Keep(page.s.rev, event.review) ELSE notes

SessionEvent(event) ==
  /\ event.type \in {"daemon.snapshot", "session.updated"}
  /\ PageEvent(event) /\ DraftsEvent(event)
  /\ UNCHANGED <<pinned, chat>>

(* The next change is applied; a gap is filled by a refresh().             *)
ChatEventTaken(event) ==
  /\ event.type = "chat.event"
  /\ LET known == IF Workspace(page) /\ chat.log # None THEN Len(chat.log) ELSE 0
         next == chat.log # None /\ event.rev = known + 1
         gap == Workspace(page) /\ ~next /\ (chat.log = None \/ event.rev > known)
     IN /\ chat' = IF next THEN [chat EXCEPT !.log = Append(@, event.change)] ELSE chat
        /\ gap => flight["chat again"] = Idle
        /\ flight' = IF gap THEN Send(flight, "chat again", page.s.rev) ELSE flight
  /\ UNCHANGED <<page, pinned, notes>>
=============================================================================
