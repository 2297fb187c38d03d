------------------------------ MODULE WebClient ------------------------------
(***************************************************************************)
(* The browser application: the gate that asks for credentials             *)
(* (connection.tsx), the one event socket of the tab (events.tsx), the     *)
(* list of reviews at home (use-resource.ts), and the review page.  One    *)
(* tab, one review.                                                        *)
(***************************************************************************)
EXTENDS ReviewView

VARIABLES
  gate,       (* "ready", or "disconnected": nothing is mounted            *)
  list        (* the resource of the home page: data and error             *)

vars == <<daemonVars, linkVars, requestVars, viewVars, gate, list>>

NoList == [data |-> None, err |-> FALSE]

Init ==
  /\ LinkInit
  /\ gate = "ready" /\ route = "home" /\ list = NoList
  /\ flight = [[k \in Kinds |-> Idle] EXCEPT !["list"] = [at |-> "answered", rev |-> 0, data |-> review]]
  /\ page = Blank /\ pinned = None /\ chat = NoChat /\ notes = None

(***************************************************************************)
(* The home page fetches anew at each event that may concern it; an answer *)
(* to an earlier fetch is never shown.                                     *)
(***************************************************************************)
Refetch(f) == Send(Abort(f, {"list"}), "list", 0)

ReceiveList ==
  /\ Arrives("list")
  /\ list' = [data |-> flight["list"].data, err |-> FALSE]
  /\ flight' = Abort(flight, {"list"})
  /\ UNCHANGED <<daemonVars, linkVars, viewVars, gate>>

ListFails ==
  /\ Fails("list")
  /\ list' = [data |-> None, err |-> TRUE]
  /\ flight' = Abort(flight, {"list"})
  /\ UNCHANGED <<daemonVars, linkVars, viewVars, gate>>

(* Of the events modelled, session.updated concerns it.                    *)
ListEvent(event) ==
  IF event.type = "session.updated"
  THEN list' = NoList /\ flight' = Refetch(flight)
  ELSE UNCHANGED <<list, flight>>

(***************************************************************************)
(* The socket opens: a new connection generation, which every hook that    *)
(* fetches depends on.                                                     *)
(***************************************************************************)
Open ==
  /\ socket = "accepted" /\ socket' = "open"
  /\ IF route = "home"
     THEN list' = NoList /\ flight' = Refetch(flight) /\ UNCHANGED pinned
     ELSE /\ Reload(IF Workspace(page) THEN Fetch(flight, page.s.rev) ELSE flight)
          /\ UNCHANGED list
  /\ UNCHANGED <<daemonVars, cookie, wire, drops, fails, route, page, chat, notes, gate>>

Deliver ==
  /\ socket = "open" /\ wire # <<>> /\ wire' = Tail(wire)
  /\ LET event == Head(wire)
     IN IF route = "home"
        THEN ListEvent(event) /\ UNCHANGED <<page, pinned, chat, notes>>
        ELSE (SessionEvent(event) \/ ChatEventTaken(event)) /\ UNCHANGED list
  /\ UNCHANGED <<daemonVars, cookie, socket, drops, fails, route, gate>>

(***************************************************************************)
(* The gate.  Any 401 takes everything off the screen; a new token from    *)
(* the daemon's terminal puts fresh pages there.                           *)
(***************************************************************************)
(* Slip: the 401 of the socket's check is kept to the socket.              *)
ExpireOnRequest ==
  /\ \E kind \in Kinds: flight[kind].at = "denied"
  /\ gate' = "disconnected" /\ socket' = "none" /\ wire' = <<>>
  /\ flight' = Abort(flight, Kinds)
  /\ page' = Blank /\ pinned' = None /\ chat' = NoChat /\ notes' = None /\ list' = NoList
  /\ UNCHANGED <<daemonVars, cookie, drops, fails, route>>

Expire ==
  /\ \/ \E kind \in Kinds: flight[kind].at = "denied"
     \/ socket = "checking" /\ cookie # process
  /\ gate' = "disconnected" /\ socket' = "none" /\ wire' = <<>>
  /\ flight' = Abort(flight, Kinds)
  /\ page' = Blank /\ pinned' = None /\ chat' = NoChat /\ notes' = None /\ list' = NoList
  /\ UNCHANGED <<daemonVars, cookie, drops, fails, route>>

Enter(to) ==
  LET f == Abort(flight, Kinds)
  IN IF to = "home" THEN Refetch(f) ELSE Load(f)

Authenticate ==
  /\ gate = "disconnected" /\ gate' = "ready"
  /\ cookie' = process /\ socket' = "connecting"
  /\ LET mine == [Idle EXCEPT !.at = "answered", !.data = review]
     IN flight' = [flight EXCEPT ![IF route = "home" THEN "list" ELSE "session"] = mine]
  /\ UNCHANGED <<daemonVars, wire, drops, fails, viewVars, list>>

(* A link from one page to the other; the socket stays.                    *)
Navigate(to) ==
  /\ gate = "ready" /\ route # to /\ route' = to
  /\ flight' = Enter(to)
  /\ page' = Blank /\ pinned' = None /\ chat' = NoChat /\ notes' = None /\ list' = NoList
  /\ UNCHANGED <<daemonVars, linkVars, fails, gate>>

(***************************************************************************)
(* The whole system.                                                       *)
(***************************************************************************)
PageStep ==
  \/ ReceiveSession \/ ReceiveDiff \/ Retry \/ ReceiveUpdate
  \/ \E kind \in Kinds:
       \/ LoadFails(kind) \/ ReceiveChat(kind) \/ ChatFails(kind)
       \/ ReceiveDrafts(kind) \/ DraftsFail(kind)
       \/ Command(kind) \/ ReceiveCommand(kind) \/ CommandFails(kind)

DaemonStep == OthersWork \/ Restart
SocketStep == Accept \/ Reject \/ Drop \/ Reconnect

Next ==
  \/ PageStep /\ UNCHANGED <<gate, list>>
  \/ (DaemonStep \/ SocketStep) /\ UNCHANGED <<viewVars, gate, list>>
  \/ ReceiveList \/ ListFails \/ Open \/ Deliver
  \/ Expire \/ Authenticate
  \/ \E to \in {"home", "review"}: Navigate(to)

Spec == Init /\ [][Next]_vars

(* The socket's timers fire, its outcomes and the loss of the credentials  *)
(* are seen.  Nothing else needs to happen: the user may do nothing.       *)
Connects ==
  \/ (Accept \/ Reject \/ Reconnect) /\ UNCHANGED <<viewVars, gate, list>>
  \/ Open \/ Expire

FairSpec == Spec /\ WF_vars(Connects)
=============================================================================
