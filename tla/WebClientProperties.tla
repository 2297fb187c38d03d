-------------------------- MODULE WebClientProperties --------------------------
(***************************************************************************)
(* What a tab that shows a review owes to the review.                      *)
(***************************************************************************)
EXTENDS WebClient

Reviews == [rev: 0..MaxChanges, status: {"draft", "submitted"}]
ChangeIds == 1..MaxChanges
Logs == UNION {[1..n -> ChangeIds]: n \in 0..MaxChanges}
Outcomes == {"idle", "answered", "refused", "denied"}

(* The daemon's review and chat, the socket, the requests and what each    *)
(* view shows have their types; nothing is mounted without a gate, and     *)
(* only the hooks of a mounted workspace wait for answers.                 *)
TypeOK ==
  /\ review \in Reviews /\ log \in Logs
  /\ {process, cookie} \subseteq 0..MaxTroubles /\ cookie <= process
  /\ socket \in {"none", "connecting", "accepted", "open", "checking"}
  /\ \A kind \in Kinds: flight[kind].at \in Outcomes
  /\ (gate = "disconnected") = (socket = "none")
  /\ Mounted => page.s \in Reviews /\ page.diff \in Nat
  /\ ~Mounted => chat = NoChat /\ notes = None /\ Idling(Hooks)

(* The chat on the screen is always one the daemon had: the changes of its *)
(* log in order, none missing, repeated or taken from another process      *)
(* (use-chat.ts: the revision of an event and of an answer).               *)
ChatIsPrefix ==
  Mounted /\ cookie = process /\ chat.log # None => IsPrefix(chat.log, log)

(* While the workspace is mounted the chat on the screen only grows: a     *)
(* late answer never takes back what an event has shown.                   *)
ChatNeverGoesBack ==
  [][chat.log # None /\ chat'.log # None => IsPrefix(chat.log, chat'.log)]_vars

(* The diff on the screen, the session beside it and the draft comments    *)
(* drawn into it are of one revision: no anchor is drawn on the diff of    *)
(* another (review-page.tsx: what the page was loaded for;                 *)
(* use-comments.ts: the revision of the hook).                             *)
AnchorsMatchDiff ==
  Mounted => /\ page.diff = page.s.rev
             /\ Drafts.rev = page.s.rev

(* Nothing is on its way to the tab.                                       *)
Quiet ==
  /\ gate = "ready" /\ socket = "open" /\ wire = <<>>
  /\ Idling(Kinds)

(* If no request failed, a page that waits for nothing shows the review's  *)
(* current revision.  (Its status it may miss: when a submission fails and *)
(* the review is a draft again, that event equals what the page was loaded *)
(* for, and the load the submission caused still answers "submitted".)     *)
PageCatchesUp ==
  Quiet /\ page.at = "ready" /\ fails = 0 => page.s.rev = review.rev

(* And then its chat is the chat as it is: no event, and no change that    *)
(* has none, is missed.                                                    *)
ChatCatchesUp ==
  Quiet /\ Mounted /\ fails = 0 => chat.log = log

(* The list of reviews shows the review as it is, whatever failed before.  *)
ListCatchesUp ==
  Quiet /\ route = "home" /\ ~list.err => list.data = review

(* A tab that lost its socket gets another, or asks for credentials.       *)
Reconnects ==
  socket # "open" ~> socket = "open" \/ gate = "disconnected"

(* A page that says it is loading has a request out; no order of failures, *)
(* events and reconnections leaves it loading for nothing.                 *)
LoadingWaits ==
  gate = "ready" /\ route = "review" /\ page.at = "loading" => ~Idling({"session", "diff"})

(* What is on the screen belongs together and was true once: the chat is   *)
(* one the daemon had, and comments are drawn on the diff they are of; and *)
(* the variables are typed.                                                *)
ScreenIsTrue == TypeOK /\ ChatIsPrefix /\ AnchorsMatchDiff

(* When nothing is on its way any more, the list shows the review as it    *)
(* is; the page shows its revision and the chat all that was said, if no   *)
(* fetch failed; and a page that says it waits waits for something.        *)
CatchesUp == LoadingWaits /\ PageCatchesUp /\ ChatCatchesUp /\ ListCatchesUp
=============================================================================
