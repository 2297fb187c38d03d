---------------------------- MODULE ReviewSession ----------------------------
(***************************************************************************)
(* One saved review of the Node daemon, and everything that changes it:    *)
(*                                                                         *)
(*   - its registry record (sessions/session-registry.ts) and its record   *)
(*     on disk (sessions/store.ts);                                        *)
(*   - the per-session mutation queue (sessions/mutation-queue.ts) through *)
(*     which comment, submission, refresh, visibility and deletion         *)
(*     operations run one at a time, each split here at its awaits;        *)
(*   - the chat turn and the agent process of the session, which start and *)
(*     end outside that queue (chats/service.ts);                          *)
(*   - the managed worktrees of the pull request;                          *)
(*   - GitHub, which may refuse, lose or delay a review;                   *)
(*   - crashes at any point, and the recovery of the next start.           *)
(*                                                                         *)
(* A durable save and the registry update after it are one step: the       *)
(* callers resume in the microtask that settles the write, before any      *)
(* other handler runs.  A crash inside a write leaves either record.       *)
(***************************************************************************)
EXTENDS Naturals, Integers, Sequences

CONSTANTS
  CommentIds,   (* identities draft comments can have                      *)
  Bodies,       (* texts a comment can have                                *)
  Gens,         (* worktree generations (UUIDs)                            *)
  Absent,       (* a comment id with no comment                            *)
  NoGen,        (* no worktree                                             *)
  NoSession,    (* no record                                               *)
  MaxQueue,     (* bound: requests waiting behind the running operation    *)
  MaxRevision,  (* bound: review revisions                                 *)
  MaxAttempts,  (* bound: submission attempts                              *)
  LateReviews   (* GitHub may apply a review after failing its request     *)

(* What a draft comment keeps: its text, whether its anchor was verified,  *)
(* and against which review revision.                                      *)
Comment == [body: Bodies, status: {"current", "needs_review"}, at: Nat]
Comments == [CommentIds -> Comment \cup {Absent}]

Statuses == {"none", "submitting", "uncertain", "submitted"}
Cleanups == {"none", "pending", "complete", "failed"}

(* The submission of a session; status "none" is a draft.  Markers are     *)
(* numbered by attempt: randomUUID never repeats one.                      *)
Submission == [status: Statuses, marker: Nat, cleanup: Cleanups]
NoSubmission == [status |-> "none", marker |-> 0, cleanup |-> "none"]

(* A review as GitHub holds it, and as submissionHistory keeps it.         *)
Review == [marker: Nat, rev: Nat, comments: Comments]

Session == [rev: Nat, gen: Gens, comments: Comments, sub: Submission,
            history: Seq(Review), archived: BOOLEAN, deleting: BOOLEAN]

ASSUME BoundsAssumption ==
  /\ MaxQueue \in Nat /\ MaxRevision \in Nat /\ MaxAttempts \in Nat
  /\ LateReviews \in BOOLEAN
ASSUME SentinelAssumption ==
  /\ Absent \notin Comment
  /\ NoGen \notin Gens
  /\ NoSession \notin Session

(* A request carries the revision its client rendered; "open" and the      *)
(* daemon's own recovery carry none.                                       *)
NoRev == -1
Kinds == {"comment", "submit", "reconcile", "cleanup", "refresh",
          "archive", "restore", "open", "delete"}
Request == [kind: Kinds, rev: Nat \cup {NoRev}]

VARIABLES
  phase,      (* "down", "starting" or "ready"                             *)
  reg,        (* the record in the session registry                        *)
  disk,       (* the record in the session store                           *)
  locked,     (* the session is in the registry's #refreshing set          *)
  queue,      (* requests waiting in the mutation queue                    *)
  op,         (* the running queued operation and its local variables      *)
  chat,       (* the chat state: the turn, and the agent process           *)
  worktrees,  (* generations that exist on disk                            *)
  posted,     (* reviews GitHub holds                                      *)
  late,       (* reviews GitHub may still apply                            *)
  attempts    (* submission attempts so far                                *)

vars == <<phase, reg, disk, locked, queue, op, chat, worktrees, posted, late,
          attempts>>
github == <<posted, late, attempts>>

(* The awaits an operation can be suspended at.  "save" ones are writes.   *)
SavePoints == {"comment.save", "submit.save", "submit.drop", "submit.uncertain",
               "reconcile.drop", "complete.save", "cleanup.save",
               "unchanged.save", "refresh.save", "visibility.save",
               "delete.intent"}
OtherPoints == {"idle", "submit.preflight", "submit.create", "reconcile.list",
                "cleanup.seal", "cleanup.remove", "refresh.prepare",
                "refresh.discard", "refresh.map", "refresh.chat",
                "refresh.rollback", "refresh.retire", "delete.worktree",
                "delete.record"}

(* s is the session value the operation works on (what a save writes),     *)
(* prev the one a refresh replaces, rev the revision of its request,       *)
(* trying whether it is inside the try block of submit.                    *)
Idle == [pc |-> "idle", rev |-> NoRev, s |-> NoSession, prev |-> NoSession,
         trying |-> FALSE]

(* turnGen is the worktree of the session value the turn was begun with,   *)
(* agent the one the agent process runs in; stuck is cleanupError.         *)
NoChat == [active |-> FALSE, turnGen |-> NoGen, agent |-> NoGen, stuck |-> FALSE]

(***************************************************************************)
(* Guards shared by the services.                                          *)
(***************************************************************************)
Pending == op.pc # "idle" \/ queue # <<>>

(* assertCurrent and assertMutable, in a request of revision rev.          *)
(* Slip: the revision of the request is not looked at.                     *)
AssertCurrentIgnoringRevision(rev) == reg # NoSession /\ ~locked

AssertCurrent(rev) ==
  /\ reg # NoSession
  /\ ~locked
  /\ rev = NoRev \/ rev = reg.rev
AssertMutable(rev) ==
  /\ AssertCurrent(rev)
  /\ ~reg.deleting
  /\ ~reg.archived

IsDraft(s) == s.sub.status = "none"
Submitted(s) == s.sub.status = "submitted"
Resolved(s) == IsDraft(s) \/ (Submitted(s) /\ s.sub.cleanup = "complete")

(* assertIdle: no chat turn, and no unresolved or uncleaned submission.    *)
AssertIdle == ~chat.active /\ Resolved(reg)

(* closeAgent refuses once it failed; its callers refuse during a turn.    *)
(* Slip: a caller forgets the turn.                                        *)
ClosableDuringTurn == ~chat.stuck

Closable == ~chat.active /\ ~chat.stuck

(***************************************************************************)
(* The mutation queue.                                                     *)
(***************************************************************************)

(* What the handler of a request checks before it enqueues the operation.  *)
MayRequest(kind) ==
  CASE kind = "archive" -> AssertCurrent(reg.rev) /\ ~Pending /\ AssertIdle
    [] kind = "delete" -> AssertCurrent(reg.rev) /\ ~Pending
    [] kind = "restore" -> AssertCurrent(reg.rev)
    [] kind = "open" -> TRUE
    [] OTHER -> AssertMutable(reg.rev)

WithinBounds(kind) ==
  /\ Len(queue) < MaxQueue
  /\ kind = "refresh" => reg.rev < MaxRevision

RequestOperation(kind) ==
  /\ phase = "ready"
  /\ reg # NoSession
  /\ WithinBounds(kind)
  /\ MayRequest(kind)
  /\ queue' = Append(queue, [kind |-> kind,
                             rev |-> IF kind = "open" THEN NoRev ELSE reg.rev])
  /\ UNCHANGED <<phase, reg, disk, locked, op, chat, worktrees, github>>

(* What the operation rechecks when its turn comes.                        *)
Admissible(req) ==
  CASE req.kind = "comment" -> AssertMutable(req.rev) /\ IsDraft(reg)
    [] req.kind = "submit" ->
         AssertMutable(req.rev) /\ IsDraft(reg) /\ ~chat.active
    [] req.kind = "reconcile" ->
         /\ AssertMutable(req.rev)
         /\ reg.sub.status \in {"submitting", "uncertain"}
    [] req.kind = "cleanup" -> AssertMutable(req.rev) /\ Submitted(reg)
    [] req.kind = "refresh" ->
         AssertMutable(req.rev) /\ ~chat.active /\ Resolved(reg)
    [] req.kind = "archive" ->
         AssertCurrent(req.rev) /\ ~reg.deleting /\ AssertIdle
    [] req.kind \in {"restore", "open"} ->
         AssertCurrent(req.rev) /\ ~reg.deleting
    [] req.kind = "delete" ->
         AssertCurrent(req.rev) /\ reg.archived /\ AssertIdle

(* The head of the queue starts as an operation of the given kind.         *)
Take(kind) ==
  /\ op.pc = "idle"
  /\ queue # <<>>
  /\ Head(queue).kind = kind
  /\ Admissible(Head(queue))
  /\ queue' = Tail(queue)

(* The head of the queue is refused, or (reconcile) has nothing to do.     *)
Refuse ==
  /\ op.pc = "idle"
  /\ queue # <<>>
  /\ ~Admissible(Head(queue))
  /\ queue' = Tail(queue)
  /\ UNCHANGED <<phase, reg, disk, locked, op, chat, worktrees, github>>

Begin(pc, s) == op' = [Idle EXCEPT !.pc = pc, !.rev = Head(queue).rev, !.s = s]
Goto(pc, s) == op' = [op EXCEPT !.pc = pc, !.s = s]
Finish == op' = Idle
Saved(s) == disk' = s /\ reg' = s

(***************************************************************************)
(* Draft comments (comments/service.ts).  The value read before the anchor *)
(* check is the one written after it.                                      *)
(***************************************************************************)
Verified(body) == [body |-> body, status |-> "current", at |-> reg.rev]

WithComment(id, c) == [reg EXCEPT !.comments[id] = c]
WithBody(c, body) == [c EXCEPT !.body = body]

(* Ids are random: an id once posted or archived is never drawn again.     *)
FreshIds ==
  {id \in CommentIds :
     /\ reg.comments[id] = Absent
     /\ \A i \in DOMAIN reg.history : reg.history[i].comments[id] = Absent}

Created == {WithComment(id, Verified(b)) : id \in FreshIds, b \in Bodies}
Existing == {id \in CommentIds : reg.comments[id] # Absent}
Updated == {WithComment(id, WithBody(reg.comments[id], b)) :
              id \in Existing, b \in Bodies}
Removed == {WithComment(id, Absent) : id \in Existing}
Reanchored == {WithComment(id, Verified(reg.comments[id].body)) : id \in Existing}

StartComment ==
  /\ Take("comment")
  /\ \E s \in Created \cup Updated \cup Removed \cup Reanchored :
       Begin("comment.save", s)
  /\ UNCHANGED <<phase, reg, disk, locked, chat, worktrees, github>>

(* An invalid body or anchor, an unknown comment, or a failing diff.       *)
RefuseComment ==
  /\ Take("comment")
  /\ UNCHANGED <<phase, reg, disk, locked, op, chat, worktrees, github>>

(* Any save may fail; the ones whose failure only ends the operation.      *)
EndingSaves == {"comment.save", "submit.save", "submit.drop",
                "submit.uncertain", "reconcile.drop", "unchanged.save",
                "visibility.save", "delete.intent"}

SaveFails ==
  /\ op.pc \in EndingSaves
  /\ Finish
  /\ locked' = FALSE
  /\ UNCHANGED <<phase, reg, disk, queue, chat, worktrees, github>>

SaveComment ==
  /\ op.pc = "comment.save"
  /\ Saved(op.s)
  /\ Finish
  /\ UNCHANGED <<phase, locked, queue, chat, worktrees, github>>

(***************************************************************************)
(* Submission (submissions/service.ts).                                    *)
(***************************************************************************)
StartSubmit ==
  /\ Take("submit")
  /\ Begin("submit.preflight", reg)
  /\ UNCHANGED <<phase, reg, disk, locked, chat, worktrees, github>>

WithStatus(s, status) ==
  [s EXCEPT !.sub.status = status, !.sub.cleanup = "none"]

(* Slip: comments whose location needs review are posted as they are.      *)
SubmittableAsIs(s) == TRUE

Submittable(s) ==
  \A id \in CommentIds :
    s.comments[id] # Absent => s.comments[id].status = "current"

(* The pull head was read and every anchor holds: a new marker is drawn.   *)
PreflightPasses ==
  /\ op.pc = "submit.preflight"
  /\ attempts < MaxAttempts
  /\ Submittable(op.s)
  /\ attempts' = attempts + 1
  /\ Goto("submit.save",
          [op.s EXCEPT !.sub = [status |-> "submitting", marker |-> attempts + 1,
                                cleanup |-> "none"]])
  /\ UNCHANGED <<phase, reg, disk, locked, queue, chat, worktrees, posted, late>>

(* GitHub fails, the head is stale without an override, or an anchor fails. *)
PreflightFails ==
  /\ op.pc = "submit.preflight"
  /\ Finish
  /\ UNCHANGED <<phase, reg, disk, locked, queue, chat, worktrees, github>>

SaveSubmitting ==
  /\ op.pc = "submit.save"
  /\ Saved(op.s)
  /\ op' = [op EXCEPT !.pc = "submit.create", !.trying = TRUE]
  /\ UNCHANGED <<phase, locked, queue, chat, worktrees, github>>

ReviewOf(s) == [marker |-> s.sub.marker, rev |-> s.rev, comments |-> s.comments]

WithReceipt(s) == [s EXCEPT !.sub.status = "submitted", !.sub.cleanup = "pending"]
WithoutSubmission(s) == [s EXCEPT !.sub = NoSubmission]

CreateSucceeds ==
  /\ op.pc = "submit.create"
  /\ posted' = posted \cup {ReviewOf(op.s)}
  /\ Goto("complete.save", WithReceipt(op.s))
  /\ UNCHANGED <<phase, reg, disk, locked, queue, chat, worktrees, late, attempts>>

(* GitHub answers with a status below 500: the review was not created.     *)
CreateRefused ==
  /\ op.pc = "submit.create"
  /\ Goto("submit.drop", WithoutSubmission(op.s))
  /\ UNCHANGED <<phase, reg, disk, locked, queue, chat, worktrees, github>>

(* What an answer that never arrived may have done to GitHub.              *)
Unanswered(review) ==
  \/ posted' = posted /\ late' = late
  \/ posted' = posted \cup {review} /\ late' = late
  \/ LateReviews /\ late' = late \cup {review} /\ posted' = posted

(* Slip: an error without a status is taken for a refusal.                 *)
CreateUnansweredAsRefused ==
  /\ op.pc = "submit.create"
  /\ Unanswered(ReviewOf(op.s))
  /\ Goto("submit.drop", WithoutSubmission(op.s))
  /\ UNCHANGED <<phase, reg, disk, locked, queue, chat, worktrees, attempts>>

(* No answer, or a status of 500 and above: it may have been created.      *)
CreateUnanswered ==
  /\ op.pc = "submit.create"
  /\ Unanswered(ReviewOf(op.s))
  /\ Goto("submit.uncertain", WithStatus(op.s, "uncertain"))
  /\ UNCHANGED <<phase, reg, disk, locked, queue, chat, worktrees, attempts>>

LateReviewArrives ==
  \E review \in late :
    /\ posted' = posted \cup {review}
    /\ late' = late \ {review}
    /\ UNCHANGED <<phase, reg, disk, locked, queue, op, chat, worktrees, attempts>>

SaveUncertain ==
  /\ op.pc = "submit.uncertain"
  /\ Saved(op.s)
  /\ op' = [op EXCEPT !.pc = "reconcile.list", !.trying = FALSE]
  /\ UNCHANGED <<phase, locked, queue, chat, worktrees, github>>

StartReconcile ==
  /\ Take("reconcile")
  /\ Begin("reconcile.list", reg)
  /\ UNCHANGED <<phase, reg, disk, locked, chat, worktrees, github>>

(* Slip: only the first of the reviews is looked at.                       *)
FoundFirst(s) ==
  \E review \in posted :
    review.marker = s.sub.marker /\ \A other \in posted : review.marker <= other.marker

Found(s) == \E review \in posted : review.marker = s.sub.marker

(* The reviews of the pull request are searched for the saved marker.      *)
ListReviews ==
  /\ op.pc = "reconcile.list"
  /\ IF Found(op.s)
     THEN Goto("complete.save", WithReceipt(op.s))
     ELSE Goto("reconcile.drop", WithoutSubmission(op.s))
  /\ UNCHANGED <<phase, reg, disk, locked, queue, chat, worktrees, github>>

ListFails ==
  /\ op.pc = "reconcile.list"
  /\ Finish
  /\ UNCHANGED <<phase, reg, disk, locked, queue, chat, worktrees, github>>

(* The session returns to a draft: GitHub refused, or holds no review.     *)
SaveDraft ==
  /\ op.pc \in {"submit.drop", "reconcile.drop"}
  /\ Saved(op.s)
  /\ Finish
  /\ UNCHANGED <<phase, locked, queue, chat, worktrees, github>>

SaveReceipt ==
  /\ op.pc = "complete.save"
  /\ Saved(op.s)
  /\ Goto("cleanup.seal", op.s)
  /\ UNCHANGED <<phase, locked, queue, chat, worktrees, github>>

(* A failing save of the receipt or of the cleanup result: inside submit   *)
(* the catch block marks the attempt uncertain, else the operation ends.   *)
ReceiptSaveFails ==
  /\ op.pc \in {"complete.save", "cleanup.save"}
  /\ IF op.trying
     THEN Goto("submit.uncertain", WithStatus(op.s, "uncertain"))
     ELSE Finish
  /\ UNCHANGED <<phase, reg, disk, locked, queue, chat, worktrees, github>>

StartCleanup ==
  /\ Take("cleanup")
  /\ Begin("cleanup.seal", reg)
  /\ UNCHANGED <<phase, reg, disk, locked, chat, worktrees, github>>

WithCleanup(result) == [op.s EXCEPT !.sub.cleanup = result]

(* seal: refused during a turn; otherwise closes the agent.  The status    *)
(* "unavailable" it then sets refuses only what IsDraft refuses already.   *)
SealChat ==
  /\ op.pc = "cleanup.seal"
  /\ Closable
  /\ chat' = [chat EXCEPT !.agent = NoGen]
  /\ Goto("cleanup.remove", op.s)
  /\ UNCHANGED <<phase, reg, disk, locked, queue, worktrees, github>>

SealFails ==
  /\ op.pc = "cleanup.seal"
  /\ \/ (chat.active \/ chat.stuck) /\ chat' = chat
     \/ ~chat.active /\ chat.agent # NoGen /\ chat' = [chat EXCEPT !.stuck = TRUE]
  /\ Goto("cleanup.save", WithCleanup("failed"))
  /\ UNCHANGED <<phase, reg, disk, locked, queue, worktrees, github>>

RemoveReviewed ==
  /\ op.pc = "cleanup.remove"
  /\ worktrees' = worktrees \ {op.s.gen}
  /\ Goto("cleanup.save", WithCleanup("complete"))
  /\ UNCHANGED <<phase, reg, disk, locked, queue, chat, github>>

RemoveReviewedFails ==
  /\ op.pc = "cleanup.remove"
  /\ Goto("cleanup.save", WithCleanup("failed"))
  /\ UNCHANGED <<phase, reg, disk, locked, queue, chat, worktrees, github>>

SaveCleanup ==
  /\ op.pc = "cleanup.save"
  /\ Saved(op.s)
  /\ Finish
  /\ UNCHANGED <<phase, locked, queue, chat, worktrees, github>>


(***************************************************************************)
(* Refresh (sessions/refresh-service.ts): a candidate worktree, the        *)
(* comments moved onto it, then one write that switches the review over.   *)
(***************************************************************************)
StartRefresh ==
  /\ Take("refresh")
  /\ op' = [Idle EXCEPT !.pc = "refresh.prepare", !.rev = Head(queue).rev,
                       !.s = reg, !.prev = reg]
  /\ locked' = TRUE
  /\ UNCHANGED <<phase, reg, disk, chat, worktrees, github>>

(* Slip: this early failure leaves the gate shut.                          *)
PrepareFailsLocked ==
  /\ op.pc = "refresh.prepare"
  /\ Finish
  /\ UNCHANGED <<phase, reg, disk, locked, queue, chat, worktrees, github>>

(* GitHub or git fails before there is a candidate.                        *)
PrepareFails ==
  /\ op.pc = "refresh.prepare"
  /\ Finish
  /\ locked' = FALSE
  /\ UNCHANGED <<phase, reg, disk, queue, chat, worktrees, github>>

FreshGens == Gens \ (worktrees \cup {reg.gen})

(* The candidate; a draft whose commits did not change will drop it.       *)
Prepared ==
  /\ op.pc = "refresh.prepare"
  /\ \E g \in FreshGens :
       /\ worktrees' = worktrees \cup {g}
       /\ \/ Goto("refresh.map", [op.prev EXCEPT !.gen = g])
          \/ IsDraft(op.prev) /\ Goto("refresh.discard", [op.prev EXCEPT !.gen = g])
  /\ UNCHANGED <<phase, reg, disk, locked, queue, chat, github>>

DiscardCandidate ==
  /\ op.pc = "refresh.discard"
  /\ worktrees' = worktrees \ {op.s.gen}
  /\ Goto("unchanged.save", op.prev)
  /\ UNCHANGED <<phase, reg, disk, locked, queue, chat, github>>

SaveUnchanged ==
  /\ op.pc = "unchanged.save"
  /\ Saved(op.s)
  /\ Finish
  /\ locked' = FALSE
  /\ UNCHANGED <<phase, queue, chat, worktrees, github>>

(* relocate: a current comment is found in the new diff or needs review;   *)
(* one that needed review still does.                                      *)
Relocated(s, found) ==
  [id \in CommentIds |->
     IF s.comments[id] = Absent \/ s.comments[id].status = "needs_review"
     THEN s.comments[id]
     ELSE IF id \in found THEN [s.comments[id] EXCEPT !.at = s.rev + 1]
                          ELSE [s.comments[id] EXCEPT !.status = "needs_review"]]

NoComments == [id \in CommentIds |-> Absent]

(* What the next revision holds: relocated comments, or none once they     *)
(* were submitted and their review is kept in the history.                 *)
NextRevision(s, comments) == [s EXCEPT !.rev = @ + 1, !.comments = comments]

(* Slip: the history is replaced, not extended.                            *)
ArchivedAlone(s) ==
  [NextRevision(s, NoComments) EXCEPT !.sub = NoSubmission,
                                      !.history = <<ReviewOf(s)>>]

Archived(s) ==
  [NextRevision(s, NoComments) EXCEPT !.sub = NoSubmission,
                                      !.history = Append(@, ReviewOf(s))]

MapComments ==
  /\ op.pc = "refresh.map"
  /\ IF Submitted(op.prev)
     THEN Goto("refresh.chat", Archived(op.s))
     ELSE \E found \in SUBSET CommentIds :
            Goto("refresh.chat", NextRevision(op.s, Relocated(op.s, found)))
  /\ UNCHANGED <<phase, reg, disk, locked, queue, chat, worktrees, github>>

(* prepareRefresh closes the agent of the old worktree.                    *)
CloseOldAgent ==
  /\ op.pc = "refresh.chat"
  /\ Closable
  /\ chat' = [chat EXCEPT !.agent = NoGen]
  /\ Goto("refresh.save", op.s)
  /\ UNCHANGED <<phase, reg, disk, locked, queue, worktrees, github>>

CloseOldAgentFails ==
  /\ op.pc = "refresh.chat"
  /\ \/ (chat.active \/ chat.stuck) /\ chat' = chat
     \/ ~chat.active /\ chat.agent # NoGen /\ chat' = [chat EXCEPT !.stuck = TRUE]
  /\ Goto("refresh.rollback", op.s)
  /\ UNCHANGED <<phase, reg, disk, locked, queue, worktrees, github>>

(* Any other failure between the candidate and the commit.                 *)
RefreshFails ==
  /\ op.pc \in {"refresh.discard", "refresh.map", "refresh.save"}
  /\ Goto("refresh.rollback", op.s)
  /\ UNCHANGED <<phase, reg, disk, locked, queue, chat, worktrees, github>>

(* The commit: the record and the gate change, and the chat is replaced.   *)
SaveRefresh ==
  /\ op.pc = "refresh.save"
  /\ Saved(op.s)
  /\ locked' = FALSE
  /\ chat' = NoChat
  /\ op' = IF IsDraft(op.prev) THEN [op EXCEPT !.pc = "refresh.retire"] ELSE Idle
  /\ UNCHANGED <<phase, queue, worktrees, github>>

RetirePrevious ==
  /\ op.pc = "refresh.retire"
  /\ worktrees' \in {worktrees, worktrees \ {op.prev.gen}}
  /\ Finish
  /\ UNCHANGED <<phase, reg, disk, locked, queue, chat, github>>

RollbackCandidate ==
  /\ op.pc = "refresh.rollback"
  /\ worktrees' \in {worktrees, worktrees \ {op.s.gen}}
  /\ Finish
  /\ locked' = FALSE
  /\ UNCHANGED <<phase, reg, disk, queue, chat, github>>

(***************************************************************************)
(* Visibility and deletion (sessions/management-service.ts).               *)
(***************************************************************************)
(* Slip: only leaving the archive shuts the gate.                          *)
GatedRestoreOnly(kind) == reg.archived

Gated(kind) == kind = "archive" \/ reg.archived

WithVisibility(kind) == [reg EXCEPT !.archived = (kind = "archive")]

StartVisibility ==
  /\ \E kind \in {"archive", "restore", "open"} :
       /\ Take(kind)
       /\ Begin("visibility.save", WithVisibility(kind))
       /\ locked' = Gated(kind)
  /\ UNCHANGED <<phase, reg, disk, chat, worktrees, github>>

SaveVisibility ==
  /\ op.pc = "visibility.save"
  /\ Saved(op.s)
  /\ Finish
  /\ locked' = FALSE
  /\ UNCHANGED <<phase, queue, chat, worktrees, github>>

(* A deletion that was already requested goes straight to the worktree.    *)
StartDelete ==
  /\ Take("delete")
  /\ Begin(IF reg.deleting THEN "delete.worktree" ELSE "delete.intent",
           [reg EXCEPT !.deleting = TRUE])
  /\ locked' = TRUE
  /\ UNCHANGED <<phase, reg, disk, chat, worktrees, github>>

(* Slip: the record is deleted before the worktree.                        *)
SaveIntentThenRecord ==
  /\ op.pc = "delete.intent"
  /\ Saved(op.s)
  /\ Goto("delete.record", op.s)
  /\ UNCHANGED <<phase, locked, queue, chat, worktrees, github>>

SaveIntent ==
  /\ op.pc = "delete.intent"
  /\ Saved(op.s)
  /\ Goto("delete.worktree", op.s)
  /\ UNCHANGED <<phase, locked, queue, chat, worktrees, github>>

DeleteWorktree ==
  /\ op.pc = "delete.worktree"
  /\ worktrees' = worktrees \ {op.s.gen}
  /\ Goto("delete.record", op.s)
  /\ UNCHANGED <<phase, reg, disk, locked, queue, chat, github>>

(* A dirty worktree, an unsafe path, or a failing unlink: the intent stays. *)
DeleteFails ==
  /\ op.pc \in {"delete.worktree", "delete.record"}
  /\ Finish
  /\ locked' = FALSE
  /\ UNCHANGED <<phase, reg, disk, queue, chat, worktrees, github>>

(* The record goes, then the registry entry, whose event drops the chat.   *)
DeleteRecord ==
  /\ op.pc = "delete.record"
  /\ Saved(NoSession)
  /\ chat' = NoChat
  /\ Finish
  /\ locked' = FALSE
  /\ UNCHANGED <<phase, queue, worktrees, github>>

(***************************************************************************)
(* The chat, outside the queue (chats/service.ts): every command is        *)
(* checked and applied in one synchronous step, so a turn can begin or     *)
(* end at any await of a queued operation.                                 *)
(***************************************************************************)
BeginTurn ==
  /\ phase = "ready"
  /\ AssertMutable(reg.rev)
  /\ IsDraft(reg)
  /\ ~chat.active /\ ~chat.stuck
  /\ chat' = [chat EXCEPT !.active = TRUE, !.turnGen = reg.gen]
  /\ UNCHANGED <<phase, reg, disk, locked, queue, op, worktrees, github>>

(* The agent starts in the worktree of the session read when the turn began. *)
StartAgent ==
  /\ chat.active
  /\ chat.agent = NoGen
  /\ chat' = [chat EXCEPT !.agent = chat.turnGen]
  /\ UNCHANGED <<phase, reg, disk, locked, queue, op, worktrees, github>>

Quiet(c) == [c EXCEPT !.active = FALSE, !.turnGen = NoGen]

(* A completed or stopped turn leaves the agent running for the next one.  *)
EndTurn ==
  /\ chat.active
  /\ chat' = Quiet(chat)
  /\ UNCHANGED <<phase, reg, disk, locked, queue, op, worktrees, github>>

(* A failed turn closes the agent, or is stuck if that fails too.          *)
FailTurn ==
  /\ chat.active
  /\ chat' \in {[Quiet(chat) EXCEPT !.agent = NoGen], [Quiet(chat) EXCEPT !.stuck = TRUE]}
  /\ UNCHANGED <<phase, reg, disk, locked, queue, op, worktrees, github>>

(***************************************************************************)
(* The daemon stops without warning, and starts again (server.ts).         *)
(***************************************************************************)
DiskAfterCrash ==
  {disk} \cup {op.s : pc \in {op.pc} \cap SavePoints}
         \cup {NoSession : pc \in {op.pc} \cap {"delete.record"}}

(* The worktree commands are not undone either.                            *)
Removing == {"cleanup.remove", "refresh.discard", "refresh.rollback",
             "delete.worktree"}
WorktreesAfterCrash ==
  {worktrees}
    \cup (IF op.pc = "refresh.prepare"
          THEN {worktrees \cup {g} : g \in FreshGens} ELSE {})
    \cup (IF op.pc \in Removing THEN {worktrees \ {op.s.gen}} ELSE {})
    \cup (IF op.pc = "refresh.retire" THEN {worktrees \ {op.prev.gen}} ELSE {})

Crash ==
  /\ phase # "down"
  /\ phase' = "down"
  /\ disk' \in DiskAfterCrash
  /\ worktrees' \in WorktreesAfterCrash
  /\ IF op.pc = "submit.create" THEN Unanswered(ReviewOf(op.s))
                                ELSE UNCHANGED <<posted, late>>
  /\ reg' = NoSession
  /\ locked' = FALSE
  /\ queue' = <<>>
  /\ Finish
  /\ chat' = NoChat
  /\ UNCHANGED attempts

(* recoverDeletions, then a reconcile of the submission left unresolved.   *)
Recovery(s) ==
  CASE s = NoSession -> <<>>
    [] s # NoSession /\ s.deleting -> <<[kind |-> "delete", rev |-> NoRev]>>
    [] s # NoSession /\ ~s.deleting /\ s.sub.status \in {"submitting", "uncertain"} ->
         <<[kind |-> "reconcile", rev |-> NoRev]>>
    [] OTHER -> <<>>

Restart ==
  /\ phase = "down"
  /\ phase' = "starting"
  /\ reg' = disk
  /\ queue' = Recovery(disk)
  /\ UNCHANGED <<disk, locked, op, chat, worktrees, github>>

(* The sweep removes any old, clean worktree that no session uses.         *)
(* Slip: the paths of the sessions are not passed to it.                   *)
ActiveIgnored(s) == {}

Active(s) == IF s = NoSession THEN {} ELSE {s.gen}

Sweep ==
  /\ phase = "starting"
  /\ ~Pending
  /\ \E kept \in SUBSET worktrees :
       /\ Active(reg) \cap worktrees \subseteq kept
       /\ worktrees' = kept
  /\ phase' = "ready"
  /\ UNCHANGED <<reg, disk, locked, queue, op, chat, github>>

(***************************************************************************)
(* The specification.                                                      *)
(***************************************************************************)
NewReview(g) ==
  [rev |-> 0, gen |-> g, comments |-> NoComments, sub |-> NoSubmission,
   history |-> <<>>, archived |-> FALSE, deleting |-> FALSE]

Init ==
  /\ phase = "ready"
  /\ \E g \in Gens : reg = NewReview(g) /\ worktrees = {g}
  /\ disk = reg
  /\ locked = FALSE
  /\ queue = <<>>
  /\ op = Idle
  /\ chat = NoChat
  /\ posted = {} /\ late = {}
  /\ attempts = 0

CommentSteps == StartComment \/ RefuseComment \/ SaveComment
SubmitSteps ==
  \/ StartSubmit \/ PreflightPasses \/ PreflightFails \/ SaveSubmitting
  \/ CreateSucceeds \/ CreateRefused \/ CreateUnanswered \/ SaveUncertain
ReceiptSteps ==
  \/ StartReconcile \/ ListReviews \/ ListFails \/ SaveDraft
  \/ SaveReceipt \/ ReceiptSaveFails
  \/ StartCleanup \/ SealChat \/ SealFails
  \/ RemoveReviewed \/ RemoveReviewedFails \/ SaveCleanup
RefreshSteps ==
  \/ StartRefresh \/ PrepareFails \/ Prepared \/ DiscardCandidate \/ SaveUnchanged
  \/ MapComments \/ CloseOldAgent \/ CloseOldAgentFails \/ RefreshFails
  \/ SaveRefresh \/ RetirePrevious \/ RollbackCandidate
ManagementSteps ==
  \/ StartVisibility \/ SaveVisibility
  \/ StartDelete \/ SaveIntent \/ DeleteWorktree \/ DeleteFails \/ DeleteRecord

(* The steps of the queue and of the operation it runs.                    *)
OperationStep ==
  \/ Refuse \/ SaveFails
  \/ CommentSteps \/ SubmitSteps \/ ReceiptSteps \/ RefreshSteps \/ ManagementSteps

ChatStep == BeginTurn \/ StartAgent \/ EndTurn \/ FailTurn

Next ==
  \/ \E kind \in Kinds : RequestOperation(kind)
  \/ OperationStep
  \/ ChatStep
  \/ LateReviewArrives
  \/ Crash \/ Restart \/ Sweep

Spec == Init /\ [][Next]_vars

(* Every await of an operation settles, and a daemon that has started      *)
(* initializing goes on.  Nobody has to ask for anything, no turn has to   *)
(* end, and a daemon that is down may stay down.                           *)
FairSpec == Spec /\ WF_vars(OperationStep) /\ WF_vars(Sweep)
=============================================================================
