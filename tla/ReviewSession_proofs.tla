------------------------- MODULE ReviewSession_proofs -------------------------
(***************************************************************************)
(* Theorems about ReviewSession, for any number of comments, worktrees,    *)
(* revisions, attempts and queued requests.                                *)
(***************************************************************************)
EXTENDS ReviewSessionProperties, TLAPS

(***************************************************************************)
(* Lemmas: what the operators on session values return.                    *)
(***************************************************************************)

(* Changing one field of a session to a value of its type keeps the type.  *)
LEMMA SessionFields ==
  ASSUME NEW s \in Session
  PROVE  /\ \A g \in Gens : [s EXCEPT !.gen = g] \in Session
         /\ \A b \in BOOLEAN : [s EXCEPT !.archived = b] \in Session
         /\ \A b \in BOOLEAN : [s EXCEPT !.deleting = b] \in Session
         /\ \A x \in Submission : [s EXCEPT !.sub = x] \in Session
         /\ \A id \in CommentIds, c \in Comment \cup {Absent} :
              [s EXCEPT !.comments[id] = c] \in Session
BY DEF Session, Comments

(* What the submission operators write is a session.                       *)
LEMMA SubmissionFields ==
  ASSUME NEW s \in Session
  PROVE  /\ \A st \in Statuses : WithStatus(s, st) \in Session
         /\ WithReceipt(s) \in Session
         /\ WithoutSubmission(s) \in Session
         /\ ReviewOf(s) \in Review
         /\ \A c \in Cleanups : [s EXCEPT !.sub.cleanup = c] \in Session
BY DEF Session, Submission, Statuses, Cleanups, Review, WithStatus, WithReceipt,
       WithoutSubmission, NoSubmission, ReviewOf

(* What the comment operations write is a session.                         *)
LEMMA CommentFields ==
  ASSUME reg \in Session
  PROVE  Created \cup Updated \cup Removed \cup Reanchored \subseteq Session
<1>1. \A b \in Bodies : Verified(b) \in Comment
  BY DEF Verified, Comment, Session
<1>2. \A id \in CommentIds, c \in Comment \cup {Absent} : WithComment(id, c) \in Session
  BY SessionFields DEF WithComment
<1>3. Created \subseteq Session
  BY <1>1, <1>2 DEF Created, FreshIds
<1>4. \A id \in Existing : reg.comments[id] \in Comment
  BY DEF Existing, Session, Comments
<1>5. Updated \subseteq Session
  <2>1. \A id \in Existing, b \in Bodies : WithBody(reg.comments[id], b) \in Comment
    BY <1>4 DEF Comment, WithBody
  <2> QED BY <1>2, <2>1 DEF Updated, Existing
<1>6. Removed \subseteq Session
  BY <1>2 DEF Removed, Existing
<1>7. Reanchored \subseteq Session
  <2>1. \A id \in Existing : reg.comments[id].body \in Bodies
    BY <1>4 DEF Comment
  <2> QED BY <1>1, <1>2, <2>1 DEF Reanchored, Existing
<1> QED BY <1>3, <1>5, <1>6, <1>7

(* What a refresh writes is a session.                                     *)
LEMMA RevisionFields ==
  ASSUME NEW s \in Session
  PROVE  /\ Archived(s) \in Session
         /\ \A found \in SUBSET CommentIds :
              NextRevision(s, Relocated(s, found)) \in Session
<1>1. NoComments \in Comments
  BY DEF NoComments, Comments
<1>2. ASSUME NEW c \in Comments
      PROVE NextRevision(s, c) \in Session
  <2>1. s.rev + 1 \in Nat
    BY DEF Session
  <2>2. \A n \in Nat : [s EXCEPT !.rev = n, !.comments = c] \in Session
    BY DEF Session
  <2> QED BY <2>1, <2>2 DEF NextRevision
<1>3. ASSUME NEW found \in SUBSET CommentIds PROVE Relocated(s, found) \in Comments
  BY DEF Relocated, Session, Comments, Comment
<1>4. ReviewOf(s) \in Review
  BY SubmissionFields
<1>5. Append(s.history, ReviewOf(s)) \in Seq(Review)
  BY <1>4 DEF Session
<1>6. NextRevision(s, NoComments).history = s.history
  BY DEF NextRevision, Session
<1>7. NoSubmission \in Submission
  BY DEF NoSubmission, Submission, Statuses, Cleanups
<1>8. Archived(s) \in Session
  BY <1>1, <1>2, <1>5, <1>6, <1>7 DEF Archived, Session
<1> QED BY <1>2, <1>3, <1>8

(***************************************************************************)
(* Types.  While an operation runs, it holds a session.                    *)
(***************************************************************************)
RefreshPoints == {"refresh.prepare", "refresh.discard", "refresh.map", "refresh.chat",
                  "refresh.save", "refresh.rollback", "refresh.retire"}
Points == SavePoints \cup OtherPoints

OpTyped ==
  /\ op.pc # "idle" => op.s \in Session
  /\ op.pc \in RefreshPoints => op.prev \in Session

Typed == TypeOK /\ OpTyped

(* The operation may go on to any point with a session.                    *)
LEMMA GotoTyped ==
  ASSUME Typed, NEW p \in Points, NEW s \in Session, Goto(p, s),
         p \in RefreshPoints => op.prev \in Session
  PROVE  op' \in Operation /\ OpTyped'
BY DEF Typed, TypeOK, OpTyped, Goto, Operation, OptionalSession, Points

(* An operation that ends leaves the idle one, which has its type.         *)
LEMMA FinishTyped ==
  ASSUME Finish
  PROVE  op' \in Operation /\ OpTyped'
BY DEF OpTyped, Finish, Idle, Operation, OptionalSession, OtherPoints, RefreshPoints

(* A request is taken from the queue only for a review that exists.        *)
LEMMA TakeTyped ==
  ASSUME Typed, NEW kind, Take(kind)
  PROVE  /\ reg \in Session
         /\ Head(queue) \in Request
         /\ queue' \in Seq(Request)
<1>1. queue \in Seq(Request) /\ queue # <<>>
  BY DEF Typed, TypeOK, Take
<1>2. Head(queue) \in Request /\ Tail(queue) \in Seq(Request)
  BY <1>1
<1>3. Admissible(Head(queue)) => reg # NoSession
  BY <1>2 DEF Admissible, AssertMutable, AssertCurrent, Request, Kinds
<1> QED BY <1>2, <1>3 DEF Take, Typed, TypeOK, OptionalSession

(* An operation that starts with a session has its type.                   *)
LEMMA BeginTyped ==
  ASSUME Typed, NEW p \in Points \ RefreshPoints, NEW s \in Session,
         Begin(p, s), Head(queue) \in Request
  PROVE  op' \in Operation /\ OpTyped'
BY DEF OpTyped, Begin, Idle, Operation, OptionalSession, Points, Request

(* Every step of a comment operation keeps the types.                      *)
LEMMA TypedComment == Typed /\ CommentSteps => Typed'
<1> SUFFICES ASSUME Typed, CommentSteps PROVE Typed'
  OBVIOUS
<1> USE DEF Typed, TypeOK, OpTyped, github
<1>1. CASE StartComment
  <2>1. PICK s \in Created \cup Updated \cup Removed \cup Reanchored : Begin("comment.save", s)
    BY <1>1 DEF StartComment
  <2>2. reg \in Session /\ Head(queue) \in Request /\ queue' \in Seq(Request)
    BY <1>1, TakeTyped DEF StartComment
  <2>3. s \in Session
    BY <2>1, <2>2, CommentFields
  <2>4. op' \in Operation /\ OpTyped'
    BY <2>1, <2>2, <2>3, BeginTyped DEF Points, SavePoints, RefreshPoints
  <2> QED BY <1>1, <2>2, <2>4 DEF StartComment
<1>2. CASE RefuseComment
  BY <1>2, TakeTyped DEF RefuseComment
<1>3. CASE SaveComment
  BY <1>3, FinishTyped DEF SaveComment, Saved, OptionalSession
<1> QED BY <1>1, <1>2, <1>3 DEF CommentSteps

(* Every step of a submission up to GitHub's answer keeps the types.       *)
LEMMA TypedSubmit == Typed /\ SubmitSteps => Typed'
<1> SUFFICES ASSUME Typed, SubmitSteps PROVE Typed'
  OBVIOUS
<1> USE DEF Typed, TypeOK, OpTyped, github
<1>1. CASE StartSubmit
  <2>1. reg \in Session /\ Head(queue) \in Request /\ queue' \in Seq(Request)
    BY <1>1, TakeTyped DEF StartSubmit
  <2>2. op' \in Operation /\ OpTyped'
    BY <1>1, <2>1, BeginTyped DEF StartSubmit, Points, OtherPoints, RefreshPoints
  <2> QED BY <1>1, <2>1, <2>2 DEF StartSubmit
<1>2. CASE PreflightPasses
  <2> DEFINE sub == [status |-> "submitting", marker |-> attempts + 1, cleanup |-> "none"]
  <2>1. op.s \in Session /\ attempts + 1 \in Nat
    BY <1>2 DEF PreflightPasses
  <2>2. sub \in Submission
    BY <2>1 DEF Submission, Statuses, Cleanups
  <2>3. [op.s EXCEPT !.sub = sub] \in Session
    BY <2>1, <2>2, SessionFields
  <2>4. \E s \in Session : Goto("submit.save", s)
    BY <1>2, <2>3 DEF PreflightPasses
  <2>5. op' \in Operation /\ OpTyped'
    BY <2>4, GotoTyped DEF Points, SavePoints, RefreshPoints
  <2> QED BY <1>2, <2>1, <2>5 DEF PreflightPasses
<1>3. CASE PreflightFails
  BY <1>3, FinishTyped DEF PreflightFails
<1>4. CASE SaveSubmitting
  BY <1>4 DEF SaveSubmitting, Saved, Operation, OptionalSession, OtherPoints, RefreshPoints
<1>5. CASE CreateSucceeds
  <2>1. WithReceipt(op.s) \in Session /\ ReviewOf(op.s) \in Review
    BY <1>5, SubmissionFields DEF CreateSucceeds
  <2>2. op' \in Operation /\ OpTyped'
    BY <1>5, <2>1, GotoTyped DEF CreateSucceeds, Points, SavePoints, RefreshPoints
  <2> QED BY <1>5, <2>1, <2>2 DEF CreateSucceeds
<1>6. CASE CreateRefused
  <2>1. WithoutSubmission(op.s) \in Session
    BY <1>6, SubmissionFields DEF CreateRefused
  <2>2. op' \in Operation /\ OpTyped'
    BY <1>6, <2>1, GotoTyped DEF CreateRefused, Points, SavePoints, RefreshPoints
  <2> QED BY <1>6, <2>2 DEF CreateRefused
<1>7. CASE CreateUnanswered
  <2>1. WithStatus(op.s, "uncertain") \in Session /\ ReviewOf(op.s) \in Review
    BY <1>7, SubmissionFields DEF CreateUnanswered, Statuses
  <2>2. op' \in Operation /\ OpTyped'
    BY <1>7, <2>1, GotoTyped DEF CreateUnanswered, Points, SavePoints, RefreshPoints
  <2>3. posted' \in SUBSET Review /\ late' \in SUBSET Review
    BY <1>7, <2>1 DEF CreateUnanswered, Unanswered
  <2> QED BY <1>7, <2>2, <2>3 DEF CreateUnanswered
<1>8. CASE SaveUncertain
  BY <1>8 DEF SaveUncertain, Saved, Operation, OptionalSession, OtherPoints, RefreshPoints
<1> QED BY <1>1, <1>2, <1>3, <1>4, <1>5, <1>6, <1>7, <1>8 DEF SubmitSteps

(* Every step of a reconciliation and of a cleanup keeps the types.        *)
LEMMA TypedReceipt == Typed /\ ReceiptSteps => Typed'
<1> SUFFICES ASSUME Typed, ReceiptSteps PROVE Typed'
  OBVIOUS
<1> USE DEF Typed, TypeOK, OpTyped, github
<1> USE DEF Points, SavePoints, OtherPoints, RefreshPoints
<1>1. CASE StartReconcile
  <2>1. reg \in Session /\ Head(queue) \in Request /\ queue' \in Seq(Request)
    BY <1>1, TakeTyped DEF StartReconcile
  <2>2. op' \in Operation /\ OpTyped'
    BY <1>1, <2>1, BeginTyped DEF StartReconcile
  <2> QED BY <1>1, <2>1, <2>2 DEF StartReconcile
<1>2. CASE ListReviews
  <2>1. WithReceipt(op.s) \in Session /\ WithoutSubmission(op.s) \in Session
    BY <1>2, SubmissionFields DEF ListReviews
  <2>2. op' \in Operation /\ OpTyped'
    BY <1>2, <2>1, GotoTyped DEF ListReviews
  <2> QED BY <1>2, <2>2 DEF ListReviews
<1>3. CASE ListFails
  BY <1>3, FinishTyped DEF ListFails
<1>4. CASE SaveDraft
  BY <1>4, FinishTyped DEF SaveDraft, Saved, OptionalSession
<1>5. CASE SaveReceipt
  <2>1. op' \in Operation /\ OpTyped'
    BY <1>5, GotoTyped DEF SaveReceipt
  <2> QED BY <1>5, <2>1 DEF SaveReceipt, Saved, OptionalSession
<1>6. CASE ReceiptSaveFails
  <2>1. WithStatus(op.s, "uncertain") \in Session
    BY <1>6, SubmissionFields DEF ReceiptSaveFails, Statuses
  <2>2. op' \in Operation /\ OpTyped'
    BY <1>6, <2>1, GotoTyped, FinishTyped DEF ReceiptSaveFails
  <2> QED BY <1>6, <2>2 DEF ReceiptSaveFails
<1>7. CASE StartCleanup
  <2>1. reg \in Session /\ Head(queue) \in Request /\ queue' \in Seq(Request)
    BY <1>7, TakeTyped DEF StartCleanup
  <2>2. op' \in Operation /\ OpTyped'
    BY <1>7, <2>1, BeginTyped DEF StartCleanup
  <2> QED BY <1>7, <2>1, <2>2 DEF StartCleanup
<1>8. CASE SealChat
  <2>1. op' \in Operation /\ OpTyped'
    BY <1>8, GotoTyped DEF SealChat
  <2> QED BY <1>8, <2>1 DEF SealChat, ChatState, OptionalGen
<1>9. ASSUME NEW result \in Cleanups, op.pc # "idle"
      PROVE  WithCleanup(result) \in Session
  BY <1>9, SubmissionFields DEF WithCleanup
<1>10. CASE SealFails
  <2>1. WithCleanup("failed") \in Session
    BY <1>9, <1>10 DEF SealFails, Cleanups
  <2>2. op' \in Operation /\ OpTyped'
    BY <1>10, <2>1, GotoTyped DEF SealFails
  <2>3. chat' \in ChatState
    BY <1>10 DEF SealFails, ChatState
  <2> QED BY <1>10, <2>2, <2>3 DEF SealFails
<1>11. CASE RemoveReviewed
  <2>1. WithCleanup("complete") \in Session
    BY <1>9, <1>11 DEF RemoveReviewed, Cleanups
  <2>2. op' \in Operation /\ OpTyped'
    BY <1>11, <2>1, GotoTyped DEF RemoveReviewed
  <2> QED BY <1>11, <2>2 DEF RemoveReviewed
<1>12. CASE RemoveReviewedFails
  <2>1. WithCleanup("failed") \in Session
    BY <1>9, <1>12 DEF RemoveReviewedFails, Cleanups
  <2>2. op' \in Operation /\ OpTyped'
    BY <1>12, <2>1, GotoTyped DEF RemoveReviewedFails
  <2> QED BY <1>12, <2>2 DEF RemoveReviewedFails
<1>13. CASE SaveCleanup
  BY <1>13, FinishTyped DEF SaveCleanup, Saved, OptionalSession
<1> QED
  BY <1>1, <1>2, <1>3, <1>4, <1>5, <1>6, <1>7, <1>8, <1>10, <1>11, <1>12, <1>13
  DEF ReceiptSteps

(* Every step of a refresh keeps the types.                                *)
LEMMA TypedRefresh == Typed /\ RefreshSteps => Typed'
<1> SUFFICES ASSUME Typed, RefreshSteps PROVE Typed'
  OBVIOUS
<1> USE DEF Typed, TypeOK, OpTyped, github
<1> USE DEF Points, SavePoints, OtherPoints, RefreshPoints
<1>1. CASE StartRefresh
  <2>1. reg \in Session /\ Head(queue) \in Request /\ queue' \in Seq(Request)
    BY <1>1, TakeTyped DEF StartRefresh
  <2>2. op' \in Operation /\ OpTyped'
    BY <1>1, <2>1 DEF StartRefresh, Idle, Operation, OptionalSession, Request
  <2> QED BY <1>1, <2>1, <2>2 DEF StartRefresh
<1>2. CASE PrepareFails
  BY <1>2, FinishTyped DEF PrepareFails
<1>3. CASE Prepared
  <2>1. PICK g \in FreshGens :
          /\ worktrees' = worktrees \cup {g}
          /\ \/ Goto("refresh.map", [op.prev EXCEPT !.gen = g])
             \/ Goto("refresh.discard", [op.prev EXCEPT !.gen = g])
    BY <1>3 DEF Prepared
  <2>2. g \in Gens /\ op.prev \in Session
    BY <1>3 DEF FreshGens, Prepared
  <2>3. [op.prev EXCEPT !.gen = g] \in Session
    BY <2>2, SessionFields
  <2>4. op' \in Operation /\ OpTyped'
    BY <2>1, <2>2, <2>3, GotoTyped
  <2> QED BY <1>3, <2>1, <2>2, <2>4 DEF Prepared
<1>4. CASE DiscardCandidate
  <2>1. op' \in Operation /\ OpTyped'
    BY <1>4, GotoTyped DEF DiscardCandidate
  <2> QED BY <1>4, <2>1 DEF DiscardCandidate
<1>5. CASE SaveUnchanged
  BY <1>5, FinishTyped DEF SaveUnchanged, Saved, OptionalSession
<1>6. CASE MapComments
  <2>1. op.s \in Session /\ op.prev \in Session
    BY <1>6 DEF MapComments
  <2>2. \E s \in Session : Goto("refresh.chat", s)
    BY <1>6, <2>1, RevisionFields DEF MapComments
  <2>3. op' \in Operation /\ OpTyped'
    BY <2>1, <2>2, GotoTyped
  <2> QED BY <1>6, <2>3 DEF MapComments
<1>7. CASE CloseOldAgent
  <2>1. op' \in Operation /\ OpTyped'
    BY <1>7, GotoTyped DEF CloseOldAgent
  <2> QED BY <1>7, <2>1 DEF CloseOldAgent, ChatState, OptionalGen
<1>8. CASE CloseOldAgentFails
  <2>1. op' \in Operation /\ OpTyped'
    BY <1>8, GotoTyped DEF CloseOldAgentFails
  <2>2. chat' \in ChatState
    BY <1>8 DEF CloseOldAgentFails, ChatState
  <2> QED BY <1>8, <2>1, <2>2 DEF CloseOldAgentFails
<1>9. CASE RefreshFails
  <2>1. op' \in Operation /\ OpTyped'
    BY <1>9, GotoTyped DEF RefreshFails
  <2> QED BY <1>9, <2>1 DEF RefreshFails
<1>10. CASE SaveRefresh
  <2>1. op' \in Operation /\ OpTyped'
    BY <1>10 DEF SaveRefresh, Operation, Idle, OptionalSession
  <2>2. NoChat \in ChatState
    BY DEF NoChat, ChatState, OptionalGen
  <2> QED BY <1>10, <2>1, <2>2 DEF SaveRefresh, Saved, OptionalSession
<1>11. CASE RetirePrevious
  BY <1>11, FinishTyped DEF RetirePrevious
<1>12. CASE RollbackCandidate
  BY <1>12, FinishTyped DEF RollbackCandidate
<1> QED
  BY <1>1, <1>2, <1>3, <1>4, <1>5, <1>6, <1>7, <1>8, <1>9, <1>10, <1>11, <1>12
  DEF RefreshSteps

(* Every step of archiving, restoring, opening and deleting keeps the types. *)
LEMMA TypedManagement == Typed /\ ManagementSteps => Typed'
<1> SUFFICES ASSUME Typed, ManagementSteps PROVE Typed'
  OBVIOUS
<1> USE DEF Typed, TypeOK, OpTyped, github
<1> USE DEF Points, SavePoints, OtherPoints, RefreshPoints
<1>1. CASE StartVisibility
  <2>1. PICK kind \in {"archive", "restore", "open"} :
          /\ Take(kind)
          /\ Begin("visibility.save", WithVisibility(kind))
          /\ locked' = Gated(kind)
    BY <1>1 DEF StartVisibility
  <2>2. reg \in Session /\ Head(queue) \in Request /\ queue' \in Seq(Request)
    BY <2>1, TakeTyped
  <2>3. WithVisibility(kind) \in Session
    BY <2>2 DEF WithVisibility, Session
  <2>4. op' \in Operation /\ OpTyped'
    BY <2>1, <2>2, <2>3, BeginTyped
  <2>5. locked' \in BOOLEAN
    BY <2>1, <2>2 DEF Gated, Session
  <2> QED BY <1>1, <2>2, <2>4, <2>5 DEF StartVisibility
<1>2. CASE SaveVisibility
  BY <1>2, FinishTyped DEF SaveVisibility, Saved, OptionalSession
<1>3. CASE StartDelete
  <2>1. reg \in Session /\ Head(queue) \in Request /\ queue' \in Seq(Request)
    BY <1>3, TakeTyped DEF StartDelete
  <2>2. [reg EXCEPT !.deleting = TRUE] \in Session
    BY <2>1, SessionFields
  <2>3. op' \in Operation /\ OpTyped'
    BY <1>3, <2>1, <2>2, BeginTyped DEF StartDelete
  <2> QED BY <1>3, <2>1, <2>3 DEF StartDelete
<1>4. CASE SaveIntent
  <2>1. op' \in Operation /\ OpTyped'
    BY <1>4, GotoTyped DEF SaveIntent
  <2> QED BY <1>4, <2>1 DEF SaveIntent, Saved, OptionalSession
<1>5. CASE DeleteWorktree
  <2>1. op' \in Operation /\ OpTyped'
    BY <1>5, GotoTyped DEF DeleteWorktree
  <2> QED BY <1>5, <2>1 DEF DeleteWorktree
<1>6. CASE DeleteFails
  BY <1>6, FinishTyped DEF DeleteFails
<1>7. CASE DeleteRecord
  <2>1. NoChat \in ChatState
    BY DEF NoChat, ChatState, OptionalGen
  <2> QED BY <1>7, <2>1, FinishTyped DEF DeleteRecord, Saved, OptionalSession
<1> QED BY <1>1, <1>2, <1>3, <1>4, <1>5, <1>6, <1>7 DEF ManagementSteps

(* The initial state is well typed.                                        *)
LEMMA TypedInit == Init => Typed
<1> SUFFICES ASSUME Init PROVE Typed
  OBVIOUS
<1>1. NoSubmission \in Submission /\ NoComments \in Comments
  BY DEF NoSubmission, Submission, Statuses, Cleanups, NoComments, Comments
<1>2. reg \in Session /\ worktrees \in SUBSET Gens
  BY <1>1 DEF Init, NewReview, Session
<1>3. op \in Operation /\ OpTyped
  BY DEF Init, OpTyped, Idle, Operation, OptionalSession, OtherPoints, RefreshPoints
<1>4. chat \in ChatState
  BY DEF Init, NoChat, ChatState, OptionalGen
<1>5. queue \in Seq(Request)
  BY DEF Init
<1>6. disk \in OptionalSession /\ reg \in OptionalSession
  BY <1>2 DEF Init, OptionalSession
<1> QED BY <1>2, <1>3, <1>4, <1>5, <1>6 DEF Init, Typed, TypeOK

(* Requests, chat turns, GitHub, crashes and restarts keep the types.      *)
LEMMA TypedRequest == ASSUME Typed, NEW kind \in Kinds, RequestOperation(kind) PROVE Typed'
<1> DEFINE req == [kind |-> kind, rev |-> IF kind = "open" THEN NoRev ELSE reg.rev]
<1>1. reg \in Session
  BY DEF RequestOperation, Typed, TypeOK, OptionalSession
<1>2. req \in Request
  BY <1>1 DEF Request, Session
<1>3. queue' \in Seq(Request)
  BY <1>2 DEF RequestOperation, Typed, TypeOK
<1> QED BY <1>3 DEF RequestOperation, Typed, TypeOK, OpTyped, github

(* A chat step keeps the types.                                            *)
LEMMA TypedChat == Typed /\ ChatStep => Typed'
<1> SUFFICES ASSUME Typed, ChatStep PROVE Typed'
  OBVIOUS
<1> USE DEF Typed, TypeOK, OpTyped, github, ChatState, OptionalGen
<1>1. CASE BeginTurn
  <2>1. reg \in Session
    BY <1>1 DEF BeginTurn, AssertMutable, AssertCurrent, OptionalSession
  <2>2. chat' \in ChatState
    BY <1>1, <2>1 DEF BeginTurn, Session
  <2> QED BY <1>1, <2>2 DEF BeginTurn
<1>2. CASE StartAgent
  BY <1>2 DEF StartAgent
<1>3. CASE EndTurn
  BY <1>3 DEF EndTurn, Quiet
<1>4. CASE FailTurn
  <2>1. chat' \in ChatState
    BY <1>4 DEF FailTurn, Quiet
  <2> QED BY <1>4, <2>1 DEF FailTurn
<1> QED BY <1>1, <1>2, <1>3, <1>4 DEF ChatStep

(* A crash, a restart, the sweep and a late review keep the types.         *)
LEMMA TypedDaemon == Typed /\ (Crash \/ Restart \/ Sweep \/ LateReviewArrives) => Typed'
<1> SUFFICES ASSUME Typed, Crash \/ Restart \/ Sweep \/ LateReviewArrives PROVE Typed'
  OBVIOUS
<1> USE DEF Typed, TypeOK, github
<1>1. CASE Crash
  <2>1. disk' \in OptionalSession
    <3>1. DiskAfterCrash \subseteq OptionalSession
      BY DEF DiskAfterCrash, OpTyped, SavePoints, OptionalSession
    <3> QED BY <1>1, <3>1 DEF Crash
  <2>2. worktrees' \in SUBSET Gens
    <3>1. WorktreesAfterCrash \subseteq SUBSET Gens
      BY DEF WorktreesAfterCrash, FreshGens
    <3> QED BY <1>1, <3>1 DEF Crash
  <2>3. posted' \in SUBSET Review /\ late' \in SUBSET Review
    <3>1. CASE op.pc = "submit.create"
      <4>1. ReviewOf(op.s) \in Review
        BY <3>1, SubmissionFields DEF OpTyped
      <4> QED BY <1>1, <3>1, <4>1 DEF Crash, Unanswered
    <3>2. CASE op.pc # "submit.create"
      BY <1>1, <3>2 DEF Crash
    <3> QED BY <3>1, <3>2
  <2>4. op' \in Operation /\ OpTyped'
    BY <1>1, FinishTyped DEF Crash
  <2>5. chat' \in ChatState
    BY <1>1 DEF Crash, NoChat, ChatState, OptionalGen
  <2>6. queue' \in Seq(Request) /\ reg' \in OptionalSession
    BY <1>1 DEF Crash, OptionalSession
  <2> QED BY <1>1, <2>1, <2>2, <2>3, <2>4, <2>5, <2>6 DEF Crash
<1>2. CASE Restart
  <2>1. queue' \in Seq(Request)
    <3>1. [kind |-> "delete", rev |-> NoRev] \in Request
      BY DEF Request, Kinds
    <3>2. [kind |-> "reconcile", rev |-> NoRev] \in Request
      BY DEF Request, Kinds
    <3>3. Recovery(disk) \in Seq(Request)
      BY <3>1, <3>2 DEF Recovery, OptionalSession
    <3> QED BY <1>2, <3>3 DEF Restart
  <2> QED BY <1>2, <2>1 DEF Restart, OpTyped
<1>3. CASE Sweep
  BY <1>3 DEF Sweep, OpTyped
<1>4. CASE LateReviewArrives
  BY <1>4 DEF LateReviewArrives, OpTyped
<1> QED BY <1>1, <1>2, <1>3, <1>4

(* Every step keeps the types.                                             *)
LEMMA TypedNext == Typed /\ [Next]_vars => Typed'
<1> SUFFICES ASSUME Typed, [Next]_vars PROVE Typed'
  OBVIOUS
<1>1. CASE Refuse
  BY <1>1 DEF Refuse, Typed, TypeOK, OpTyped, github
<1>2. CASE SaveFails
  BY <1>2, FinishTyped DEF SaveFails, Typed, TypeOK, github
<1>3. CASE UNCHANGED vars
  BY <1>3 DEF vars, Typed, TypeOK, OpTyped
<1> QED
  BY <1>1, <1>2, <1>3, TypedComment, TypedSubmit, TypedReceipt, TypedRefresh,
     TypedManagement, TypedRequest, TypedChat, TypedDaemon
  DEF Next, OperationStep

(* Type correctness, in every behavior of the specification.               *)
THEOREM TypeCorrect == Spec => []TypeOK
<1>1. Typed => TypeOK
  BY DEF Typed
<1> QED BY <1>1, TypedInit, TypedNext, PTL DEF Spec

(***************************************************************************)
(* What the steps change, field by field.                                  *)
(***************************************************************************)

(* Two session values with one worktree and the same flags.                *)
Alike(s, t) == s.gen = t.gen /\ s.archived = t.archived /\ s.deleting = t.deleting

(* What going on to another await changes.                                 *)
LEMMA GotoFields ==
  ASSUME Typed, NEW p, NEW s, Goto(p, s)
  PROVE  op'.pc = p /\ op'.s = s /\ op'.prev = op.prev /\ op'.trying = op.trying
BY DEF Typed, TypeOK, Goto, Operation

(* What starting an operation sets.                                        *)
LEMMA BeginFields ==
  ASSUME NEW p, NEW s, Begin(p, s)
  PROVE  op'.pc = p /\ op'.s = s /\ op'.trying = FALSE
BY DEF Begin, Idle

(* An operation that ends is idle.                                         *)
LEMMA FinishFields == Finish => op'.pc = "idle"
BY DEF Finish, Idle

(* What the submission operators write, field by field.                    *)
LEMMA SubmissionProjections ==
  ASSUME NEW s \in Session
  PROVE  /\ Alike(WithReceipt(s), s) /\ Submitted(WithReceipt(s))
         /\ WithReceipt(s).sub.marker = s.sub.marker
         /\ Alike(WithoutSubmission(s), s) /\ WithoutSubmission(s).sub.status = "none"
         /\ \A st : /\ Alike(WithStatus(s, st), s)
                    /\ WithStatus(s, st).sub.status = st
                    /\ WithStatus(s, st).sub.marker = s.sub.marker
         /\ \A x : Alike([s EXCEPT !.sub = x], s)
         /\ \A c : /\ Alike([s EXCEPT !.sub.cleanup = c], s)
                   /\ [s EXCEPT !.sub.cleanup = c].sub.status = s.sub.status
                   /\ [s EXCEPT !.sub.cleanup = c].sub.marker = s.sub.marker
BY DEF Session, Submission, Alike, WithReceipt, WithoutSubmission, NoSubmission,
       WithStatus, Submitted

(* What a refresh writes, field by field.                                  *)
LEMMA RevisionProjections ==
  ASSUME NEW s \in Session
  PROVE  /\ Alike(Archived(s), s) /\ Archived(s).sub.status = "none"
         /\ \A c : Alike(NextRevision(s, c), s) /\ NextRevision(s, c).sub = s.sub
BY DEF Session, Alike, Archived, NextRevision, NoSubmission

(* What the comment operations write, field by field.                      *)
LEMMA CommentProjections ==
  ASSUME reg \in Session, NEW s \in Created \cup Updated \cup Removed \cup Reanchored
  PROVE  Alike(s, reg) /\ s.sub = reg.sub
<1>1. \A id, c : Alike(WithComment(id, c), reg) /\ WithComment(id, c).sub = reg.sub
  BY DEF Session, Alike, WithComment
<1>2. CASE s \in Created
  BY <1>1, <1>2 DEF Created
<1>3. CASE s \in Updated
  BY <1>1, <1>3 DEF Updated
<1>4. CASE s \in Removed
  BY <1>1, <1>4 DEF Removed
<1>5. CASE s \in Reanchored
  BY <1>1, <1>5 DEF Reanchored
<1> QED BY <1>2, <1>3, <1>4, <1>5

(* What the cleanup writes, field by field.                                *)
LEMMA CleanupProjections ==
  ASSUME op.s \in Session
  PROVE  \A c : /\ WithCleanup(c).sub.status = op.s.sub.status
               /\ WithCleanup(c).sub.marker = op.s.sub.marker
               /\ Alike(WithCleanup(c), op.s)
BY DEF Session, Submission, Alike, WithCleanup

(* What archiving and restoring write, field by field.                     *)
LEMMA VisibilityProjections ==
  ASSUME reg \in Session
  PROVE  \A kind : /\ WithVisibility(kind).gen = reg.gen
                  /\ WithVisibility(kind).sub = reg.sub
                  /\ WithVisibility(kind).deleting = reg.deleting
                  /\ WithVisibility(kind).archived = (kind = "archive")
BY DEF Session, WithVisibility

(* What a request that is taken finds.                                     *)
LEMMA TakeFacts ==
  ASSUME Typed, RecordsAgree, DownIsIdle, NEW kind, Take(kind)
  PROVE  /\ op.pc = "idle" /\ phase # "down" /\ disk = reg
         /\ Head(queue).kind = kind
         /\ Admissible(Head(queue))
BY DEF Take, DownIsIdle, RecordsAgree

(* The operations of an editable review are refused by a deleted or        *)
(* archived one.                                                           *)
LEMMA AdmissibleFacts ==
  ASSUME NEW req, Admissible(req)
  PROVE  /\ req.kind \in {"comment", "submit", "reconcile", "cleanup", "refresh"} =>
              ~reg.deleting /\ ~reg.archived /\ ~locked
         /\ req.kind \in {"comment", "submit"} => IsDraft(reg)
         /\ req.kind = "reconcile" => reg.sub.status \in {"submitting", "uncertain"}
         /\ req.kind = "cleanup" => Submitted(reg)
         /\ req.kind \in {"archive", "restore", "open"} => ~reg.deleting
         /\ req.kind = "delete" => reg.archived
         /\ req.kind \in {"archive", "delete"} => AssertIdle
BY DEF Admissible, AssertMutable, AssertCurrent, IsDraft, Submitted, AssertIdle, Resolved

(* An operation runs only in a daemon that is up.                          *)
LEMMA DownRunsNothing == ASSUME DownIsIdle, op.pc # "idle" PROVE phase # "down"
BY DEF DownIsIdle

(***************************************************************************)
(* Worktrees: WorktreeInv is inductive.                                    *)
(***************************************************************************)
RecordsKept == RecordsAgree /\ DownIsIdle /\ Kept(reg) /\ Kept(disk)

(* Steps that write no record, and remove no worktree.                     *)
LEMMA SameRecords ==
  ASSUME RecordsKept, phase # "down", UNCHANGED <<phase, reg, disk>>,
         worktrees \subseteq worktrees', posted \subseteq posted'
  PROVE  RecordsKept'
BY DEF RecordsKept, RecordsAgree, DownIsIdle, Kept, Recoverable, Found

(* Steps that write a record.                                              *)
LEMMA NewRecords ==
  ASSUME RecordsKept, phase # "down", NEW s, Saved(s), Kept(s),
         UNCHANGED <<phase, worktrees, posted>>
  PROVE  RecordsKept'
BY DEF RecordsKept, RecordsAgree, DownIsIdle, Kept, Recoverable, Found, Saved

(* Steps that remove a worktree the record does not need.                  *)
LEMMA FewerWorktrees ==
  ASSUME RecordsKept, phase # "down", UNCHANGED <<phase, reg, disk, posted>>,
         NEW g, worktrees \ {g} \subseteq worktrees',
         reg = NoSession \/ reg.deleting \/ Submitted(reg) \/ g # reg.gen
  PROVE  RecordsKept'
BY DEF RecordsKept, RecordsAgree, DownIsIdle, Kept, Recoverable, Found, Submitted

(* An idle operation knows nothing of a worktree.                          *)
LEMMA IdleKept == op'.pc = "idle" => OpKept'
BY DEF OpKept, WorktreePoints, CleanupPoints, CandidatePoints

(* Comment operations.                                                     *)
LEMMA WorktreeComment == Typed /\ WorktreeInv /\ CommentSteps => WorktreeInv'
<1> SUFFICES ASSUME Typed, WorktreeInv, CommentSteps PROVE WorktreeInv'
  OBVIOUS
<1> SUFFICES RecordsKept' /\ OpKept'
  BY DEF WorktreeInv, RecordsKept
<1>0. RecordsKept /\ OpKept /\ RecordsAgree /\ DownIsIdle
  BY DEF WorktreeInv, RecordsKept
<1> USE DEF WorktreePoints, CleanupPoints, CandidatePoints, github
<1>1. CASE StartComment
  <2>1. op.pc = "idle" /\ phase # "down" /\ reg \in Session
    BY <1>0, <1>1, TakeFacts, TakeTyped DEF StartComment
  <2>2. Admissible(Head(queue)) /\ Head(queue).kind = "comment"
    BY <1>0, <1>1, TakeFacts DEF StartComment
  <2>3. RecordsKept'
    BY <1>0, <1>1, <2>1, SameRecords DEF StartComment
  <2>4. PICK s \in Created \cup Updated \cup Removed \cup Reanchored : Begin("comment.save", s)
    BY <1>1 DEF StartComment
  <2>5. s.gen = reg.gen /\ IsDraft(reg) /\ ~reg.deleting
    BY <2>1, <2>2, CommentProjections, AdmissibleFacts DEF Alike
  <2>6. reg.gen \in worktrees
    BY <1>0, <2>1, <2>5, SentinelAssumption DEF RecordsKept, Kept, IsDraft
  <2>7. op'.pc = "comment.save" /\ op'.s = s
    BY <2>4, BeginFields
  <2>8. OpKept'
    BY <1>1, <2>5, <2>6, <2>7 DEF StartComment, OpKept
  <2> QED BY <2>3, <2>8
<1>2. CASE RefuseComment
  <2>1. op.pc = "idle" /\ phase # "down" /\ reg \in Session
    BY <1>0, <1>2, TakeFacts, TakeTyped DEF RefuseComment
  <2>2. Admissible(Head(queue)) /\ Head(queue).kind = "comment"
    BY <1>0, <1>2, TakeFacts DEF RefuseComment
  <2>3. RecordsKept'
    BY <1>0, <1>2, <2>1, SameRecords DEF RefuseComment
  <2> QED BY <1>2, <2>1, <2>3, IdleKept DEF RefuseComment
<1>3. CASE SaveComment
  <2>0. op.pc # "idle" /\ phase # "down" /\ op.s \in Session
    BY <1>0, <1>3, DownRunsNothing DEF SaveComment, Typed, OpTyped
  <2>1. Kept(op.s)
    BY <1>0, <1>3, <2>0 DEF SaveComment, OpKept, Kept, Recoverable
  <2>2. RecordsKept'
    BY <1>0, <1>3, <2>0, <2>1, NewRecords DEF SaveComment
  <2> QED BY <1>3, <2>2, IdleKept, FinishFields DEF SaveComment
<1> QED BY <1>1, <1>2, <1>3 DEF CommentSteps

(* Submission, up to the answer.                                           *)
LEMMA WorktreeSubmit == Typed /\ WorktreeInv /\ SubmitSteps => WorktreeInv'
<1> SUFFICES ASSUME Typed, WorktreeInv, SubmitSteps PROVE WorktreeInv'
  OBVIOUS
<1> SUFFICES RecordsKept' /\ OpKept'
  BY DEF WorktreeInv, RecordsKept
<1>0. RecordsKept /\ OpKept /\ RecordsAgree /\ DownIsIdle
  BY DEF WorktreeInv, RecordsKept
<1> USE DEF WorktreePoints, CleanupPoints, CandidatePoints, github
<1>1. CASE StartSubmit
  <2>1. op.pc = "idle" /\ phase # "down" /\ reg \in Session
    BY <1>0, <1>1, TakeFacts, TakeTyped DEF StartSubmit
  <2>2. Admissible(Head(queue)) /\ Head(queue).kind = "submit"
    BY <1>0, <1>1, TakeFacts DEF StartSubmit
  <2>3. RecordsKept'
    BY <1>0, <1>1, <2>1, SameRecords DEF StartSubmit
  <2>4. reg.gen \in worktrees
    BY <1>0, <2>1, <2>2, AdmissibleFacts, SentinelAssumption DEF RecordsKept, Kept, IsDraft
  <2>5. op'.pc = "submit.preflight" /\ op'.s = reg
    BY <1>1, BeginFields DEF StartSubmit
  <2>6. OpKept'
    BY <1>1, <2>4, <2>5 DEF StartSubmit, OpKept
  <2> QED BY <2>3, <2>6
<1>2. CASE PreflightPasses
  <2>0. op.pc # "idle" /\ phase # "down" /\ op.s \in Session
    BY <1>0, <1>2, DownRunsNothing DEF PreflightPasses, Typed, OpTyped
  <2>1. RecordsKept'
    BY <1>0, <1>2, <2>0, SameRecords DEF PreflightPasses
  <2>2. op'.pc = "submit.save" /\ op'.s.gen = op.s.gen
    <3>1. PICK x : Goto("submit.save", [op.s EXCEPT !.sub = x])
      BY <1>2 DEF PreflightPasses
    <3>2. [op.s EXCEPT !.sub = x].gen = op.s.gen
      BY <2>0, SubmissionProjections DEF Alike
    <3> QED BY <3>1, <3>2, GotoFields
  <2>3. OpKept'
    BY <1>0, <1>2, <2>2 DEF PreflightPasses, OpKept
  <2> QED BY <2>1, <2>3
<1>3. CASE PreflightFails
  <2>0. op.pc # "idle" /\ phase # "down" /\ op.s \in Session
    BY <1>0, <1>3, DownRunsNothing DEF PreflightFails, Typed, OpTyped
  <2>1. RecordsKept'
    BY <1>0, <1>3, <2>0, SameRecords DEF PreflightFails
  <2> QED BY <1>3, <2>1, IdleKept, FinishFields DEF PreflightFails
<1>4. CASE SaveSubmitting
  <2>0. op.pc # "idle" /\ phase # "down" /\ op.s \in Session
    BY <1>0, <1>4, DownRunsNothing DEF SaveSubmitting, Typed, OpTyped
  <2>1. Kept(op.s)
    BY <1>0, <1>4, <2>0 DEF SaveSubmitting, OpKept, Kept, Recoverable
  <2>2. RecordsKept'
    BY <1>0, <1>4, <2>0, <2>1, NewRecords DEF SaveSubmitting
  <2>3. op'.pc = "submit.create" /\ op'.s = op.s
    BY <1>4 DEF SaveSubmitting, Typed, TypeOK, Operation
  <2> QED BY <1>0, <1>4, <2>2, <2>3 DEF SaveSubmitting, OpKept
<1>5. CASE CreateSucceeds
  <2>0. op.pc # "idle" /\ phase # "down" /\ op.s \in Session
    BY <1>0, <1>5, DownRunsNothing DEF CreateSucceeds, Typed, OpTyped
  <2>1. RecordsKept'
    BY <1>0, <1>5, <2>0, SameRecords DEF CreateSucceeds
  <2>2. op'.pc = "complete.save" /\ op'.s = WithReceipt(op.s) /\ op'.prev = op.prev /\ op'.trying = op.trying
    BY <1>5, GotoFields DEF CreateSucceeds
  <2>3. /\ Submitted(WithReceipt(op.s))
        /\ WithReceipt(op.s).sub.marker = ReviewOf(op.s).marker
    BY <2>0, SubmissionProjections DEF ReviewOf
  <2>4. Found(op.s)'
    BY <1>5, <2>2, <2>3 DEF CreateSucceeds, Found
  <2> QED BY <1>5, <2>2, <2>3, <2>4, <2>1 DEF CreateSucceeds, OpKept, Submitted
<1>6. CASE CreateRefused
  <2>0. op.pc # "idle" /\ phase # "down" /\ op.s \in Session
    BY <1>0, <1>6, DownRunsNothing DEF CreateRefused, Typed, OpTyped
  <2>1. RecordsKept'
    BY <1>0, <1>6, <2>0, SameRecords DEF CreateRefused
  <2>2. op'.pc = "submit.drop" /\ op'.s = WithoutSubmission(op.s) /\ op'.prev = op.prev /\ op'.trying = op.trying
    BY <1>6, GotoFields DEF CreateRefused
  <2>3. WithoutSubmission(op.s).gen = op.s.gen
    BY <2>0, SubmissionProjections DEF Alike
  <2> QED BY <1>0, <1>6, <2>0, <2>2, <2>3, <2>1 DEF CreateRefused, OpKept
<1>7. CASE CreateUnanswered
  <2>0. op.pc # "idle" /\ phase # "down" /\ op.s \in Session
    BY <1>0, <1>7, DownRunsNothing DEF CreateUnanswered, Typed, OpTyped
  <2>1. RecordsKept'
    BY <1>0, <1>7, <2>0, SameRecords DEF CreateUnanswered, Unanswered
  <2>2. op'.pc = "submit.uncertain" /\ op'.s = WithStatus(op.s, "uncertain")
    BY <1>7, GotoFields DEF CreateUnanswered
  <2>3. op'.s.gen = op.s.gen /\ op'.s.sub.status = "uncertain"
    BY <2>0, <2>2, SubmissionProjections DEF Alike
  <2>4. OpKept'
    BY <1>0, <1>7, <2>2, <2>3 DEF CreateUnanswered, OpKept, Recoverable
  <2> QED BY <2>1, <2>4
<1>8. CASE SaveUncertain
  <2>0. op.pc # "idle" /\ phase # "down" /\ op.s \in Session
    BY <1>0, <1>8, DownRunsNothing DEF SaveUncertain, Typed, OpTyped
  <2>1. Kept(op.s)
    BY <1>0, <1>8, <2>0 DEF SaveUncertain, OpKept, Kept
  <2>2. RecordsKept'
    BY <1>0, <1>8, <2>0, <2>1, NewRecords DEF SaveUncertain
  <2>3. op'.pc = "reconcile.list" /\ op'.s = op.s
    BY <1>8 DEF SaveUncertain, Typed, TypeOK, Operation
  <2>4. OpKept'
    BY <1>0, <1>8, <2>3 DEF SaveUncertain, OpKept, Recoverable, Found
  <2> QED BY <2>2, <2>4
<1> QED BY <1>1, <1>2, <1>3, <1>4, <1>5, <1>6, <1>7, <1>8 DEF SubmitSteps

(* Receipts and cleanup.                                                   *)
LEMMA WorktreeReceipt == Typed /\ WorktreeInv /\ ReceiptSteps => WorktreeInv'
<1> SUFFICES ASSUME Typed, WorktreeInv, ReceiptSteps PROVE WorktreeInv'
  OBVIOUS
<1> SUFFICES RecordsKept' /\ OpKept'
  BY DEF WorktreeInv, RecordsKept
<1>0. RecordsKept /\ OpKept /\ RecordsAgree /\ DownIsIdle
  BY DEF WorktreeInv, RecordsKept
<1> USE DEF WorktreePoints, CleanupPoints, CandidatePoints, github
<1>1. CASE StartReconcile
  <2>1. op.pc = "idle" /\ phase # "down" /\ reg \in Session
    BY <1>0, <1>1, TakeFacts, TakeTyped DEF StartReconcile
  <2>2. Admissible(Head(queue)) /\ Head(queue).kind = "reconcile"
    BY <1>0, <1>1, TakeFacts DEF StartReconcile
  <2>3. RecordsKept'
    BY <1>0, <1>1, <2>1, SameRecords DEF StartReconcile
  <2>4. Recoverable(reg)
    BY <1>0, <2>1, <2>2, AdmissibleFacts, SentinelAssumption
    DEF RecordsKept, Kept, Recoverable
  <2>5. op'.pc = "reconcile.list" /\ op'.s = reg
    BY <1>1, BeginFields DEF StartReconcile
  <2>6. OpKept'
    BY <1>1, <2>4, <2>5 DEF StartReconcile, OpKept, Recoverable, Found
  <2> QED BY <2>3, <2>6
<1>2. CASE ListReviews
  <2>0. op.pc # "idle" /\ phase # "down" /\ op.s \in Session
    BY <1>0, <1>2, DownRunsNothing DEF ListReviews, Typed, OpTyped
  <2>1. RecordsKept'
    BY <1>0, <1>2, <2>0, SameRecords DEF ListReviews
  <2>2. CASE Found(op.s)
    <3>1. op'.pc = "complete.save" /\ op'.s = WithReceipt(op.s)
      BY <1>2, <2>2, GotoFields DEF ListReviews
    <3>2. Submitted(op'.s) /\ op'.s.sub.marker = op.s.sub.marker
      BY <2>0, <3>1, SubmissionProjections
    <3>3. OpKept'
      BY <1>2, <2>2, <3>1, <3>2 DEF ListReviews, OpKept, Found, Submitted
    <3> QED BY <2>1, <3>3
  <2>3. CASE ~Found(op.s)
    <3>1. op'.pc = "reconcile.drop" /\ op'.s = WithoutSubmission(op.s)
      BY <1>2, <2>3, GotoFields DEF ListReviews
    <3>2. op'.s.gen = op.s.gen
      BY <2>0, <3>1, SubmissionProjections DEF Alike
    <3>3. OpKept'
      BY <1>0, <1>2, <2>3, <3>1, <3>2 DEF ListReviews, OpKept, Recoverable
    <3> QED BY <2>1, <3>3
  <2> QED BY <2>2, <2>3
<1>3. CASE ListFails
  <2>0. op.pc # "idle" /\ phase # "down" /\ op.s \in Session
    BY <1>0, <1>3, DownRunsNothing DEF ListFails, Typed, OpTyped
  <2>1. RecordsKept'
    BY <1>0, <1>3, <2>0, SameRecords DEF ListFails
  <2> QED BY <1>3, <2>1, IdleKept, FinishFields DEF ListFails
<1>4. CASE SaveDraft
  <2>0. op.pc # "idle" /\ phase # "down" /\ op.s \in Session
    BY <1>0, <1>4, DownRunsNothing DEF SaveDraft, Typed, OpTyped
  <2>1. Kept(op.s)
    BY <1>0, <1>4, <2>0 DEF SaveDraft, OpKept, Kept, Recoverable
  <2>2. RecordsKept'
    BY <1>0, <1>4, <2>0, <2>1, NewRecords DEF SaveDraft
  <2> QED BY <1>4, <2>2, IdleKept, FinishFields DEF SaveDraft
<1>5. CASE SaveReceipt
  <2>0. op.pc # "idle" /\ phase # "down" /\ op.s \in Session
    BY <1>0, <1>5, DownRunsNothing DEF SaveReceipt, Typed, OpTyped
  <2>1. Kept(op.s)
    BY <1>0, <1>5, <2>0 DEF SaveReceipt, OpKept, Kept, Submitted
  <2>2. RecordsKept'
    BY <1>0, <1>5, <2>0, <2>1, NewRecords DEF SaveReceipt
  <2>3. op'.pc = "cleanup.seal" /\ op'.s = op.s
    BY <1>5, GotoFields DEF SaveReceipt
  <2>4. reg' = op.s
    BY <1>5 DEF SaveReceipt, Saved
  <2>5. OpKept'
    BY <1>0, <1>5, <2>3, <2>4 DEF SaveReceipt, OpKept, Submitted, Found
  <2> QED BY <2>2, <2>5
<1>6. CASE ReceiptSaveFails
  <2>0. op.pc # "idle" /\ phase # "down" /\ op.s \in Session
    BY <1>0, <1>6, DownRunsNothing DEF ReceiptSaveFails, Typed, OpTyped
  <2>1. RecordsKept'
    BY <1>0, <1>6, <2>0, SameRecords DEF ReceiptSaveFails
  <2>2. CASE op.trying
    <3>1. op'.pc = "submit.uncertain" /\ op'.s = WithStatus(op.s, "uncertain")
      BY <1>6, <2>2, GotoFields DEF ReceiptSaveFails
    <3>2. op'.s.sub.status = "uncertain" /\ op'.s.sub.marker = op.s.sub.marker
      BY <2>0, <3>1, SubmissionProjections
    <3>3. Found(op.s)
      BY <1>0, <1>6, <2>2 DEF ReceiptSaveFails, OpKept
    <3>4. OpKept'
      BY <1>6, <3>1, <3>2, <3>3 DEF ReceiptSaveFails, OpKept, Recoverable, Found
    <3> QED BY <2>1, <3>4
  <2>3. CASE ~op.trying
    BY <1>6, <2>1, <2>3, IdleKept, FinishFields DEF ReceiptSaveFails
  <2> QED BY <2>2, <2>3
<1>7. CASE StartCleanup
  <2>1. op.pc = "idle" /\ phase # "down" /\ reg \in Session
    BY <1>0, <1>7, TakeFacts, TakeTyped DEF StartCleanup
  <2>2. Admissible(Head(queue)) /\ Head(queue).kind = "cleanup"
    BY <1>0, <1>7, TakeFacts DEF StartCleanup
  <2>3. RecordsKept'
    BY <1>0, <1>7, <2>1, SameRecords DEF StartCleanup
  <2>4. Submitted(reg)
    BY <2>2, AdmissibleFacts
  <2>5. op'.pc = "cleanup.seal" /\ op'.s = reg /\ op'.trying = FALSE
    BY <1>7, BeginFields DEF StartCleanup
  <2>6. OpKept'
    BY <1>7, <2>4, <2>5 DEF StartCleanup, OpKept, Submitted
  <2> QED BY <2>3, <2>6
<1>8. CASE SealChat
  <2>0. op.pc # "idle" /\ phase # "down" /\ op.s \in Session
    BY <1>0, <1>8, DownRunsNothing DEF SealChat, Typed, OpTyped
  <2>1. RecordsKept'
    BY <1>0, <1>8, <2>0, SameRecords DEF SealChat
  <2>2. op'.pc = "cleanup.remove" /\ op'.s = op.s /\ op'.trying = op.trying
    BY <1>8, GotoFields DEF SealChat
  <2>3. Submitted(op'.s) /\ (op.trying => Found(op'.s))
    BY <1>0, <1>8, <2>0, <2>2, CleanupProjections DEF SealChat, OpKept, Submitted, Found
  <2>4. OpKept'
    BY <1>0, <1>8, <2>2, <2>3 DEF SealChat, OpKept, Submitted, Found
  <2> QED BY <2>1, <2>4
<1>9. CASE SealFails
  <2>0. op.pc # "idle" /\ phase # "down" /\ op.s \in Session
    BY <1>0, <1>9, DownRunsNothing DEF SealFails, Typed, OpTyped
  <2>1. RecordsKept'
    BY <1>0, <1>9, <2>0, SameRecords DEF SealFails
  <2>2. op'.pc = "cleanup.save" /\ op'.s = WithCleanup("failed") /\ op'.trying = op.trying
    BY <1>9, GotoFields DEF SealFails
  <2>3. Submitted(op'.s) /\ (op.trying => Found(op'.s))
    BY <1>0, <1>9, <2>0, <2>2, CleanupProjections DEF SealFails, OpKept, Submitted, Found
  <2>4. OpKept'
    BY <1>0, <1>9, <2>2, <2>3 DEF SealFails, OpKept, Submitted, Found
  <2> QED BY <2>1, <2>4
<1>10. CASE RemoveReviewed
  <2>0. op.pc # "idle" /\ phase # "down" /\ op.s \in Session
    BY <1>0, <1>10, DownRunsNothing DEF RemoveReviewed, Typed, OpTyped
  <2>1. RecordsKept'
    BY <1>0, <1>10, <2>0, FewerWorktrees DEF RemoveReviewed, OpKept
  <2>2. op'.pc = "cleanup.save" /\ op'.s = WithCleanup("complete") /\ op'.trying = op.trying
    BY <1>10, GotoFields DEF RemoveReviewed
  <2>3. Submitted(op'.s) /\ (op.trying => Found(op'.s))
    BY <1>0, <1>10, <2>0, <2>2, CleanupProjections DEF RemoveReviewed, OpKept, Submitted, Found
  <2>4. OpKept'
    BY <1>0, <1>10, <2>2, <2>3 DEF RemoveReviewed, OpKept, Submitted, Found
  <2> QED BY <2>1, <2>4
<1>11. CASE RemoveReviewedFails
  <2>0. op.pc # "idle" /\ phase # "down" /\ op.s \in Session
    BY <1>0, <1>11, DownRunsNothing DEF RemoveReviewedFails, Typed, OpTyped
  <2>1. RecordsKept'
    BY <1>0, <1>11, <2>0, SameRecords DEF RemoveReviewedFails
  <2>2. op'.pc = "cleanup.save" /\ op'.s = WithCleanup("failed") /\ op'.trying = op.trying
    BY <1>11, GotoFields DEF RemoveReviewedFails
  <2>3. Submitted(op'.s) /\ (op.trying => Found(op'.s))
    BY <1>0, <1>11, <2>0, <2>2, CleanupProjections DEF RemoveReviewedFails, OpKept, Submitted, Found
  <2>4. OpKept'
    BY <1>0, <1>11, <2>2, <2>3 DEF RemoveReviewedFails, OpKept, Submitted, Found
  <2> QED BY <2>1, <2>4
<1>12. CASE SaveCleanup
  <2>0. op.pc # "idle" /\ phase # "down" /\ op.s \in Session
    BY <1>0, <1>12, DownRunsNothing DEF SaveCleanup, Typed, OpTyped
  <2>1. Kept(op.s)
    BY <1>0, <1>12, <2>0 DEF SaveCleanup, OpKept, Kept, Recoverable, Submitted
  <2>2. RecordsKept'
    BY <1>0, <1>12, <2>0, <2>1, NewRecords DEF SaveCleanup
  <2> QED BY <1>12, <2>2, IdleKept, FinishFields DEF SaveCleanup
<1> QED BY <1>1, <1>2, <1>3, <1>4, <1>5, <1>6, <1>7, <1>8, <1>9, <1>10, <1>11, <1>12 DEF ReceiptSteps

(* Refresh.                                                                *)
LEMMA WorktreeRefresh == Typed /\ WorktreeInv /\ RefreshSteps => WorktreeInv'
<1> SUFFICES ASSUME Typed, WorktreeInv, RefreshSteps PROVE WorktreeInv'
  OBVIOUS
<1> SUFFICES RecordsKept' /\ OpKept'
  BY DEF WorktreeInv, RecordsKept
<1>0. RecordsKept /\ OpKept /\ RecordsAgree /\ DownIsIdle
  BY DEF WorktreeInv, RecordsKept
<1> USE DEF WorktreePoints, CleanupPoints, CandidatePoints, github
<1>1. CASE StartRefresh
  <2>1. op.pc = "idle" /\ phase # "down" /\ reg \in Session
    BY <1>0, <1>1, TakeFacts, TakeTyped DEF StartRefresh
  <2>2. Admissible(Head(queue)) /\ Head(queue).kind = "refresh"
    BY <1>0, <1>1, TakeFacts DEF StartRefresh
  <2>3. RecordsKept'
    BY <1>0, <1>1, <2>1, SameRecords DEF StartRefresh
  <2>4. OpKept'
    BY <1>1 DEF StartRefresh, OpKept, Idle
  <2> QED BY <2>3, <2>4
<1>2. CASE PrepareFails
  <2>0. op.pc # "idle" /\ phase # "down" /\ op.s \in Session
    BY <1>0, <1>2, DownRunsNothing DEF PrepareFails, Typed, OpTyped
  <2>1. RecordsKept'
    BY <1>0, <1>2, <2>0, SameRecords DEF PrepareFails
  <2> QED BY <1>2, <2>1, IdleKept, FinishFields DEF PrepareFails
<1>3. CASE Prepared
  <2>0. op.pc # "idle" /\ phase # "down" /\ op.s \in Session
    BY <1>0, <1>3, DownRunsNothing DEF Prepared, Typed, OpTyped
  <2>1. RecordsKept'
    BY <1>0, <1>3, <2>0, SameRecords DEF Prepared
  <2>2. PICK g \in FreshGens :
          /\ worktrees' = worktrees \cup {g}
          /\ \/ Goto("refresh.map", [op.prev EXCEPT !.gen = g])
             \/ Goto("refresh.discard", [op.prev EXCEPT !.gen = g])
    BY <1>3 DEF Prepared
  <2>3. op.prev \in Session /\ op.prev = reg
    BY <1>0, <1>3 DEF Prepared, Typed, OpTyped, RefreshPoints, OpKept
  <2>4. [op.prev EXCEPT !.gen = g].gen = g
    BY <2>3 DEF Session
  <2>5. op'.pc \in {"refresh.map", "refresh.discard"} /\ op'.s.gen = g /\ op'.prev = reg
    BY <2>2, <2>3, <2>4, GotoFields
  <2>6. g # reg.gen
    BY <2>2 DEF FreshGens
  <2>7. OpKept'
    BY <1>3, <2>2, <2>5, <2>6 DEF Prepared, OpKept
  <2> QED BY <2>1, <2>7
<1>4. CASE DiscardCandidate
  <2>0. op.pc # "idle" /\ phase # "down" /\ op.s \in Session
    BY <1>0, <1>4, DownRunsNothing DEF DiscardCandidate, Typed, OpTyped
  <2>1. RecordsKept'
    BY <1>0, <1>4, <2>0, FewerWorktrees DEF DiscardCandidate, OpKept
  <2>2. op'.pc = "unchanged.save" /\ op'.s = op.prev
    BY <1>4, GotoFields DEF DiscardCandidate
  <2>3. OpKept'
    BY <1>0, <1>4, <2>2 DEF DiscardCandidate, OpKept
  <2> QED BY <2>1, <2>3
<1>5. CASE SaveUnchanged
  <2>0. op.pc # "idle" /\ phase # "down" /\ op.s \in Session
    BY <1>0, <1>5, DownRunsNothing DEF SaveUnchanged, Typed, OpTyped
  <2>1. Kept(op.s)
    BY <1>0, <1>5 DEF SaveUnchanged, OpKept, RecordsKept
  <2>2. RecordsKept'
    BY <1>0, <1>5, <2>0, <2>1, NewRecords DEF SaveUnchanged
  <2> QED BY <1>5, <2>2, IdleKept, FinishFields DEF SaveUnchanged
<1>6. CASE MapComments
  <2>0. op.pc # "idle" /\ phase # "down" /\ op.s \in Session
    BY <1>0, <1>6, DownRunsNothing DEF MapComments, Typed, OpTyped
  <2>1. RecordsKept'
    BY <1>0, <1>6, <2>0, SameRecords DEF MapComments
  <2>2. \E s : Goto("refresh.chat", s) /\ s.gen = op.s.gen
    BY <1>6, <2>0, RevisionProjections DEF MapComments, Alike
  <2>3. op'.pc = "refresh.chat" /\ op'.s.gen = op.s.gen /\ op'.prev = op.prev
    BY <2>2, GotoFields
  <2>4. OpKept'
    BY <1>0, <1>6, <2>3 DEF MapComments, OpKept
  <2> QED BY <2>1, <2>4
<1>7. CASE CloseOldAgent
  <2>0. op.pc # "idle" /\ phase # "down" /\ op.s \in Session
    BY <1>0, <1>7, DownRunsNothing DEF CloseOldAgent, Typed, OpTyped
  <2>1. RecordsKept'
    BY <1>0, <1>7, <2>0, SameRecords DEF CloseOldAgent
  <2>2. op'.pc = "refresh.save" /\ op'.s = op.s /\ op'.prev = op.prev
    BY <1>7, GotoFields DEF CloseOldAgent
  <2>3. OpKept'
    BY <1>0, <1>7, <2>2 DEF CloseOldAgent, OpKept
  <2> QED BY <2>1, <2>3
<1>8. CASE CloseOldAgentFails
  <2>0. op.pc # "idle" /\ phase # "down" /\ op.s \in Session
    BY <1>0, <1>8, DownRunsNothing DEF CloseOldAgentFails, Typed, OpTyped
  <2>1. RecordsKept'
    BY <1>0, <1>8, <2>0, SameRecords DEF CloseOldAgentFails
  <2>2. op'.pc = "refresh.rollback" /\ op'.s = op.s /\ op'.prev = op.prev
    BY <1>8, GotoFields DEF CloseOldAgentFails
  <2>3. OpKept'
    BY <1>0, <1>8, <2>2 DEF CloseOldAgentFails, OpKept
  <2> QED BY <2>1, <2>3
<1>9. CASE RefreshFails
  <2>0. op.pc # "idle" /\ phase # "down" /\ op.s \in Session
    BY <1>0, <1>9, DownRunsNothing DEF RefreshFails, Typed, OpTyped
  <2>1. RecordsKept'
    BY <1>0, <1>9, <2>0, SameRecords DEF RefreshFails
  <2>2. op'.pc = "refresh.rollback" /\ op'.s = op.s /\ op'.prev = op.prev
    BY <1>9, GotoFields DEF RefreshFails
  <2>3. OpKept'
    BY <1>0, <1>9, <2>2 DEF RefreshFails, OpKept
  <2> QED BY <2>1, <2>3
<1>10. CASE SaveRefresh
  <2>0. op.pc # "idle" /\ phase # "down" /\ op.s \in Session
    BY <1>0, <1>10, DownRunsNothing DEF SaveRefresh, Typed, OpTyped
  <2>1. Kept(op.s)
    BY <1>0, <1>10 DEF SaveRefresh, OpKept, Kept, Recoverable
  <2>2. RecordsKept'
    BY <1>0, <1>10, <2>0, <2>1, NewRecords DEF SaveRefresh
  <2>3. op.prev.gen # op.s.gen /\ reg' = op.s
    BY <1>0, <1>10 DEF SaveRefresh, OpKept, Saved
  <2>4. op'.pc = "idle" \/ (op'.pc = "refresh.retire" /\ op'.prev = op.prev)
    BY <1>10 DEF SaveRefresh, Typed, TypeOK, Operation, Idle
  <2>5. OpKept'
    BY <2>3, <2>4 DEF OpKept
  <2> QED BY <2>2, <2>5
<1>11. CASE RetirePrevious
  <2>0. op.pc # "idle" /\ phase # "down" /\ op.s \in Session
    BY <1>0, <1>11, DownRunsNothing DEF RetirePrevious, Typed, OpTyped
  <2>1. RecordsKept'
    BY <1>0, <1>11, <2>0, FewerWorktrees DEF RetirePrevious, OpKept
  <2> QED BY <1>11, <2>1, IdleKept, FinishFields DEF RetirePrevious
<1>12. CASE RollbackCandidate
  <2>0. op.pc # "idle" /\ phase # "down" /\ op.s \in Session
    BY <1>0, <1>12, DownRunsNothing DEF RollbackCandidate, Typed, OpTyped
  <2>1. RecordsKept'
    BY <1>0, <1>12, <2>0, FewerWorktrees DEF RollbackCandidate, OpKept
  <2> QED BY <1>12, <2>1, IdleKept, FinishFields DEF RollbackCandidate
<1> QED BY <1>1, <1>2, <1>3, <1>4, <1>5, <1>6, <1>7, <1>8, <1>9, <1>10, <1>11, <1>12 DEF RefreshSteps

(* Visibility and deletion.                                                *)
LEMMA WorktreeManagement == Typed /\ WorktreeInv /\ ManagementSteps => WorktreeInv'
<1> SUFFICES ASSUME Typed, WorktreeInv, ManagementSteps PROVE WorktreeInv'
  OBVIOUS
<1> SUFFICES RecordsKept' /\ OpKept'
  BY DEF WorktreeInv, RecordsKept
<1>0. RecordsKept /\ OpKept /\ RecordsAgree /\ DownIsIdle
  BY DEF WorktreeInv, RecordsKept
<1> USE DEF WorktreePoints, CleanupPoints, CandidatePoints, github
<1>1. CASE StartVisibility
  <2>1. PICK kind \in {"archive", "restore", "open"} :
          /\ Take(kind)
          /\ Begin("visibility.save", WithVisibility(kind))
    BY <1>1 DEF StartVisibility
  <2>2. op.pc = "idle" /\ phase # "down" /\ reg \in Session
    BY <1>0, <2>1, TakeFacts, TakeTyped
  <2>3. RecordsKept'
    BY <1>0, <1>1, <2>2, SameRecords DEF StartVisibility
  <2>4. op'.pc = "visibility.save" /\ op'.s = WithVisibility(kind)
    BY <2>1, BeginFields
  <2>5. /\ op'.pc = "visibility.save"
        /\ op'.s.gen = reg.gen /\ op'.s.sub = reg.sub /\ op'.s.deleting = reg.deleting
    BY <2>2, <2>4, VisibilityProjections
  <2>6. OpKept'
    BY <1>1, <2>2, <2>5, SentinelAssumption DEF StartVisibility, OpKept
  <2> QED BY <2>3, <2>6
<1>2. CASE SaveVisibility
  <2>0. op.pc # "idle" /\ phase # "down" /\ op.s \in Session
    BY <1>0, <1>2, DownRunsNothing DEF SaveVisibility, Typed, OpTyped
  <2>1. Kept(op.s)
    BY <1>0, <1>2 DEF SaveVisibility, OpKept, RecordsKept, Kept, Recoverable, Found
  <2>2. RecordsKept'
    BY <1>0, <1>2, <2>0, <2>1, NewRecords DEF SaveVisibility
  <2> QED BY <1>2, <2>2, IdleKept, FinishFields DEF SaveVisibility
<1>3. CASE StartDelete
  <2>1. op.pc = "idle" /\ phase # "down" /\ reg \in Session
    BY <1>0, <1>3, TakeFacts, TakeTyped DEF StartDelete
  <2>2. Admissible(Head(queue)) /\ Head(queue).kind = "delete"
    BY <1>0, <1>3, TakeFacts DEF StartDelete
  <2>3. RecordsKept'
    BY <1>0, <1>3, <2>1, SameRecords DEF StartDelete
  <2>4. [reg EXCEPT !.deleting = TRUE].deleting
    BY <2>1 DEF Session
  <2>5. /\ op'.pc = IF reg.deleting THEN "delete.worktree" ELSE "delete.intent"
        /\ op'.s.deleting
    BY <1>3, <2>4, BeginFields DEF StartDelete
  <2>6. OpKept'
    BY <1>3, <2>5 DEF StartDelete, OpKept
  <2> QED BY <2>3, <2>6
<1>4. CASE SaveIntent
  <2>0. op.pc # "idle" /\ phase # "down" /\ op.s \in Session
    BY <1>0, <1>4, DownRunsNothing DEF SaveIntent, Typed, OpTyped
  <2>1. Kept(op.s)
    BY <1>0, <1>4 DEF SaveIntent, OpKept, Kept
  <2>2. RecordsKept'
    BY <1>0, <1>4, <2>0, <2>1, NewRecords DEF SaveIntent
  <2>3. op'.pc = "delete.worktree" /\ op'.s = op.s /\ reg' = op.s
    BY <1>4, GotoFields DEF SaveIntent, Saved
  <2>4. OpKept'
    BY <1>0, <1>4, <2>3 DEF SaveIntent, OpKept
  <2> QED BY <2>2, <2>4
<1>5. CASE DeleteWorktree
  <2>0. op.pc # "idle" /\ phase # "down" /\ op.s \in Session
    BY <1>0, <1>5, DownRunsNothing DEF DeleteWorktree, Typed, OpTyped
  <2>1. RecordsKept'
    BY <1>0, <1>5, <2>0, FewerWorktrees DEF DeleteWorktree, OpKept
  <2>2. op'.pc = "delete.record" /\ op'.s = op.s
    BY <1>5, GotoFields DEF DeleteWorktree
  <2>3. OpKept'
    BY <1>0, <1>5, <2>2 DEF DeleteWorktree, OpKept
  <2> QED BY <2>1, <2>3
<1>6. CASE DeleteFails
  <2>0. op.pc # "idle" /\ phase # "down" /\ op.s \in Session
    BY <1>0, <1>6, DownRunsNothing DEF DeleteFails, Typed, OpTyped
  <2>1. RecordsKept'
    BY <1>0, <1>6, <2>0, SameRecords DEF DeleteFails
  <2> QED BY <1>6, <2>1, IdleKept, FinishFields DEF DeleteFails
<1>7. CASE DeleteRecord
  <2>0. op.pc # "idle" /\ phase # "down" /\ op.s \in Session
    BY <1>0, <1>7, DownRunsNothing DEF DeleteRecord, Typed, OpTyped
  <2>1. Kept(NoSession)
    BY DEF Kept
  <2>2. RecordsKept'
    BY <1>0, <1>7, <2>0, <2>1, NewRecords DEF DeleteRecord
  <2> QED BY <1>7, <2>2, IdleKept, FinishFields DEF DeleteRecord
<1> QED BY <1>1, <1>2, <1>3, <1>4, <1>5, <1>6, <1>7 DEF ManagementSteps

(* Requests, turns and late reviews write nothing the invariant looks at.  *)
LEMMA WorktreeOutside ==
  ASSUME Typed, WorktreeInv, UNCHANGED <<reg, disk, op, worktrees>>,
         posted \subseteq posted', phase' = phase, phase # "down" \/ queue' = queue
  PROVE  WorktreeInv'
BY DEF WorktreeInv, RecordsAgree, DownIsIdle, Kept, OpKept, Recoverable, Found,
       Submitted, WorktreePoints, CleanupPoints, CandidatePoints

(* A crash leaves a record, old or new, with the worktree it needs.        *)
LEMMA WorktreeCrash == Typed /\ WorktreeInv /\ Crash => WorktreeInv'
<1> SUFFICES ASSUME Typed, WorktreeInv, Crash PROVE WorktreeInv'
  OBVIOUS
<1> SUFFICES RecordsKept' /\ OpKept'
  BY DEF WorktreeInv, RecordsKept
<1>0. RecordsKept /\ OpKept /\ RecordsAgree /\ DownIsIdle /\ disk = reg
  BY DEF WorktreeInv, RecordsKept, RecordsAgree, Crash
<1>1. OpKept'
  BY IdleKept, FinishFields DEF Crash
<1>2. posted \subseteq posted'
  BY DEF Crash, Unanswered
<1>3. CASE worktrees \subseteq worktrees' /\ disk' = disk
  <2>1. Kept(disk)'
    BY <1>0, <1>2, <1>3 DEF RecordsKept, Kept, Recoverable, Found
  <2> QED BY <1>1, <2>1 DEF Crash, RecordsKept, RecordsAgree, DownIsIdle, Kept, Finish, Idle
<1>4. CASE disk' # disk
  <2> USE DEF WorktreePoints, CleanupPoints, CandidatePoints
  <2>1. /\ worktrees' = worktrees
        /\ \/ op.pc \in SavePoints /\ disk' = op.s
           \/ disk' = NoSession
    BY <1>4 DEF Crash, DiskAfterCrash, WorktreesAfterCrash, SavePoints, Removing
  <2>2. CASE disk' = NoSession
    BY <1>1, <2>2 DEF Crash, RecordsKept, RecordsAgree, DownIsIdle, Kept, Finish, Idle
  <2>3. CASE op.pc \in SavePoints /\ disk' = op.s
    <3>1. Kept(op.s)
      BY <1>0, <2>3 DEF OpKept, RecordsKept, Kept, Recoverable, Found, Submitted, SavePoints
    <3>2. Kept(disk)'
      BY <1>2, <2>1, <2>3, <3>1 DEF Kept, Recoverable, Found
    <3> QED BY <1>1, <3>2 DEF Crash, RecordsKept, RecordsAgree, DownIsIdle, Kept, Finish, Idle
  <2> QED BY <2>1, <2>2, <2>3
<1>5. CASE disk' = disk /\ ~(worktrees \subseteq worktrees')
  <2> USE DEF WorktreePoints, CleanupPoints, CandidatePoints
  <2>1. \/ op.pc \in Removing /\ worktrees' = worktrees \ {op.s.gen}
        \/ op.pc = "refresh.retire" /\ worktrees' = worktrees \ {op.prev.gen}
    BY <1>5 DEF Crash, WorktreesAfterCrash
  <2>2. Kept(disk)'
    BY <1>0, <1>2, <1>5, <2>1
    DEF OpKept, RecordsKept, Kept, Recoverable, Found, Submitted, Removing
  <2> QED BY <1>1, <2>2 DEF Crash, RecordsKept, RecordsAgree, DownIsIdle, Kept, Finish, Idle
<1> QED BY <1>3, <1>4, <1>5

(* A start reads the record back, and the sweep spares its worktree.       *)
LEMMA WorktreeStart == Typed /\ WorktreeInv /\ (Restart \/ Sweep) => WorktreeInv'
<1> SUFFICES ASSUME Typed, WorktreeInv, Restart \/ Sweep PROVE WorktreeInv'
  OBVIOUS
<1> USE DEF WorktreeInv, RecordsAgree, DownIsIdle
<1>1. CASE Restart
  <2>1. op'.pc = "idle"
    BY <1>1 DEF Restart
  <2> QED BY <1>1, <2>1, IdleKept DEF Restart, Kept, Recoverable, Found, github
<1>2. CASE Sweep
  <2>1. op'.pc = "idle" /\ disk = reg
    BY <1>2 DEF Sweep, Pending
  <2>2. Kept(reg)'
    BY <1>2 DEF Sweep, Active, Kept, Recoverable, Found, github
  <2> QED BY <1>2, <2>1, <2>2, IdleKept DEF Sweep
<1> QED BY <1>1, <1>2

(* WorktreeInv is inductive.                                               *)
LEMMA WorktreeInit == Init => WorktreeInv
BY IdleKept DEF Init, WorktreeInv, RecordsAgree, DownIsIdle, Kept, OpKept, Idle, NewReview,
   NoSubmission, WorktreePoints, CleanupPoints, CandidatePoints

(* Every step keeps the worktree invariant.                                *)
LEMMA WorktreeNext == Typed /\ WorktreeInv /\ [Next]_vars => WorktreeInv'
<1> SUFFICES ASSUME Typed, WorktreeInv, [Next]_vars PROVE WorktreeInv'
  OBVIOUS
<1>0. RecordsKept /\ RecordsAgree /\ DownIsIdle
  BY DEF WorktreeInv, RecordsKept
<1>1. ASSUME NEW kind \in Kinds, RequestOperation(kind) PROVE WorktreeInv'
  BY <1>1, WorktreeOutside DEF RequestOperation, github
<1>2. CASE ChatStep
  BY <1>2, WorktreeOutside
  DEF ChatStep, BeginTurn, StartAgent, EndTurn, FailTurn, github
<1>3. CASE LateReviewArrives
  BY <1>3, WorktreeOutside DEF LateReviewArrives
<1>4. CASE UNCHANGED vars
  BY <1>4, WorktreeOutside DEF vars
<1>5. CASE Refuse
  <2>1. phase # "down"
    BY <1>0, <1>5 DEF Refuse, DownIsIdle
  <2> QED BY <1>5, <2>1, WorktreeOutside DEF Refuse, github
<1>6. CASE SaveFails
  <2>1. phase # "down"
    BY <1>0, <1>6, DownRunsNothing DEF SaveFails, EndingSaves
  <2>2. RecordsKept'
    BY <1>0, <1>6, <2>1, SameRecords DEF SaveFails, github
  <2> QED BY <1>6, <2>2, IdleKept, FinishFields DEF SaveFails, WorktreeInv, RecordsKept
<1> QED
  BY <1>1, <1>2, <1>3, <1>4, <1>5, <1>6, WorktreeComment, WorktreeSubmit, WorktreeReceipt,
     WorktreeRefresh, WorktreeManagement, WorktreeCrash, WorktreeStart
  DEF Next, OperationStep

(* A review that can be edited or submitted has its worktree, in every     *)
(* behavior: the worktree a crash, a refresh, a cleanup or a sweep removes *)
(* is never the one such a record names.                                   *)
THEOREM WorktreeIsKept == Spec => []WorktreeKept
<1>1. WorktreeInv => WorktreeKept
  BY DEF WorktreeInv, WorktreeKept, Editable, Kept
<1> QED BY <1>1, TypedInit, TypedNext, WorktreeInit, WorktreeNext, PTL DEF Spec

(***************************************************************************)
(* What the record of a review says of its comments, its chat, its         *)
(* deletion and of the reviews on GitHub.                                  *)
(***************************************************************************)
(* What is proved, or assumed, of a state before a step.                   *)
Known == Typed /\ WorktreeInv /\ ReviewInv

(***************************************************************************)
(* Lemmas: what the operators on session values leave alone.               *)
(***************************************************************************)
SameReview(s, t) ==
  /\ s.rev = t.rev /\ s.gen = t.gen /\ s.comments = t.comments /\ s.history = t.history
  /\ s.archived = t.archived /\ s.deleting = t.deleting

(* A submission changes nothing else of its record.                        *)
LEMMA SubmissionSame ==
  ASSUME NEW s \in Session
  PROVE  /\ SameReview(WithReceipt(s), s) /\ SameReview(WithoutSubmission(s), s)
         /\ WithoutSubmission(s).sub = NoSubmission
         /\ \A st : SameReview(WithStatus(s, st), s)
         /\ \A x : SameReview([s EXCEPT !.sub = x], s) /\ [s EXCEPT !.sub = x].sub = x
         /\ \A c : SameReview([s EXCEPT !.sub.cleanup = c], s)
BY DEF Session, SameReview, WithReceipt, WithoutSubmission, WithStatus

(* A status is what the record then says.                                  *)
LEMMA StatusIs ==
  ASSUME NEW s \in Session
  PROVE  /\ ~IsDraft(WithReceipt(s)) /\ WithReceipt(s).sub.marker = s.sub.marker
         /\ ~IsDraft(WithStatus(s, "uncertain"))
         /\ WithStatus(s, "uncertain").sub.marker = s.sub.marker
         /\ \A c : /\ IsDraft([s EXCEPT !.sub.cleanup = c]) <=> IsDraft(s)
                   /\ [s EXCEPT !.sub.cleanup = c].sub.marker = s.sub.marker
<1>1. ~IsDraft(WithReceipt(s)) /\ WithReceipt(s).sub.marker = s.sub.marker
  BY SubmissionProjections DEF IsDraft, Submitted
<1>2. /\ WithStatus(s, "uncertain").sub.status = "uncertain"
      /\ WithStatus(s, "uncertain").sub.marker = s.sub.marker
  BY SubmissionProjections
<1>3. \A c : /\ [s EXCEPT !.sub.cleanup = c].sub.status = s.sub.status
             /\ [s EXCEPT !.sub.cleanup = c].sub.marker = s.sub.marker
  BY SubmissionProjections
<1> QED BY <1>1, <1>2, <1>3 DEF IsDraft

(* A comment operation changes the comments, to verified ones at most.     *)
LEMMA CommentSame ==
  ASSUME reg \in Session, NEW s \in Created \cup Updated \cup Removed \cup Reanchored,
         AnchoredAt(reg.comments, reg.rev)
  PROVE  /\ s.rev = reg.rev /\ s.gen = reg.gen /\ s.history = reg.history /\ s.sub = reg.sub
         /\ s.archived = reg.archived /\ s.deleting = reg.deleting
         /\ AnchoredAt(s.comments, s.rev)
<1>1. ASSUME NEW id \in CommentIds, NEW c,
             c = Absent \/ (c.status = "current" => c.at = reg.rev)
      PROVE  LET w == WithComment(id, c) IN
             /\ w.rev = reg.rev /\ w.gen = reg.gen /\ w.history = reg.history
             /\ w.sub = reg.sub /\ w.archived = reg.archived /\ w.deleting = reg.deleting
             /\ AnchoredAt(w.comments, w.rev)
  <2>1. /\ WithComment(id, c).rev = reg.rev
        /\ WithComment(id, c).comments = [reg.comments EXCEPT ![id] = c]
    BY DEF Session, WithComment
  <2>2. AnchoredAt([reg.comments EXCEPT ![id] = c], reg.rev)
    BY <1>1 DEF AnchoredAt, Session, Comments
  <2> QED BY <2>1, <2>2 DEF Session, WithComment
<1>2. \A b : Verified(b).status = "current" => Verified(b).at = reg.rev
  BY DEF Verified
<1>3. CASE s \in Created \cup Reanchored
  BY <1>1, <1>2, <1>3 DEF Created, Reanchored, FreshIds, Existing
<1>4. CASE s \in Removed
  BY <1>1, <1>4 DEF Removed, Existing
<1>5. CASE s \in Updated
  <2>1. PICK id \in Existing, b \in Bodies : s = WithComment(id, WithBody(reg.comments[id], b))
    BY <1>5 DEF Updated
  <2>2. reg.comments[id] \in Comment /\ id \in CommentIds
    BY <2>1 DEF Existing, Session, Comments
  <2>3. /\ WithBody(reg.comments[id], b).status = reg.comments[id].status
        /\ WithBody(reg.comments[id], b).at = reg.comments[id].at
    BY <2>2 DEF WithBody, Comment
  <2>4. reg.comments[id].status = "current" => reg.comments[id].at = reg.rev
    BY <2>1, <2>2 DEF AnchoredAt, Existing
  <2> QED BY <1>1, <2>1, <2>2, <2>3, <2>4
<1> QED BY <1>3, <1>4, <1>5

(* What a refresh writes revises what it found.                            *)
LEMMA RevisionSame ==
  ASSUME NEW s \in Session, reg \in Session, s.rev = reg.rev, s.history = reg.history,
         s.comments = reg.comments, s.sub = reg.sub, AnchoredAt(s.comments, s.rev)
  PROVE  /\ Submitted(reg) => /\ Revises(Archived(s), reg)
                              /\ AnchoredAt(Archived(s).comments, Archived(s).rev)
         /\ Archived(s).archived = s.archived /\ Archived(s).deleting = s.deleting
         /\ \A found \in SUBSET CommentIds :
              LET n == NextRevision(s, Relocated(s, found)) IN
              /\ IsDraft(reg) => Revises(n, reg)
              /\ AnchoredAt(n.comments, n.rev)
              /\ n.archived = s.archived /\ n.deleting = s.deleting
<1>1. \A c : /\ NextRevision(s, c).rev = s.rev + 1 /\ NextRevision(s, c).comments = c
             /\ NextRevision(s, c).sub = s.sub /\ NextRevision(s, c).history = s.history
             /\ NextRevision(s, c).archived = s.archived
             /\ NextRevision(s, c).deleting = s.deleting
  BY DEF NextRevision, Session
<1>2. /\ Archived(s).rev = s.rev + 1 /\ Archived(s).comments = NoComments
      /\ Archived(s).sub = NoSubmission
      /\ Archived(s).history = Append(s.history, ReviewOf(s))
      /\ Archived(s).archived = s.archived /\ Archived(s).deleting = s.deleting
  BY <1>1 DEF Archived, NextRevision, Session
<1>3. ReviewOf(s) = ReviewOf(reg)
  BY DEF ReviewOf
<1>4. \A n : AnchoredAt(NoComments, n)
  BY DEF AnchoredAt, NoComments
<1>5. ASSUME NEW found \in SUBSET CommentIds
      PROVE  /\ AnchoredAt(Relocated(s, found), s.rev + 1)
             /\ \A id \in CommentIds :
                  /\ Relocated(s, found)[id] = Absent <=> reg.comments[id] = Absent
                  /\ reg.comments[id] # Absent =>
                       Relocated(s, found)[id].body = reg.comments[id].body
  <2> DEFINE c(id) == s.comments[id]
  <2>1. ASSUME NEW id \in CommentIds, c(id) # Absent
        PROVE  /\ c(id) \in Comment
               /\ [c(id) EXCEPT !.at = s.rev + 1] \in Comment
               /\ [c(id) EXCEPT !.status = "needs_review"] \in Comment
    BY <2>1 DEF Session, Comments, Comment
  <2>2. ASSUME NEW id \in CommentIds, c(id) # Absent
        PROVE  /\ Relocated(s, found)[id] \in Comment
               /\ Relocated(s, found)[id].body = c(id).body
               /\ Relocated(s, found)[id].status = "current" =>
                    Relocated(s, found)[id].at = s.rev + 1
    BY <2>1, <2>2 DEF Relocated, Comment
  <2>3. \A id \in CommentIds : c(id) = Absent => Relocated(s, found)[id] = Absent
    BY DEF Relocated
  <2> QED BY <2>2, <2>3, SentinelAssumption DEF AnchoredAt
<1> QED BY <1>1, <1>2, <1>3, <1>4, <1>5 DEF Revises

(* An operation that starts has the revision of its request.               *)
LEMMA BeginRev == ASSUME NEW p, NEW s, Begin(p, s) PROVE op'.rev = Head(queue).rev
BY DEF Begin, Idle

(* A comment request that is admitted was made at this revision.           *)
LEMMA AdmittedRev ==
  ASSUME NEW req, Admissible(req), req.kind = "comment", req.rev # NoRev
  PROVE  req.rev = reg.rev
BY DEF Admissible, AssertMutable, AssertCurrent

(* The operations that start, where an archived review may be.             *)
LEMMA AdmittedRest ==
  ASSUME NEW req, Admissible(req)
  PROVE  /\ req.kind \in {"refresh", "archive", "delete"} => ~chat.active /\ Resolved(reg)
         /\ req.kind = "delete" => reg.archived
BY DEF Admissible, AssertIdle

(***************************************************************************)
(* What the running operation knows: every step of it.                     *)
(***************************************************************************)
OpInv == WorkInv /\ StandingInv /\ RefreshInv /\ AnchorInv /\ QuietInv

LEMMA IdleKnowsNothing ==
  ASSUME op'.pc = "idle"
  PROVE  OpInv'
BY DEF OpInv, WorkInv, StandingInv, RefreshInv, AnchorInv, QuietInv, SubmissionPoints,
       CleanupPoints, DeletePoints, ManagementPoints, SwitchingPoints, CandidatePoints

(* A comment operation starts from the record.                             *)
LEMMA StartCommentWorks ==
  ASSUME Known, StartComment
  PROVE  OpInv'
<1>0. /\ Typed /\ RecordsAgree /\ DownIsIdle /\ OpKept
      /\ RecordsInv /\ QueueInv /\ WorkInv /\ StandingInv /\ RefreshInv /\ AnchorInv /\ QuietInv
  BY DEF Known, WorktreeInv, ReviewInv
<1>1. /\ op.pc = "idle" /\ phase # "down" /\ reg \in Session /\ RecordSound(reg)
      /\ reg # NoSession
  BY <1>0, TakeFacts, TakeTyped, SentinelAssumption DEF StartComment, RecordsInv
<1>2. /\ Admissible(Head(queue)) /\ Head(queue).kind = "comment"
      /\ ~reg.deleting /\ ~reg.archived /\ IsDraft(reg)
  BY <1>0, TakeFacts, AdmissibleFacts, AdmittedRest DEF StartComment
<1>3. PICK s \in Created \cup Updated \cup Removed \cup Reanchored : Begin("comment.save", s)
  BY DEF StartComment
<1>4. op'.pc = "comment.save" /\ op'.s = s /\ op'.rev = reg.rev
  <2>1. Head(queue).rev # NoRev
    BY <1>0, <1>2 DEF StartComment, Take, QueueInv, Typed, TypeOK
  <2> QED BY <1>2, <1>3, <2>1, BeginFields, BeginRev, AdmittedRev
<1>5. /\ Continues(s) /\ s.sub = reg.sub /\ s.archived = reg.archived /\ s.deleting = reg.deleting
      /\ AnchoredAt(s.comments, s.rev)
  BY <1>1, <1>3, CommentSame DEF RecordSound, Continues
<1>6. UNCHANGED <<reg, chat, attempts, worktrees, locked>>
  BY DEF StartComment, github
<1>7. WorkInv'
  BY <1>0, <1>1, <1>2, <1>3, <1>4, <1>5, <1>6
     DEF WorkInv, Continues, SubmissionPoints, CleanupPoints, DeletePoints, ManagementPoints,
         SwitchingPoints, CandidatePoints
<1>8. StandingInv'
  BY <1>0, <1>1, <1>2, <1>3, <1>4, <1>5, <1>6
     DEF StandingInv, SubmissionPoints, CleanupPoints, DeletePoints, ManagementPoints,
         SwitchingPoints, CandidatePoints
<1>9. RefreshInv'
  BY <1>0, <1>1, <1>2, <1>3, <1>4, <1>5, <1>6
     DEF RefreshInv, SubmissionPoints, CleanupPoints, DeletePoints, ManagementPoints,
         SwitchingPoints, CandidatePoints
<1>10. AnchorInv'
  BY <1>0, <1>1, <1>2, <1>3, <1>4, <1>5, <1>6
     DEF AnchorInv, SubmissionPoints, CleanupPoints, DeletePoints, ManagementPoints,
         SwitchingPoints, CandidatePoints
<1>11. QuietInv'
  BY <1>0, <1>1, <1>2, <1>3, <1>4, <1>5, <1>6
     DEF QuietInv, SubmissionPoints, CleanupPoints, DeletePoints, ManagementPoints,
         SwitchingPoints, CandidatePoints
<1> QED BY <1>7, <1>8, <1>9, <1>10, <1>11 DEF OpInv

(* A submission starts from the record.                                    *)
LEMMA StartSubmitWorks ==
  ASSUME Known, StartSubmit
  PROVE  OpInv'
<1>0. /\ Typed /\ RecordsAgree /\ DownIsIdle /\ OpKept
      /\ RecordsInv /\ QueueInv /\ WorkInv /\ StandingInv /\ RefreshInv /\ AnchorInv /\ QuietInv
  BY DEF Known, WorktreeInv, ReviewInv
<1>1. /\ op.pc = "idle" /\ phase # "down" /\ reg \in Session /\ RecordSound(reg)
      /\ reg # NoSession
  BY <1>0, TakeFacts, TakeTyped, SentinelAssumption DEF StartSubmit, RecordsInv
<1>2. /\ ~reg.deleting /\ ~reg.archived /\ IsDraft(reg)
  BY <1>0, TakeFacts, AdmissibleFacts, AdmittedRest DEF StartSubmit, IsDraft, Submitted
<1>3. op'.pc = "submit.preflight" /\ op'.s = reg
  BY BeginFields DEF StartSubmit
<1>4. UNCHANGED <<reg, chat, attempts, worktrees, locked>>
  BY DEF StartSubmit, github
<1>5. WorkInv'
  BY <1>0, <1>1, <1>2, <1>3, <1>4
     DEF WorkInv, Continues, RecordSound, SubmissionPoints, CleanupPoints, DeletePoints,
         ManagementPoints, SwitchingPoints, CandidatePoints
<1>6. StandingInv'
  BY <1>0, <1>1, <1>2, <1>3, <1>4
     DEF StandingInv, SubmissionPoints, CleanupPoints, DeletePoints, ManagementPoints,
         SwitchingPoints, CandidatePoints
<1>7. RefreshInv'
  BY <1>0, <1>1, <1>2, <1>3, <1>4
     DEF RefreshInv, SubmissionPoints, CleanupPoints, DeletePoints, ManagementPoints,
         SwitchingPoints, CandidatePoints
<1>8. AnchorInv'
  BY <1>0, <1>1, <1>2, <1>3, <1>4
     DEF AnchorInv, RecordSound, SubmissionPoints, CleanupPoints, DeletePoints, ManagementPoints,
         SwitchingPoints, CandidatePoints
<1>9. QuietInv'
  BY <1>0, <1>1, <1>2, <1>3, <1>4
     DEF QuietInv, SubmissionPoints, CleanupPoints, DeletePoints, ManagementPoints,
         SwitchingPoints, CandidatePoints
<1> QED BY <1>5, <1>6, <1>7, <1>8, <1>9 DEF OpInv

(* A reconciliation starts from the record.                                *)
LEMMA StartReconcileWorks ==
  ASSUME Known, StartReconcile
  PROVE  OpInv'
<1>0. /\ Typed /\ RecordsAgree /\ DownIsIdle /\ OpKept
      /\ RecordsInv /\ QueueInv /\ WorkInv /\ StandingInv /\ RefreshInv /\ AnchorInv /\ QuietInv
  BY DEF Known, WorktreeInv, ReviewInv
<1>1. /\ op.pc = "idle" /\ phase # "down" /\ reg \in Session /\ RecordSound(reg)
      /\ reg # NoSession
  BY <1>0, TakeFacts, TakeTyped, SentinelAssumption DEF StartReconcile, RecordsInv
<1>2. /\ ~reg.deleting /\ ~reg.archived /\ ~IsDraft(reg)
  BY <1>0, TakeFacts, AdmissibleFacts, AdmittedRest DEF StartReconcile, IsDraft, Submitted
<1>3. op'.pc = "reconcile.list" /\ op'.s = reg
  BY BeginFields DEF StartReconcile
<1>4. UNCHANGED <<reg, chat, attempts, worktrees, locked>>
  BY DEF StartReconcile, github
<1>5. WorkInv'
  BY <1>0, <1>1, <1>2, <1>3, <1>4
     DEF WorkInv, Continues, RecordSound, SubmissionPoints, CleanupPoints, DeletePoints,
         ManagementPoints, SwitchingPoints, CandidatePoints
<1>6. StandingInv'
  BY <1>0, <1>1, <1>2, <1>3, <1>4
     DEF StandingInv, SubmissionPoints, CleanupPoints, DeletePoints, ManagementPoints,
         SwitchingPoints, CandidatePoints
<1>7. RefreshInv'
  BY <1>0, <1>1, <1>2, <1>3, <1>4
     DEF RefreshInv, SubmissionPoints, CleanupPoints, DeletePoints, ManagementPoints,
         SwitchingPoints, CandidatePoints
<1>8. AnchorInv'
  BY <1>0, <1>1, <1>2, <1>3, <1>4
     DEF AnchorInv, RecordSound, SubmissionPoints, CleanupPoints, DeletePoints, ManagementPoints,
         SwitchingPoints, CandidatePoints
<1>9. QuietInv'
  BY <1>0, <1>1, <1>2, <1>3, <1>4
     DEF QuietInv, SubmissionPoints, CleanupPoints, DeletePoints, ManagementPoints,
         SwitchingPoints, CandidatePoints
<1> QED BY <1>5, <1>6, <1>7, <1>8, <1>9 DEF OpInv

(* A cleanup starts from the record.                                       *)
LEMMA StartCleanupWorks ==
  ASSUME Known, StartCleanup
  PROVE  OpInv'
<1>0. /\ Typed /\ RecordsAgree /\ DownIsIdle /\ OpKept
      /\ RecordsInv /\ QueueInv /\ WorkInv /\ StandingInv /\ RefreshInv /\ AnchorInv /\ QuietInv
  BY DEF Known, WorktreeInv, ReviewInv
<1>1. /\ op.pc = "idle" /\ phase # "down" /\ reg \in Session /\ RecordSound(reg)
      /\ reg # NoSession
  BY <1>0, TakeFacts, TakeTyped, SentinelAssumption DEF StartCleanup, RecordsInv
<1>2. /\ ~reg.deleting /\ ~reg.archived /\ ~IsDraft(reg)
  BY <1>0, TakeFacts, AdmissibleFacts, AdmittedRest DEF StartCleanup, IsDraft, Submitted
<1>3. op'.pc = "cleanup.seal" /\ op'.s = reg
  BY BeginFields DEF StartCleanup
<1>4. UNCHANGED <<reg, chat, attempts, worktrees, locked>>
  BY DEF StartCleanup, github
<1>5. WorkInv'
  BY <1>0, <1>1, <1>2, <1>3, <1>4
     DEF WorkInv, Continues, RecordSound, SubmissionPoints, CleanupPoints, DeletePoints,
         ManagementPoints, SwitchingPoints, CandidatePoints
<1>6. StandingInv'
  BY <1>0, <1>1, <1>2, <1>3, <1>4
     DEF StandingInv, SubmissionPoints, CleanupPoints, DeletePoints, ManagementPoints,
         SwitchingPoints, CandidatePoints
<1>7. RefreshInv'
  BY <1>0, <1>1, <1>2, <1>3, <1>4
     DEF RefreshInv, SubmissionPoints, CleanupPoints, DeletePoints, ManagementPoints,
         SwitchingPoints, CandidatePoints
<1>8. AnchorInv'
  BY <1>0, <1>1, <1>2, <1>3, <1>4
     DEF AnchorInv, RecordSound, SubmissionPoints, CleanupPoints, DeletePoints, ManagementPoints,
         SwitchingPoints, CandidatePoints
<1>9. QuietInv'
  BY <1>0, <1>1, <1>2, <1>3, <1>4
     DEF QuietInv, SubmissionPoints, CleanupPoints, DeletePoints, ManagementPoints,
         SwitchingPoints, CandidatePoints
<1> QED BY <1>5, <1>6, <1>7, <1>8, <1>9 DEF OpInv

(* A refresh starts from a record at rest, and shuts the gate.             *)
LEMMA StartRefreshWorks ==
  ASSUME Known, StartRefresh
  PROVE  OpInv'
<1>0. /\ Typed /\ RecordsAgree /\ DownIsIdle /\ OpKept
      /\ RecordsInv /\ QueueInv /\ WorkInv /\ StandingInv /\ RefreshInv /\ AnchorInv /\ QuietInv
  BY DEF Known, WorktreeInv, ReviewInv
<1>1. /\ op.pc = "idle" /\ phase # "down" /\ reg \in Session /\ RecordSound(reg)
      /\ reg # NoSession
  BY <1>0, TakeFacts, TakeTyped, SentinelAssumption DEF StartRefresh, RecordsInv
<1>2. ~reg.deleting /\ ~reg.archived /\ ~chat.active /\ Resolved(reg)
  BY <1>0, TakeFacts, AdmissibleFacts, AdmittedRest DEF StartRefresh
<1>3. op'.pc = "refresh.prepare" /\ op'.s = reg /\ locked'
  BY DEF StartRefresh, Idle
<1>4. UNCHANGED <<reg, chat, attempts>>
  BY DEF StartRefresh, github
<1>5. WorkInv'
  BY <1>0, <1>1, <1>2, <1>3, <1>4
     DEF WorkInv, Continues, RecordSound, SubmissionPoints, CleanupPoints, DeletePoints,
         ManagementPoints, SwitchingPoints, CandidatePoints
<1>6. StandingInv'
  BY <1>0, <1>1, <1>2, <1>3, <1>4
     DEF StandingInv, SubmissionPoints, CleanupPoints, DeletePoints, ManagementPoints,
         SwitchingPoints, CandidatePoints
<1>7. RefreshInv'
  BY <1>0, <1>1, <1>2, <1>3, <1>4
     DEF RefreshInv, SubmissionPoints, CleanupPoints, DeletePoints, ManagementPoints,
         SwitchingPoints, CandidatePoints
<1>8. AnchorInv'
  BY <1>0, <1>1, <1>2, <1>3, <1>4
     DEF AnchorInv, RecordSound, SubmissionPoints, CleanupPoints, DeletePoints, ManagementPoints,
         SwitchingPoints, CandidatePoints
<1>9. QuietInv'
  BY <1>0, <1>1, <1>2, <1>3, <1>4
     DEF QuietInv, SubmissionPoints, CleanupPoints, DeletePoints, ManagementPoints,
         SwitchingPoints, CandidatePoints
<1> QED BY <1>5, <1>6, <1>7, <1>8, <1>9 DEF OpInv

(* Archiving starts at rest, and shuts the gate.                           *)
LEMMA StartVisibilityWorks ==
  ASSUME Known, StartVisibility
  PROVE  OpInv'
<1>0. /\ Typed /\ RecordsAgree /\ DownIsIdle /\ OpKept
      /\ RecordsInv /\ QueueInv /\ WorkInv /\ StandingInv /\ RefreshInv /\ AnchorInv /\ QuietInv
  BY DEF Known, WorktreeInv, ReviewInv
<1>1. PICK kind \in {"archive", "restore", "open"} :
        Take(kind) /\ Begin("visibility.save", WithVisibility(kind)) /\ locked' = Gated(kind)
  BY DEF StartVisibility
<1>2. /\ op.pc = "idle" /\ reg \in Session /\ reg # NoSession /\ RecordSound(reg)
      /\ ~reg.deleting
      /\ kind = "archive" => ~chat.active /\ Resolved(reg)
  BY <1>0, <1>1, TakeFacts, TakeTyped, AdmissibleFacts, AdmittedRest, SentinelAssumption
  DEF RecordsInv
<1> DEFINE s == WithVisibility(kind)
<1>3. /\ Continues(s) /\ s.comments = reg.comments /\ s.sub = reg.sub
      /\ s.deleting = reg.deleting /\ s.archived = (kind = "archive")
  BY <1>2 DEF WithVisibility, Session, Continues
<1>4. AnchoredAt(s.comments, s.rev)
  BY <1>2, <1>3 DEF RecordSound, Continues
<1>5. op'.pc = "visibility.save" /\ op'.s = s
  BY <1>1, BeginFields
<1> HIDE DEF s
<1>6. UNCHANGED <<reg, chat, attempts>> /\ (kind = "archive" => locked')
  BY <1>1 DEF StartVisibility, Gated, github
<1>7. WorkInv'
  BY <1>0, <1>1, <1>2, <1>3, <1>4, <1>5, <1>6
     DEF WorkInv, Continues, SubmissionPoints, CleanupPoints, DeletePoints, ManagementPoints,
         SwitchingPoints, CandidatePoints
<1>8. StandingInv'
  BY <1>0, <1>1, <1>2, <1>3, <1>4, <1>5, <1>6
     DEF StandingInv, SubmissionPoints, CleanupPoints, DeletePoints, ManagementPoints,
         SwitchingPoints, CandidatePoints
<1>9. RefreshInv'
  BY <1>0, <1>1, <1>2, <1>3, <1>4, <1>5, <1>6
     DEF RefreshInv, SubmissionPoints, CleanupPoints, DeletePoints, ManagementPoints,
         SwitchingPoints, CandidatePoints
<1>10. AnchorInv'
  BY <1>0, <1>1, <1>2, <1>3, <1>4, <1>5, <1>6
     DEF AnchorInv, RecordSound, SubmissionPoints, CleanupPoints, DeletePoints, ManagementPoints,
         SwitchingPoints, CandidatePoints
<1>11. QuietInv'
  BY <1>0, <1>1, <1>2, <1>3, <1>4, <1>5, <1>6
     DEF QuietInv, Resolved, IsDraft, Submitted, SubmissionPoints, CleanupPoints, DeletePoints,
         ManagementPoints, SwitchingPoints, CandidatePoints
<1> QED BY <1>7, <1>8, <1>9, <1>10, <1>11 DEF OpInv

(* A deletion starts at rest, and shuts the gate.                          *)
LEMMA StartDeleteWorks ==
  ASSUME Known, StartDelete
  PROVE  OpInv'
<1>0. /\ Typed /\ RecordsAgree /\ DownIsIdle /\ OpKept
      /\ RecordsInv /\ QueueInv /\ WorkInv /\ StandingInv /\ RefreshInv /\ AnchorInv /\ QuietInv
  BY DEF Known, WorktreeInv, ReviewInv
<1>1. /\ op.pc = "idle" /\ phase # "down" /\ reg \in Session /\ RecordSound(reg)
      /\ reg # NoSession
  BY <1>0, TakeFacts, TakeTyped, SentinelAssumption DEF StartDelete, RecordsInv
<1>2. /\ reg.archived /\ ~chat.active /\ Resolved(reg)
  BY <1>0, TakeFacts, AdmissibleFacts, AdmittedRest DEF StartDelete
<1> DEFINE s == [reg EXCEPT !.deleting = TRUE]
<1>3. /\ Continues(s) /\ s.comments = reg.comments /\ s.sub = reg.sub
      /\ s.deleting /\ s.archived = reg.archived
  BY <1>1 DEF Session, Continues
<1>4. AnchoredAt(s.comments, s.rev)
  BY <1>1, <1>3 DEF RecordSound, Continues
<1>5. op'.s = s /\ op'.pc = IF reg.deleting THEN "delete.worktree" ELSE "delete.intent"
  BY BeginFields DEF StartDelete
<1> HIDE DEF s
<1>6. UNCHANGED <<reg, chat, attempts>> /\ locked'
  BY DEF StartDelete, github
<1>7. WorkInv'
  BY <1>0, <1>1, <1>2, <1>3, <1>4, <1>5, <1>6
     DEF WorkInv, Continues, SubmissionPoints, CleanupPoints, DeletePoints, ManagementPoints,
         SwitchingPoints, CandidatePoints
<1>8. StandingInv'
  BY <1>0, <1>1, <1>2, <1>3, <1>4, <1>5, <1>6
     DEF StandingInv, SubmissionPoints, CleanupPoints, DeletePoints, ManagementPoints,
         SwitchingPoints, CandidatePoints
<1>9. RefreshInv'
  BY <1>0, <1>1, <1>2, <1>3, <1>4, <1>5, <1>6
     DEF RefreshInv, SubmissionPoints, CleanupPoints, DeletePoints, ManagementPoints,
         SwitchingPoints, CandidatePoints
<1>10. AnchorInv'
  BY <1>0, <1>1, <1>2, <1>3, <1>4, <1>5, <1>6
     DEF AnchorInv, RecordSound, SubmissionPoints, CleanupPoints, DeletePoints, ManagementPoints,
         SwitchingPoints, CandidatePoints
<1>11. QuietInv'
  BY <1>0, <1>1, <1>2, <1>3, <1>4, <1>5, <1>6
     DEF QuietInv, Resolved, IsDraft, Submitted, SubmissionPoints, CleanupPoints, DeletePoints,
         ManagementPoints, SwitchingPoints, CandidatePoints
<1> QED BY <1>7, <1>8, <1>9, <1>10, <1>11 DEF OpInv

(* A submission draws a marker, once every comment is current.             *)
LEMMA PreflightPassesWorks ==
  ASSUME Known, PreflightPasses
  PROVE  OpInv'
<1>0. /\ Typed /\ RecordsAgree /\ DownIsIdle /\ OpKept
      /\ RecordsInv /\ QueueInv /\ WorkInv /\ StandingInv /\ RefreshInv /\ AnchorInv /\ QuietInv
  BY DEF Known, WorktreeInv, ReviewInv
<1>1. /\ op.s \in Session /\ reg \in Session /\ reg # NoSession
  BY <1>0 DEF PreflightPasses, Typed, TypeOK, OpTyped, WorkInv, OptionalSession
<1>2. op.pc = "submit.preflight" /\ op.s = reg /\ AllCurrent(op.s.comments) /\ IsDraft(reg)
  BY <1>0 DEF PreflightPasses, StandingInv, Submittable, AllCurrent
<1> DEFINE x == [status |-> "submitting", marker |-> attempts + 1, cleanup |-> "none"]
           s == [op.s EXCEPT !.sub = x]
<1>3. SameReview(s, op.s) /\ s.sub = x
  BY <1>1, SubmissionSame
<1>4. s.sub.status = "submitting" /\ s.sub.marker = attempts' 
  BY <1>3 DEF PreflightPasses
<1>5. op'.pc = "submit.save" /\ op'.s = s
  BY <1>0, GotoFields DEF PreflightPasses
<1> HIDE DEF x, s
<1>6. UNCHANGED <<reg, chat, worktrees, locked>>
  BY DEF PreflightPasses
<1>7. WorkInv'
  BY <1>0, <1>1, <1>2, <1>3, <1>4, <1>5, <1>6
     DEF WorkInv, Continues, SameReview, SubmissionPoints, CleanupPoints, DeletePoints,
         ManagementPoints, SwitchingPoints, CandidatePoints
<1>8. StandingInv'
  BY <1>0, <1>1, <1>2, <1>3, <1>4, <1>5, <1>6
     DEF StandingInv, SameReview, SubmissionPoints, CleanupPoints, DeletePoints, ManagementPoints,
         SwitchingPoints, CandidatePoints
<1>9. RefreshInv'
  BY <1>0, <1>1, <1>2, <1>3, <1>4, <1>5, <1>6
     DEF RefreshInv, SameReview, SubmissionPoints, CleanupPoints, DeletePoints, ManagementPoints,
         SwitchingPoints, CandidatePoints
<1>10. AnchorInv'
  BY <1>0, <1>1, <1>2, <1>3, <1>4, <1>5, <1>6
     DEF AnchorInv, SameReview, SubmissionPoints, CleanupPoints, DeletePoints, ManagementPoints,
         SwitchingPoints, CandidatePoints
<1>11. QuietInv'
  BY <1>0, <1>1, <1>2, <1>3, <1>4, <1>5, <1>6
     DEF QuietInv, SameReview, SubmissionPoints, CleanupPoints, DeletePoints, ManagementPoints,
         SwitchingPoints, CandidatePoints
<1> QED BY <1>7, <1>8, <1>9, <1>10, <1>11 DEF OpInv

(* The attempt is recorded before GitHub is asked.                         *)
LEMMA SaveSubmittingWorks ==
  ASSUME Known, SaveSubmitting
  PROVE  OpInv'
<1>0. /\ Typed /\ RecordsAgree /\ DownIsIdle /\ OpKept
      /\ RecordsInv /\ QueueInv /\ WorkInv /\ StandingInv /\ RefreshInv /\ AnchorInv /\ QuietInv
  BY DEF Known, WorktreeInv, ReviewInv
<1>1. /\ op.s \in Session /\ reg \in Session /\ reg # NoSession
  BY <1>0 DEF SaveSubmitting, Typed, TypeOK, OpTyped, WorkInv, OptionalSession
<1>2. /\ op.pc = "submit.save" /\ reg' = op.s /\ ~IsDraft(op.s)
      /\ op'.pc = "submit.create" /\ op'.s = op.s
  BY <1>0 DEF SaveSubmitting, Saved, Typed, TypeOK, Operation, StandingInv, IsDraft
<1>3. reg' # NoSession /\ Continues(op.s)'
  BY <1>1, <1>2, SentinelAssumption DEF Continues
<1>4. UNCHANGED <<chat, worktrees, locked, attempts>>
  BY DEF SaveSubmitting, github
<1>5. WorkInv'
  BY <1>0, <1>1, <1>2, <1>3, <1>4
     DEF WorkInv, Continues, SubmissionPoints, CleanupPoints, DeletePoints, ManagementPoints,
         SwitchingPoints, CandidatePoints
<1>6. StandingInv'
  BY <1>0, <1>1, <1>2, <1>3, <1>4
     DEF StandingInv, SubmissionPoints, CleanupPoints, DeletePoints, ManagementPoints,
         SwitchingPoints, CandidatePoints
<1>7. RefreshInv'
  BY <1>0, <1>1, <1>2, <1>3, <1>4
     DEF RefreshInv, SubmissionPoints, CleanupPoints, DeletePoints, ManagementPoints,
         SwitchingPoints, CandidatePoints
<1>8. AnchorInv'
  BY <1>0, <1>1, <1>2, <1>3, <1>4
     DEF AnchorInv, SubmissionPoints, CleanupPoints, DeletePoints, ManagementPoints,
         SwitchingPoints, CandidatePoints
<1>9. QuietInv'
  BY <1>0, <1>1, <1>2, <1>3, <1>4
     DEF QuietInv, SubmissionPoints, CleanupPoints, DeletePoints, ManagementPoints,
         SwitchingPoints, CandidatePoints
<1> QED BY <1>5, <1>6, <1>7, <1>8, <1>9 DEF OpInv

(* GitHub answers with the review.                                         *)
LEMMA CreateSucceedsWorks ==
  ASSUME Known, CreateSucceeds
  PROVE  OpInv'
<1>0. /\ Typed /\ RecordsAgree /\ DownIsIdle /\ OpKept
      /\ RecordsInv /\ QueueInv /\ WorkInv /\ StandingInv /\ RefreshInv /\ AnchorInv /\ QuietInv
  BY DEF Known, WorktreeInv, ReviewInv
<1>1. /\ op.s \in Session /\ reg \in Session /\ reg # NoSession
  BY <1>0 DEF CreateSucceeds, Typed, TypeOK, OpTyped, WorkInv, OptionalSession
<1>2. op.pc = "submit.create" /\ op.s = reg /\ ~IsDraft(reg)
  BY <1>0 DEF CreateSucceeds, StandingInv
<1>3. SameReview(WithReceipt(op.s), op.s)
  BY <1>1, SubmissionSame
<1>4. ~IsDraft(WithReceipt(op.s)) /\ WithReceipt(op.s).sub.marker = op.s.sub.marker
  BY <1>1, StatusIs, SubmissionSame
<1>5. op'.pc = "complete.save" /\ op'.s = WithReceipt(op.s)
  BY <1>0, GotoFields DEF CreateSucceeds
<1>6. UNCHANGED <<reg, chat, attempts, worktrees, locked>>
  BY DEF CreateSucceeds, github
<1>7. WorkInv'
  BY <1>0, <1>1, <1>2, <1>3, <1>4, <1>5, <1>6
     DEF WorkInv, Continues, SameReview, SubmissionPoints, CleanupPoints, DeletePoints,
         ManagementPoints, SwitchingPoints, CandidatePoints
<1>8. StandingInv'
  BY <1>0, <1>1, <1>2, <1>3, <1>4, <1>5, <1>6
     DEF StandingInv, SameReview, SubmissionPoints, CleanupPoints, DeletePoints, ManagementPoints,
         SwitchingPoints, CandidatePoints
<1>9. RefreshInv'
  BY <1>0, <1>1, <1>2, <1>3, <1>4, <1>5, <1>6
     DEF RefreshInv, SameReview, SubmissionPoints, CleanupPoints, DeletePoints, ManagementPoints,
         SwitchingPoints, CandidatePoints
<1>10. AnchorInv'
  BY <1>0, <1>1, <1>2, <1>3, <1>4, <1>5, <1>6
     DEF AnchorInv, SameReview, SubmissionPoints, CleanupPoints, DeletePoints, ManagementPoints,
         SwitchingPoints, CandidatePoints
<1>11. QuietInv'
  BY <1>0, <1>1, <1>2, <1>3, <1>4, <1>5, <1>6
     DEF QuietInv, SameReview, SubmissionPoints, CleanupPoints, DeletePoints, ManagementPoints,
         SwitchingPoints, CandidatePoints
<1> QED BY <1>7, <1>8, <1>9, <1>10, <1>11 DEF OpInv

(* GitHub refuses.                                                         *)
LEMMA CreateRefusedWorks ==
  ASSUME Known, CreateRefused
  PROVE  OpInv'
<1>0. /\ Typed /\ RecordsAgree /\ DownIsIdle /\ OpKept
      /\ RecordsInv /\ QueueInv /\ WorkInv /\ StandingInv /\ RefreshInv /\ AnchorInv /\ QuietInv
  BY DEF Known, WorktreeInv, ReviewInv
<1>1. /\ op.s \in Session /\ reg \in Session /\ reg # NoSession
  BY <1>0 DEF CreateRefused, Typed, TypeOK, OpTyped, WorkInv, OptionalSession
<1>2. op.pc = "submit.create" /\ op.s = reg /\ ~IsDraft(reg)
  BY <1>0 DEF CreateRefused, StandingInv
<1>3. SameReview(WithoutSubmission(op.s), op.s)
  BY <1>1, SubmissionSame
<1>4. WithoutSubmission(op.s).sub = NoSubmission
  BY <1>1, StatusIs, SubmissionSame
<1>5. op'.pc = "submit.drop" /\ op'.s = WithoutSubmission(op.s)
  BY <1>0, GotoFields DEF CreateRefused
<1>6. UNCHANGED <<reg, chat, attempts, worktrees, locked>>
  BY DEF CreateRefused, github
<1>7. WorkInv'
  BY <1>0, <1>1, <1>2, <1>3, <1>4, <1>5, <1>6
     DEF WorkInv, Continues, SameReview, SubmissionPoints, CleanupPoints, DeletePoints,
         ManagementPoints, SwitchingPoints, CandidatePoints
<1>8. StandingInv'
  BY <1>0, <1>1, <1>2, <1>3, <1>4, <1>5, <1>6
     DEF StandingInv, SameReview, SubmissionPoints, CleanupPoints, DeletePoints, ManagementPoints,
         SwitchingPoints, CandidatePoints
<1>9. RefreshInv'
  BY <1>0, <1>1, <1>2, <1>3, <1>4, <1>5, <1>6
     DEF RefreshInv, SameReview, SubmissionPoints, CleanupPoints, DeletePoints, ManagementPoints,
         SwitchingPoints, CandidatePoints
<1>10. AnchorInv'
  BY <1>0, <1>1, <1>2, <1>3, <1>4, <1>5, <1>6
     DEF AnchorInv, SameReview, SubmissionPoints, CleanupPoints, DeletePoints, ManagementPoints,
         SwitchingPoints, CandidatePoints
<1>11. QuietInv'
  BY <1>0, <1>1, <1>2, <1>3, <1>4, <1>5, <1>6
     DEF QuietInv, SameReview, SubmissionPoints, CleanupPoints, DeletePoints, ManagementPoints,
         SwitchingPoints, CandidatePoints
<1> QED BY <1>7, <1>8, <1>9, <1>10, <1>11 DEF OpInv

(* GitHub does not answer.                                                 *)
LEMMA CreateUnansweredWorks ==
  ASSUME Known, CreateUnanswered
  PROVE  OpInv'
<1>0. /\ Typed /\ RecordsAgree /\ DownIsIdle /\ OpKept
      /\ RecordsInv /\ QueueInv /\ WorkInv /\ StandingInv /\ RefreshInv /\ AnchorInv /\ QuietInv
  BY DEF Known, WorktreeInv, ReviewInv
<1>1. /\ op.s \in Session /\ reg \in Session /\ reg # NoSession
  BY <1>0 DEF CreateUnanswered, Typed, TypeOK, OpTyped, WorkInv, OptionalSession
<1>2. op.pc = "submit.create" /\ op.s = reg /\ ~IsDraft(reg)
  BY <1>0 DEF CreateUnanswered, StandingInv
<1>3. SameReview(WithStatus(op.s, "uncertain"), op.s)
  BY <1>1, SubmissionSame
<1>4. /\ ~IsDraft(WithStatus(op.s, "uncertain"))
      /\ WithStatus(op.s, "uncertain").sub.marker = op.s.sub.marker
  BY <1>1, StatusIs, SubmissionSame
<1>5. op'.pc = "submit.uncertain" /\ op'.s = WithStatus(op.s, "uncertain")
  BY <1>0, GotoFields DEF CreateUnanswered
<1>6. UNCHANGED <<reg, chat, attempts, worktrees, locked>>
  BY DEF CreateUnanswered, github
<1>7. WorkInv'
  BY <1>0, <1>1, <1>2, <1>3, <1>4, <1>5, <1>6
     DEF WorkInv, Continues, SameReview, SubmissionPoints, CleanupPoints, DeletePoints,
         ManagementPoints, SwitchingPoints, CandidatePoints
<1>8. StandingInv'
  BY <1>0, <1>1, <1>2, <1>3, <1>4, <1>5, <1>6
     DEF StandingInv, SameReview, SubmissionPoints, CleanupPoints, DeletePoints, ManagementPoints,
         SwitchingPoints, CandidatePoints
<1>9. RefreshInv'
  BY <1>0, <1>1, <1>2, <1>3, <1>4, <1>5, <1>6
     DEF RefreshInv, SameReview, SubmissionPoints, CleanupPoints, DeletePoints, ManagementPoints,
         SwitchingPoints, CandidatePoints
<1>10. AnchorInv'
  BY <1>0, <1>1, <1>2, <1>3, <1>4, <1>5, <1>6
     DEF AnchorInv, SameReview, SubmissionPoints, CleanupPoints, DeletePoints, ManagementPoints,
         SwitchingPoints, CandidatePoints
<1>11. QuietInv'
  BY <1>0, <1>1, <1>2, <1>3, <1>4, <1>5, <1>6
     DEF QuietInv, SameReview, SubmissionPoints, CleanupPoints, DeletePoints, ManagementPoints,
         SwitchingPoints, CandidatePoints
<1> QED BY <1>7, <1>8, <1>9, <1>10, <1>11 DEF OpInv

(* The doubt is recorded before GitHub is searched.                        *)
LEMMA SaveUncertainWorks ==
  ASSUME Known, SaveUncertain
  PROVE  OpInv'
<1>0. /\ Typed /\ RecordsAgree /\ DownIsIdle /\ OpKept
      /\ RecordsInv /\ QueueInv /\ WorkInv /\ StandingInv /\ RefreshInv /\ AnchorInv /\ QuietInv
  BY DEF Known, WorktreeInv, ReviewInv
<1>1. /\ op.s \in Session /\ reg \in Session /\ reg # NoSession
  BY <1>0 DEF SaveUncertain, Typed, TypeOK, OpTyped, WorkInv, OptionalSession
<1>2. /\ op.pc = "submit.uncertain" /\ reg' = op.s /\ ~IsDraft(op.s)
      /\ op'.pc = "reconcile.list" /\ op'.s = op.s
  BY <1>0 DEF SaveUncertain, Saved, Typed, TypeOK, Operation, StandingInv
<1>3. reg' # NoSession /\ Continues(op.s)'
  BY <1>1, <1>2, SentinelAssumption DEF Continues
<1>4. UNCHANGED <<chat, worktrees, locked, attempts>>
  BY DEF SaveUncertain, github
<1>5. WorkInv'
  BY <1>0, <1>1, <1>2, <1>3, <1>4
     DEF WorkInv, Continues, SubmissionPoints, CleanupPoints, DeletePoints, ManagementPoints,
         SwitchingPoints, CandidatePoints
<1>6. StandingInv'
  BY <1>0, <1>1, <1>2, <1>3, <1>4
     DEF StandingInv, SubmissionPoints, CleanupPoints, DeletePoints, ManagementPoints,
         SwitchingPoints, CandidatePoints
<1>7. RefreshInv'
  BY <1>0, <1>1, <1>2, <1>3, <1>4
     DEF RefreshInv, SubmissionPoints, CleanupPoints, DeletePoints, ManagementPoints,
         SwitchingPoints, CandidatePoints
<1>8. AnchorInv'
  BY <1>0, <1>1, <1>2, <1>3, <1>4
     DEF AnchorInv, SubmissionPoints, CleanupPoints, DeletePoints, ManagementPoints,
         SwitchingPoints, CandidatePoints
<1>9. QuietInv'
  BY <1>0, <1>1, <1>2, <1>3, <1>4
     DEF QuietInv, SubmissionPoints, CleanupPoints, DeletePoints, ManagementPoints,
         SwitchingPoints, CandidatePoints
<1> QED BY <1>5, <1>6, <1>7, <1>8, <1>9 DEF OpInv

(* The review was found, or was not posted.                                *)
LEMMA ListReviewsWorks ==
  ASSUME Known, ListReviews
  PROVE  OpInv'
<1>0. /\ Typed /\ RecordsAgree /\ DownIsIdle /\ OpKept
      /\ RecordsInv /\ QueueInv /\ WorkInv /\ StandingInv /\ RefreshInv /\ AnchorInv /\ QuietInv
  BY DEF Known, WorktreeInv, ReviewInv
<1>1. /\ op.s \in Session /\ reg \in Session /\ reg # NoSession
  BY <1>0 DEF ListReviews, Typed, TypeOK, OpTyped, WorkInv, OptionalSession
<1>2. op.pc = "reconcile.list" /\ op.s = reg /\ ~IsDraft(reg)
  BY <1>0 DEF ListReviews, StandingInv
<1>3. SameReview(WithReceipt(op.s), op.s) /\ SameReview(WithoutSubmission(op.s), op.s)
  BY <1>1, SubmissionSame
<1>4. /\ ~IsDraft(WithReceipt(op.s)) /\ WithReceipt(op.s).sub.marker = op.s.sub.marker
      /\ WithoutSubmission(op.s).sub = NoSubmission
  BY <1>1, StatusIs, SubmissionSame
<1>5. \/ op'.pc = "complete.save" /\ op'.s = WithReceipt(op.s)
      \/ op'.pc = "reconcile.drop" /\ op'.s = WithoutSubmission(op.s)
  BY <1>0, GotoFields DEF ListReviews
<1>6. UNCHANGED <<reg, chat, attempts, worktrees, locked>>
  BY DEF ListReviews, github
<1>7. WorkInv'
  BY <1>0, <1>1, <1>2, <1>3, <1>4, <1>5, <1>6
     DEF WorkInv, Continues, SameReview, SubmissionPoints, CleanupPoints, DeletePoints,
         ManagementPoints, SwitchingPoints, CandidatePoints
<1>8. StandingInv'
  BY <1>0, <1>1, <1>2, <1>3, <1>4, <1>5, <1>6
     DEF StandingInv, SameReview, SubmissionPoints, CleanupPoints, DeletePoints, ManagementPoints,
         SwitchingPoints, CandidatePoints
<1>9. RefreshInv'
  BY <1>0, <1>1, <1>2, <1>3, <1>4, <1>5, <1>6
     DEF RefreshInv, SameReview, SubmissionPoints, CleanupPoints, DeletePoints, ManagementPoints,
         SwitchingPoints, CandidatePoints
<1>10. AnchorInv'
  BY <1>0, <1>1, <1>2, <1>3, <1>4, <1>5, <1>6
     DEF AnchorInv, SameReview, SubmissionPoints, CleanupPoints, DeletePoints, ManagementPoints,
         SwitchingPoints, CandidatePoints
<1>11. QuietInv'
  BY <1>0, <1>1, <1>2, <1>3, <1>4, <1>5, <1>6
     DEF QuietInv, SameReview, SubmissionPoints, CleanupPoints, DeletePoints, ManagementPoints,
         SwitchingPoints, CandidatePoints
<1> QED BY <1>7, <1>8, <1>9, <1>10, <1>11 DEF OpInv

(* The receipt is recorded before the worktree goes.                       *)
LEMMA SaveReceiptWorks ==
  ASSUME Known, SaveReceipt
  PROVE  OpInv'
<1>0. /\ Typed /\ RecordsAgree /\ DownIsIdle /\ OpKept
      /\ RecordsInv /\ QueueInv /\ WorkInv /\ StandingInv /\ RefreshInv /\ AnchorInv /\ QuietInv
  BY DEF Known, WorktreeInv, ReviewInv
<1>1. /\ op.s \in Session /\ reg \in Session /\ reg # NoSession
  BY <1>0 DEF SaveReceipt, Typed, TypeOK, OpTyped, WorkInv, OptionalSession
<1>2. op.pc = "complete.save" /\ reg' = op.s /\ ~IsDraft(op.s)
  BY <1>0 DEF SaveReceipt, Saved, StandingInv
<1>3. op'.pc = "cleanup.seal" /\ op'.s = op.s
  BY <1>0, <1>1, GotoFields DEF SaveReceipt
<1>4. reg' # NoSession /\ Continues(op.s)'
  BY <1>1, <1>2, <1>3, SentinelAssumption DEF Continues
<1>5. UNCHANGED <<chat, worktrees, locked, attempts>>
  BY DEF SaveReceipt, github
<1>6. WorkInv'
  BY <1>0, <1>1, <1>2, <1>3, <1>4, <1>5
     DEF WorkInv, Continues, SubmissionPoints, CleanupPoints, DeletePoints, ManagementPoints,
         SwitchingPoints, CandidatePoints
<1>7. StandingInv'
  BY <1>0, <1>1, <1>2, <1>3, <1>4, <1>5
     DEF StandingInv, SubmissionPoints, CleanupPoints, DeletePoints, ManagementPoints,
         SwitchingPoints, CandidatePoints
<1>8. RefreshInv'
  BY <1>0, <1>1, <1>2, <1>3, <1>4, <1>5
     DEF RefreshInv, SubmissionPoints, CleanupPoints, DeletePoints, ManagementPoints,
         SwitchingPoints, CandidatePoints
<1>9. AnchorInv'
  BY <1>0, <1>1, <1>2, <1>3, <1>4, <1>5
     DEF AnchorInv, SubmissionPoints, CleanupPoints, DeletePoints, ManagementPoints,
         SwitchingPoints, CandidatePoints
<1>10. QuietInv'
  BY <1>0, <1>1, <1>2, <1>3, <1>4, <1>5
     DEF QuietInv, SubmissionPoints, CleanupPoints, DeletePoints, ManagementPoints,
         SwitchingPoints, CandidatePoints
<1> QED BY <1>6, <1>7, <1>8, <1>9, <1>10 DEF OpInv

(* A receipt that cannot be recorded leaves the attempt in doubt.          *)
LEMMA ReceiptSaveFailsWorks ==
  ASSUME Known, ReceiptSaveFails, op.trying
  PROVE  OpInv'
<1>0. /\ Typed /\ RecordsAgree /\ DownIsIdle /\ OpKept
      /\ RecordsInv /\ QueueInv /\ WorkInv /\ StandingInv /\ RefreshInv /\ AnchorInv /\ QuietInv
  BY DEF Known, WorktreeInv, ReviewInv
<1>1. /\ op.s \in Session /\ reg \in Session /\ reg # NoSession
  BY <1>0 DEF ReceiptSaveFails, Typed, TypeOK, OpTyped, WorkInv, OptionalSession
<1>2. /\ op.pc \in {"complete.save"} \cup CleanupPoints
      /\ ~IsDraft(reg) /\ op.s.sub.marker = reg.sub.marker
  BY <1>0 DEF ReceiptSaveFails, StandingInv, CleanupPoints
<1>3. SameReview(WithStatus(op.s, "uncertain"), op.s)
  BY <1>1, SubmissionSame
<1>4. /\ ~IsDraft(WithStatus(op.s, "uncertain"))
      /\ WithStatus(op.s, "uncertain").sub.marker = op.s.sub.marker
  BY <1>1, StatusIs
<1>5. op'.pc = "submit.uncertain" /\ op'.s = WithStatus(op.s, "uncertain")
  BY <1>0, GotoFields DEF ReceiptSaveFails
<1>6. UNCHANGED <<reg, chat, attempts, worktrees, locked>>
  BY DEF ReceiptSaveFails, github
<1>7. WorkInv'
  BY <1>0, <1>1, <1>2, <1>3, <1>4, <1>5, <1>6
     DEF WorkInv, Continues, SameReview, SubmissionPoints, CleanupPoints, DeletePoints,
         ManagementPoints, SwitchingPoints, CandidatePoints
<1>8. StandingInv'
  BY <1>0, <1>1, <1>2, <1>3, <1>4, <1>5, <1>6
     DEF StandingInv, SameReview, SubmissionPoints, CleanupPoints, DeletePoints, ManagementPoints,
         SwitchingPoints, CandidatePoints
<1>9. RefreshInv'
  BY <1>0, <1>1, <1>2, <1>3, <1>4, <1>5, <1>6
     DEF RefreshInv, SameReview, SubmissionPoints, CleanupPoints, DeletePoints, ManagementPoints,
         SwitchingPoints, CandidatePoints
<1>10. AnchorInv'
  BY <1>0, <1>1, <1>2, <1>3, <1>4, <1>5, <1>6
     DEF AnchorInv, SameReview, SubmissionPoints, CleanupPoints, DeletePoints, ManagementPoints,
         SwitchingPoints, CandidatePoints
<1>11. QuietInv'
  BY <1>0, <1>1, <1>2, <1>3, <1>4, <1>5, <1>6
     DEF QuietInv, SameReview, SubmissionPoints, CleanupPoints, DeletePoints, ManagementPoints,
         SwitchingPoints, CandidatePoints
<1> QED BY <1>7, <1>8, <1>9, <1>10, <1>11 DEF OpInv

(* The chat is sealed before the worktree goes.                            *)
LEMMA SealChatWorks ==
  ASSUME Known, SealChat
  PROVE  OpInv'
<1>0. /\ Typed /\ RecordsAgree /\ DownIsIdle /\ OpKept
      /\ RecordsInv /\ QueueInv /\ WorkInv /\ StandingInv /\ RefreshInv /\ AnchorInv /\ QuietInv
  BY DEF Known, WorktreeInv, ReviewInv
<1>1. /\ op.s \in Session /\ reg \in Session /\ reg # NoSession
  BY <1>0 DEF SealChat, Typed, TypeOK, OpTyped, WorkInv, OptionalSession
<1>2. /\ op.pc = "cleanup.seal" /\ ~IsDraft(reg) /\ ~IsDraft(op.s)
      /\ op.s.sub.marker = reg.sub.marker
  BY <1>0 DEF SealChat, StandingInv, CleanupPoints
<1>3. op'.pc = "cleanup.remove" /\ op'.s = op.s
  BY <1>0, GotoFields DEF SealChat
<1>4. ~chat'.active
  BY <1>0 DEF SealChat, Closable, Typed, TypeOK, ChatState
<1>5. UNCHANGED <<reg, worktrees, locked, attempts>>
  BY DEF SealChat, github
<1>6. WorkInv'
  BY <1>0, <1>1, <1>2, <1>3, <1>4, <1>5
     DEF WorkInv, Continues, SubmissionPoints, CleanupPoints, DeletePoints, ManagementPoints,
         SwitchingPoints, CandidatePoints
<1>7. StandingInv'
  BY <1>0, <1>1, <1>2, <1>3, <1>4, <1>5
     DEF StandingInv, SubmissionPoints, CleanupPoints, DeletePoints, ManagementPoints,
         SwitchingPoints, CandidatePoints
<1>8. RefreshInv'
  BY <1>0, <1>1, <1>2, <1>3, <1>4, <1>5
     DEF RefreshInv, SubmissionPoints, CleanupPoints, DeletePoints, ManagementPoints,
         SwitchingPoints, CandidatePoints
<1>9. AnchorInv'
  BY <1>0, <1>1, <1>2, <1>3, <1>4, <1>5
     DEF AnchorInv, SubmissionPoints, CleanupPoints, DeletePoints, ManagementPoints,
         SwitchingPoints, CandidatePoints
<1>10. QuietInv'
  BY <1>0, <1>1, <1>2, <1>3, <1>4, <1>5
     DEF QuietInv, SubmissionPoints, CleanupPoints, DeletePoints, ManagementPoints,
         SwitchingPoints, CandidatePoints
<1> QED BY <1>6, <1>7, <1>8, <1>9, <1>10 DEF OpInv

(* The chat cannot be sealed.                                              *)
LEMMA SealFailsWorks ==
  ASSUME Known, SealFails
  PROVE  OpInv'
<1>0. /\ Typed /\ RecordsAgree /\ DownIsIdle /\ OpKept
      /\ RecordsInv /\ QueueInv /\ WorkInv /\ StandingInv /\ RefreshInv /\ AnchorInv /\ QuietInv
  BY DEF Known, WorktreeInv, ReviewInv
<1>1. /\ op.s \in Session /\ reg \in Session /\ reg # NoSession
  BY <1>0 DEF SealFails, Typed, TypeOK, OpTyped, WorkInv, OptionalSession
<1>2. /\ op.pc = "cleanup.seal" /\ ~IsDraft(reg) /\ ~IsDraft(op.s)
      /\ op.s.sub.marker = reg.sub.marker
  BY <1>0 DEF SealFails, StandingInv, CleanupPoints
<1> DEFINE s == WithCleanup("failed")
<1>3. /\ SameReview(s, op.s) /\ ~IsDraft(s) /\ s.sub.marker = op.s.sub.marker
  BY <1>1, <1>2, SubmissionSame, StatusIs DEF WithCleanup
<1>4. op'.pc = "cleanup.save" /\ op'.s = s
  BY <1>0, GotoFields DEF SealFails
<1> HIDE DEF s
<1>5. UNCHANGED <<reg, worktrees, locked, attempts>>
  BY DEF SealFails, github
<1>6. WorkInv'
  BY <1>0, <1>1, <1>2, <1>3, <1>4, <1>5
     DEF WorkInv, Continues, SameReview, SubmissionPoints, CleanupPoints, DeletePoints,
         ManagementPoints, SwitchingPoints, CandidatePoints
<1>7. StandingInv'
  BY <1>0, <1>1, <1>2, <1>3, <1>4, <1>5
     DEF StandingInv, SameReview, SubmissionPoints, CleanupPoints, DeletePoints, ManagementPoints,
         SwitchingPoints, CandidatePoints
<1>8. RefreshInv'
  BY <1>0, <1>1, <1>2, <1>3, <1>4, <1>5
     DEF RefreshInv, SameReview, SubmissionPoints, CleanupPoints, DeletePoints, ManagementPoints,
         SwitchingPoints, CandidatePoints
<1>9. AnchorInv'
  BY <1>0, <1>1, <1>2, <1>3, <1>4, <1>5
     DEF AnchorInv, SameReview, SubmissionPoints, CleanupPoints, DeletePoints, ManagementPoints,
         SwitchingPoints, CandidatePoints
<1>10. QuietInv'
  BY <1>0, <1>1, <1>2, <1>3, <1>4, <1>5
     DEF QuietInv, SameReview, SubmissionPoints, CleanupPoints, DeletePoints, ManagementPoints,
         SwitchingPoints, CandidatePoints
<1> QED BY <1>6, <1>7, <1>8, <1>9, <1>10 DEF OpInv

(* The worktree of the posted review goes.                                 *)
LEMMA RemoveReviewedWorks ==
  ASSUME Known, RemoveReviewed
  PROVE  OpInv'
<1>0. /\ Typed /\ RecordsAgree /\ DownIsIdle /\ OpKept
      /\ RecordsInv /\ QueueInv /\ WorkInv /\ StandingInv /\ RefreshInv /\ AnchorInv /\ QuietInv
  BY DEF Known, WorktreeInv, ReviewInv
<1>1. /\ op.s \in Session /\ reg \in Session /\ reg # NoSession
  BY <1>0 DEF RemoveReviewed, Typed, TypeOK, OpTyped, WorkInv, OptionalSession
<1>2. /\ op.pc = "cleanup.remove" /\ ~IsDraft(reg) /\ ~IsDraft(op.s)
      /\ op.s.sub.marker = reg.sub.marker
  BY <1>0 DEF RemoveReviewed, StandingInv, CleanupPoints
<1> DEFINE s == WithCleanup("complete")
<1>3. /\ SameReview(s, op.s) /\ ~IsDraft(s) /\ s.sub.marker = op.s.sub.marker
  BY <1>1, <1>2, SubmissionSame, StatusIs DEF WithCleanup
<1>4. op'.pc = "cleanup.save" /\ op'.s = s
  BY <1>0, GotoFields DEF RemoveReviewed
<1> HIDE DEF s
<1>5. UNCHANGED <<reg, chat, locked, attempts>>
  BY DEF RemoveReviewed, github
<1>6. WorkInv'
  BY <1>0, <1>1, <1>2, <1>3, <1>4, <1>5
     DEF WorkInv, Continues, SameReview, SubmissionPoints, CleanupPoints, DeletePoints,
         ManagementPoints, SwitchingPoints, CandidatePoints
<1>7. StandingInv'
  BY <1>0, <1>1, <1>2, <1>3, <1>4, <1>5
     DEF StandingInv, SameReview, SubmissionPoints, CleanupPoints, DeletePoints, ManagementPoints,
         SwitchingPoints, CandidatePoints
<1>8. RefreshInv'
  BY <1>0, <1>1, <1>2, <1>3, <1>4, <1>5
     DEF RefreshInv, SameReview, SubmissionPoints, CleanupPoints, DeletePoints, ManagementPoints,
         SwitchingPoints, CandidatePoints
<1>9. AnchorInv'
  BY <1>0, <1>1, <1>2, <1>3, <1>4, <1>5
     DEF AnchorInv, SameReview, SubmissionPoints, CleanupPoints, DeletePoints, ManagementPoints,
         SwitchingPoints, CandidatePoints
<1>10. QuietInv'
  BY <1>0, <1>1, <1>2, <1>3, <1>4, <1>5
     DEF QuietInv, SameReview, SubmissionPoints, CleanupPoints, DeletePoints, ManagementPoints,
         SwitchingPoints, CandidatePoints
<1> QED BY <1>6, <1>7, <1>8, <1>9, <1>10 DEF OpInv

(* The worktree cannot be removed.                                         *)
LEMMA RemoveReviewedFailsWorks ==
  ASSUME Known, RemoveReviewedFails
  PROVE  OpInv'
<1>0. /\ Typed /\ RecordsAgree /\ DownIsIdle /\ OpKept
      /\ RecordsInv /\ QueueInv /\ WorkInv /\ StandingInv /\ RefreshInv /\ AnchorInv /\ QuietInv
  BY DEF Known, WorktreeInv, ReviewInv
<1>1. /\ op.s \in Session /\ reg \in Session /\ reg # NoSession
  BY <1>0 DEF RemoveReviewedFails, Typed, TypeOK, OpTyped, WorkInv, OptionalSession
<1>2. /\ op.pc = "cleanup.remove" /\ ~IsDraft(reg) /\ ~IsDraft(op.s)
      /\ op.s.sub.marker = reg.sub.marker
  BY <1>0 DEF RemoveReviewedFails, StandingInv, CleanupPoints
<1> DEFINE s == WithCleanup("failed")
<1>3. /\ SameReview(s, op.s) /\ ~IsDraft(s) /\ s.sub.marker = op.s.sub.marker
  BY <1>1, <1>2, SubmissionSame, StatusIs DEF WithCleanup
<1>4. op'.pc = "cleanup.save" /\ op'.s = s
  BY <1>0, GotoFields DEF RemoveReviewedFails
<1> HIDE DEF s
<1>5. UNCHANGED <<reg, chat, attempts, worktrees, locked>>
  BY DEF RemoveReviewedFails, github
<1>6. WorkInv'
  BY <1>0, <1>1, <1>2, <1>3, <1>4, <1>5
     DEF WorkInv, Continues, SameReview, SubmissionPoints, CleanupPoints, DeletePoints,
         ManagementPoints, SwitchingPoints, CandidatePoints
<1>7. StandingInv'
  BY <1>0, <1>1, <1>2, <1>3, <1>4, <1>5
     DEF StandingInv, SameReview, SubmissionPoints, CleanupPoints, DeletePoints, ManagementPoints,
         SwitchingPoints, CandidatePoints
<1>8. RefreshInv'
  BY <1>0, <1>1, <1>2, <1>3, <1>4, <1>5
     DEF RefreshInv, SameReview, SubmissionPoints, CleanupPoints, DeletePoints, ManagementPoints,
         SwitchingPoints, CandidatePoints
<1>9. AnchorInv'
  BY <1>0, <1>1, <1>2, <1>3, <1>4, <1>5
     DEF AnchorInv, SameReview, SubmissionPoints, CleanupPoints, DeletePoints, ManagementPoints,
         SwitchingPoints, CandidatePoints
<1>10. QuietInv'
  BY <1>0, <1>1, <1>2, <1>3, <1>4, <1>5
     DEF QuietInv, SameReview, SubmissionPoints, CleanupPoints, DeletePoints, ManagementPoints,
         SwitchingPoints, CandidatePoints
<1> QED BY <1>6, <1>7, <1>8, <1>9, <1>10 DEF OpInv

(* A candidate is the record in another worktree.                          *)
LEMMA PreparedWorks ==
  ASSUME Known, Prepared
  PROVE  OpInv'
<1>0. /\ Typed /\ RecordsAgree /\ DownIsIdle /\ OpKept
      /\ RecordsInv /\ QueueInv /\ WorkInv /\ StandingInv /\ RefreshInv /\ AnchorInv /\ QuietInv
  BY DEF Known, WorktreeInv, ReviewInv
<1>1. /\ op.s \in Session /\ reg \in Session /\ reg # NoSession
  BY <1>0 DEF Prepared, Typed, TypeOK, OpTyped, WorkInv, OptionalSession
<1>2. op.pc = "refresh.prepare"
  BY DEF Prepared
<1>3. op.prev = reg /\ Resolved(reg) /\ ~reg.archived
  BY <1>0, <1>2 DEF OpKept, RefreshInv, CandidatePoints
<1>4. ~reg.deleting /\ locked /\ ~chat.active
  BY <1>0, <1>2 DEF WorkInv, QuietInv, SwitchingPoints, CandidatePoints, DeletePoints
<1>5. AnchoredAt(reg.comments, reg.rev)
  BY <1>0, <1>1 DEF RecordsInv, RecordSound
<1>6. PICK g \in FreshGens : /\ op'.s = [op.prev EXCEPT !.gen = g]
                            /\ op'.pc \in {"refresh.map", "refresh.discard"}
  BY <1>0, GotoFields DEF Prepared
<1>7. /\ op'.s.rev = reg.rev /\ op'.s.comments = reg.comments /\ op'.s.sub = reg.sub
      /\ op'.s.history = reg.history
      /\ op'.s.archived = reg.archived /\ op'.s.deleting = reg.deleting
  BY <1>1, <1>3, <1>6 DEF Session
<1>8. UNCHANGED <<reg, chat, locked, attempts>>
  BY DEF Prepared, github
<1>9. WorkInv'
  BY <1>0, <1>1, <1>2, <1>3, <1>4, <1>5, <1>6, <1>7, <1>8
     DEF WorkInv, Continues, SubmissionPoints, CleanupPoints, DeletePoints, ManagementPoints,
         SwitchingPoints, CandidatePoints
<1>10. StandingInv'
  BY <1>0, <1>1, <1>2, <1>3, <1>4, <1>5, <1>6, <1>7, <1>8
     DEF StandingInv, SubmissionPoints, CleanupPoints, DeletePoints, ManagementPoints,
         SwitchingPoints, CandidatePoints
<1>11. RefreshInv'
  BY <1>0, <1>1, <1>2, <1>3, <1>4, <1>5, <1>6, <1>7, <1>8
     DEF RefreshInv, SubmissionPoints, CleanupPoints, DeletePoints, ManagementPoints,
         SwitchingPoints, CandidatePoints
<1>12. AnchorInv'
  BY <1>0, <1>1, <1>2, <1>3, <1>4, <1>5, <1>6, <1>7, <1>8
     DEF AnchorInv, SubmissionPoints, CleanupPoints, DeletePoints, ManagementPoints,
         SwitchingPoints, CandidatePoints
<1>13. QuietInv'
  BY <1>0, <1>1, <1>2, <1>3, <1>4, <1>5, <1>6, <1>7, <1>8
     DEF QuietInv, SubmissionPoints, CleanupPoints, DeletePoints, ManagementPoints,
         SwitchingPoints, CandidatePoints
<1> QED BY <1>9, <1>10, <1>11, <1>12, <1>13 DEF OpInv

(* An unchanged candidate is dropped.                                      *)
LEMMA DiscardCandidateWorks ==
  ASSUME Known, DiscardCandidate
  PROVE  OpInv'
<1>0. /\ Typed /\ RecordsAgree /\ DownIsIdle /\ OpKept
      /\ RecordsInv /\ QueueInv /\ WorkInv /\ StandingInv /\ RefreshInv /\ AnchorInv /\ QuietInv
  BY DEF Known, WorktreeInv, ReviewInv
<1>1. /\ op.s \in Session /\ reg \in Session /\ reg # NoSession
  BY <1>0 DEF DiscardCandidate, Typed, TypeOK, OpTyped, WorkInv, OptionalSession
<1>2. op.pc = "refresh.discard"
  BY DEF DiscardCandidate
<1>3. op.prev = reg /\ Resolved(reg) /\ ~reg.archived
  BY <1>0, <1>2 DEF OpKept, RefreshInv, CandidatePoints
<1>4. ~reg.deleting /\ locked /\ ~chat.active
  BY <1>0, <1>2 DEF WorkInv, QuietInv, SwitchingPoints, CandidatePoints, DeletePoints
<1>5. AnchoredAt(reg.comments, reg.rev)
  BY <1>0, <1>1 DEF RecordsInv, RecordSound
<1>6. op'.pc = "unchanged.save" /\ op'.s = reg
  BY <1>0, <1>3, GotoFields DEF DiscardCandidate
<1>7. UNCHANGED <<reg, chat, locked, attempts>>
  BY DEF DiscardCandidate, github
<1>8. WorkInv'
  BY <1>0, <1>1, <1>2, <1>3, <1>4, <1>5, <1>6, <1>7
     DEF WorkInv, Continues, SubmissionPoints, CleanupPoints, DeletePoints, ManagementPoints,
         SwitchingPoints, CandidatePoints
<1>9. StandingInv'
  BY <1>0, <1>1, <1>2, <1>3, <1>4, <1>5, <1>6, <1>7
     DEF StandingInv, SubmissionPoints, CleanupPoints, DeletePoints, ManagementPoints,
         SwitchingPoints, CandidatePoints
<1>10. RefreshInv'
  BY <1>0, <1>1, <1>2, <1>3, <1>4, <1>5, <1>6, <1>7
     DEF RefreshInv, SubmissionPoints, CleanupPoints, DeletePoints, ManagementPoints,
         SwitchingPoints, CandidatePoints
<1>11. AnchorInv'
  BY <1>0, <1>1, <1>2, <1>3, <1>4, <1>5, <1>6, <1>7
     DEF AnchorInv, SubmissionPoints, CleanupPoints, DeletePoints, ManagementPoints,
         SwitchingPoints, CandidatePoints
<1>12. QuietInv'
  BY <1>0, <1>1, <1>2, <1>3, <1>4, <1>5, <1>6, <1>7
     DEF QuietInv, SubmissionPoints, CleanupPoints, DeletePoints, ManagementPoints,
         SwitchingPoints, CandidatePoints
<1> QED BY <1>8, <1>9, <1>10, <1>11, <1>12 DEF OpInv

(* The comments are moved, or have gone into the history.                  *)
LEMMA MapCommentsWorks ==
  ASSUME Known, MapComments
  PROVE  OpInv'
<1>0. /\ Typed /\ RecordsAgree /\ DownIsIdle /\ OpKept
      /\ RecordsInv /\ QueueInv /\ WorkInv /\ StandingInv /\ RefreshInv /\ AnchorInv /\ QuietInv
  BY DEF Known, WorktreeInv, ReviewInv
<1>1. /\ op.s \in Session /\ reg \in Session /\ reg # NoSession
  BY <1>0 DEF MapComments, Typed, TypeOK, OpTyped, WorkInv, OptionalSession
<1>2. op.pc = "refresh.map"
  BY DEF MapComments
<1>3. op.prev = reg /\ Resolved(reg) /\ ~reg.archived
  BY <1>0, <1>2 DEF OpKept, RefreshInv, CandidatePoints
<1>4. ~reg.deleting /\ locked /\ ~chat.active
  BY <1>0, <1>2 DEF WorkInv, QuietInv, SwitchingPoints, CandidatePoints, DeletePoints
<1>5. /\ op.s.rev = reg.rev /\ op.s.history = reg.history
      /\ op.s.comments = reg.comments /\ op.s.sub = reg.sub
      /\ AnchoredAt(op.s.comments, op.s.rev)
  BY <1>0, <1>2 DEF RefreshInv, AnchorInv
<1>6. ~op.s.archived /\ ~op.s.deleting
  BY <1>0, <1>2 DEF WorkInv, QuietInv, ManagementPoints, DeletePoints
<1>7. /\ op'.pc = "refresh.chat" /\ Revises(op'.s, reg)
      /\ AnchoredAt(op'.s.comments, op'.s.rev) /\ ~op'.s.archived /\ ~op'.s.deleting
  <2>1. CASE Submitted(reg)
    BY <1>0, <1>1, <1>3, <1>5, <1>6, <2>1, GotoFields, RevisionSame DEF MapComments
  <2>2. CASE ~Submitted(reg)
    <3>1. IsDraft(reg)
      BY <1>3, <2>2 DEF Resolved
    <3>2. PICK found \in SUBSET CommentIds :
            Goto("refresh.chat", NextRevision(op.s, Relocated(op.s, found)))
      BY <1>3, <2>2 DEF MapComments
    <3> QED BY <1>0, <1>1, <1>5, <1>6, <3>1, <3>2, GotoFields, RevisionSame
  <2> QED BY <2>1, <2>2
<1>8. UNCHANGED <<reg, chat, attempts, worktrees, locked>>
  BY DEF MapComments, github
<1>9. WorkInv'
  BY <1>0, <1>1, <1>2, <1>3, <1>4, <1>5, <1>6, <1>7, <1>8
     DEF WorkInv, Continues, SubmissionPoints, CleanupPoints, DeletePoints, ManagementPoints,
         SwitchingPoints, CandidatePoints
<1>10. StandingInv'
  BY <1>0, <1>1, <1>2, <1>3, <1>4, <1>5, <1>6, <1>7, <1>8
     DEF StandingInv, SubmissionPoints, CleanupPoints, DeletePoints, ManagementPoints,
         SwitchingPoints, CandidatePoints
<1>11. RefreshInv'
  BY <1>0, <1>1, <1>2, <1>3, <1>4, <1>5, <1>6, <1>7, <1>8
     DEF RefreshInv, SubmissionPoints, CleanupPoints, DeletePoints, ManagementPoints,
         SwitchingPoints, CandidatePoints
<1>12. AnchorInv'
  BY <1>0, <1>1, <1>2, <1>3, <1>4, <1>5, <1>6, <1>7, <1>8
     DEF AnchorInv, SubmissionPoints, CleanupPoints, DeletePoints, ManagementPoints,
         SwitchingPoints, CandidatePoints
<1>13. QuietInv'
  BY <1>0, <1>1, <1>2, <1>3, <1>4, <1>5, <1>6, <1>7, <1>8
     DEF QuietInv, SubmissionPoints, CleanupPoints, DeletePoints, ManagementPoints,
         SwitchingPoints, CandidatePoints
<1> QED BY <1>9, <1>10, <1>11, <1>12, <1>13 DEF OpInv

(* The agent of the old worktree is closed.                                *)
LEMMA CloseOldAgentWorks ==
  ASSUME Known, CloseOldAgent
  PROVE  OpInv'
<1>0. /\ Typed /\ RecordsAgree /\ DownIsIdle /\ OpKept
      /\ RecordsInv /\ QueueInv /\ WorkInv /\ StandingInv /\ RefreshInv /\ AnchorInv /\ QuietInv
  BY DEF Known, WorktreeInv, ReviewInv
<1>1. /\ op.s \in Session /\ reg \in Session /\ reg # NoSession
  BY <1>0 DEF CloseOldAgent, Typed, TypeOK, OpTyped, WorkInv, OptionalSession
<1>2. op.pc = "refresh.chat"
  BY DEF CloseOldAgent
<1>3. op.prev = reg /\ Resolved(reg) /\ ~reg.archived
  BY <1>0, <1>2 DEF OpKept, RefreshInv, CandidatePoints
<1>4. ~reg.deleting /\ locked /\ ~chat.active
  BY <1>0, <1>2 DEF WorkInv, QuietInv, SwitchingPoints, CandidatePoints, DeletePoints
<1>5. op'.pc = "refresh.save" /\ op'.s = op.s
  BY <1>0, GotoFields DEF CloseOldAgent
<1>6. ~chat'.active /\ chat'.agent = NoGen
  BY <1>0, <1>4 DEF CloseOldAgent, Typed, TypeOK, ChatState
<1>7. UNCHANGED <<reg, worktrees, locked, attempts>>
  BY DEF CloseOldAgent, github
<1>8. WorkInv'
  BY <1>0, <1>1, <1>2, <1>3, <1>4, <1>5, <1>6, <1>7
     DEF WorkInv, Continues, SubmissionPoints, CleanupPoints, DeletePoints, ManagementPoints,
         SwitchingPoints, CandidatePoints
<1>9. StandingInv'
  BY <1>0, <1>1, <1>2, <1>3, <1>4, <1>5, <1>6, <1>7
     DEF StandingInv, SubmissionPoints, CleanupPoints, DeletePoints, ManagementPoints,
         SwitchingPoints, CandidatePoints
<1>10. RefreshInv'
  BY <1>0, <1>1, <1>2, <1>3, <1>4, <1>5, <1>6, <1>7
     DEF RefreshInv, SubmissionPoints, CleanupPoints, DeletePoints, ManagementPoints,
         SwitchingPoints, CandidatePoints
<1>11. AnchorInv'
  BY <1>0, <1>1, <1>2, <1>3, <1>4, <1>5, <1>6, <1>7
     DEF AnchorInv, SubmissionPoints, CleanupPoints, DeletePoints, ManagementPoints,
         SwitchingPoints, CandidatePoints
<1>12. QuietInv'
  BY <1>0, <1>1, <1>2, <1>3, <1>4, <1>5, <1>6, <1>7
     DEF QuietInv, SubmissionPoints, CleanupPoints, DeletePoints, ManagementPoints,
         SwitchingPoints, CandidatePoints
<1> QED BY <1>8, <1>9, <1>10, <1>11, <1>12 DEF OpInv

(* The agent cannot be closed: the refresh is undone.                      *)
LEMMA CloseOldAgentFailsWorks ==
  ASSUME Known, CloseOldAgentFails
  PROVE  OpInv'
<1>0. /\ Typed /\ RecordsAgree /\ DownIsIdle /\ OpKept
      /\ RecordsInv /\ QueueInv /\ WorkInv /\ StandingInv /\ RefreshInv /\ AnchorInv /\ QuietInv
  BY DEF Known, WorktreeInv, ReviewInv
<1>1. /\ op.s \in Session /\ reg \in Session /\ reg # NoSession
  BY <1>0 DEF CloseOldAgentFails, Typed, TypeOK, OpTyped, WorkInv, OptionalSession
<1>2. op.pc = "refresh.chat"
  BY DEF CloseOldAgentFails
<1>3. op.prev = reg /\ Resolved(reg) /\ ~reg.archived
  BY <1>0, <1>2 DEF OpKept, RefreshInv, CandidatePoints
<1>4. ~reg.deleting /\ locked /\ ~chat.active
  BY <1>0, <1>2 DEF WorkInv, QuietInv, SwitchingPoints, CandidatePoints, DeletePoints
<1>5. op'.pc = "refresh.rollback" /\ op'.s = op.s
  BY <1>0, GotoFields DEF CloseOldAgentFails
<1>6. ~chat'.active
  BY <1>0, <1>4 DEF CloseOldAgentFails, Typed, TypeOK, ChatState
<1>7. UNCHANGED <<reg, worktrees, locked, attempts>>
  BY DEF CloseOldAgentFails, github
<1>8. WorkInv'
  BY <1>0, <1>1, <1>2, <1>3, <1>4, <1>5, <1>6, <1>7
     DEF WorkInv, Continues, SubmissionPoints, CleanupPoints, DeletePoints, ManagementPoints,
         SwitchingPoints, CandidatePoints
<1>9. StandingInv'
  BY <1>0, <1>1, <1>2, <1>3, <1>4, <1>5, <1>6, <1>7
     DEF StandingInv, SubmissionPoints, CleanupPoints, DeletePoints, ManagementPoints,
         SwitchingPoints, CandidatePoints
<1>10. RefreshInv'
  BY <1>0, <1>1, <1>2, <1>3, <1>4, <1>5, <1>6, <1>7
     DEF RefreshInv, SubmissionPoints, CleanupPoints, DeletePoints, ManagementPoints,
         SwitchingPoints, CandidatePoints
<1>11. AnchorInv'
  BY <1>0, <1>1, <1>2, <1>3, <1>4, <1>5, <1>6, <1>7
     DEF AnchorInv, SubmissionPoints, CleanupPoints, DeletePoints, ManagementPoints,
         SwitchingPoints, CandidatePoints
<1>12. QuietInv'
  BY <1>0, <1>1, <1>2, <1>3, <1>4, <1>5, <1>6, <1>7
     DEF QuietInv, SubmissionPoints, CleanupPoints, DeletePoints, ManagementPoints,
         SwitchingPoints, CandidatePoints
<1> QED BY <1>8, <1>9, <1>10, <1>11, <1>12 DEF OpInv

(* A refresh that fails is undone.                                         *)
LEMMA RefreshFailsWorks ==
  ASSUME Known, RefreshFails
  PROVE  OpInv'
<1>0. /\ Typed /\ RecordsAgree /\ DownIsIdle /\ OpKept
      /\ RecordsInv /\ QueueInv /\ WorkInv /\ StandingInv /\ RefreshInv /\ AnchorInv /\ QuietInv
  BY DEF Known, WorktreeInv, ReviewInv
<1>1. /\ op.s \in Session /\ reg \in Session /\ reg # NoSession
  BY <1>0 DEF RefreshFails, Typed, TypeOK, OpTyped, WorkInv, OptionalSession
<1>2. op.pc \in {"refresh.discard", "refresh.map", "refresh.save"}
  BY DEF RefreshFails
<1>3. op.prev = reg /\ Resolved(reg) /\ ~reg.archived
  BY <1>0, <1>2 DEF OpKept, RefreshInv, CandidatePoints
<1>4. ~reg.deleting /\ locked /\ ~chat.active
  BY <1>0, <1>2 DEF WorkInv, QuietInv, SwitchingPoints, CandidatePoints, DeletePoints
<1>5. op'.pc = "refresh.rollback" /\ op'.s = op.s
  BY <1>0, GotoFields DEF RefreshFails
<1>6. UNCHANGED <<reg, chat, attempts, worktrees, locked>>
  BY DEF RefreshFails, github
<1>7. WorkInv'
  BY <1>0, <1>1, <1>2, <1>3, <1>4, <1>5, <1>6
     DEF WorkInv, Continues, SubmissionPoints, CleanupPoints, DeletePoints, ManagementPoints,
         SwitchingPoints, CandidatePoints
<1>8. StandingInv'
  BY <1>0, <1>1, <1>2, <1>3, <1>4, <1>5, <1>6
     DEF StandingInv, SubmissionPoints, CleanupPoints, DeletePoints, ManagementPoints,
         SwitchingPoints, CandidatePoints
<1>9. RefreshInv'
  BY <1>0, <1>1, <1>2, <1>3, <1>4, <1>5, <1>6
     DEF RefreshInv, SubmissionPoints, CleanupPoints, DeletePoints, ManagementPoints,
         SwitchingPoints, CandidatePoints
<1>10. AnchorInv'
  BY <1>0, <1>1, <1>2, <1>3, <1>4, <1>5, <1>6
     DEF AnchorInv, SubmissionPoints, CleanupPoints, DeletePoints, ManagementPoints,
         SwitchingPoints, CandidatePoints
<1>11. QuietInv'
  BY <1>0, <1>1, <1>2, <1>3, <1>4, <1>5, <1>6
     DEF QuietInv, SubmissionPoints, CleanupPoints, DeletePoints, ManagementPoints,
         SwitchingPoints, CandidatePoints
<1> QED BY <1>7, <1>8, <1>9, <1>10, <1>11 DEF OpInv

(* The new revision is recorded.                                           *)
LEMMA SaveRefreshWorks ==
  ASSUME Known, SaveRefresh
  PROVE  OpInv'
<1>0. /\ Typed /\ RecordsAgree /\ DownIsIdle /\ OpKept
      /\ RecordsInv /\ QueueInv /\ WorkInv /\ StandingInv /\ RefreshInv /\ AnchorInv /\ QuietInv
  BY DEF Known, WorktreeInv, ReviewInv
<1>1. /\ op.s \in Session /\ reg \in Session /\ reg # NoSession
  BY <1>0 DEF SaveRefresh, Typed, TypeOK, OpTyped, WorkInv, OptionalSession
<1>2. /\ op.pc = "refresh.save" /\ reg' = op.s
      /\ op'.pc = "idle" \/ (op'.pc = "refresh.retire" /\ op'.s = op.s)
  BY <1>0 DEF SaveRefresh, Saved, Typed, TypeOK, Operation, Idle
<1>3. reg' # NoSession
  BY <1>1, <1>2, SentinelAssumption
<1>4. UNCHANGED <<attempts>>
  BY DEF SaveRefresh, github
<1>5. WorkInv'
  BY <1>0, <1>1, <1>2, <1>3, <1>4
     DEF WorkInv, Continues, OptionalSession, SubmissionPoints, CleanupPoints, DeletePoints,
         ManagementPoints, SwitchingPoints, CandidatePoints
<1>6. StandingInv'
  BY <1>0, <1>1, <1>2, <1>3, <1>4
     DEF StandingInv, SubmissionPoints, CleanupPoints, DeletePoints, ManagementPoints,
         SwitchingPoints, CandidatePoints
<1>7. RefreshInv'
  BY <1>0, <1>1, <1>2, <1>3, <1>4
     DEF RefreshInv, SubmissionPoints, CleanupPoints, DeletePoints, ManagementPoints,
         SwitchingPoints, CandidatePoints
<1>8. AnchorInv'
  BY <1>0, <1>1, <1>2, <1>3, <1>4
     DEF AnchorInv, SubmissionPoints, CleanupPoints, DeletePoints, ManagementPoints,
         SwitchingPoints, CandidatePoints
<1>9. QuietInv'
  BY <1>0, <1>1, <1>2, <1>3, <1>4
     DEF QuietInv, SubmissionPoints, CleanupPoints, DeletePoints, ManagementPoints,
         SwitchingPoints, CandidatePoints
<1> QED BY <1>5, <1>6, <1>7, <1>8, <1>9 DEF OpInv

(* The deletion is recorded before the worktree goes.                      *)
LEMMA SaveIntentWorks ==
  ASSUME Known, SaveIntent
  PROVE  OpInv'
<1>0. /\ Typed /\ RecordsAgree /\ DownIsIdle /\ OpKept
      /\ RecordsInv /\ QueueInv /\ WorkInv /\ StandingInv /\ RefreshInv /\ AnchorInv /\ QuietInv
  BY DEF Known, WorktreeInv, ReviewInv
<1>1. /\ op.s \in Session /\ reg \in Session /\ reg # NoSession
  BY <1>0 DEF SaveIntent, Typed, TypeOK, OpTyped, WorkInv, OptionalSession
<1>2. /\ op.pc = "delete.intent" /\ reg' = op.s
      /\ locked /\ ~chat.active /\ Resolved(op.s) /\ op.s.archived
  BY <1>0 DEF SaveIntent, Saved, QuietInv, ManagementPoints, DeletePoints
<1>3. op'.pc = "delete.worktree" /\ op'.s = op.s
  BY <1>0, <1>1, GotoFields DEF SaveIntent
<1>4. reg' # NoSession /\ Continues(op.s)'
  BY <1>1, <1>2, <1>3, SentinelAssumption DEF Continues
<1>5. UNCHANGED <<chat, locked, attempts>>
  BY DEF SaveIntent, github
<1>6. WorkInv'
  BY <1>0, <1>1, <1>2, <1>3, <1>4, <1>5
     DEF WorkInv, Continues, SubmissionPoints, CleanupPoints, DeletePoints, ManagementPoints,
         SwitchingPoints, CandidatePoints
<1>7. StandingInv'
  BY <1>0, <1>1, <1>2, <1>3, <1>4, <1>5
     DEF StandingInv, SubmissionPoints, CleanupPoints, DeletePoints, ManagementPoints,
         SwitchingPoints, CandidatePoints
<1>8. RefreshInv'
  BY <1>0, <1>1, <1>2, <1>3, <1>4, <1>5
     DEF RefreshInv, SubmissionPoints, CleanupPoints, DeletePoints, ManagementPoints,
         SwitchingPoints, CandidatePoints
<1>9. AnchorInv'
  BY <1>0, <1>1, <1>2, <1>3, <1>4, <1>5
     DEF AnchorInv, SubmissionPoints, CleanupPoints, DeletePoints, ManagementPoints,
         SwitchingPoints, CandidatePoints
<1>10. QuietInv'
  BY <1>0, <1>1, <1>2, <1>3, <1>4, <1>5
     DEF QuietInv, SubmissionPoints, CleanupPoints, DeletePoints, ManagementPoints,
         SwitchingPoints, CandidatePoints
<1> QED BY <1>6, <1>7, <1>8, <1>9, <1>10 DEF OpInv

(* The worktree goes before the record.                                    *)
LEMMA DeleteWorktreeWorks ==
  ASSUME Known, DeleteWorktree
  PROVE  OpInv'
<1>0. /\ Typed /\ RecordsAgree /\ DownIsIdle /\ OpKept
      /\ RecordsInv /\ QueueInv /\ WorkInv /\ StandingInv /\ RefreshInv /\ AnchorInv /\ QuietInv
  BY DEF Known, WorktreeInv, ReviewInv
<1>1. /\ op.s \in Session /\ reg \in Session /\ reg # NoSession
  BY <1>0 DEF DeleteWorktree, Typed, TypeOK, OpTyped, WorkInv, OptionalSession
<1>2. /\ op.pc = "delete.worktree" /\ locked /\ ~chat.active /\ Resolved(op.s) /\ op.s.archived
  BY <1>0 DEF DeleteWorktree, QuietInv, ManagementPoints, DeletePoints
<1>3. op'.pc = "delete.record" /\ op'.s = op.s /\ op'.s.gen \notin worktrees'
  BY <1>0, <1>1, GotoFields DEF DeleteWorktree
<1>4. UNCHANGED <<reg, chat, locked, attempts>>
  BY DEF DeleteWorktree, github
<1>5. WorkInv'
  BY <1>0, <1>1, <1>2, <1>3, <1>4
     DEF WorkInv, Continues, SubmissionPoints, CleanupPoints, DeletePoints, ManagementPoints,
         SwitchingPoints, CandidatePoints
<1>6. StandingInv'
  BY <1>0, <1>1, <1>2, <1>3, <1>4
     DEF StandingInv, SubmissionPoints, CleanupPoints, DeletePoints, ManagementPoints,
         SwitchingPoints, CandidatePoints
<1>7. RefreshInv'
  BY <1>0, <1>1, <1>2, <1>3, <1>4
     DEF RefreshInv, SubmissionPoints, CleanupPoints, DeletePoints, ManagementPoints,
         SwitchingPoints, CandidatePoints
<1>8. AnchorInv'
  BY <1>0, <1>1, <1>2, <1>3, <1>4
     DEF AnchorInv, SubmissionPoints, CleanupPoints, DeletePoints, ManagementPoints,
         SwitchingPoints, CandidatePoints
<1>9. QuietInv'
  BY <1>0, <1>1, <1>2, <1>3, <1>4
     DEF QuietInv, SubmissionPoints, CleanupPoints, DeletePoints, ManagementPoints,
         SwitchingPoints, CandidatePoints
<1> QED BY <1>5, <1>6, <1>7, <1>8, <1>9 DEF OpInv

(***************************************************************************)
(* The steps outside the operation.                                        *)
(***************************************************************************)

(* An operation that runs shuts out the turns that could disturb it.       *)
LEMMA BeginTurnWorks == Known /\ BeginTurn => OpInv'
<1> SUFFICES ASSUME Known, BeginTurn PROVE OpInv'
  OBVIOUS
<1>0. /\ Typed /\ OpKept
      /\ WorkInv /\ StandingInv /\ RefreshInv /\ AnchorInv /\ QuietInv
  BY DEF Known, WorktreeInv, ReviewInv
<1>1. ~locked /\ ~Submitted(reg)
  BY DEF BeginTurn, AssertMutable, AssertCurrent, IsDraft, Submitted
<1>2. UNCHANGED <<reg, op, locked, attempts, worktrees>> /\ chat'.agent = chat.agent
  BY <1>0 DEF BeginTurn, github, Typed, TypeOK, ChatState
<1>3. op.pc # "cleanup.remove"
  BY <1>0, <1>1 DEF OpKept, CleanupPoints
<1>4. op.pc \notin SwitchingPoints /\ ~(op.pc \in ManagementPoints /\ op.s.archived)
  BY <1>0, <1>1 DEF QuietInv
<1>5. QuietInv'
  BY <1>0, <1>2, <1>3, <1>4 DEF QuietInv
<1>6. WorkInv' /\ StandingInv' /\ RefreshInv' /\ AnchorInv'
  BY <1>0, <1>2 DEF WorkInv, Continues, StandingInv, RefreshInv, AnchorInv
<1> QED BY <1>5, <1>6 DEF OpInv

(* Steps that leave the operation, its review and the gate alone.          *)
LEMMA OutsideWorks ==
  ASSUME Known, UNCHANGED <<reg, op, locked, attempts, worktrees>>,
         chat'.active => chat.active,
         ~chat.active /\ chat.agent = NoGen => chat'.agent = NoGen
  PROVE  OpInv'
<1>0. WorkInv /\ StandingInv /\ RefreshInv /\ AnchorInv /\ QuietInv
  BY DEF Known, ReviewInv
<1>1. WorkInv' /\ StandingInv' /\ RefreshInv' /\ AnchorInv'
  BY <1>0 DEF WorkInv, Continues, StandingInv, RefreshInv, AnchorInv
<1>2. QuietInv'
  BY <1>0 DEF QuietInv, SwitchingPoints, CandidatePoints
<1> QED BY <1>1, <1>2 DEF OpInv

(* The steps that end the operation, or find none.                         *)
LEMMA EndingSteps ==
  ASSUME Typed, WorktreeInv,
         \/ RefuseComment \/ SaveComment \/ SaveFails
         \/ PreflightFails \/ ListFails \/ SaveDraft \/ (ReceiptSaveFails /\ ~op.trying)
         \/ SaveCleanup \/ PrepareFails \/ SaveUnchanged \/ RetirePrevious
         \/ RollbackCandidate \/ SaveVisibility \/ DeleteFails \/ DeleteRecord
         \/ Crash \/ Restart \/ Sweep
  PROVE  op'.pc = "idle"
BY FinishFields
DEF RefuseComment, Take, SaveComment, SaveFails, PreflightFails, ListFails, SaveDraft,
    ReceiptSaveFails, SaveCleanup, PrepareFails, SaveUnchanged, RetirePrevious,
    RollbackCandidate, SaveVisibility, DeleteFails, DeleteRecord, Crash, Restart,
    Sweep, Pending, WorktreeInv, DownIsIdle

(* Every step keeps what the running operation knows.                      *)
LEMMA OpNext == Known /\ [Next]_vars => OpInv'
<1> SUFFICES ASSUME Known, [Next]_vars PROVE OpInv'
  OBVIOUS
<1>0. Typed /\ WorktreeInv
  BY DEF Known
<1>1. CASE \/ UNCHANGED vars \/ LateReviewArrives \/ Refuse
           \/ \E kind \in Kinds : RequestOperation(kind)
  BY <1>1, OutsideWorks DEF vars, LateReviewArrives, Refuse, RequestOperation, github
<1>2. CASE StartAgent \/ EndTurn \/ FailTurn
  <2>1. chat.active /\ UNCHANGED <<reg, op, locked, attempts, worktrees>>
    BY <1>2 DEF StartAgent, EndTurn, FailTurn, github
  <2> QED BY <2>1, OutsideWorks
<1>3. CASE CommentSteps
  BY <1>0, <1>3, StartCommentWorks, EndingSteps, IdleKnowsNothing DEF CommentSteps
<1>4. CASE SubmitSteps
  BY <1>0, <1>4, StartSubmitWorks, PreflightPassesWorks, EndingSteps, IdleKnowsNothing,
     SaveSubmittingWorks, CreateSucceedsWorks, CreateRefusedWorks, CreateUnansweredWorks,
     SaveUncertainWorks
  DEF SubmitSteps
<1>5. CASE ReceiptSteps
  BY <1>0, <1>5, StartReconcileWorks, ListReviewsWorks, EndingSteps, IdleKnowsNothing,
     SaveReceiptWorks, ReceiptSaveFailsWorks, StartCleanupWorks, SealChatWorks,
     SealFailsWorks, RemoveReviewedWorks, RemoveReviewedFailsWorks
  DEF ReceiptSteps
<1>6. CASE RefreshSteps
  BY <1>0, <1>6, StartRefreshWorks, PreparedWorks, DiscardCandidateWorks, MapCommentsWorks,
     CloseOldAgentWorks, CloseOldAgentFailsWorks, RefreshFailsWorks, SaveRefreshWorks,
     EndingSteps, IdleKnowsNothing
  DEF RefreshSteps
<1>7. CASE ManagementSteps
  BY <1>0, <1>7, StartVisibilityWorks, StartDeleteWorks, SaveIntentWorks,
     DeleteWorktreeWorks, EndingSteps, IdleKnowsNothing
  DEF ManagementSteps
<1>8. CASE SaveFails \/ Crash \/ Restart \/ Sweep
  BY <1>0, <1>8, EndingSteps, IdleKnowsNothing
<1> QED
  BY <1>1, <1>2, <1>3, <1>4, <1>5, <1>6, <1>7, <1>8, BeginTurnWorks
  DEF Next, OperationStep, ChatStep

(***************************************************************************)
(* What a step can do to the records, the reviews, the chat, the queue and *)
(* the worktrees.                                                          *)
(***************************************************************************)

(* A save writes what the operation holds; the chat goes on, unless the    *)
(* review changed to another worktree.                                     *)
Writes ==
  /\ op.pc \in SavePoints /\ Saved(op.s) /\ UNCHANGED <<phase, worktrees>>
  /\ chat' = chat \/ (op.pc = "refresh.save" /\ chat' = NoChat)

LEMMA RecordSteps ==
  ASSUME Typed, [Next]_vars
  PROVE  \/ UNCHANGED <<reg, disk>>
         \/ Writes \/ DeleteRecord \/ Crash \/ Restart
<1> USE DEF Writes, SavePoints, github
<1>1. CASE CommentSteps
  BY <1>1 DEF CommentSteps, StartComment, RefuseComment, SaveComment
<1>2. CASE SubmitSteps
  BY <1>2 DEF SubmitSteps, StartSubmit, PreflightPasses, PreflightFails, SaveSubmitting,
              CreateSucceeds, CreateRefused, CreateUnanswered, SaveUncertain
<1>3. CASE ReceiptSteps
  BY <1>3 DEF ReceiptSteps, StartReconcile, ListReviews, ListFails, SaveDraft, SaveReceipt,
              ReceiptSaveFails, StartCleanup, SealChat, SealFails, RemoveReviewed,
              RemoveReviewedFails, SaveCleanup
<1>4. CASE RefreshSteps
  BY <1>4 DEF RefreshSteps, StartRefresh, PrepareFails, Prepared, DiscardCandidate,
              SaveUnchanged, MapComments, CloseOldAgent, CloseOldAgentFails, RefreshFails,
              SaveRefresh, RetirePrevious, RollbackCandidate
<1>5. CASE ManagementSteps
  BY <1>5 DEF ManagementSteps, StartVisibility, SaveVisibility, StartDelete, SaveIntent,
              DeleteWorktree, DeleteFails
<1>6. CASE SaveFails \/ Refuse \/ ChatStep \/ Sweep \/ LateReviewArrives \/ UNCHANGED vars
           \/ \E kind \in Kinds : RequestOperation(kind)
  BY <1>6 DEF SaveFails, Refuse, ChatStep, BeginTurn, StartAgent, EndTurn, FailTurn, Sweep,
              LateReviewArrives, vars, RequestOperation
<1> QED BY <1>1, <1>2, <1>3, <1>4, <1>5, <1>6 DEF Next, OperationStep

(* GitHub gets one review, of the operation that creates it.               *)
LEMMA ReviewSteps ==
  ASSUME [Next]_vars
  PROVE  \/ UNCHANGED <<posted, late>>
         \/ LateReviewArrives
         \/ /\ op.pc = "submit.create"
            /\ Unanswered(ReviewOf(op.s)) \/ CreateSucceeds
<1> USE DEF github
<1>1. CASE CommentSteps
  BY <1>1 DEF CommentSteps, StartComment, RefuseComment, SaveComment
<1>2. CASE SubmitSteps
  BY <1>2 DEF SubmitSteps, StartSubmit, PreflightPasses, PreflightFails, SaveSubmitting,
              CreateSucceeds, CreateRefused, CreateUnanswered, SaveUncertain
<1>3. CASE ReceiptSteps
  BY <1>3 DEF ReceiptSteps, StartReconcile, ListReviews, ListFails, SaveDraft, SaveReceipt,
              ReceiptSaveFails, StartCleanup, SealChat, SealFails, RemoveReviewed,
              RemoveReviewedFails, SaveCleanup
<1>4. CASE RefreshSteps
  BY <1>4 DEF RefreshSteps, StartRefresh, PrepareFails, Prepared, DiscardCandidate,
              SaveUnchanged, MapComments, CloseOldAgent, CloseOldAgentFails, RefreshFails,
              SaveRefresh, RetirePrevious, RollbackCandidate
<1>5. CASE ManagementSteps
  BY <1>5 DEF ManagementSteps, StartVisibility, SaveVisibility, StartDelete, SaveIntent,
              DeleteWorktree, DeleteFails, DeleteRecord
<1>6. CASE SaveFails \/ Refuse \/ ChatStep \/ Sweep \/ LateReviewArrives \/ UNCHANGED vars
           \/ Crash \/ Restart \/ \E kind \in Kinds : RequestOperation(kind)
  BY <1>6 DEF SaveFails, Refuse, ChatStep, BeginTurn, StartAgent, EndTurn, FailTurn, Sweep,
              vars, Crash, Restart, RequestOperation
<1> QED BY <1>1, <1>2, <1>3, <1>4, <1>5, <1>6 DEF Next, OperationStep

(* A turn goes on or ends, but for the one that begins.                    *)
LEMMA ChatSteps ==
  ASSUME Typed, [Next]_vars
  PROVE  \/ ~chat'.active
         \/ BeginTurn
         \/ chat'.active = chat.active /\ chat'.turnGen = chat.turnGen
<1> USE DEF github, Typed, TypeOK, ChatState, NoChat
<1>1. CASE CommentSteps
  BY <1>1 DEF CommentSteps, StartComment, RefuseComment, SaveComment
<1>2. CASE SubmitSteps
  BY <1>2 DEF SubmitSteps, StartSubmit, PreflightPasses, PreflightFails, SaveSubmitting,
              CreateSucceeds, CreateRefused, CreateUnanswered, SaveUncertain
<1>3. CASE ReceiptSteps
  BY <1>3 DEF ReceiptSteps, StartReconcile, ListReviews, ListFails, SaveDraft, SaveReceipt,
              ReceiptSaveFails, StartCleanup, SealChat, SealFails, RemoveReviewed,
              RemoveReviewedFails, SaveCleanup
<1>4. CASE RefreshSteps
  BY <1>4 DEF RefreshSteps, StartRefresh, PrepareFails, Prepared, DiscardCandidate,
              SaveUnchanged, MapComments, CloseOldAgent, CloseOldAgentFails, RefreshFails,
              SaveRefresh, RetirePrevious, RollbackCandidate
<1>5. CASE ManagementSteps
  BY <1>5 DEF ManagementSteps, StartVisibility, SaveVisibility, StartDelete, SaveIntent,
              DeleteWorktree, DeleteFails, DeleteRecord
<1>6. CASE SaveFails \/ Refuse \/ Sweep \/ LateReviewArrives \/ UNCHANGED vars
           \/ Restart \/ \E kind \in Kinds : RequestOperation(kind)
  BY <1>6 DEF SaveFails, Refuse, Sweep, LateReviewArrives, vars, Restart, RequestOperation
<1>7. CASE StartAgent \/ EndTurn \/ FailTurn
  BY <1>7 DEF StartAgent, EndTurn, FailTurn, Quiet
<1>8. CASE Crash
  BY <1>8 DEF Crash
<1> QED BY <1>1, <1>2, <1>3, <1>4, <1>5, <1>6, <1>7, <1>8 DEF Next, OperationStep, ChatStep

(* Which step removes a worktree, and whose.                               *)
LEMMA WorktreeSteps ==
  ASSUME [Next]_vars
  PROVE  \/ worktrees \subseteq worktrees'
         \/ Sweep \/ Crash
         \/ /\ op.pc \in {"cleanup.remove", "refresh.discard", "refresh.rollback",
                          "delete.worktree"}
            /\ worktrees' = worktrees \ {op.s.gen}
         \/ op.pc = "refresh.retire" /\ worktrees' = worktrees \ {op.prev.gen}
<1> USE DEF github
<1>1. CASE CommentSteps
  BY <1>1 DEF CommentSteps, StartComment, RefuseComment, SaveComment
<1>2. CASE SubmitSteps
  BY <1>2 DEF SubmitSteps, StartSubmit, PreflightPasses, PreflightFails, SaveSubmitting,
              CreateSucceeds, CreateRefused, CreateUnanswered, SaveUncertain
<1>3. CASE ReceiptSteps
  BY <1>3 DEF ReceiptSteps, StartReconcile, ListReviews, ListFails, SaveDraft, SaveReceipt,
              ReceiptSaveFails, StartCleanup, SealChat, SealFails, RemoveReviewed,
              RemoveReviewedFails, SaveCleanup
<1>4. CASE RefreshSteps
  BY <1>4 DEF RefreshSteps, StartRefresh, PrepareFails, Prepared, DiscardCandidate,
              SaveUnchanged, MapComments, CloseOldAgent, CloseOldAgentFails, RefreshFails,
              SaveRefresh, RetirePrevious, RollbackCandidate
<1>5. CASE ManagementSteps
  BY <1>5 DEF ManagementSteps, StartVisibility, SaveVisibility, StartDelete, SaveIntent,
              DeleteWorktree, DeleteFails, DeleteRecord
<1>6. CASE SaveFails \/ Refuse \/ ChatStep \/ LateReviewArrives \/ UNCHANGED vars
           \/ Restart \/ \E kind \in Kinds : RequestOperation(kind)
  BY <1>6 DEF SaveFails, Refuse, ChatStep, BeginTurn, StartAgent, EndTurn, FailTurn,
              LateReviewArrives, vars, Restart, RequestOperation
<1> QED BY <1>1, <1>2, <1>3, <1>4, <1>5, <1>6 DEF Next, OperationStep

(* The daemon goes down in a crash only, and comes up as it starts.        *)
LEMMA PhaseSteps ==
  ASSUME [Next]_vars
  PROVE  \/ phase' = phase
         \/ Crash
         \/ phase \in {"down", "starting"} /\ phase' \in {"starting", "ready"}
<1> USE DEF github
<1>1. CASE CommentSteps
  BY <1>1 DEF CommentSteps, StartComment, RefuseComment, SaveComment
<1>2. CASE SubmitSteps
  BY <1>2 DEF SubmitSteps, StartSubmit, PreflightPasses, PreflightFails, SaveSubmitting,
              CreateSucceeds, CreateRefused, CreateUnanswered, SaveUncertain
<1>3. CASE ReceiptSteps
  BY <1>3 DEF ReceiptSteps, StartReconcile, ListReviews, ListFails, SaveDraft, SaveReceipt,
              ReceiptSaveFails, StartCleanup, SealChat, SealFails, RemoveReviewed,
              RemoveReviewedFails, SaveCleanup
<1>4. CASE RefreshSteps
  BY <1>4 DEF RefreshSteps, StartRefresh, PrepareFails, Prepared, DiscardCandidate,
              SaveUnchanged, MapComments, CloseOldAgent, CloseOldAgentFails, RefreshFails,
              SaveRefresh, RetirePrevious, RollbackCandidate
<1>5. CASE ManagementSteps
  BY <1>5 DEF ManagementSteps, StartVisibility, SaveVisibility, StartDelete, SaveIntent,
              DeleteWorktree, DeleteFails, DeleteRecord
<1>6. CASE SaveFails \/ Refuse \/ ChatStep \/ LateReviewArrives \/ UNCHANGED vars
           \/ Sweep \/ Restart \/ \E kind \in Kinds : RequestOperation(kind)
  BY <1>6 DEF SaveFails, Refuse, ChatStep, BeginTurn, StartAgent, EndTurn, FailTurn,
              LateReviewArrives, vars, Sweep, Restart, RequestOperation
<1> QED BY <1>1, <1>2, <1>3, <1>4, <1>5, <1>6 DEF Next, OperationStep

(* The queue loses its head, gains a request at its end, or starts anew.   *)
LEMMA QueueSteps ==
  ASSUME [Next]_vars
  PROVE  \/ queue' = queue \/ queue' = <<>> \/ queue' = Recovery(disk)
         \/ queue # <<>> /\ queue' = Tail(queue)
         \/ \E kind \in Kinds : RequestOperation(kind)
<1> USE DEF github, Take
<1>1. CASE CommentSteps
  BY <1>1 DEF CommentSteps, StartComment, RefuseComment, SaveComment
<1>2. CASE SubmitSteps
  BY <1>2 DEF SubmitSteps, StartSubmit, PreflightPasses, PreflightFails, SaveSubmitting,
              CreateSucceeds, CreateRefused, CreateUnanswered, SaveUncertain
<1>3. CASE ReceiptSteps
  BY <1>3 DEF ReceiptSteps, StartReconcile, ListReviews, ListFails, SaveDraft, SaveReceipt,
              ReceiptSaveFails, StartCleanup, SealChat, SealFails, RemoveReviewed,
              RemoveReviewedFails, SaveCleanup
<1>4. CASE RefreshSteps
  BY <1>4 DEF RefreshSteps, StartRefresh, PrepareFails, Prepared, DiscardCandidate,
              SaveUnchanged, MapComments, CloseOldAgent, CloseOldAgentFails, RefreshFails,
              SaveRefresh, RetirePrevious, RollbackCandidate
<1>5. CASE ManagementSteps
  BY <1>5 DEF ManagementSteps, StartVisibility, SaveVisibility, StartDelete, SaveIntent,
              DeleteWorktree, DeleteFails, DeleteRecord
<1>6. CASE SaveFails \/ Refuse \/ ChatStep \/ LateReviewArrives \/ UNCHANGED vars
           \/ Sweep \/ Crash \/ Restart
  BY <1>6 DEF SaveFails, Refuse, ChatStep, BeginTurn, StartAgent, EndTurn, FailTurn,
              LateReviewArrives, vars, Sweep, Crash, Restart
<1> QED BY <1>1, <1>2, <1>3, <1>4, <1>5, <1>6 DEF Next, OperationStep

(***************************************************************************)
(* ReviewInv is inductive.                                                 *)
(***************************************************************************)

(* What an operation is about to write may be written.                     *)
LEMMA WritesSound ==
  ASSUME Known, op.pc \in SavePoints
  PROVE  /\ RecordSound(op.s)
         /\ op.pc \notin {"refresh.save", "unchanged.save"} => op.s.gen = reg.gen
         /\ chat.active => ~op.s.archived
         /\ op.s \in Session /\ op.s # NoSession
<1>0. Typed /\ WorkInv /\ QuietInv /\ AnchorInv
  BY DEF Known, ReviewInv
<1>1. op.pc # "idle" /\ op.pc \notin {"delete.worktree", "delete.record"}
  BY DEF SavePoints
<1>2. AnchoredAt(op.s.comments, op.s.rev)
  BY <1>0, <1>1 DEF AnchorInv
<1>3. CASE op.pc \in ManagementPoints
  <2>1. op.s.deleting => op.s.archived
    BY <1>0, <1>3 DEF ManagementPoints, WorkInv, QuietInv
  <2>2. op.s.archived => Resolved(op.s) /\ ~chat.active
    BY <1>0, <1>3 DEF QuietInv
  <2>3. op.s.gen = reg.gen
    BY <1>0, <1>3 DEF WorkInv, Continues
  <2> QED BY <1>0, <1>1, <1>2, <2>1, <2>2, <2>3, SentinelAssumption
          DEF RecordSound, Typed, OpTyped
<1>4. CASE op.pc \notin ManagementPoints
  <2>1. ~op.s.deleting /\ ~op.s.archived
    BY <1>0, <1>1, <1>4 DEF WorkInv, QuietInv, ManagementPoints
  <2>2. ASSUME op.pc \notin {"refresh.save", "unchanged.save"} PROVE op.s.gen = reg.gen
    <3>1. op.pc \in {"comment.save"} \cup SubmissionPoints
      BY <1>4, <2>2 DEF SavePoints, SubmissionPoints, CleanupPoints, ManagementPoints,
                        DeletePoints
    <3> QED BY <1>0, <3>1 DEF WorkInv, Continues
  <2> QED BY <1>0, <1>1, <1>2, <2>1, <2>2, SentinelAssumption DEF RecordSound, Typed, OpTyped
<1> QED BY <1>3, <1>4

(* Every record is sound.                                                  *)
LEMMA RecordsNext == Known /\ [Next]_vars => RecordsInv'
<1> SUFFICES ASSUME Known, [Next]_vars PROVE RecordsInv'
  OBVIOUS
<1>0. Typed /\ RecordsInv
  BY DEF Known, ReviewInv
<1>1. RecordSound(NoSession)
  BY DEF RecordSound
<1>2. CASE UNCHANGED <<reg, disk>>
  <2>1. phase' = "down" => phase = "down" \/ Crash
    BY <1>2, PhaseSteps
  <2>2. Crash => reg' = NoSession
    BY DEF Crash
  <2> QED BY <1>0, <1>2, <2>1, <2>2 DEF RecordsInv, RecordSound
<1>3. CASE Writes
  <2>1. RecordSound(op.s) /\ phase # "down"
    BY <1>3, WritesSound, DownRunsNothing DEF Writes, SavePoints, Known, WorktreeInv
  <2>2. reg' = op.s /\ disk' = op.s /\ phase' = phase
    BY <1>3 DEF Writes, Saved
  <2> QED BY <2>1, <2>2 DEF RecordsInv, RecordSound
<1>4. CASE DeleteRecord
  BY <1>1, <1>4 DEF DeleteRecord, Saved, RecordsInv, RecordSound
<1>5. CASE Crash
  <2>1. \/ disk' = disk \/ disk' = NoSession
        \/ op.pc \in SavePoints /\ disk' = op.s
    BY <1>5 DEF Crash, DiskAfterCrash
  <2>2. RecordSound(disk)'
    BY <1>0, <1>1, <2>1, WritesSound DEF RecordsInv, RecordSound
  <2> QED BY <1>5, <2>2 DEF Crash, RecordsInv, RecordSound
<1>6. CASE Restart
  BY <1>0, <1>6 DEF Restart, RecordsInv, RecordSound
<1> QED BY <1>0, <1>2, <1>3, <1>4, <1>5, <1>6, RecordSteps

(* Every review GitHub may hold was verified.                              *)
LEMMA PostedNext == Known /\ [Next]_vars => PostedInv'
<1> SUFFICES ASSUME Known, [Next]_vars PROVE PostedInv'
  OBVIOUS
<1>0. PostedInv /\ AnchorInv
  BY DEF Known, ReviewInv
<1>1. \A r \in posted' \cup late' :
         \/ r \in posted \cup late
         \/ op.pc = "submit.create" /\ r = ReviewOf(op.s)
  BY ReviewSteps DEF LateReviewArrives, Unanswered, CreateSucceeds
<1>2. ASSUME op.pc = "submit.create"
      PROVE  LET r == ReviewOf(op.s) IN AllCurrent(r.comments) /\ AnchoredAt(r.comments, r.rev)
  BY <1>0, <1>2 DEF AnchorInv, ReviewOf
<1> QED BY <1>0, <1>1, <1>2 DEF PostedInv

(* A turn keeps to its review.                                             *)
LEMMA ChatNext == Known /\ [Next]_vars => ChatInv'
<1> SUFFICES ASSUME Known, [Next]_vars, chat'.active PROVE ChatInv'
  BY DEF ChatInv
<1>0. /\ Typed /\ WorktreeInv /\ ChatInv /\ QuietInv
  BY DEF Known, ReviewInv
<1>1. CASE BeginTurn
  BY <1>0, <1>1 DEF BeginTurn, AssertMutable, AssertCurrent, ChatInv, Typed, TypeOK, ChatState
<1>2. CASE chat.active /\ chat'.turnGen = chat.turnGen
  <2>0. phase = "ready" /\ ~Crash
    BY <1>0, <1>2 DEF ChatInv, Crash, NoChat
  <2>1. phase' = phase
    BY <2>0, PhaseSteps
  <2>2. CASE UNCHANGED <<reg, disk>>
    BY <1>0, <1>2, <2>1, <2>2 DEF ChatInv
  <2>3. CASE Writes
    <3>1. op.pc \notin {"refresh.save", "unchanged.save"}
      BY <1>0, <1>2 DEF QuietInv, SwitchingPoints, CandidatePoints
    <3>2. op.s.gen = reg.gen /\ ~op.s.archived /\ op.s # NoSession
      BY <1>2, <2>3, <3>1, WritesSound DEF Writes
    <3> QED BY <1>0, <1>2, <2>1, <2>3, <3>2 DEF Writes, Saved, ChatInv
  <2>4. CASE DeleteRecord \/ Crash
    BY <2>4 DEF DeleteRecord, Crash, NoChat
  <2>5. CASE Restart
    BY <1>0, <1>2, <2>5 DEF Restart, ChatInv
  <2> QED BY <1>0, <2>2, <2>3, <2>4, <2>5, RecordSteps
<1> QED BY <1>0, <1>1, <1>2, ChatSteps

(* Requests keep their revision.                                           *)
LEMMA QueueNext == Known /\ [Next]_vars => QueueInv'
<1> SUFFICES ASSUME Known, [Next]_vars PROVE QueueInv'
  OBVIOUS
<1>0. QueueInv /\ queue \in Seq(Request) /\ reg \in OptionalSession
  BY DEF Known, ReviewInv, Typed, TypeOK
<1>1. CASE queue' = queue
  BY <1>0, <1>1 DEF QueueInv
<1>2. CASE queue' = <<>> \/ queue' = Recovery(disk)
  BY <1>2 DEF QueueInv, Recovery
<1>3. CASE queue # <<>> /\ queue' = Tail(queue)
  BY <1>0, <1>3 DEF QueueInv
<1>4. ASSUME NEW kind \in Kinds, RequestOperation(kind) PROVE QueueInv'
  <2> DEFINE req == [kind |-> kind, rev |-> IF kind = "open" THEN NoRev ELSE reg.rev]
  <2>1. reg.rev \in Nat
    BY <1>0, <1>4 DEF RequestOperation, OptionalSession, Session
  <2>2. req.kind = "comment" => req.rev # NoRev
    BY <2>1 DEF NoRev
  <2>3. queue' = Append(queue, req)
    BY <1>4 DEF RequestOperation
  <2> HIDE DEF req
  <2> QED BY <1>0, <2>2, <2>3 DEF QueueInv
<1> QED BY <1>1, <1>2, <1>3, <1>4, QueueSteps

(* It holds at the start.                                                  *)
LEMMA ReviewInit == Init => ReviewInv
<1> SUFFICES ASSUME Init PROVE ReviewInv
  OBVIOUS
<1>1. op.pc = "idle" /\ ~chat.active /\ queue = <<>> /\ phase = "ready"
  BY DEF Init, Idle, NoChat
<1>2. RecordsInv
  BY DEF Init, NewReview, NoComments, RecordsInv, RecordSound, AnchoredAt
<1>3. PostedInv /\ ChatInv /\ QueueInv
  BY <1>1 DEF Init, PostedInv, ChatInv, QueueInv
<1>4. WorkInv /\ StandingInv /\ RefreshInv /\ AnchorInv /\ QuietInv
  BY <1>1 DEF WorkInv, StandingInv, RefreshInv, AnchorInv, QuietInv, SubmissionPoints,
              CleanupPoints, DeletePoints, ManagementPoints, SwitchingPoints, CandidatePoints
<1> QED BY <1>2, <1>3, <1>4 DEF ReviewInv

(* Every step keeps it.                                                    *)
LEMMA ReviewNext == Known /\ [Next]_vars => ReviewInv'
BY RecordsNext, PostedNext, ChatNext, QueueNext, OpNext DEF OpInv, ReviewInv

(* All that is known of a state holds in every behavior.                   *)
THEOREM ReviewAlways == Spec => []Known
<1>1. Init => Known
  BY TypedInit, WorktreeInit, ReviewInit DEF Known
<1>2. Known /\ [Next]_vars => Known'
  BY TypedNext, WorktreeNext, ReviewNext DEF Known
<1> QED BY <1>1, <1>2, PTL DEF Spec

(***************************************************************************)
(* The properties of the record, its comments and its chat.                *)
(***************************************************************************)

(* An archived review is at rest, in every behavior: no turn runs in it,   *)
(* and nothing it submitted is unresolved, although both are checked       *)
(* before awaits at which turns and submissions may begin.                 *)
THEOREM ArchivedAlwaysQuiet == Spec => []ArchivedIsQuiet
<1>1. Known => ArchivedIsQuiet
  BY DEF Known, ReviewInv, ArchivedIsQuiet, RecordsInv, RecordSound, ChatInv
<1> QED BY <1>1, ReviewAlways, PTL

(* A comment that says it is anchored was verified against the revision    *)
(* that holds it, and every comment GitHub holds was.                      *)
THEOREM AnchorsAlwaysVerified == Spec => []AnchorsVerified
<1>1. Known => AnchorsVerified
  BY DEF Known, ReviewInv, AnchorsVerified, RecordsInv, RecordSound, PostedInv
<1> QED BY <1>1, ReviewAlways, PTL

(* No step removes the worktree of a turn, or moves the review away from   *)
(* its turn or its agent.                                                  *)
THEOREM TurnsAlwaysUndisturbed == Spec => TurnsUndisturbed
<1>1. ASSUME Known, [Next]_vars
      PROVE  chat.active /\ chat'.active
               => (chat.turnGen \in worktrees => chat.turnGen \in worktrees')
  <2> SUFFICES ASSUME chat.active, chat'.active, chat.turnGen \in worktrees
               PROVE  chat.turnGen \in worktrees'
    OBVIOUS
  <2>0. /\ OpKept /\ phase = "ready" /\ chat.turnGen = reg.gen
        /\ QuietInv
    BY <1>1 DEF Known, WorktreeInv, ReviewInv, ChatInv
  <2>1. ~Sweep /\ ~Crash
    BY <2>0 DEF Sweep, Crash, NoChat
  <2>2. op.pc \notin {"cleanup.remove", "delete.worktree"} \cup SwitchingPoints
    BY <2>0 DEF QuietInv, DeletePoints, ManagementPoints
  <2>3. op.pc = "refresh.retire" => op.prev.gen # reg.gen
    BY <2>0 DEF OpKept
  <2> QED BY <1>1, <2>0, <2>1, <2>2, <2>3, WorktreeSteps DEF SwitchingPoints
<1>2. ASSUME Known, [Next]_vars
      PROVE  reg # NoSession /\ reg' # NoSession /\ reg'.gen # reg.gen
               => ~chat.active /\ chat.agent = NoGen
  <2> SUFFICES ASSUME reg # NoSession, reg' # NoSession, reg'.gen # reg.gen
               PROVE  ~chat.active /\ chat.agent = NoGen
    OBVIOUS
  <2>1. ~DeleteRecord /\ ~Crash
    BY DEF DeleteRecord, Saved, Crash
  <2>2. ~Restart
    BY <1>2 DEF Restart, Known, ReviewInv, RecordsInv
  <2>3. Writes
    BY <1>2, <2>1, <2>2, RecordSteps DEF Known
  <2>4. op.s.gen # reg.gen
    BY <2>3 DEF Writes, Saved
  <2>5. op.pc # "unchanged.save"
    BY <1>2, <2>4 DEF Known, WorktreeInv, OpKept
  <2>6. op.pc = "refresh.save"
    BY <1>2, <2>3, <2>4, <2>5, WritesSound DEF Writes
  <2> QED BY <1>2, <2>6 DEF Known, ReviewInv, QuietInv, SwitchingPoints, CandidatePoints
<1> QED BY <1>1, <1>2, ReviewAlways, PTL
        DEF Spec, TurnsUndisturbed, TurnKeepsWorktree, SwitchesQuietly

(* A deletion is never withdrawn, begins only at rest, and forgets the     *)
(* record only after the worktree, across crashes.                         *)
THEOREM DeletionAlwaysOrdered == Spec => DeletionOrder
<1> DEFINE Ordered ==
      /\ disk # NoSession /\ disk' = NoSession => disk.deleting /\ disk.gen \notin worktrees
      /\ disk # NoSession /\ disk' # NoSession => (disk.deleting => disk' = disk)
      /\ disk # NoSession /\ disk' # NoSession /\ disk'.deleting
           => disk'.archived /\ Resolved(disk')
<1>1. ASSUME Known, [Next]_vars PROVE Ordered
  <2>0. /\ Typed /\ OpKept /\ RecordsAgree /\ DownIsIdle /\ WorkInv /\ QuietInv
        /\ RecordSound(disk')
    BY <1>1, RecordsNext DEF Known, WorktreeInv, ReviewInv, RecordsInv, RecordSound
  <2>1. disk' # NoSession /\ disk'.deleting => disk'.archived /\ Resolved(disk')
    BY <2>0 DEF RecordSound
  <2>2. \/ disk' = disk
        \/ op.pc \in SavePoints /\ disk' = op.s
        \/ op.pc = "delete.record" /\ disk' = NoSession
    BY <1>1, <2>0, RecordSteps DEF Writes, Saved, DeleteRecord, Crash, DiskAfterCrash, Restart
  <2>3. ASSUME op.pc \in SavePoints, disk' = op.s PROVE disk' # NoSession /\ ~disk.deleting
    <3>1. disk' # NoSession
      BY <1>1, <2>3, WritesSound
    <3>2. disk = reg /\ ~reg.deleting
      BY <2>0, <2>3, DownRunsNothing DEF RecordsAgree, WorkInv, SavePoints
    <3> QED BY <3>1, <3>2
  <2>4. ASSUME op.pc = "delete.record" PROVE disk.deleting /\ disk.gen \notin worktrees
    BY <2>0, <2>4, DownRunsNothing
    DEF RecordsAgree, OpKept, WorkInv, QuietInv, Continues, ManagementPoints, DeletePoints
  <2> QED BY <2>1, <2>2, <2>3, <2>4
<1> QED BY <1>1, ReviewAlways, PTL DEF Spec, DeletionOrder

(* No write loses or rewrites a draft comment, but for the request that    *)
(* was made about the revision it is in, or into the history.              *)
THEOREM CommentsAlwaysSurvive == Spec => CommentsSurvive
<1> DEFINE Survive ==
      disk # NoSession /\ disk' # NoSession =>
        \A id \in CommentIds : disk.comments[id] # Absent =>
          KeepsText(id) \/ ChangedHere(id) \/ MovedToHistory(id)
<1>1. ASSUME Known, [Next]_vars PROVE Survive
  <2> SUFFICES ASSUME disk # NoSession, disk' # NoSession,
                      NEW id \in CommentIds, disk.comments[id] # Absent
               PROVE  KeepsText(id) \/ ChangedHere(id) \/ MovedToHistory(id)
    OBVIOUS
  <2>0. /\ Typed /\ OpKept /\ RecordsAgree /\ DownIsIdle /\ WorkInv /\ RefreshInv
    BY <1>1 DEF Known, WorktreeInv, ReviewInv
  <2>1. CASE disk' = disk
    BY <2>1 DEF KeepsText
  <2>2. CASE op.pc \in SavePoints /\ disk' = op.s
    <3>1. disk = reg
      BY <2>0, <2>2, DownRunsNothing DEF RecordsAgree, SavePoints
    <3>2. CASE op.pc = "comment.save"
      <4>1. op.rev = disk.rev
        BY <2>0, <3>1, <3>2 DEF WorkInv
      <4> QED BY <2>2, <3>2, <4>1 DEF KeepsText, ChangedHere
    <3>3. CASE op.pc \in SubmissionPoints \cup ManagementPoints
      BY <2>0, <2>2, <3>1, <3>3 DEF WorkInv, KeepsText
    <3>4. CASE op.pc = "unchanged.save"
      BY <2>0, <2>2, <3>1, <3>4 DEF OpKept, KeepsText
    <3>5. CASE op.pc = "refresh.save"
      <4>1. Revises(disk', disk)
        BY <2>0, <2>2, <3>1, <3>5 DEF RefreshInv
      <4>2. CASE disk'.history = Append(disk.history, ReviewOf(disk))
        <5>1. disk.history \in Seq(Review)
          BY <2>0, <3>1 DEF Typed, TypeOK, OptionalSession, Session
        <5> QED BY <4>2, <5>1 DEF MovedToHistory, ReviewOf
      <4> QED BY <4>1, <4>2 DEF Revises, KeepsText
    <3> QED BY <2>2, <3>2, <3>3, <3>4, <3>5
            DEF SavePoints, SubmissionPoints, CleanupPoints, ManagementPoints, DeletePoints
  <2>3. \/ disk' = disk
        \/ op.pc \in SavePoints /\ disk' = op.s
    BY <1>1, <2>0, RecordSteps DEF Writes, Saved, DeleteRecord, Crash, DiskAfterCrash, Restart
  <2> QED BY <2>1, <2>2, <2>3
<1> QED BY <1>1, ReviewAlways, PTL DEF Spec, CommentsSurvive

(***************************************************************************)
(* What GitHub holds, and what the record says of it, while GitHub applies *)
(* no review after the request for it failed.                              *)
(***************************************************************************)
Accounted == Known /\ LedgerInv

(* What is known of the operation, in one place.                           *)
LEMMA AccountedFacts ==
  ASSUME Accounted
  PROVE  /\ Typed /\ RecordsAgree /\ DownIsIdle /\ OpKept
         /\ WorkInv /\ StandingInv /\ RefreshInv
         /\ late = {} /\ OneReviewPerRevision
         /\ \A r \in posted : r.marker <= attempts
         /\ RecordAccounts(reg) /\ RecordAccounts(disk) /\ AttemptInv
BY DEF Accounted, Known, WorktreeInv, ReviewInv, LedgerInv

(* The operators on submissions keep the review.                           *)
LEMMA SameReviewed ==
  ASSUME NEW s \in Session
  PROVE  /\ ReviewOf(WithReceipt(s)) = ReviewOf(s)
         /\ \A c : ReviewOf([s EXCEPT !.sub.cleanup = c]) = ReviewOf(s)
<1>1. ReviewOf(WithReceipt(s)) = ReviewOf(s)
  BY SubmissionSame, StatusIs DEF SameReview, ReviewOf
<1>2. ASSUME NEW c PROVE ReviewOf([s EXCEPT !.sub.cleanup = c]) = ReviewOf(s)
  <2>1. SameReview([s EXCEPT !.sub.cleanup = c], s)
    BY SubmissionSame
  <2>2. [s EXCEPT !.sub.cleanup = c].sub.marker = s.sub.marker
    BY StatusIs
  <2> QED BY <2>1, <2>2 DEF SameReview, ReviewOf
<1> QED BY <1>1, <1>2

(* A review that was not posted has not been refused a place: the one      *)
(* GitHub holds under the marker of the record is the one of the record.   *)
LEMMA FoundIsOwn ==
  ASSUME NEW s, s # NoSession, RecordAccounts(s), ~IsDraft(s), Found(s)
  PROVE  ReviewOf(s) \in posted
<1>1. PICK r \in posted : r.marker = s.sub.marker
  BY DEF Found
<1>2. \A i \in DOMAIN s.history : s.history[i] # r
  BY <1>1 DEF RecordAccounts
<1> QED BY <1>1, <1>2 DEF RecordAccounts

(* Whatever an operation is about to write accounts for every review.      *)
LEMMA AccountsWrite ==
  ASSUME Accounted, op.pc \in SavePoints
  PROVE  RecordAccounts(op.s)
<1>0. /\ Typed /\ OpKept /\ WorkInv /\ StandingInv /\ RefreshInv /\ AttemptInv
      /\ RecordAccounts(reg) /\ \A r \in posted : r.marker <= attempts
  BY AccountedFacts
<1>1. reg # NoSession /\ reg \in Session /\ op.s \in Session
  BY <1>0 DEF WorkInv, SavePoints, Typed, TypeOK, OpTyped, OptionalSession
<1> USE DEF SubmissionPoints, CleanupPoints, ManagementPoints, DeletePoints
<1>2. CASE op.pc \in {"comment.save"} \cup ManagementPoints
  <2>1. /\ op.s.rev = reg.rev /\ op.s.history = reg.history /\ op.s.sub = reg.sub
        /\ op.s.comments = reg.comments \/ IsDraft(reg)
    BY <1>0, <1>2 DEF WorkInv, Continues, StandingInv
  <2> QED BY <1>0, <1>1, <2>1 DEF RecordAccounts, ReviewOf, IsDraft, Submitted
<1>3. CASE op.pc \in SubmissionPoints
  <2>1. op.s.rev = reg.rev /\ op.s.history = reg.history /\ op.s.comments = reg.comments
    BY <1>0, <1>3 DEF WorkInv, Continues
  <2>2. CASE op.pc = "submit.save"
    <3>1. /\ ~IsDraft(op.s) /\ ~Submitted(op.s) /\ op.s.sub.marker = attempts
          /\ IsDraft(reg) /\ ~Found(op.s)
      BY <1>0, <2>2 DEF StandingInv, AttemptInv, IsDraft, Submitted
    <3>2. attempts \in Nat
      BY <1>0 DEF Typed, TypeOK
    <3>3. \A i \in DOMAIN op.s.history : op.s.history[i].marker # op.s.sub.marker
      BY <1>0, <1>1, <2>1, <3>1 DEF RecordAccounts, Found
    <3> QED BY <1>0, <1>1, <2>1, <3>1, <3>2, <3>3 DEF RecordAccounts
  <2>3. CASE op.pc \in {"submit.drop", "reconcile.drop"}
    <3>1. op.s.sub = NoSubmission /\ ~Found(reg)
      BY <1>0, <2>3 DEF StandingInv, AttemptInv
    <3>2. IsDraft(op.s) /\ ~Submitted(op.s)
      BY <3>1 DEF IsDraft, Submitted, NoSubmission
    <3>3. ReviewOf(reg) \notin posted
      BY <3>1 DEF Found, ReviewOf
    <3> QED BY <1>0, <1>1, <2>1, <3>2, <3>3 DEF RecordAccounts
  <2>4. CASE op.pc \in {"submit.uncertain", "complete.save", "cleanup.save"}
    <3>1. /\ ~IsDraft(reg) /\ ~IsDraft(op.s) /\ op.s.sub.marker = reg.sub.marker
          /\ op.pc = "submit.uncertain" => ~Submitted(op.s)
          /\ op.pc # "submit.uncertain" => ReviewOf(op.s) \in posted
      BY <1>0, <2>4 DEF StandingInv, AttemptInv, OpKept, Submitted
    <3>2. ReviewOf(op.s) = ReviewOf(reg)
      BY <2>1, <3>1 DEF ReviewOf
    <3> QED BY <1>0, <1>1, <2>1, <2>4, <3>1, <3>2 DEF RecordAccounts
  <2> QED BY <1>3, <2>2, <2>3, <2>4 DEF SavePoints
<1>4. CASE op.pc = "unchanged.save"
  BY <1>0, <1>4 DEF OpKept
<1>5. CASE op.pc = "refresh.save"
  <2>1. Revises(op.s, reg)
    BY <1>0, <1>5 DEF RefreshInv
  <2>2. reg.rev \in Nat /\ reg.history \in Seq(Review)
    BY <1>1 DEF Session
  <2>3. CASE Submitted(reg) /\ op.s.sub = NoSubmission
             /\ op.s.history = Append(reg.history, ReviewOf(reg))
    <3> DEFINE r0 == ReviewOf(reg)
               h == op.s.history
    <3>1. IsDraft(op.s) /\ ~Submitted(op.s) /\ op.s.rev = reg.rev + 1
      BY <2>1, <2>3 DEF Revises, IsDraft, Submitted, NoSubmission
    <3>2. r0 \in posted /\ r0.rev = reg.rev
      BY <1>0, <1>1, <2>3 DEF RecordAccounts, ReviewOf
    <3>3. \A i \in DOMAIN h : (i \in DOMAIN reg.history /\ h[i] = reg.history[i]) \/ h[i] = r0
      BY <2>2, <2>3
    <3>4. /\ \A i \in DOMAIN reg.history : i \in DOMAIN h /\ h[i] = reg.history[i]
          /\ \E i \in DOMAIN h : h[i] = r0
      BY <2>2, <2>3
    <3>5. \A i \in DOMAIN reg.history : reg.history[i] \in posted /\ reg.history[i].rev < reg.rev
      BY <1>0, <1>1 DEF RecordAccounts
    <3>6. \A i \in DOMAIN reg.history : reg.history[i].rev \in Nat
      <4>1. \A i \in DOMAIN reg.history : reg.history[i] \in Review
        BY <2>2
      <4> QED BY <4>1 DEF Review
    <3>7. \A i \in DOMAIN h : h[i] \in posted /\ h[i].rev < op.s.rev
      BY <2>2, <3>1, <3>2, <3>3, <3>5, <3>6
    <3>8. \A r \in posted : \E i \in DOMAIN h : h[i] = r
      BY <1>0, <1>1, <3>4 DEF RecordAccounts
    <3> QED BY <3>1, <3>7, <3>8 DEF RecordAccounts
  <2>4. CASE IsDraft(reg) /\ op.s.sub = reg.sub /\ op.s.history = reg.history
    <3>1. IsDraft(op.s) /\ ~Submitted(op.s) /\ op.s.rev = reg.rev + 1
      BY <2>1, <2>4 DEF Revises, IsDraft, Submitted
    <3>2. \A i \in DOMAIN reg.history : reg.history[i].rev \in Nat
      <4>1. \A i \in DOMAIN reg.history : reg.history[i] \in Review
        BY <2>2
      <4> QED BY <4>1 DEF Review
    <3>3. \A i \in DOMAIN reg.history :
            reg.history[i] \in posted /\ reg.history[i].rev < op.s.rev
      BY <1>0, <1>1, <2>2, <3>1, <3>2 DEF RecordAccounts
    <3> QED BY <1>0, <1>1, <2>4, <3>1, <3>3 DEF RecordAccounts
  <2> QED BY <2>1, <2>3, <2>4 DEF Revises
<1> QED BY <1>2, <1>3, <1>4, <1>5 DEF SavePoints

(* GitHub gets at most the review of the record, in the one place.         *)
LEMMA PostingSteps ==
  ASSUME Accounted, ~LateReviews, [Next]_vars
  PROVE  /\ late' = {}
         /\ \/ posted' = posted
            \/ op.pc = "submit.create" /\ posted' = posted \cup {ReviewOf(op.s)}
         /\ op.pc = "submit.create" =>
              /\ op.s = reg /\ disk = reg /\ reg # NoSession /\ reg \in Session /\ ~IsDraft(reg)
              /\ RecordAccounts(reg)
<1>0. /\ Typed /\ RecordsAgree /\ DownIsIdle /\ WorkInv /\ StandingInv
      /\ late = {} /\ RecordAccounts(reg)
  BY AccountedFacts
<1>1. /\ late' = {}
      /\ \/ posted' = posted
         \/ op.pc = "submit.create" /\ posted' = posted \cup {ReviewOf(op.s)}
  BY <1>0, ReviewSteps DEF LateReviewArrives, Unanswered, CreateSucceeds
<1>2. op.pc = "submit.create" =>
        /\ op.s = reg /\ disk = reg /\ reg # NoSession /\ reg \in Session /\ ~IsDraft(reg)
  BY <1>0, DownRunsNothing DEF RecordsAgree, WorkInv, StandingInv, Typed, TypeOK, OptionalSession
<1> QED BY <1>0, <1>1, <1>2

(* Attempts are counted where their marker is drawn.                       *)
LEMMA AttemptSteps ==
  ASSUME [Next]_vars
  PROVE  attempts' = attempts \/ PreflightPasses
<1> USE DEF github
<1>1. CASE CommentSteps
  BY <1>1 DEF CommentSteps, StartComment, RefuseComment, SaveComment
<1>2. CASE SubmitSteps
  BY <1>2 DEF SubmitSteps, StartSubmit, PreflightFails, SaveSubmitting,
              CreateSucceeds, CreateRefused, CreateUnanswered, SaveUncertain
<1>3. CASE ReceiptSteps
  BY <1>3 DEF ReceiptSteps, StartReconcile, ListReviews, ListFails, SaveDraft, SaveReceipt,
              ReceiptSaveFails, StartCleanup, SealChat, SealFails, RemoveReviewed,
              RemoveReviewedFails, SaveCleanup
<1>4. CASE RefreshSteps
  BY <1>4 DEF RefreshSteps, StartRefresh, PrepareFails, Prepared, DiscardCandidate,
              SaveUnchanged, MapComments, CloseOldAgent, CloseOldAgentFails, RefreshFails,
              SaveRefresh, RetirePrevious, RollbackCandidate
<1>5. CASE ManagementSteps
  BY <1>5 DEF ManagementSteps, StartVisibility, SaveVisibility, StartDelete, SaveIntent,
              DeleteWorktree, DeleteFails, DeleteRecord
<1>6. CASE SaveFails \/ Refuse \/ ChatStep \/ LateReviewArrives \/ UNCHANGED vars
           \/ Sweep \/ Crash \/ Restart \/ \E kind \in Kinds : RequestOperation(kind)
  BY <1>6 DEF SaveFails, Refuse, ChatStep, BeginTurn, StartAgent, EndTurn, FailTurn,
              LateReviewArrives, vars, Sweep, Crash, Restart, RequestOperation
<1> QED BY <1>1, <1>2, <1>3, <1>4, <1>5, <1>6 DEF Next, OperationStep

(* No revision gets a second review, and no review a new marker.           *)
LEMMA PostedOnce ==
  ASSUME Accounted, ~LateReviews, [Next]_vars
  PROVE  OneReviewPerRevision' /\ \A r \in posted' : r.marker <= attempts'
<1>0. /\ OneReviewPerRevision /\ \A r \in posted : r.marker <= attempts
      /\ attempts \in Nat /\ posted \in SUBSET Review
  BY AccountedFacts DEF Typed, TypeOK
<1>1. attempts' \in Nat /\ attempts <= attempts'
  BY <1>0, AttemptSteps DEF PreflightPasses
<1>2. \A r \in posted : r.marker \in Nat /\ r.marker <= attempts'
  BY <1>0, <1>1 DEF Review
<1>3. CASE posted' = posted
  BY <1>0, <1>2, <1>3 DEF OneReviewPerRevision
<1>4. CASE op.pc = "submit.create" /\ posted' = posted \cup {ReviewOf(op.s)}
  <2>1. /\ op.s = reg /\ reg # NoSession /\ reg \in Session /\ ~IsDraft(reg)
        /\ RecordAccounts(reg)
    BY <1>4, PostingSteps
  <2>2. attempts' = attempts
    BY <1>4, AttemptSteps DEF PreflightPasses
  <2>3. ReviewOf(reg).marker <= attempts'
    BY <2>1, <2>2 DEF RecordAccounts, ReviewOf
  <2>4. ASSUME NEW r \in posted, r.rev = reg.rev PROVE r = ReviewOf(reg)
    <3>1. \A i \in DOMAIN reg.history : reg.history[i] # r
      BY <1>0, <2>1, <2>4 DEF RecordAccounts, Review
    <3> QED BY <2>1, <3>1 DEF RecordAccounts
  <2>5. ReviewOf(reg).rev = reg.rev
    BY DEF ReviewOf
  <2>6. OneReviewPerRevision'
    BY <1>0, <1>4, <2>1, <2>4, <2>5 DEF OneReviewPerRevision
  <2> QED BY <1>2, <1>4, <2>1, <2>3, <2>6
<1> QED BY <1>3, <1>4, PostingSteps

(* The record and its history account for every review.                    *)
LEMMA AccountsNext ==
  ASSUME Accounted, ~LateReviews, [Next]_vars
  PROVE  RecordAccounts(reg)' /\ RecordAccounts(disk)'
<1>0. /\ Typed /\ RecordAccounts(reg) /\ RecordAccounts(disk)
      /\ attempts \in Nat /\ posted \in SUBSET Review
  BY AccountedFacts DEF Typed, TypeOK
<1>1. attempts' \in Nat /\ attempts <= attempts'
  BY <1>0, AttemptSteps DEF PreflightPasses
<1>2. CASE posted' = posted
  <2>1. ASSUME NEW s \in OptionalSession, RecordAccounts(s)
        PROVE  s # NoSession =>
          /\ Submitted(s) => ReviewOf(s) \in posted'
          /\ \A i \in DOMAIN s.history :
               s.history[i] \in posted' /\ s.history[i].rev < s.rev
          /\ ~IsDraft(s) => /\ s.sub.marker <= attempts'
                            /\ \A i \in DOMAIN s.history : s.history[i].marker # s.sub.marker
          /\ \A r \in posted' : \/ \E i \in DOMAIN s.history : s.history[i] = r
                                \/ ~IsDraft(s) /\ ReviewOf(s) = r
    <3>1. s # NoSession => s.sub.marker \in Nat
      BY <2>1 DEF OptionalSession, Session, Submission
    <3> QED BY <1>0, <1>1, <1>2, <2>1, <3>1 DEF RecordAccounts
  <2>2. ASSUME NEW s \in OptionalSession, RecordAccounts(s)
        PROVE  /\ reg' = s => RecordAccounts(reg)'
               /\ disk' = s => RecordAccounts(disk)'
    BY <2>1, <2>2 DEF RecordAccounts, Submitted, IsDraft, ReviewOf
  <2>3. reg \in OptionalSession /\ disk \in OptionalSession /\ NoSession \in OptionalSession
    BY <1>0 DEF Typed, TypeOK, OptionalSession
  <2>4. RecordAccounts(NoSession)
    BY DEF RecordAccounts
  <2>5. op.pc \in SavePoints => op.s \in OptionalSession /\ RecordAccounts(op.s)
    BY <1>0, AccountsWrite DEF SavePoints, Typed, OpTyped, OptionalSession
  <2>6. /\ \/ reg' = reg \/ reg' = NoSession \/ reg' = disk
           \/ op.pc \in SavePoints /\ reg' = op.s
        /\ \/ disk' = disk \/ disk' = NoSession
           \/ op.pc \in SavePoints /\ disk' = op.s
    BY <1>0, RecordSteps DEF Writes, Saved, DeleteRecord, Crash, DiskAfterCrash, Restart
  <2> QED BY <1>0, <2>2, <2>3, <2>4, <2>5, <2>6
<1>3. CASE op.pc = "submit.create" /\ posted' = posted \cup {ReviewOf(op.s)}
  <2>1. /\ op.s = reg /\ disk = reg /\ reg # NoSession /\ ~IsDraft(reg)
    BY <1>3, PostingSteps
  <2>2. attempts' = attempts
    BY <1>3, AttemptSteps DEF PreflightPasses
  <2>3. reg' \in {reg, NoSession} /\ disk' = reg
    BY <1>0, <1>3, <2>1, RecordSteps
    DEF Writes, SavePoints, DeleteRecord, Crash, DiskAfterCrash, Restart
  <2>4. \A s \in {reg', disk'} : s = reg \/ s = NoSession
    BY <2>3
  <2>5. RecordAccounts(disk)'
    BY <1>0, <1>3, <2>1, <2>2, <2>3 DEF RecordAccounts, Submitted, IsDraft, ReviewOf
  <2>6. RecordAccounts(reg)'
    BY <2>3, <2>5 DEF RecordAccounts, Submitted, IsDraft, ReviewOf
  <2> QED BY <2>5, <2>6
<1> QED BY <1>2, <1>3, PostingSteps

(* What the operation knows of its review, from each answer to the next.   *)
LEMMA AttemptSubmit ==
  ASSUME Accounted, SubmitSteps
  PROVE  AttemptInv'
<1>0. /\ Typed /\ StandingInv /\ AttemptInv
      /\ \A r \in posted : r.marker <= attempts
      /\ attempts \in Nat /\ posted \in SUBSET Review
  BY AccountedFacts DEF Typed, TypeOK
<1> USE DEF CleanupPoints
<1>1. CASE StartSubmit
  <2>1. op'.pc = "submit.preflight"
    BY <1>1, BeginFields DEF StartSubmit
  <2> QED BY <2>1 DEF AttemptInv
<1>2. CASE PreflightPasses
  <2> DEFINE x == [status |-> "submitting", marker |-> attempts + 1, cleanup |-> "none"]
             s == [op.s EXCEPT !.sub = x]
  <2>1. op.s \in Session
    BY <1>0, <1>2 DEF PreflightPasses, Typed, OpTyped
  <2>2. s.sub.marker = attempts + 1
    BY <2>1, SubmissionSame
  <2>3. op'.pc = "submit.save" /\ op'.s = s /\ posted' = posted
    BY <1>0, <1>2, GotoFields DEF PreflightPasses
  <2>4. \A r \in posted : r.marker # attempts + 1
    BY <1>0 DEF Review
  <2>5. ~Found(op.s)'
    BY <2>2, <2>3, <2>4 DEF Found
  <2> QED BY <2>3, <2>5 DEF AttemptInv
<1>3. CASE PreflightFails
  BY <1>3, FinishFields DEF PreflightFails, AttemptInv
<1>4. CASE SaveSubmitting
  <2>1. op'.pc = "submit.create" /\ op'.s = op.s /\ posted' = posted
    BY <1>0, <1>4 DEF SaveSubmitting, Typed, TypeOK, Operation, github
  <2>2. ~Found(op.s)
    BY <1>0, <1>4 DEF SaveSubmitting, AttemptInv
  <2> QED BY <2>1, <2>2 DEF AttemptInv, Found
<1>5. CASE CreateSucceeds
  <2>1. op.s \in Session
    BY <1>0, <1>5 DEF CreateSucceeds, Typed, OpTyped
  <2>2. /\ op'.pc = "complete.save" /\ op'.s = WithReceipt(op.s)
        /\ posted' = posted \cup {ReviewOf(op.s)}
    BY <1>0, <1>5, GotoFields DEF CreateSucceeds
  <2>3. ReviewOf(op'.s) \in posted'
    BY <2>1, <2>2, SameReviewed
  <2> QED BY <2>2, <2>3 DEF AttemptInv, ReviewOf
<1>6. CASE CreateRefused
  <2>1. op'.pc = "submit.drop" /\ reg' = reg /\ posted' = posted
    BY <1>0, <1>6, GotoFields DEF CreateRefused, github
  <2>2. ~Found(reg)
    BY <1>0, <1>6 DEF CreateRefused, StandingInv, AttemptInv
  <2> QED BY <2>1, <2>2 DEF AttemptInv, Found
<1>7. CASE CreateUnanswered
  BY <1>0, <1>7, GotoFields DEF CreateUnanswered, AttemptInv
<1>8. CASE SaveUncertain
  <2>1. op'.pc = "reconcile.list"
    BY <1>0, <1>8 DEF SaveUncertain, Typed, TypeOK, Operation
  <2> QED BY <2>1 DEF AttemptInv
<1> QED BY <1>1, <1>2, <1>3, <1>4, <1>5, <1>6, <1>7, <1>8 DEF SubmitSteps

(* A found review is the one of the record.                                *)
LEMMA AttemptReceipt ==
  ASSUME Accounted, ReceiptSteps
  PROVE  AttemptInv'
<1>0. /\ Typed /\ RecordsAgree /\ DownIsIdle /\ WorkInv /\ StandingInv /\ AttemptInv
      /\ RecordAccounts(reg)
  BY AccountedFacts
<1> USE DEF CleanupPoints
<1>1. CASE StartReconcile
  <2>1. op'.pc = "reconcile.list"
    BY <1>1, BeginFields DEF StartReconcile
  <2> QED BY <2>1 DEF AttemptInv
<1>2. CASE ListReviews
  <2>1. op.s \in Session /\ op.s = reg /\ ~IsDraft(reg) /\ reg # NoSession
    BY <1>0, <1>2 DEF ListReviews, Typed, OpTyped, StandingInv, WorkInv
  <2>2. reg' = reg /\ posted' = posted
    BY <1>2 DEF ListReviews, github
  <2>3. CASE Found(op.s)
    <3>1. op'.pc = "complete.save" /\ op'.s = WithReceipt(op.s)
      BY <1>0, <1>2, <2>3, GotoFields DEF ListReviews
    <3>2. ReviewOf(op'.s) \in posted
      BY <1>0, <2>1, <2>3, <3>1, FoundIsOwn, SameReviewed
    <3> QED BY <2>2, <3>1, <3>2 DEF AttemptInv, ReviewOf
  <2>4. CASE ~Found(op.s)
    <3>1. op'.pc = "reconcile.drop"
      BY <1>0, <1>2, <2>4, GotoFields DEF ListReviews
    <3> QED BY <2>1, <2>2, <2>4, <3>1 DEF AttemptInv, Found
  <2> QED BY <2>3, <2>4
<1>3. CASE ListFails \/ SaveDraft \/ SaveCleanup \/ (ReceiptSaveFails /\ ~op.trying)
  BY <1>3, FinishFields DEF ListFails, SaveDraft, SaveCleanup, ReceiptSaveFails, AttemptInv
<1>4. CASE SaveReceipt
  <2>1. op'.pc = "cleanup.seal" /\ op'.s = op.s /\ posted' = posted
    BY <1>0, <1>4, GotoFields DEF SaveReceipt, github
  <2>2. ReviewOf(op.s) \in posted
    BY <1>0, <1>4 DEF SaveReceipt, AttemptInv
  <2> QED BY <2>1, <2>2 DEF AttemptInv, ReviewOf
<1>5. CASE ReceiptSaveFails /\ op.trying
  <2>1. op'.pc = "submit.uncertain"
    BY <1>0, <1>5, GotoFields DEF ReceiptSaveFails
  <2> QED BY <2>1 DEF AttemptInv
<1>6. CASE StartCleanup
  <2>1. Submitted(reg) /\ reg # NoSession
    BY <1>0, <1>6, TakeFacts, TakeTyped, AdmissibleFacts, SentinelAssumption DEF StartCleanup
  <2>2. op'.pc = "cleanup.seal" /\ op'.s = reg /\ posted' = posted
    BY <1>6, BeginFields DEF StartCleanup, github
  <2>3. ReviewOf(reg) \in posted
    BY <1>0, <2>1 DEF RecordAccounts
  <2> QED BY <2>2, <2>3 DEF AttemptInv, ReviewOf
<1>7. CASE SealChat \/ SealFails \/ RemoveReviewed \/ RemoveReviewedFails
  <2>1. op.s \in Session /\ ReviewOf(op.s) \in posted /\ posted' = posted
    BY <1>0, <1>7
    DEF SealChat, SealFails, RemoveReviewed, RemoveReviewedFails, github, Typed, OpTyped,
        AttemptInv
  <2>2. /\ op'.pc \in {"cleanup.remove", "cleanup.save"}
        /\ op'.s = op.s \/ \E c : op'.s = WithCleanup(c)
    BY <1>0, <1>7, GotoFields DEF SealChat, SealFails, RemoveReviewed, RemoveReviewedFails
  <2>3. \A c : ReviewOf(WithCleanup(c)) = ReviewOf(op.s)
    BY <2>1, SameReviewed DEF WithCleanup
  <2>4. ReviewOf(op'.s) \in posted'
    BY <2>1, <2>2, <2>3
  <2> QED BY <2>2, <2>4 DEF AttemptInv, ReviewOf
<1> QED BY <1>1, <1>2, <1>3, <1>4, <1>5, <1>6, <1>7 DEF ReceiptSteps

(* The other operations have no review of their own.                       *)
LEMMA AttemptNext ==
  ASSUME Accounted, ~LateReviews, [Next]_vars
  PROVE  AttemptInv'
<1>0. /\ Typed /\ WorktreeInv /\ AttemptInv
  BY AccountedFacts DEF Accounted, Known
<1> USE DEF CleanupPoints
<1>1. CASE CommentSteps
  <2>1. op'.pc \in {"idle", "comment.save"}
    BY <1>0, <1>1, BeginFields, EndingSteps DEF CommentSteps, StartComment
  <2> QED BY <2>1 DEF AttemptInv
<1>2. CASE RefreshSteps
  <2>1. CASE StartRefresh \/ SaveRefresh
    <3>1. op'.pc \in {"idle", "refresh.prepare", "refresh.retire"}
      <4>1. StartRefresh => op'.pc = "refresh.prepare"
        BY DEF StartRefresh, Idle
      <4>2. SaveRefresh => op'.pc \in {"idle", "refresh.retire"}
        BY <1>0 DEF SaveRefresh, Typed, TypeOK, Operation, Idle
      <4> QED BY <2>1, <4>1, <4>2
    <3> QED BY <3>1 DEF AttemptInv
  <2>2. CASE \/ Prepared \/ DiscardCandidate \/ MapComments
             \/ CloseOldAgent \/ CloseOldAgentFails \/ RefreshFails
    <3>1. op'.pc \in {"unchanged.save"} \cup RefreshPoints
      BY <1>0, <2>2, GotoFields
      DEF Prepared, DiscardCandidate, MapComments, CloseOldAgent, CloseOldAgentFails,
          RefreshFails, RefreshPoints
    <3> QED BY <3>1 DEF AttemptInv, RefreshPoints
  <2>3. CASE PrepareFails \/ SaveUnchanged \/ RetirePrevious \/ RollbackCandidate
    BY <1>0, <2>3, EndingSteps DEF AttemptInv
  <2> QED BY <1>2, <2>1, <2>2, <2>3 DEF RefreshSteps
<1>3. CASE ManagementSteps
  <2>1. op'.pc \in {"idle"} \cup ManagementPoints
    BY <1>0, <1>3, GotoFields, BeginFields, EndingSteps
    DEF ManagementSteps, StartVisibility, StartDelete, SaveIntent, DeleteWorktree,
        ManagementPoints, DeletePoints
  <2> QED BY <2>1 DEF AttemptInv, ManagementPoints, DeletePoints
<1>4. CASE SaveFails \/ Crash \/ Restart \/ Sweep
  BY <1>0, <1>4, EndingSteps DEF AttemptInv
<1>5. CASE Refuse \/ ChatStep \/ UNCHANGED vars \/ \E kind \in Kinds : RequestOperation(kind)
  <2>1. UNCHANGED <<op, reg, posted>>
    BY <1>5 DEF Refuse, ChatStep, BeginTurn, StartAgent, EndTurn, FailTurn, vars,
                RequestOperation, github
  <2> QED BY <1>0, <2>1 DEF AttemptInv, Found, ReviewOf
<1>6. ~LateReviewArrives
  BY AccountedFacts DEF LateReviewArrives
<1> QED BY <1>1, <1>2, <1>3, <1>4, <1>5, <1>6, AttemptSubmit, AttemptReceipt
        DEF Next, OperationStep

LEMMA LedgerInit == Init => LedgerInv
BY DEF Init, Idle, NewReview, NoSubmission, LedgerInv, OneReviewPerRevision, RecordAccounts,
       AttemptInv, CleanupPoints, IsDraft, Submitted

(* Every step keeps the account, while no review arrives late.             *)
LEMMA LedgerNext == ~LateReviews /\ Accounted /\ [Next]_vars => LedgerInv'
BY PostingSteps, PostedOnce, AccountsNext, AttemptNext DEF LedgerInv

(* The account holds in every behavior.                                    *)
THEOREM AlwaysAccounted == ~LateReviews => (Spec => []Accounted)
<1> SUFFICES ASSUME ~LateReviews PROVE Spec => []Accounted
  OBVIOUS
<1>1. Init => Accounted
  BY TypedInit, WorktreeInit, ReviewInit, LedgerInit DEF Accounted, Known
<1>2. Accounted /\ [Next]_vars => Accounted'
  BY TypedNext, WorktreeNext, ReviewNext, LedgerNext DEF Accounted, Known
<1> QED BY <1>1, <1>2, PTL DEF Spec

(* While GitHub applies no review after failing its request, it never      *)
(* holds two reviews of one revision, across lost answers, failing saves,  *)
(* crashes and reconciliations.                                            *)
THEOREM OneReviewAlways == ~LateReviews => (Spec => []OneReviewPerRevision)
<1>1. Accounted => OneReviewPerRevision
  BY DEF Accounted, LedgerInv
<1> QED BY <1>1, AlwaysAccounted, PTL

(* Under the same condition the record and GitHub agree on what was        *)
(* posted, in both directions.                                             *)
THEOREM RecordAlwaysMatches == ~LateReviews => (Spec => []RecordMatchesGitHub)
<1>1. Accounted => RecordMatchesGitHub
  BY DEF Accounted, LedgerInv, RecordMatchesGitHub, ReceiptMatchesReview, NoForgottenReview,
         RecordAccounts
<1> QED BY <1>1, AlwaysAccounted, PTL

(***************************************************************************)
(* The contract of submitting a review, kept under the same condition.     *)
(***************************************************************************)

(* A comment operation is begun with one comment written.                  *)
LEMMA OneCommentStarts ==
  ASSUME Typed, StartComment
  PROVE  OneCommentInv'
<1>1. reg \in Session /\ reg' = reg
  BY TakeTyped DEF StartComment
<1>2. PICK s \in Created \cup Updated \cup Removed \cup Reanchored : op'.s = s
  BY BeginFields DEF StartComment
<1>3. PICK id \in CommentIds : \E c : s = WithComment(id, c)
  BY <1>2 DEF Created, Updated, Removed, Reanchored, FreshIds, Existing
<1>4. \A other \in CommentIds \ {id} : s.comments[other] = reg.comments[other]
  BY <1>1, <1>3 DEF WithComment, Session, Comments
<1> QED BY <1>1, <1>2, <1>4 DEF OneCommentInv

(* The record does not change before it is saved.                          *)
LEMMA OneCommentNext ==
  ASSUME Known, OneCommentInv, [Next]_vars
  PROVE  OneCommentInv'
<1>0. Typed /\ WorktreeInv
  BY DEF Known
<1>1. CASE CommentSteps
  <2>1. op'.pc = "idle" => OneCommentInv'
    BY DEF OneCommentInv
  <2> QED BY <1>0, <1>1, <2>1, EndingSteps, OneCommentStarts DEF CommentSteps
<1>2. CASE op'.pc # "comment.save"
  BY <1>2 DEF OneCommentInv
<1>3. CASE SubmitSteps
  <2>1. CASE PreflightFails
    BY <1>0, <1>2, <2>1, EndingSteps
  <2>2. CASE SaveSubmitting \/ SaveUncertain
    BY <1>0, <1>2, <2>2 DEF SaveSubmitting, SaveUncertain, Typed, TypeOK, Operation
  <2>3. CASE \/ StartSubmit \/ PreflightPasses
             \/ CreateSucceeds \/ CreateRefused \/ CreateUnanswered
    BY <1>0, <1>2, <2>3, GotoFields, BeginFields
    DEF StartSubmit, PreflightPasses, CreateSucceeds, CreateRefused, CreateUnanswered
  <2> QED BY <1>3, <2>1, <2>2, <2>3 DEF SubmitSteps
<1>4. CASE ReceiptSteps
  <2>1. CASE ListFails \/ SaveDraft \/ SaveCleanup \/ (ReceiptSaveFails /\ ~op.trying)
    BY <1>0, <1>2, <2>1, EndingSteps
  <2>2. CASE \/ StartReconcile \/ ListReviews \/ SaveReceipt \/ (ReceiptSaveFails /\ op.trying)
             \/ StartCleanup \/ SealChat \/ SealFails \/ RemoveReviewed \/ RemoveReviewedFails
    <3>1. op'.pc \in SubmissionPoints
      BY <1>0, <2>2, GotoFields, BeginFields
      DEF StartReconcile, ListReviews, SaveReceipt, ReceiptSaveFails, StartCleanup, SealChat,
          SealFails, RemoveReviewed, RemoveReviewedFails, SubmissionPoints, CleanupPoints
    <3> QED BY <1>2, <3>1 DEF SubmissionPoints, CleanupPoints
  <2> QED BY <1>4, <2>1, <2>2 DEF ReceiptSteps
<1>5. CASE RefreshSteps
  <2>1. CASE StartRefresh \/ SaveRefresh
    <3>1. StartRefresh => op'.pc = "refresh.prepare"
      BY DEF StartRefresh, Idle
    <3>2. SaveRefresh => op'.pc \in {"idle", "refresh.retire"}
      BY <1>0 DEF SaveRefresh, Typed, TypeOK, Operation, Idle
    <3> QED BY <1>2, <2>1, <3>1, <3>2
  <2>2. CASE \/ Prepared \/ DiscardCandidate \/ MapComments
             \/ CloseOldAgent \/ CloseOldAgentFails \/ RefreshFails
    <3>1. op'.pc \in {"unchanged.save"} \cup RefreshPoints
      BY <1>0, <2>2, GotoFields
      DEF Prepared, DiscardCandidate, MapComments, CloseOldAgent, CloseOldAgentFails,
          RefreshFails, RefreshPoints
    <3> QED BY <1>2, <3>1 DEF RefreshPoints
  <2>3. CASE PrepareFails \/ SaveUnchanged \/ RetirePrevious \/ RollbackCandidate
    BY <1>0, <1>2, <2>3, EndingSteps
  <2> QED BY <1>5, <2>1, <2>2, <2>3 DEF RefreshSteps
<1>6. CASE ManagementSteps
  <2>1. op'.pc \in {"idle"} \cup ManagementPoints
    BY <1>0, <1>6, GotoFields, BeginFields, EndingSteps
    DEF ManagementSteps, StartVisibility, StartDelete, SaveIntent, DeleteWorktree,
        ManagementPoints, DeletePoints
  <2> QED BY <1>2, <2>1 DEF ManagementPoints, DeletePoints
<1>7. CASE SaveFails \/ Crash \/ Restart \/ Sweep
  BY <1>0, <1>2, <1>7, EndingSteps
<1>8. CASE Refuse \/ ChatStep \/ LateReviewArrives \/ UNCHANGED vars
           \/ \E kind \in Kinds : RequestOperation(kind)
  <2>1. UNCHANGED <<op, reg>>
    BY <1>8 DEF Refuse, ChatStep, BeginTurn, StartAgent, EndTurn, FailTurn, vars,
                LateReviewArrives, RequestOperation
  <2> QED BY <2>1 DEF OneCommentInv
<1> QED BY <1>1, <1>3, <1>4, <1>5, <1>6, <1>7, <1>8 DEF Next, OperationStep

(* How the contract sees a record.                                         *)
LEMMA StandIs ==
  /\ disk = NoSession => Stand = "deleted"
  /\ disk # NoSession => /\ IsDraft(disk) => Stand = "draft"
                         /\ Submitted(disk) => Stand = "confirmed"
                         /\ ~IsDraft(disk) /\ ~Submitted(disk) => Stand = "attempted"
BY DEF Stand, IsDraft, Submitted

(* A revision whose marker GitHub does not hold has not been posted.       *)
LEMMA UnpostedRevision ==
  ASSUME NEW s \in Session, RecordAccounts(s), s # NoSession, ~Found(s),
         posted \in SUBSET Review
  PROVE  \A r \in posted : r.rev # s.rev
<1> SUFFICES ASSUME NEW r \in posted, r.rev = s.rev PROVE FALSE
  OBVIOUS
<1>1. ReviewOf(s) # r
  BY DEF Found, ReviewOf
<1>2. PICK i \in DOMAIN s.history : s.history[i] = r
  BY <1>1 DEF RecordAccounts
<1>3. r.rev < s.rev /\ s.rev \in Nat
  BY <1>2 DEF RecordAccounts, Session
<1> QED BY <1>3

ContractStep == Contract!Next \/ UNCHANGED Contract!vars

(* A record that changes in nothing the contract sees.                     *)
LEMMA Unseen ==
  ASSUME disk # NoSession, disk' # NoSession, posted' = posted,
         disk'.rev = disk.rev, disk'.comments = disk.comments, disk'.history = disk.history,
         IsDraft(disk') <=> IsDraft(disk), Submitted(disk') <=> Submitted(disk),
         ~IsDraft(disk) => disk'.sub.marker = disk.sub.marker
  PROVE  ContractStep
<1>1. Stand' = Stand
  BY DEF Stand
<1>2. Stand \in {"draft", "deleted"} <=> IsDraft(disk)
  BY StandIs DEF IsDraft, Submitted
<1> QED BY <1>1, <1>2 DEF ContractStep, Contract!vars

(* GitHub gets a review only of an attempt, of a revision without one.     *)
LEMMA ContractPosts ==
  ASSUME Accounted, ~LateReviews, [Next]_vars, posted' # posted
  PROVE  ContractStep
<1>0. /\ Typed /\ AttemptInv /\ posted \in SUBSET Review
  BY AccountedFacts DEF Typed, TypeOK
<1>1. /\ op.pc = "submit.create" /\ posted' = posted \cup {ReviewOf(op.s)}
      /\ op.s = reg /\ disk = reg /\ reg # NoSession /\ reg \in Session /\ ~IsDraft(reg)
      /\ RecordAccounts(disk)
  BY PostingSteps
<1>2. ~Found(disk)
  BY <1>0, <1>1 DEF AttemptInv
<1>3. disk' = disk
  BY <1>0, <1>1, RecordSteps DEF Writes, SavePoints, DeleteRecord, Crash, DiskAfterCrash, Restart
<1>4. Stand = "attempted" /\ Stand' = "attempted"
  <2>1. ~Submitted(disk)
    BY <1>1, <1>2 DEF RecordAccounts, Found, ReviewOf
  <2> QED BY <1>1, <1>3, <2>1 DEF Stand
<1>5. \A r \in posted : r.rev # disk.rev
  BY <1>0, <1>1, <1>2, UnpostedRevision
<1>6. posted' = posted \cup {[marker |-> disk.sub.marker, rev |-> disk.rev,
                              comments |-> disk.comments]}
  BY <1>1 DEF ReviewOf
<1>7. Contract!Post
  BY <1>1, <1>3, <1>4, <1>5, <1>6 DEF Contract!Post, Contract!Unposted, Contract!Review
<1> QED BY <1>7 DEF ContractStep, Contract!Next

(* What is known when the running operation writes the record.             *)
LEMMA WriteFacts ==
  ASSUME Accounted, op.pc \in SavePoints
  PROVE  /\ Typed /\ WorkInv /\ StandingInv /\ RefreshInv /\ AttemptInv /\ OpKept
         /\ disk = reg /\ reg # NoSession /\ reg \in Session /\ op.s # NoSession
         /\ op.s \in Session /\ RecordAccounts(reg) /\ RecordAccounts(op.s)
         /\ posted \in SUBSET Review
<1>1. /\ Typed /\ WorkInv /\ StandingInv /\ RefreshInv /\ AttemptInv /\ OpKept
      /\ RecordsAgree /\ DownIsIdle /\ RecordAccounts(reg)
  BY AccountedFacts
<1>2. op.s \in Session /\ op.s # NoSession
  BY WritesSound DEF Accounted
<1>3. disk = reg /\ reg # NoSession
  BY <1>1, DownRunsNothing DEF RecordsAgree, WorkInv, SavePoints
<1> QED BY <1>1, <1>2, <1>3, AccountsWrite DEF Typed, TypeOK, OptionalSession

(* A comment, the archive and the deletion: the submission stays.          *)
LEMMA ContractEdits ==
  ASSUME Accounted, OneCommentInv, op.pc \in SavePoints,
         op.pc \in {"comment.save", "unchanged.save"} \cup ManagementPoints,
         disk' = op.s, posted' = posted
  PROVE  ContractStep
<1>0. /\ WorkInv /\ StandingInv /\ OpKept
      /\ disk = reg /\ reg # NoSession /\ op.s # NoSession
  BY WriteFacts
<1>1. CASE op.pc = "unchanged.save"
  BY <1>0, <1>1, Unseen DEF OpKept
<1>2. CASE op.pc \in ManagementPoints
  <2>1. /\ op.s.rev = reg.rev /\ op.s.history = reg.history
        /\ op.s.comments = reg.comments /\ op.s.sub = reg.sub
    BY <1>0, <1>2 DEF WorkInv, Continues
  <2> QED BY <1>0, <2>1, Unseen DEF IsDraft, Submitted
<1>3. CASE op.pc = "comment.save"
  <2>1. /\ op.s.rev = reg.rev /\ op.s.history = reg.history /\ op.s.sub = reg.sub
        /\ IsDraft(reg)
    BY <1>0, <1>3 DEF WorkInv, Continues, StandingInv
  <2>2. Stand = "draft" /\ Stand' = "draft"
    BY <1>0, <2>1 DEF Stand, IsDraft, Submitted
  <2>3. Contract!Edit
    BY <1>0, <1>3, <2>1, <2>2 DEF Contract!Edit, OneCommentInv
  <2> QED BY <2>3 DEF ContractStep, Contract!Next
<1> QED BY <1>1, <1>2, <1>3

(* An attempt, its outcome, and what is saved of its cleanup.              *)
LEMMA ContractSubmits ==
  ASSUME Accounted, op.pc \in SavePoints, op.pc \in SubmissionPoints,
         disk' = op.s, posted' = posted
  PROVE  ContractStep
<1>0. /\ WorkInv /\ StandingInv /\ AttemptInv
      /\ disk = reg /\ reg # NoSession /\ reg \in Session /\ op.s # NoSession
      /\ op.s \in Session /\ RecordAccounts(reg) /\ RecordAccounts(op.s)
      /\ posted \in SUBSET Review
  BY WriteFacts
<1>1. op.s.rev = reg.rev /\ op.s.history = reg.history /\ op.s.comments = reg.comments
  BY <1>0 DEF WorkInv, Continues
<1>2. CASE op.pc = "submit.save"
  <2>1. IsDraft(reg) /\ op.s.sub.status = "submitting" /\ ~Found(op.s)
    BY <1>0, <1>2 DEF StandingInv, AttemptInv
  <2>2. Stand = "draft" /\ Stand' = "attempted"
    BY <1>0, <2>1 DEF Stand, IsDraft, Submitted
  <2>3. \A r \in posted : r.rev # reg.rev /\ r.marker # op.s.sub.marker
    BY <1>0, <1>1, <2>1, UnpostedRevision DEF Found
  <2>4. Contract!Attempt
    BY <1>0, <1>1, <2>2, <2>3 DEF Contract!Attempt, Contract!Unposted
  <2> QED BY <2>4 DEF ContractStep, Contract!Next
<1>3. CASE op.pc \in {"submit.drop", "reconcile.drop"}
  <2>1. IsDraft(op.s) /\ ~Found(reg)
    BY <1>0, <1>3 DEF StandingInv, AttemptInv, IsDraft, NoSubmission
  <2>2. ~Submitted(reg)
    BY <1>0, <2>1 DEF RecordAccounts, Found, ReviewOf
  <2>3. Stand' = "draft" /\ Stand \in {"draft", "attempted"}
    BY <1>0, <2>1, <2>2 DEF Stand, IsDraft, Submitted
  <2>4. \A r \in posted : r.rev # reg.rev
    BY <1>0, <2>1, UnpostedRevision
  <2>5. CASE Stand = "attempted"
    <3>1. Contract!GiveUp
      BY <1>0, <1>1, <2>3, <2>4, <2>5 DEF Contract!GiveUp, Contract!Unposted
    <3> QED BY <3>1 DEF ContractStep, Contract!Next
  <2>6. CASE Stand = "draft"
    BY <1>0, <1>1, <2>3, <2>6 DEF ContractStep, Contract!vars
  <2> QED BY <2>3, <2>5, <2>6
<1>4. CASE op.pc \in {"submit.uncertain", "complete.save", "cleanup.save"}
  <2>1. ~IsDraft(reg) /\ ~IsDraft(op.s) /\ op.s.sub.marker = reg.sub.marker
    BY <1>0, <1>4 DEF StandingInv, CleanupPoints
  <2>2. /\ Stand = IF Submitted(reg) THEN "confirmed" ELSE "attempted"
        /\ Stand' = IF Submitted(op.s) THEN "confirmed" ELSE "attempted"
    BY <1>0, <2>1 DEF Stand
  <2>3. CASE Stand' = Stand
    BY <1>0, <1>1, <2>1, <2>3 DEF ContractStep, Contract!vars
  <2>4. CASE Stand = "attempted" /\ Stand' = "confirmed"
    <3>1. [marker |-> reg.sub.marker, rev |-> reg.rev, comments |-> reg.comments] \in posted
      BY <1>0, <1>1, <2>1, <2>2, <2>4 DEF RecordAccounts, ReviewOf
    <3>2. Contract!Confirm
      BY <1>0, <1>1, <2>1, <2>4, <3>1 DEF Contract!Confirm, Contract!Review
    <3> QED BY <3>2 DEF ContractStep, Contract!Next
  <2>5. CASE Stand = "confirmed" /\ Stand' = "attempted"
    <3>1. Contract!Doubt
      BY <1>0, <1>1, <2>1, <2>5 DEF Contract!Doubt
    <3> QED BY <3>1 DEF ContractStep, Contract!Next
  <2> QED BY <2>2, <2>3, <2>4, <2>5
<1> QED BY <1>2, <1>3, <1>4 DEF SavePoints, SubmissionPoints, CleanupPoints

(* A refresh takes the draft along, or keeps the posted review.            *)
LEMMA ContractRevises ==
  ASSUME Accounted, op.pc = "refresh.save", disk' = op.s, posted' = posted
  PROVE  ContractStep
<1>0. /\ RefreshInv /\ disk = reg /\ reg # NoSession /\ reg \in Session /\ op.s # NoSession
  BY WriteFacts DEF SavePoints
<1>1. Revises(op.s, reg)
  BY <1>0 DEF RefreshInv
<1>2. CASE /\ Submitted(reg) /\ op.s.sub = NoSubmission
           /\ op.s.comments = NoComments /\ op.s.history = Append(reg.history, ReviewOf(reg))
  <2>1. Stand = "confirmed" /\ Stand' = "draft"
    BY <1>0, <1>2 DEF Stand, IsDraft, Submitted, NoSubmission
  <2>2. op.s.rev = reg.rev + 1
    BY <1>1 DEF Revises
  <2>3. Contract!Archive
    BY <1>0, <1>2, <2>1, <2>2
    DEF Contract!Archive, Contract!Review, Contract!NoComments, NoComments, ReviewOf
  <2> QED BY <2>3 DEF ContractStep, Contract!Next
<1>3. CASE IsDraft(reg) /\ op.s.sub = reg.sub /\ op.s.history = reg.history
  <2>1. Stand = "draft" /\ Stand' = "draft"
    BY <1>0, <1>3 DEF Stand, IsDraft, Submitted
  <2>2. /\ op.s.rev = reg.rev + 1
        /\ \A id \in CommentIds : op.s.comments[id] = Absent <=> reg.comments[id] = Absent
        /\ \A id \in CommentIds :
             reg.comments[id] # Absent => op.s.comments[id].body = reg.comments[id].body
    BY <1>1, <1>3 DEF Revises, IsDraft, Submitted
  <2>3. Contract!Carry
    BY <1>0, <1>3, <2>1, <2>2 DEF Contract!Carry
  <2> QED BY <2>3 DEF ContractStep, Contract!Next
<1> QED BY <1>1, <1>2, <1>3 DEF Revises

(* A review whose submission is open is not deleted.                       *)
LEMMA ContractDeletes ==
  ASSUME Accounted, op.pc = "delete.record", disk' = NoSession, posted' = posted
  PROVE  ContractStep
<1>0. /\ WorkInv /\ QuietInv /\ disk = reg /\ reg # NoSession
  <2>1. /\ WorkInv /\ QuietInv /\ RecordsAgree /\ DownIsIdle
    BY DEF Accounted, Known, WorktreeInv, ReviewInv
  <2> QED BY <2>1, DownRunsNothing DEF RecordsAgree, WorkInv
<1>1. Resolved(reg)
  <2>1. op.s.archived /\ Resolved(op.s) /\ op.s.sub = reg.sub
    BY <1>0 DEF QuietInv, WorkInv, ManagementPoints, DeletePoints
  <2> QED BY <2>1 DEF Resolved, IsDraft, Submitted
<1>2. Stand \in {"draft", "confirmed"} /\ Stand' = "deleted"
  BY <1>0, <1>1 DEF Stand, Resolved
<1>3. Contract!Delete
  BY <1>0, <1>2 DEF Contract!Delete, Contract!NoComments, NoComments
<1> QED BY <1>3 DEF ContractStep, Contract!Next

(* The contract sees the record on disk and GitHub, and nothing else.      *)
LEMMA ContractKept ==
  ASSUME Accounted, OneCommentInv, ~LateReviews, [Next]_vars
  PROVE  ContractStep
<1>0. Typed
  BY AccountedFacts
<1>1. CASE posted' # posted
  BY <1>1, ContractPosts
<1>2. CASE posted' = posted /\ disk' = disk
  BY <1>2 DEF ContractStep, Contract!vars, Stand
<1>3. CASE posted' = posted /\ op.pc \in SavePoints /\ disk' = op.s
  <2>1. op.pc \in {"comment.save", "unchanged.save", "refresh.save"}
                  \cup ManagementPoints \cup SubmissionPoints
    BY <1>3 DEF SavePoints, ManagementPoints, DeletePoints, SubmissionPoints, CleanupPoints
  <2> QED BY <1>3, <2>1, ContractEdits, ContractSubmits, ContractRevises
<1>4. CASE posted' = posted /\ op.pc = "delete.record" /\ disk' = NoSession
  BY <1>4, ContractDeletes
<1>5. \/ disk' = disk
      \/ op.pc \in SavePoints /\ disk' = op.s
      \/ op.pc = "delete.record" /\ disk' = NoSession
  BY <1>0, RecordSteps DEF Writes, Saved, DeleteRecord, Crash, DiskAfterCrash, Restart
<1> QED BY <1>1, <1>2, <1>3, <1>4, <1>5

LEMMA ContractInitially == Init => Contract!Init
<1> SUFFICES ASSUME Init PROVE Contract!Init
  OBVIOUS
<1>1. PICK g \in Gens : disk = NewReview(g)
  BY DEF Init
<1>2. disk # NoSession
  <2>1. NoSubmission \in Submission /\ NoComments \in Comments
    BY DEF NoSubmission, Submission, Statuses, Cleanups, NoComments, Comments
  <2>2. disk \in Session
    BY <1>1, <2>1 DEF NewReview, Session
  <2> QED BY <2>2, SentinelAssumption
<1>3. /\ disk.rev = 0 /\ disk.comments = NoComments /\ disk.history = <<>> /\ IsDraft(disk)
  BY <1>1 DEF NewReview, IsDraft, NoSubmission
<1>4. Stand = "draft" /\ posted = {}
  BY <1>2, <1>3 DEF Stand, Init, IsDraft, Submitted
<1> QED BY <1>2, <1>3, <1>4 DEF Contract!Init, Contract!NoComments, NoComments

(* As long as GitHub applies no review after its request failed, no        *)
(* revision is posted twice, and what may have been posted is neither      *)
(* edited, sent again nor forgotten until it is known.                     *)
THEOREM SubmissionKeepsContract == ~LateReviews => (Spec => KeepsContract)
<1> SUFFICES ASSUME ~LateReviews PROVE Spec => KeepsContract
  OBVIOUS
<1>1. Init => OneCommentInv
  BY DEF Init, Idle, OneCommentInv
<1>2. Accounted /\ OneCommentInv /\ [Next]_vars => OneCommentInv'
  BY OneCommentNext DEF Accounted
<1>3. Accounted /\ OneCommentInv /\ [Next]_vars => [Contract!Next]_(Contract!vars)
  BY ContractKept DEF ContractStep
<1> QED
  BY <1>1, <1>2, <1>3, ContractInitially, AlwaysAccounted, PTL
  DEF Spec, KeepsContract, Contract!Spec

(* Every record has its type, and its worktree where it can be edited.     *)
THEOREM RecordAlwaysInPlace == Spec => []RecordInPlace
BY TypeCorrect, WorktreeIsKept, PTL DEF RecordInPlace

=============================================================================
