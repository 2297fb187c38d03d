----------------------- MODULE ReviewSessionProperties -----------------------
(***************************************************************************)
(* What a saved review promises, whatever is asked of it, whatever fails,  *)
(* and whenever the daemon stops.                                          *)
(***************************************************************************)
EXTENDS ReviewSession

OptionalSession == Session \cup {NoSession}
OptionalGen == Gens \cup {NoGen}

Operation == [pc: SavePoints \cup OtherPoints, rev: Nat \cup {NoRev},
              s: OptionalSession, prev: OptionalSession, trying: BOOLEAN]
ChatState == [active: BOOLEAN, turnGen: OptionalGen, agent: OptionalGen,
              stuck: BOOLEAN]

(* The type of every variable of the module.                               *)
TypeOK ==
  /\ phase \in {"down", "starting", "ready"}
  /\ reg \in OptionalSession
  /\ disk \in OptionalSession
  /\ locked \in BOOLEAN
  /\ queue \in Seq(Request)
  /\ op \in Operation
  /\ chat \in ChatState
  /\ worktrees \in SUBSET Gens
  /\ posted \in SUBSET Review
  /\ late \in SUBSET Review
  /\ attempts \in Nat

(***************************************************************************)
(* Worktrees.                                                              *)
(***************************************************************************)

(* A review that can still be edited or submitted has its worktree,        *)
(* whatever refresh, rollback, deletion, crash or sweep came before        *)
(* (refresh-service.ts:59-159, worktrees/service.ts:216-251).  Deletion    *)
(* removes the worktree first, and is excluded by its own flag.            *)
Editable(s) ==
  s # NoSession /\ ~s.deleting /\ s.sub.status \in {"none", "submitting"}

WorktreeKept ==
  \A s \in {reg, disk} : Editable(s) => s.gen \in worktrees

(* And every record is one, with all its fields: both at once.             *)
RecordInPlace == TypeOK /\ WorktreeKept

(* No step removes the worktree a chat turn runs in: not the cleanup of a  *)
(* submission it overlapped, not a refresh, not a deletion                 *)
(* (submissions/service.ts:169-190, chats/service.ts:217-255).             *)
TurnKeepsWorktree ==
  [][chat.active /\ chat'.active => (chat.turnGen \in worktrees
                                     => chat.turnGen \in worktrees')]_vars

(* The review changes worktree only while no turn is active and no agent   *)
(* runs: restore() would forget both (refresh-service.ts:113-132).         *)
SwitchesQuietly ==
  [][ reg # NoSession /\ reg' # NoSession /\ reg'.gen # reg.gen
      => ~chat.active /\ chat.agent = NoGen ]_vars

(* A turn that runs keeps its place: nobody removes its worktree, and the  *)
(* review does not change to another one under it or its agent.            *)
TurnsUndisturbed == TurnKeepsWorktree /\ SwitchesQuietly

(***************************************************************************)
(* The mutation gate.                                                      *)
(***************************************************************************)

(* An archived review is at rest: no turn, and nothing half submitted      *)
(* (management-service.ts:21-33 and 106-121: checked when archiving is     *)
(* requested, and again when it runs, both times before awaits).           *)
ArchivedIsQuiet ==
  reg # NoSession /\ reg.archived => ~chat.active /\ Resolved(reg)

(* A deletion that was requested on an archived, resolved review is never  *)
(* withdrawn, and the record goes only when the worktree is gone           *)
(* (management-service.ts:39-90): a crash between the two leaves a record  *)
(* that says what remains to be done.                                      *)
DeletionOrder ==
  [][ /\ disk # NoSession /\ disk' = NoSession
        => disk.deleting /\ disk.gen \notin worktrees
      /\ disk # NoSession /\ disk' # NoSession
        => (disk.deleting => disk' = disk)
      /\ disk # NoSession /\ disk' # NoSession /\ disk'.deleting
        => disk'.archived /\ Resolved(disk') ]_vars

(***************************************************************************)
(* Draft comments.                                                         *)
(***************************************************************************)

(* No saved step loses or rewrites the draft comments of anyone: a comment *)
(* goes or changes its text only by a request made at the revision it is   *)
(* in, or goes into the history with the review that posted it             *)
(* (sessions/session-registry.ts:41-55, comments/service.ts,               *)
(* refresh-service.ts:99-112).                                             *)
ChangedHere(id) ==
  op.pc = "comment.save" /\ op.rev = disk.rev /\ op.s.comments[id] # disk.comments[id]

MovedToHistory(id) ==
  /\ Len(disk'.history) = Len(disk.history) + 1
  /\ disk'.history[Len(disk'.history)].comments[id] = disk.comments[id]

KeepsText(id) ==
  /\ disk'.comments[id] # Absent
  /\ disk'.comments[id].body = disk.comments[id].body

CommentsSurvive ==
  [][ disk # NoSession /\ disk' # NoSession =>
        \A id \in CommentIds : disk.comments[id] # Absent =>
          KeepsText(id) \/ ChangedHere(id) \/ MovedToHistory(id) ]_vars

(* A comment that says its anchor is current was checked against the       *)
(* diff of the revision that holds it, and every posted one was: a queued  *)
(* request, or a comment a refresh could not place, never slips through    *)
(* (comments/service.ts:44-59, relocate.ts, submissions/service.ts:59-65). *)
AnchoredAt(comments, rev) ==
  \A id \in CommentIds :
    comments[id] # Absent /\ comments[id].status = "current" => comments[id].at = rev
AllCurrent(comments) ==
  \A id \in CommentIds : comments[id] # Absent => comments[id].status = "current"

AnchorsVerified ==
  /\ \A s \in {reg, disk} : s # NoSession => AnchoredAt(s.comments, s.rev)
  /\ \A r \in posted : AllCurrent(r.comments) /\ AnchoredAt(r.comments, r.rev)

(***************************************************************************)
(* Submission.                                                             *)
(***************************************************************************)

(* GitHub never holds two reviews of one revision, across lost answers,    *)
(* failing saves, crashes, retries and reconciliation                      *)
(* (submissions/service.ts:81-151).                                        *)
OneReviewPerRevision == \A p, q \in posted : p.rev = q.rev => p = q

(* What the record and its history say was submitted is what GitHub holds. *)
ReceiptMatchesReview ==
  \A s \in {reg, disk} : s # NoSession =>
    /\ Submitted(s) => ReviewOf(s) \in posted
    /\ \A i \in DOMAIN s.history : s.history[i] \in posted

(* The record never forgets a review: one GitHub holds is in the history,  *)
(* or it is the one the record's submission names.  A draft therefore      *)
(* never holds comments that were posted.                                  *)
NoForgottenReview ==
  disk # NoSession =>
    \A r \in posted :
      \/ \E i \in DOMAIN disk.history : disk.history[i] = r
      \/ ~IsDraft(disk) /\ ReviewOf(disk) = r

(* The record and GitHub agree on what was posted, in both directions.     *)
RecordMatchesGitHub == ReceiptMatchesReview /\ NoForgottenReview

(* Submitting a review keeps its contract: no revision is posted twice, no *)
(* review is edited or sent again while it may have been posted, and what  *)
(* was posted is found, confirmed and kept (submissions/service.ts:57-190, *)
(* refresh-service.ts:99-112), through lost answers, failing saves and     *)
(* crashes at any await.                                                   *)
Stand ==
  CASE disk = NoSession -> "deleted"
    [] disk # NoSession /\ IsDraft(disk) -> "draft"
    [] disk # NoSession /\ Submitted(disk) -> "confirmed"
    [] OTHER -> "attempted"

Contract == INSTANCE ReviewContract WITH
  revision <- IF disk = NoSession THEN 0 ELSE disk.rev,
  comments <- IF disk = NoSession THEN NoComments ELSE disk.comments,
  stand <- Stand,
  attempt <- IF Stand \in {"draft", "deleted"} THEN 0 ELSE disk.sub.marker,
  past <- IF disk = NoSession THEN <<>> ELSE disk.history,
  github <- posted

KeepsContract == Contract!Spec

(***************************************************************************)
(* Progress.                                                               *)
(***************************************************************************)

(* A review that is being refreshed, archived or deleted does not refuse   *)
(* requests for ever: each path out of the operation opens the gate again  *)
(* (refresh-service.ts:156-159, management-service.ts:86-88, 147-149).     *)
GateReleased == locked ~> ~locked

(* A daemon that starts becomes ready whatever was left behind, or stops.  *)
StartupCompletes == phase = "starting" ~> phase \in {"ready", "down"}

(* Nothing that was begun keeps the review or the daemon from going on     *)
(* (refresh-service.ts:156-159, server.ts:90-120).                         *)
ReviewGoesOn == GateReleased /\ StartupCompletes

(***************************************************************************)
(* Strengthenings: what makes WorktreeKept inductive.                      *)
(***************************************************************************)

(* Outside a crash the registry and the disk agree; a daemon that is down  *)
(* runs nothing.                                                           *)
RecordsAgree == phase # "down" => disk = reg
DownIsIdle == phase = "down" => op.pc = "idle" /\ queue = <<>>

(* An unresolved attempt whose worktree is gone was posted: reconciliation *)
(* will find it, and not return to a draft without a worktree.             *)
Recoverable(s) == s.gen \in worktrees \/ Found(s)

Kept(s) ==
  s # NoSession /\ ~s.deleting =>
    /\ s.sub.status \in {"none", "submitting"} => s.gen \in worktrees
    /\ s.sub.status = "uncertain" => Recoverable(s)

(* What the running operation knows of the worktree it will write about,   *)
(* remove, or leave behind.                                                *)
WorktreePoints == {"comment.save", "submit.preflight", "submit.save", "submit.create",
                   "submit.drop", "reconcile.drop"}
CleanupPoints == {"cleanup.seal", "cleanup.remove", "cleanup.save"}
CandidatePoints == {"refresh.map", "refresh.chat", "refresh.save"}

OpKept ==
  /\ op.pc \in WorktreePoints => op.s.gen \in worktrees
  /\ op.pc = "complete.save" => Found(op.s) /\ Submitted(op.s)
  /\ op.pc \in {"submit.uncertain", "reconcile.list"} => Recoverable(op.s)
  /\ op.pc = "submit.uncertain" => op.s.sub.status = "uncertain"
  /\ op.pc \in CleanupPoints =>
       Submitted(reg) /\ Submitted(op.s) /\ (op.trying => Found(op.s))
  /\ op.pc \in {"refresh.prepare", "refresh.discard"} \cup CandidatePoints => op.prev = reg
  /\ op.pc \in {"refresh.discard", "refresh.rollback"} \cup CandidatePoints =>
       op.s.gen # reg.gen
  /\ op.pc \in CandidatePoints => op.s.gen \in worktrees
  /\ op.pc = "unchanged.save" => op.s = reg
  /\ op.pc = "refresh.retire" => op.prev.gen # reg.gen
  /\ op.pc = "visibility.save" => reg # NoSession
  /\ op.pc = "visibility.save" =>
       op.s.gen = reg.gen /\ op.s.sub = reg.sub /\ op.s.deleting = reg.deleting
  /\ op.pc \in {"delete.intent", "delete.worktree", "delete.record"} => op.s.deleting
  /\ op.pc \in {"delete.worktree", "delete.record"} => reg.deleting

WorktreeInv ==
  /\ RecordsAgree /\ DownIsIdle
  /\ Kept(reg) /\ Kept(disk)
  /\ OpKept

(***************************************************************************)
(* Strengthenings: what a record says whichever one it is, and what the    *)
(* running operation knows of the one it will write.                       *)
(***************************************************************************)

(* Comments are at the revision they were verified against, and what is    *)
(* archived or being deleted is at rest.                                   *)
RecordSound(s) ==
  s # NoSession => /\ AnchoredAt(s.comments, s.rev)
                   /\ s.deleting => s.archived
                   /\ s.archived => Resolved(s)
RecordsInv ==
  /\ RecordSound(reg) /\ RecordSound(disk)
  /\ phase = "down" => reg = NoSession
PostedInv == \A r \in posted \cup late : AllCurrent(r.comments) /\ AnchoredAt(r.comments, r.rev)

(* A turn runs in the worktree of its review, in a daemon that is ready.   *)
ChatInv ==
  chat.active => /\ phase = "ready"
                 /\ reg # NoSession /\ chat.turnGen = reg.gen /\ ~reg.archived

(* What an operation writes is the review it found, but for what it is     *)
(* about: a comment, the submission, the archive or the deletion.          *)
SubmissionPoints == {"submit.preflight", "submit.save", "submit.create", "submit.drop",
                     "submit.uncertain", "reconcile.list", "reconcile.drop",
                     "complete.save"} \cup CleanupPoints
DeletePoints == {"delete.intent", "delete.worktree", "delete.record"}
ManagementPoints == {"visibility.save"} \cup DeletePoints
Continues(s) == s.rev = reg.rev /\ s.gen = reg.gen /\ s.history = reg.history

WorkInv ==
  /\ op.pc # "idle" => reg # NoSession
  /\ op.pc \in {"comment.save"} \cup SubmissionPoints \cup ManagementPoints => Continues(op.s)
  /\ op.pc \in SubmissionPoints \cup ManagementPoints => op.s.comments = reg.comments
  /\ op.pc \in {"comment.save"} \cup ManagementPoints => op.s.sub = reg.sub
  /\ op.pc \notin {"idle"} \cup DeletePoints => ~op.s.deleting
  /\ op.pc \notin {"idle", "delete.worktree", "delete.record"} => ~reg.deleting
  /\ op.pc = "comment.save" => op.rev = reg.rev

(* A comment operation writes one comment.                                 *)
OneCommentInv ==
  op.pc = "comment.save" =>
    \E id \in CommentIds :
      \A other \in CommentIds \ {id} : op.s.comments[other] = reg.comments[other]

(* Only the daemon asks without a revision.                                *)
QueueInv == \A i \in DOMAIN queue : queue[i].kind = "comment" => queue[i].rev # NoRev

(* Where a submission stands.                                              *)
StandingInv ==
  /\ op.pc \in {"comment.save", "submit.preflight", "submit.save"} => IsDraft(reg)
  /\ op.pc = "submit.preflight" => op.s = reg
  /\ op.pc = "submit.save" => op.s.sub.status = "submitting" /\ op.s.sub.marker = attempts
  /\ op.pc \in {"submit.create", "reconcile.list"} => op.s = reg /\ ~IsDraft(reg)
  /\ op.pc \in {"submit.drop", "reconcile.drop"} => op.s.sub = NoSubmission
  /\ op.pc \in {"complete.save", "submit.uncertain"} \cup CleanupPoints =>
       ~IsDraft(reg) /\ ~IsDraft(op.s) /\ op.s.sub.marker = reg.sub.marker

(* A refresh found a review at rest, and the revision it writes holds its  *)
(* comments, or has put them into the history.                             *)
Revises(s, r) ==
  /\ s.rev = r.rev + 1
  /\ \/ /\ Submitted(r) /\ s.sub = NoSubmission
        /\ s.comments = NoComments /\ s.history = Append(r.history, ReviewOf(r))
     \/ /\ IsDraft(r) /\ s.sub = r.sub /\ s.history = r.history
        /\ \A id \in CommentIds : s.comments[id] = Absent <=> r.comments[id] = Absent
        /\ \A id \in CommentIds :
             r.comments[id] # Absent => s.comments[id].body = r.comments[id].body

RefreshInv ==
  /\ op.pc \in {"refresh.prepare", "refresh.discard"} \cup CandidatePoints =>
       Resolved(reg) /\ ~reg.archived
  /\ op.pc = "refresh.prepare" => op.s = reg
  /\ op.pc \in {"refresh.discard", "refresh.map"} =>
       /\ op.s.rev = reg.rev /\ op.s.history = reg.history
       /\ op.s.comments = reg.comments /\ op.s.sub = reg.sub
  /\ op.pc \in {"refresh.chat", "refresh.save"} => Revises(op.s, reg)

(* What is posted was verified, and stays so until it is.                  *)
AnchorInv ==
  /\ op.pc # "idle" => AnchoredAt(op.s.comments, op.s.rev)
  /\ op.pc \in {"submit.save", "submit.create"} => AllCurrent(op.s.comments)

(* No turn runs where a worktree is removed, or the review changes to      *)
(* another one or comes to rest.                                           *)
SwitchingPoints == {"refresh.prepare", "refresh.discard", "refresh.rollback",
                    "unchanged.save"} \cup CandidatePoints
QuietInv ==
  /\ op.pc = "cleanup.remove" => ~chat.active
  /\ op.pc \in SwitchingPoints => locked /\ ~chat.active
  /\ op.pc = "refresh.save" => chat.agent = NoGen
  /\ op.pc \in ManagementPoints /\ op.s.archived => locked /\ ~chat.active /\ Resolved(op.s)
  /\ op.pc \in DeletePoints => op.s.archived
  /\ op.pc \notin {"idle"} \cup ManagementPoints => ~op.s.archived
  /\ op.pc = "delete.record" => op.s.gen \notin worktrees

ReviewInv ==
  /\ RecordsInv /\ PostedInv /\ ChatInv /\ QueueInv
  /\ WorkInv /\ StandingInv /\ RefreshInv /\ AnchorInv /\ QuietInv

(* What GitHub holds and what the record and its history say, while        *)
(* GitHub applies no review after its request failed: a refusal leaves no  *)
(* review behind, and a found one is the review of the record.             *)
RecordAccounts(s) ==
  s # NoSession =>
    /\ Submitted(s) => ReviewOf(s) \in posted
    /\ \A i \in DOMAIN s.history : s.history[i] \in posted /\ s.history[i].rev < s.rev
    /\ ~IsDraft(s) => /\ s.sub.marker <= attempts
                      /\ \A i \in DOMAIN s.history : s.history[i].marker # s.sub.marker
    /\ \A r \in posted : \/ \E i \in DOMAIN s.history : s.history[i] = r
                         \/ ~IsDraft(s) /\ ReviewOf(s) = r

(* What the running operation knows of the review of its attempt.          *)
AttemptInv ==
  /\ op.pc \in {"submit.save", "submit.create"} => ~Found(op.s)
  /\ op.pc \in {"submit.drop", "reconcile.drop"} => ~Found(reg)
  /\ op.pc \in {"complete.save"} \cup CleanupPoints => ReviewOf(op.s) \in posted

LedgerInv ==
  /\ late = {}
  /\ \A r \in posted : r.marker <= attempts
  /\ OneReviewPerRevision
  /\ RecordAccounts(reg) /\ RecordAccounts(disk)
  /\ AttemptInv
=============================================================================
