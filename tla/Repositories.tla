------------------------------ MODULE Repositories ------------------------------
(***************************************************************************)
(* The repository registry and the worktrees of its reviews                *)
(* (repos/service.ts, worktrees/manager.ts, worktrees/service.ts), with    *)
(* the operations that meet on its lock: changes of the registry, opening  *)
(* a review (sessions/open-service.ts), refreshing and deleting one, and   *)
(* cleaning up after one was submitted (submissions/service.ts).           *)
(*                                                                         *)
(* There is one repository, with several checkouts, and one pull request   *)
(* whose head moves.  The worktree of a review lies at a path given by its *)
(* generation (0 when the review was never refreshed) and is linked to the *)
(* checkout that was the primary one when it was added.  A checkout that   *)
(* is gone or has another origin, and a worktree with local changes, make  *)
(* an operation fail, as any failure of git does.  A review counts as      *)
(* submitted from the moment its receipt is saved: what a submission does  *)
(* before, and how an uncertain one is settled, is ReviewSession's.        *)
(***************************************************************************)
EXTENDS Naturals, Sequences, FiniteSets

CONSTANTS
  Checkouts,       (* paths of checkouts of the repository                 *)
  Tasks,           (* operations that may run at a time                    *)
  None,            (* not registered, no worktree, no review               *)
  Kinds,           (* bound: the operations each task may run              *)
  MaxReviews,      (* bound: openings                                      *)
  MaxGenerations,  (* bound: refreshes                                     *)
  MaxHead,         (* bound: pushes to the pull request                    *)
  MaxRestarts      (* bound: restarts                                      *)

ASSUME RepositoryBoundsAssumption ==
  /\ None \notin Checkouts
  /\ MaxReviews \in Nat /\ MaxGenerations \in Nat /\ MaxHead \in Nat /\ MaxRestarts \in Nat

Reviews == 1..MaxReviews
Generations == 0..MaxGenerations
Heads == 0..MaxHead

VARIABLES
  repo,        (* the registered repository in memory                      *)
  file,        (* repos.json                                               *)
  worktrees,   (* the worktree at the path of each generation              *)
  sessions,    (* the reviews, in the registry and on disk                 *)
  head,        (* the head of the pull request on GitHub                   *)
  opening,     (* OpenReviewService.#queue of the pull request             *)
  mutations,   (* SessionMutationQueue of each review                      *)
  lock,        (* the registry lock: its head holds it                     *)
  task,        (* the running operations                                   *)
  phase,       (* of the daemon: recovering, sweeping or ready             *)
  acked,       (* history: checkouts whose registration was acknowledged   *)
  opened, refreshed, restarts  (* counts, for the bounds                   *)

vars == <<repo, file, worktrees, sessions, head, opening, mutations, lock, task,
          phase, acked, opened, refreshed, restarts>>
counts == <<phase, opened, refreshed, restarts>>
queues == <<opening, mutations, lock>>

Repo == {r \in [checkouts: SUBSET Checkouts, primary: Checkouts]: r.primary \in r.checkouts}
Worktree == [at: Checkouts, head: Heads]

(* Of a review: not submitted, submitted and not cleaned up, cleaned up.   *)
Submissions == {"none", "posted", "cleaned"}
Session == [gen: Generations, head: Heads, deleting: BOOLEAN, sub: Submissions]

(* None is told apart from what it stands beside.                          *)
ASSUME RepositorySentinelAssumption ==
  None \notin Repo /\ None \notin Worktree /\ None \notin Session

(* Where an operation is, the argument it was called with, and what it     *)
(* carries across its awaits.                                              *)
Locations == {"none", "opening", "touch", "queued", "lock", "fetch", "write", "save", "commit"}
Goals == {"register", "primary", "forget", "unregister", "open", "refresh", "discard",
          "old", "delete", "cleanup"}
Idle == [pc |-> "none", goal |-> "register", path |-> None, review |-> 0,
         head |-> 0, gen |-> 0, reused |-> FALSE, next |-> None]
Task == [pc: Locations, goal: Goals, path: Checkouts \cup {None}, review: 0..MaxReviews,
         head: Heads, gen: Generations, reused: BOOLEAN, next: Repo \cup {None}]

Init ==
  /\ repo = None /\ file = None
  /\ worktrees = [g \in Generations |-> None]
  /\ sessions = [r \in Reviews |-> None]
  /\ head = 0
  /\ opening = <<>> /\ lock = <<>>
  /\ mutations = [r \in Reviews |-> <<>>]
  /\ task = [t \in Tasks |-> Idle]
  /\ phase = "ready" /\ acked = {} /\ opened = 0 /\ refreshed = 0 /\ restarts = 0

(***************************************************************************)
(* Queues.  A task is in the queues of what it holds or waits for, and     *)
(* leaves one it holds: the promise of what still waits does not settle.   *)
(***************************************************************************)
Holds(queue, t) == queue # <<>> /\ Head(queue) = t
Without(queue, t) == IF Holds(queue, t) THEN Tail(queue) ELSE queue
HasLock(t) == task[t].pc \in {"lock", "fetch", "write", "save"} /\ Holds(lock, t)

(* The operation ends, and leaves every queue it is in.                    *)
End(t) ==
  /\ task' = [task EXCEPT ![t] = Idle]
  /\ opening' = Without(opening, t)
  /\ mutations' = [r \in Reviews |-> Without(mutations[r], t)]
  /\ lock' = Without(lock, t)

Lock(t, goal) ==
  /\ task' = [task EXCEPT ![t].pc = "lock", ![t].goal = goal]
  /\ lock' = Append(lock, t)

Free(t) == phase = "ready" /\ task[t].pc = "none"

(* withLock outside of the lock; inside of it, the operation just runs.    *)
Begin(t, goal, path) ==
  /\ Free(t) /\ goal \in Kinds[t]
  /\ task' = [task EXCEPT ![t] = [Idle EXCEPT !.pc = "lock", !.goal = goal, !.path = path]]
  /\ lock' = Append(lock, t)
  /\ UNCHANGED <<repo, file, head, worktrees, sessions, opening, mutations, acked, counts>>

(***************************************************************************)
(* Changes of the registry.                                                *)
(***************************************************************************)
Checked(t, next) ==
  /\ task' = [task EXCEPT ![t].pc = "write", ![t].next = next]
  /\ UNCHANGED <<repo, file, head, worktrees, sessions, queues, acked, counts>>

(* Slip: an operation that fails keeps the lock.                           *)
FailsHolding(t) ==
  /\ task' = [task EXCEPT ![t] = Idle]
  /\ opening' = Without(opening, t)
  /\ mutations' = [r \in Reviews |-> Without(mutations[r], t)]
  /\ lock' = IF Holds(lock, t) THEN <<t>> \o Without(lock, t) ELSE Without(lock, t)
  /\ UNCHANGED <<repo, file, head, worktrees, sessions, acked, counts>>

Fails(t) == End(t) /\ UNCHANGED <<repo, file, head, worktrees, sessions, acked, counts>>

(* The holder of the lock looks at what its operation needs.               *)
At(t, goal) == HasLock(t) /\ task[t].pc = "lock" /\ task[t].goal = goal

(* Slip: the registration does not wait for the lock.                      *)
RegisterUnlocked(t) ==
  /\ task[t].pc = "lock" /\ task[t].goal = "register"
  /\ Checked(t, IF repo = None
                THEN [checkouts |-> {task[t].path}, primary |-> task[t].path]
                ELSE [repo EXCEPT !.checkouts = @ \cup {task[t].path}])

Register(t) ==
  /\ At(t, "register")
  /\ Checked(t, IF repo = None
                THEN [checkouts |-> {task[t].path}, primary |-> task[t].path]
                ELSE [repo EXCEPT !.checkouts = @ \cup {task[t].path}])

(* #assertPrimaryChange: no saved review, and no linked worktree, depends  *)
(* on the primary checkout.                                                *)
Replaceable ==
  /\ \A r \in Reviews: sessions[r] = None
  /\ \A g \in Generations: worktrees[g] # None => worktrees[g].at # repo.primary

Member(t) == repo # None /\ task[t].path \in repo.checkouts

SetPrimary(t) ==
  /\ At(t, "primary")
  /\ Member(t) /\ repo.primary # task[t].path /\ Replaceable
  /\ Checked(t, [repo EXCEPT !.primary = task[t].path])

Forget(t) ==
  /\ At(t, "forget") /\ Member(t) /\ repo.primary # task[t].path
  /\ Checked(t, [repo EXCEPT !.checkouts = @ \ {task[t].path}])

Unregister(t) ==
  /\ At(t, "unregister") /\ repo # None /\ Replaceable
  /\ Checked(t, None)

(* The operation is refused, or git fails or does not answer in time.      *)
Registrations == {"register", "primary", "forget", "unregister"}
RegistryRefuses(t) ==
  /\ HasLock(t) /\ task[t].pc = "lock" /\ task[t].goal \in Registrations
  /\ Fails(t)

(* The file is written, then the memory follows; a failed write changes    *)
(* nothing.                                                                *)
Write(t) ==
  /\ task[t].pc = "write"
  /\ repo' = task[t].next /\ file' = task[t].next
  /\ acked' = CASE task[t].goal = "register"   -> acked \cup {task[t].path}
                [] task[t].goal = "forget"     -> acked \ {task[t].path}
                [] task[t].goal = "unregister" -> {}
                [] OTHER                       -> acked
  /\ End(t)
  /\ UNCHANGED <<head, worktrees, sessions, counts>>

WriteFails(t) == task[t].pc = "write" /\ Fails(t)

(***************************************************************************)
(* Worktrees, under the lock: WorktreeManager.#withRepo                    *)
(***************************************************************************)
(* What lies at the path must be a worktree of the primary checkout, at    *)
(* the head of the pull request.                                           *)
Preparable(g, h) ==
  worktrees[g] # None => worktrees[g].at = repo.primary /\ worktrees[g].head = h

Prepare(t) ==
  /\ At(t, "open") \/ At(t, "refresh")
  /\ LET pull == IF task[t].goal = "open" THEN head ELSE task[t].head IN
       /\ repo # None /\ Preparable(task[t].gen, pull)
       /\ task' = [task EXCEPT ![t].pc = "fetch", ![t].head = pull,
                               ![t].reused = worktrees[task[t].gen] # None]
  /\ UNCHANGED <<repo, file, head, worktrees, sessions, queues, acked, counts>>

(* The pull request moved since its details were read, or git failed.      *)
PrepareFails(t) ==
  /\ At(t, "open") \/ At(t, "refresh") \/ (HasLock(t) /\ task[t].pc = "fetch")
  /\ Fails(t)

(* The worktree is added.  An open keeps the lock, a refresh does not.     *)
Add(t) ==
  /\ HasLock(t) /\ task[t].pc = "fetch" /\ task[t].head = head
  /\ worktrees' = IF task[t].reused THEN worktrees
                  ELSE [worktrees EXCEPT ![task[t].gen] = [at |-> repo.primary, head |-> head]]
  /\ IF task[t].goal = "open"
     THEN task' = [task EXCEPT ![t].pc = "save"] /\ UNCHANGED lock
     ELSE task' = [task EXCEPT ![t].pc = "commit"] /\ lock' = Without(lock, t)
  /\ UNCHANGED <<repo, file, head, sessions, opening, mutations, acked, counts>>

(* WorktreeService.remove                                                  *)
Removable(g) == repo # None /\ (worktrees[g] # None => worktrees[g].at = repo.primary)
Removed(g) == worktrees' = [worktrees EXCEPT ![g] = None]

(***************************************************************************)
(* Opening a review.                                                       *)
(***************************************************************************)
Open(t) ==
  /\ Free(t) /\ "open" \in Kinds[t]
  /\ opened < MaxReviews
  /\ opened' = opened + 1
  /\ task' = [task EXCEPT ![t] = [Idle EXCEPT !.pc = "opening", !.goal = "open",
                                               !.review = opened + 1]]
  /\ opening' = Append(opening, t)
  /\ UNCHANGED <<repo, file, head, worktrees, sessions, mutations, lock, acked, phase,
                 refreshed, restarts>>

Saved == {r \in Reviews: sessions[r] # None}

(* A review there already is is touched, in its own queue.                 *)
Reuse(t, r) ==
  /\ task' = [task EXCEPT ![t].pc = "touch", ![t].review = r]
  /\ mutations' = [mutations EXCEPT ![r] = Append(@, t)]

(* Slip: opens of one pull request are not queued.                         *)
FindUnqueued(t) ==
  /\ task[t].pc = "opening"
  /\ \/ \E r \in Saved: Reuse(t, r) /\ UNCHANGED lock
     \/ Saved = {} /\ Lock(t, "open") /\ UNCHANGED mutations
  /\ UNCHANGED <<repo, file, head, worktrees, sessions, opening, acked, counts>>

Find(t) ==
  /\ task[t].pc = "opening" /\ Holds(opening, t)
  /\ \/ \E r \in Saved: Reuse(t, r) /\ UNCHANGED lock
     \/ Saved = {} /\ Lock(t, "open") /\ UNCHANGED mutations
  /\ UNCHANGED <<repo, file, head, worktrees, sessions, opening, acked, counts>>

Touch(t) ==
  /\ task[t].pc = "touch" /\ Holds(mutations[task[t].review], t)
  /\ Fails(t)

Save(t) ==
  /\ task[t].pc = "save"
  /\ sessions' = [sessions EXCEPT ![task[t].review] =
                    [gen |-> 0, head |-> task[t].head, deleting |-> FALSE, sub |-> "none"]]
  /\ End(t)
  /\ UNCHANGED <<repo, file, head, worktrees, acked, counts>>

(* The worktree that was added for the review is removed again, if it can  *)
(* be; the removal may fail as well.                                       *)
SaveFails(t) ==
  /\ task[t].pc = "save"
  /\ \/ ~task[t].reused /\ Removable(0) /\ Removed(0)
     \/ UNCHANGED worktrees
  /\ End(t)
  /\ UNCHANGED <<repo, file, head, sessions, acked, counts>>

(***************************************************************************)
(* Refreshing, cleaning up and deleting a review, in its queue.            *)
(***************************************************************************)
Queued(t, goal, r, gen) ==
  /\ task' = [task EXCEPT ![t] = [Idle EXCEPT !.pc = "queued", !.goal = goal,
                                               !.review = r, !.gen = gen]]
  /\ mutations' = [mutations EXCEPT ![r] = Append(@, t)]
  /\ UNCHANGED <<repo, file, head, worktrees, sessions, opening, lock, acked, opened, restarts>>

(* A refresh prepares a worktree of a new generation.                      *)
Refresh(t, r) ==
  /\ Free(t) /\ "refresh" \in Kinds[t]
  /\ sessions[r] # None /\ refreshed < MaxGenerations
  /\ refreshed' = refreshed + 1
  /\ Queued(t, "refresh", r, refreshed + 1)
  /\ UNCHANGED phase

(* A deletion is refused while the review has other operations.            *)
Delete(t, r) ==
  /\ Free(t) /\ "delete" \in Kinds[t]
  /\ sessions[r] # None /\ mutations[r] = <<>>
  /\ Queued(t, "delete", r, 0)
  /\ UNCHANGED <<phase, refreshed>>

(* The review is submitted, or its cleanup is tried again.                 *)
Submit(t, r) ==
  /\ Free(t) /\ "cleanup" \in Kinds[t]
  /\ sessions[r] # None
  /\ Queued(t, "cleanup", r, 0)
  /\ UNCHANGED <<phase, refreshed>>

Runs(t, goal) ==
  /\ task[t].pc = "queued" /\ task[t].goal = goal
  /\ Holds(mutations[task[t].review], t)

(* The review is gone or may not be changed, or the operation failed.      *)
MutationFails(t) ==
  /\ task[t].pc = "queued" /\ Holds(mutations[task[t].review], t)
  /\ Fails(t)

(* Not while a submission is to be cleaned up; the pull request is read.   *)
RefreshRuns(t) ==
  /\ Runs(t, "refresh")
  /\ sessions[task[t].review] # None /\ ~sessions[task[t].review].deleting
  /\ sessions[task[t].review].sub # "posted"
  /\ task' = [task EXCEPT ![t].pc = "lock", ![t].head = head]
  /\ lock' = Append(lock, t)
  /\ UNCHANGED <<repo, file, head, worktrees, sessions, opening, mutations, acked, counts>>

(* The new revision is saved: for another head or base, or after a         *)
(* submission.  The old worktree is removed, if it can be, unless the      *)
(* cleanup of the submission did that.                                     *)
Commit(t) ==
  /\ task[t].pc = "commit" /\ task[t].goal = "refresh"
  /\ sessions' = [sessions EXCEPT ![task[t].review] =
                    [gen |-> task[t].gen, head |-> task[t].head, deleting |-> FALSE,
                     sub |-> "none"]]
  /\ IF sessions[task[t].review].sub = "none"
     THEN /\ task' = [task EXCEPT ![t].pc = "lock", ![t].goal = "old",
                                  ![t].gen = sessions[task[t].review].gen]
          /\ lock' = Append(lock, t) /\ UNCHANGED <<opening, mutations>>
     ELSE End(t)
  /\ UNCHANGED <<repo, file, head, worktrees, acked, counts>>

(* Nothing changed, or the preparation or the save failed.                 *)
Discard(t) ==
  /\ task[t].pc = "commit" /\ task[t].goal = "refresh"
  /\ Lock(t, "discard")
  /\ UNCHANGED <<repo, file, head, worktrees, sessions, opening, mutations, acked, counts>>

(* The deletion is recorded; then the worktree is removed.                 *)
DeleteRuns(t) ==
  /\ Runs(t, "delete") /\ sessions[task[t].review] # None
  /\ sessions[task[t].review].sub # "posted"
  /\ sessions' = [sessions EXCEPT ![task[t].review].deleting = TRUE]
  /\ task' = [task EXCEPT ![t].pc = "lock", ![t].gen = sessions[task[t].review].gen]
  /\ lock' = Append(lock, t)
  /\ UNCHANGED <<repo, file, head, worktrees, opening, mutations, acked, counts>>

(* The receipt of the submission is saved; then the worktree is removed.   *)
(* A cleanup that is tried again has its receipt.                          *)
CleanupRuns(t) ==
  /\ Runs(t, "cleanup")
  /\ sessions[task[t].review] # None /\ ~sessions[task[t].review].deleting
  /\ sessions' = [sessions EXCEPT ![task[t].review].sub = IF @ = "none" THEN "posted" ELSE @]
  /\ task' = [task EXCEPT ![t].pc = "lock", ![t].gen = sessions[task[t].review].gen]
  /\ lock' = Append(lock, t)
  /\ UNCHANGED <<repo, file, head, worktrees, opening, mutations, acked, counts>>

Removals == {"discard", "old", "delete", "cleanup"}
RemoveWorktree(t) ==
  /\ HasLock(t) /\ task[t].pc = "lock" /\ task[t].goal \in Removals
  /\ Removable(task[t].gen)
  /\ Removed(task[t].gen)
  /\ IF task[t].goal \in {"delete", "cleanup"}
     THEN /\ task' = [task EXCEPT ![t].pc = "commit"]
          /\ lock' = Without(lock, t) /\ UNCHANGED <<opening, mutations>>
     ELSE End(t)
  /\ UNCHANGED <<repo, file, head, sessions, acked, counts>>

RemoveFails(t) ==
  /\ HasLock(t) /\ task[t].pc = "lock" /\ task[t].goal \in Removals
  /\ Fails(t)

Deleted(t) ==
  /\ task[t].pc = "commit" /\ task[t].goal = "delete"
  /\ sessions' = [sessions EXCEPT ![task[t].review] = None]
  /\ End(t)
  /\ UNCHANGED <<repo, file, head, worktrees, acked, counts>>

(* The outcome of a cleanup is recorded: the worktree is gone, or it could *)
(* not be removed.                                                         *)
Recorded(t, sub) ==
  /\ sessions' = [sessions EXCEPT ![task[t].review].sub = sub]
  /\ End(t)
  /\ UNCHANGED <<repo, file, head, worktrees, acked, counts>>

CleanedUp(t) == task[t].pc = "commit" /\ task[t].goal = "cleanup" /\ Recorded(t, "cleaned")

CleanupFails(t) == At(t, "cleanup") /\ Recorded(t, "posted")

(* The last save fails: what was recorded before stands.                   *)
RecordFails(t) ==
  /\ task[t].pc = "commit" /\ task[t].goal \in {"delete", "cleanup"}
  /\ Fails(t)

(***************************************************************************)
(* The pull request moves.                                                 *)
(***************************************************************************)
Push ==
  /\ head < MaxHead /\ head' = head + 1
  /\ UNCHANGED <<repo, file, worktrees, sessions, queues, task, acked, counts>>

(***************************************************************************)
(* A restart: the registry and the reviews are read back, recorded         *)
(* deletions are resumed, a submission that was under way and did arrive   *)
(* is recorded, and old worktrees no review uses are swept.                *)
(***************************************************************************)
Restart ==
  /\ restarts < MaxRestarts
  /\ restarts' = restarts + 1
  /\ repo' = file /\ phase' = "recovering"
  /\ task' = [t \in Tasks |-> Idle]
  /\ opening' = <<>> /\ lock' = <<>> /\ mutations' = [r \in Reviews |-> <<>>]
  /\ UNCHANGED <<file, head, worktrees, sessions, acked, opened, refreshed>>

Doomed == {r \in Saved: sessions[r].deleting}

Recover(t) ==
  /\ phase = "recovering" /\ phase' = "sweeping"
  /\ \/ \E r \in Doomed: Queued(t, "delete", r, 0) /\ UNCHANGED refreshed
     \/ \E r \in Saved \ Doomed: /\ "cleanup" \in Kinds[t] /\ sessions[r].sub = "none"
                                 /\ Queued(t, "cleanup", r, 0) /\ UNCHANGED refreshed
     \/ /\ Doomed = {}
        /\ UNCHANGED <<repo, file, head, worktrees, sessions, queues, task, acked, opened,
                       refreshed, restarts>>

Sweepable(g) ==
  /\ repo # None /\ worktrees[g] # None /\ worktrees[g].at = repo.primary
  /\ \A r \in Saved: sessions[r].gen # g

Sweep ==
  /\ phase = "sweeping" /\ \A t \in Tasks: task[t].pc = "none"
  /\ phase' = "ready"
  /\ \E swept \in SUBSET {g \in Generations: Sweepable(g)}:
       worktrees' = [g \in Generations |-> IF g \in swept THEN None ELSE worktrees[g]]
  /\ UNCHANGED <<repo, file, head, sessions, queues, task, acked, opened, refreshed, restarts>>

Requests(t) ==
  \/ \E p \in Checkouts: \E goal \in {"register", "primary", "forget"}: Begin(t, goal, p)
  \/ Begin(t, "unregister", None)
  \/ Open(t)
  \/ \E r \in Reviews: Refresh(t, r) \/ Delete(t, r) \/ Submit(t, r)

Steps(t) ==
  \/ Register(t) \/ SetPrimary(t) \/ Forget(t) \/ Unregister(t) \/ RegistryRefuses(t)
  \/ Write(t) \/ WriteFails(t)
  \/ Prepare(t) \/ PrepareFails(t) \/ Add(t)
  \/ Find(t) \/ Touch(t) \/ Save(t) \/ SaveFails(t)
  \/ MutationFails(t) \/ RefreshRuns(t) \/ Commit(t) \/ Discard(t)
  \/ DeleteRuns(t) \/ CleanupRuns(t) \/ RemoveWorktree(t) \/ RemoveFails(t)
  \/ Deleted(t) \/ CleanedUp(t) \/ CleanupFails(t) \/ RecordFails(t)

Startup == (\E t \in Tasks: Recover(t)) \/ Sweep

World == Push \/ Restart

Next == (\E t \in Tasks: Requests(t) \/ Steps(t)) \/ Startup \/ World

Spec == Init /\ [][Next]_vars
FairSpec == Spec /\ WF_vars(Startup) /\ \A t \in Tasks: WF_vars(Steps(t))
=============================================================================
