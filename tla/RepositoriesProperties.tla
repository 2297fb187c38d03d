------------------------- MODULE RepositoriesProperties -------------------------
(* What the registry, the worktrees and their lock must guarantee.         *)
EXTENDS Repositories

(* The types; a registered repository has its primary checkout among its   *)
(* checkouts, as restore (repos/service.ts:60) demands of the file.        *)
TypeOK ==
  /\ repo \in Repo \cup {None} /\ file = repo
  /\ worktrees \in [Generations -> Worktree \cup {None}]
  /\ sessions \in [Reviews -> Session \cup {None}]
  /\ head \in Heads /\ task \in [Tasks -> Task]
  /\ phase \in {"recovering", "sweeping", "ready"} /\ acked \subseteq Checkouts

(* The repository of a saved review is registered.  The review has its     *)
(* worktree, linked to the primary checkout and at the revision that was   *)
(* reviewed, unless its deletion is recorded or it was submitted: the      *)
(* cleanup removes the worktree of a submitted review, which stays saved   *)
(* (repos/service.ts:45, the lock "covers preparation through session      *)
(* persistence"; submissions/service.ts:169-190).                          *)
SessionBacked ==
  \A r \in Saved:
    /\ repo # None
    /\ ~sessions[r].deleting /\ sessions[r].sub = "none" =>
         LET tree == worktrees[sessions[r].gen] IN tree # None /\ tree.at = repo.primary

(* The worktree of a review is at the head the review is pinned to: what   *)
(* another review left at the path is never taken for it                   *)
(* (worktrees/service.ts:141-149).                                         *)
PinnedHead ==
  \A r \in Saved:
    worktrees[sessions[r].gen] # None => worktrees[sessions[r].gen].head = sessions[r].head

(* A pull request has one review, however many opens, deletions, crashes   *)
(* and restarts overlap (sessions/open-service.ts:80).                     *)
OneReviewPerPull == Cardinality(Saved) <= 1

(* A checkout whose registration was answered stays registered until it is *)
(* forgotten or its repository unregistered: no other change of the        *)
(* registry overwrites it (repos/service.ts:103-118).                      *)
NoLostRegistration == acked \subseteq (IF file = None THEN {} ELSE file.checkouts)

(* Every operation ends: the queues of opens, the queues of reviews and    *)
(* the registry lock never wait for each other in a circle, and a failed   *)
(* operation gives back what it holds (repos/service.ts:46-58).            *)
OperationsEnd == \A t \in Tasks: task[t].pc # "none" ~> task[t].pc = "none"

(* Behind every saved review of a pull request, and there is one of them,  *)
(* stands its repository, and until it is submitted or its deletion is     *)
(* recorded the worktree of its head; and the variables are typed.         *)
ReviewsBacked == TypeOK /\ SessionBacked /\ PinnedHead /\ OneReviewPerPull

(***************************************************************************)
(* Strengthenings: what each operation knows, and what others leave true   *)
(* of it, so that every step keeps the properties above.                   *)
(***************************************************************************)
QueuesTyped ==
  /\ opening \in Seq(Tasks) /\ lock \in Seq(Tasks) /\ mutations \in [Reviews -> Seq(Tasks)]
  /\ opened \in 0..MaxReviews /\ refreshed \in 0..MaxGenerations
  /\ restarts \in 0..MaxRestarts

(* The places an operation passes through, with the arguments it has there.*)
Mutations == {"refresh", "discard", "old", "delete", "cleanup"}
ShapeInv ==
  \A t \in Tasks:
    \/ /\ task[t].goal \in Registrations /\ task[t].pc \in {"none", "lock", "write"}
       /\ task[t].pc = "none" \/ task[t].goal = "unregister" \/ task[t].path \in Checkouts
    \/ /\ task[t].goal = "open" /\ task[t].pc \in {"opening", "touch", "lock", "fetch", "save"}
       /\ task[t].review \in Reviews /\ task[t].gen = 0
    \/ /\ task[t].goal \in Mutations /\ task[t].review \in Reviews
       /\ task[t].pc \in CASE task[t].goal = "refresh" -> {"queued", "lock", "fetch", "commit"}
                           [] task[t].goal \in {"delete", "cleanup"}
                                                       -> {"queued", "lock", "commit"}
                           [] OTHER                    -> {"lock"}

(* Who is past the look at the registry holds its lock, and who opens the  *)
(* pull request its queue: there is no review of it until that is saved.   *)
LockInv == \A t \in Tasks: task[t].pc \in {"fetch", "write", "save"} => Holds(lock, t)
OpenInv ==
  \A t \in Tasks:
    task[t].goal = "open" /\ task[t].pc \in {"lock", "fetch", "save"} =>
      Holds(opening, t) /\ Saved = {}
OneSaved == \A r, s \in Saved: r = s

(* An operation on a review holds its queue and finds it as it left it.    *)
MutationInv ==
  \A t \in Tasks:
    task[t].goal \in Mutations /\ task[t].pc # "queued" =>
      /\ Holds(mutations[task[t].review], t)
      /\ sessions[task[t].review] # None
      /\ sessions[task[t].review].deleting <=> task[t].goal = "delete"
      /\ task[t].goal = "cleanup" => sessions[task[t].review].sub # "none"

(* What is about to be written is one change of what is registered, which  *)
(* nothing has come to depend on since it was checked.                     *)
Follows(goal, path, next) ==
  CASE goal = "register" -> /\ next # None /\ path \in next.checkouts
                            /\ repo # None => /\ next.primary = repo.primary
                                              /\ repo.checkouts \subseteq next.checkouts
    [] goal = "primary"  -> /\ repo # None /\ next # None /\ Replaceable
                            /\ repo.checkouts \subseteq next.checkouts
    [] goal = "forget"   -> /\ repo # None /\ next # None /\ next.primary = repo.primary
                            /\ repo.checkouts \ {path} \subseteq next.checkouts
    [] OTHER             -> repo # None /\ next = None /\ Replaceable
RegistryInv ==
  \A t \in Tasks:
    task[t].pc = "write" => Follows(task[t].goal, task[t].path, task[t].next)

(* The worktree an operation prepares, and the one it has prepared.        *)
Prepared(g, h) ==
  /\ repo # None /\ worktrees[g] # None
  /\ worktrees[g].at = repo.primary /\ worktrees[g].head = h
WorktreeInv ==
  \A t \in Tasks:
    /\ task[t].pc = "fetch" =>
         /\ repo # None /\ Preparable(task[t].gen, task[t].head)
         /\ task[t].reused <=> worktrees[task[t].gen] # None
    /\ task[t].pc = "save" \/ (task[t].pc = "commit" /\ task[t].goal = "refresh") =>
         Prepared(task[t].gen, task[t].head)

(* The generation of a refresh is its own, and nobody's current one; what  *)
(* is removed after a refresh is not current either.                       *)
GenerationInv ==
  /\ \A r \in Saved: sessions[r].gen <= refreshed
  /\ \A t \in Tasks: task[t].gen <= refreshed
  /\ \A t \in Tasks: task[t].goal \in {"refresh", "discard"} => task[t].gen # 0
  /\ \A t, u \in Tasks: t # u /\ task[t].goal = "refresh" => task[u].gen # task[t].gen
  /\ \A t \in Tasks: task[t].goal \in {"refresh", "discard", "old"} =>
       \A r \in Saved: sessions[r].gen # task[t].gen

RepositoryInv ==
  /\ TypeOK /\ QueuesTyped /\ ShapeInv
  /\ LockInv /\ OpenInv /\ OneSaved /\ MutationInv
  /\ RegistryInv /\ WorktreeInv /\ GenerationInv
  /\ SessionBacked /\ PinnedHead /\ NoLostRegistration
=============================================================================
