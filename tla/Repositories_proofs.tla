--------------------------- MODULE Repositories_proofs ---------------------------
(***************************************************************************)
(* Theorems about the registry of repositories and the worktrees of their  *)
(* reviews, for any number of checkouts, operations, openings, refreshes,  *)
(* pushes and restarts.                                                    *)
(***************************************************************************)
EXTENDS RepositoriesProperties, FiniteSetTheorems, TLAPS

(* The bounds are numbers, and None is none of what it stands beside.      *)
LEMMA BoundFacts ==
  /\ MaxReviews \in Nat /\ MaxGenerations \in Nat /\ MaxHead \in Nat /\ MaxRestarts \in Nat
  /\ None \notin Checkouts /\ None \notin Repo /\ None \notin Worktree /\ None \notin Session
  /\ Reviews = 1..MaxReviews /\ Generations = 0..MaxGenerations /\ Heads = 0..MaxHead
BY RepositoryBoundsAssumption, RepositorySentinelAssumption DEF Reviews, Generations, Heads

(***************************************************************************)
(* What a step does to the operations and to the queues.                   *)
(***************************************************************************)
Is(x, pc, goal, path, review, hd, gen, reused, next) ==
  /\ x \in Task /\ x.pc = pc /\ x.goal = goal /\ x.path = path /\ x.review = review
  /\ x.head = hd /\ x.gen = gen /\ x.reused = reused /\ x.next = next

(* Only operation t moves, and nobody else loses a queue it holds.         *)
Same(t) == task' \in [Tasks -> Task] /\ \A u \in Tasks \ {t} : task'[u] = task[u]
QueuesAre ==
  /\ opening \in Seq(Tasks) /\ lock \in Seq(Tasks) /\ mutations \in [Reviews -> Seq(Tasks)]
Kept(t) ==
  \A u \in Tasks \ {t} :
    /\ Holds(lock, u) => Holds(lock', u)
    /\ Holds(opening, u) => Holds(opening', u)
    /\ \A r \in Reviews : Holds(mutations[r], u) => Holds(mutations'[r], u)

LEMMA QueueSteps ==
  ASSUME NEW q \in Seq(Tasks), NEW t \in Tasks
  PROVE  /\ Append(q, t) \in Seq(Tasks) /\ Without(q, t) \in Seq(Tasks)
         /\ \A u \in Tasks : Holds(q, u) => Holds(Append(q, t), u)
         /\ \A u \in Tasks \ {t} : Holds(q, u) => Holds(Without(q, t), u)
BY DEF Holds, Without

(* Who enters a queue, or leaves one, disturbs no other holder.            *)
LEMMA QueuesKept ==
  ASSUME QueuesAre, NEW t \in Tasks,
         opening' \in {opening, Append(opening, t), Without(opening, t)},
         lock' \in {lock, Append(lock, t), Without(lock, t)},
         \/ mutations' = mutations
         \/ \E r \in Reviews : mutations' = [mutations EXCEPT ![r] = Append(@, t)]
         \/ mutations' = [r \in Reviews |-> Without(mutations[r], t)]
  PROVE  /\ QueuesAre' /\ Kept(t)
         /\ opening' = Append(opening, t) \/ opening' = opening =>
              (Holds(opening, t) => Holds(opening', t))
<1>1. /\ opening' \in Seq(Tasks)
      /\ \A u \in Tasks \ {t} : Holds(opening, u) => Holds(opening', u)
      /\ opening' = Append(opening, t) \/ opening' = opening =>
           (Holds(opening, t) => Holds(opening', t))
  BY ZenonT(60), QueueSteps DEF QueuesAre
<1>2. lock' \in Seq(Tasks) /\ \A u \in Tasks \ {t} : Holds(lock, u) => Holds(lock', u)
  BY QueueSteps DEF QueuesAre
<1>3. /\ mutations' \in [Reviews -> Seq(Tasks)]
      /\ \A u \in Tasks \ {t}, r \in Reviews : Holds(mutations[r], u) => Holds(mutations'[r], u)
  <2>1. CASE mutations' = mutations
    BY <2>1 DEF QueuesAre
  <2>2. ASSUME NEW r \in Reviews, mutations' = [mutations EXCEPT ![r] = Append(@, t)]
        PROVE  /\ mutations' \in [Reviews -> Seq(Tasks)]
               /\ \A u \in Tasks \ {t}, s \in Reviews :
                    Holds(mutations[s], u) => Holds(mutations'[s], u)
    <3>1. /\ Append(mutations[r], t) \in Seq(Tasks)
          /\ \A u \in Tasks \ {t} : Holds(mutations[r], u) => Holds(Append(mutations[r], t), u)
      BY QueueSteps DEF QueuesAre
    <3> QED BY <2>2, <3>1 DEF QueuesAre
  <2>3. CASE mutations' = [r \in Reviews |-> Without(mutations[r], t)]
    <3>1. \A r \in Reviews :
            /\ Without(mutations[r], t) \in Seq(Tasks)
            /\ \A u \in Tasks \ {t} : Holds(mutations[r], u) => Holds(Without(mutations[r], t), u)
      BY QueueSteps DEF QueuesAre
    <3> QED BY <2>3, <3>1
  <2> QED BY <2>1, <2>2, <2>3
<1> QED BY <1>1, <1>2, <1>3 DEF QueuesAre, Kept

(* While the reviews stay as they are, who holds the queue of one keeps it.*)
LEMMA MutationsKept ==
  ASSUME ShapeInv, MutationInv, NEW t \in Tasks, Same(t), Kept(t), sessions' = sessions,
         task'[t].goal \in Mutations /\ task'[t].pc # "queued" =>
           /\ Holds(mutations'[task'[t].review], t)
           /\ sessions[task'[t].review] # None
           /\ sessions[task'[t].review].deleting <=> task'[t].goal = "delete"
           /\ task'[t].goal = "cleanup" => sessions[task'[t].review].sub # "none"
  PROVE  MutationInv'
<1>1. ASSUME NEW u \in Tasks \ {t}, task'[u].goal \in Mutations, task'[u].pc # "queued"
      PROVE  /\ Holds(mutations'[task'[u].review], u)
             /\ sessions'[task'[u].review] # None
             /\ sessions'[task'[u].review].deleting <=> task'[u].goal = "delete"
             /\ task'[u].goal = "cleanup" => sessions'[task'[u].review].sub # "none"
  <2>1. task'[u] = task[u]
    BY DEF Same
  <2>2. task[u].review \in Reviews
    BY <1>1, <2>1 DEF ShapeInv, Mutations, Registrations
  <2>3. /\ Holds(mutations[task[u].review], u)
        /\ sessions[task[u].review] # None
        /\ sessions[task[u].review].deleting <=> task[u].goal = "delete"
        /\ task[u].goal = "cleanup" => sessions[task[u].review].sub # "none"
    BY <1>1, <2>1 DEF MutationInv
  <2>4. Holds(mutations'[task[u].review], u)
    BY <2>2, <2>3 DEF Kept
  <2> QED BY <2>1, <2>3, <2>4
<1> QED BY <1>1 DEF MutationInv

LEMMA IdleIs == Is(Idle, "none", "register", None, 0, 0, 0, FALSE, None)
BY BoundFacts DEF Task, Is, Idle, Locations, Goals

LEMMA Put ==
  ASSUME task \in [Tasks -> Task], NEW t \in Tasks, NEW x \in Task,
         task' = [task EXCEPT ![t] = x]
  PROVE  Same(t) /\ task'[t] = x
BY DEF Same

LEMMA NewChange ==
  ASSUME task \in [Tasks -> Task], NEW t \in Tasks, NEW pc \in Locations, NEW goal \in Goals,
         NEW path \in Checkouts \cup {None},
         task' = [task EXCEPT ![t] = [Idle EXCEPT !.pc = pc, !.goal = goal, !.path = path]]
  PROVE  Same(t) /\ Is(task'[t], pc, goal, path, 0, 0, 0, FALSE, None)
<1> DEFINE new == [Idle EXCEPT !.pc = pc, !.goal = goal, !.path = path]
<1>1. Is(new, pc, goal, path, 0, 0, 0, FALSE, None)
  BY IdleIs DEF Task, Is
<1>2. new \in Task /\ task' = [task EXCEPT ![t] = new]
  BY <1>1 DEF Is
<1> HIDE DEF new
<1> QED BY <1>1, <1>2, Put

LEMMA NewOpen ==
  ASSUME task \in [Tasks -> Task], NEW t \in Tasks, NEW review \in 0..MaxReviews,
         task' = [task EXCEPT ![t] =
                    [Idle EXCEPT !.pc = "opening", !.goal = "open", !.review = review]]
  PROVE  Same(t) /\ Is(task'[t], "opening", "open", None, review, 0, 0, FALSE, None)
<1> DEFINE new == [Idle EXCEPT !.pc = "opening", !.goal = "open", !.review = review]
<1>1. Is(new, "opening", "open", None, review, 0, 0, FALSE, None)
  BY IdleIs DEF Task, Is, Locations, Goals
<1>2. new \in Task /\ task' = [task EXCEPT ![t] = new]
  BY <1>1 DEF Is
<1> HIDE DEF new
<1> QED BY <1>1, <1>2, Put

LEMMA NewMutation ==
  ASSUME task \in [Tasks -> Task], NEW t \in Tasks, NEW goal \in Goals,
         NEW review \in 0..MaxReviews, NEW gen \in Generations,
         task' = [task EXCEPT ![t] = [Idle EXCEPT !.pc = "queued", !.goal = goal,
                                                  !.review = review, !.gen = gen]]
  PROVE  Same(t) /\ Is(task'[t], "queued", goal, None, review, 0, gen, FALSE, None)
<1> DEFINE new == [Idle EXCEPT !.pc = "queued", !.goal = goal, !.review = review, !.gen = gen]
<1>1. Is(new, "queued", goal, None, review, 0, gen, FALSE, None)
  BY IdleIs DEF Task, Is, Locations
<1>2. new \in Task /\ task' = [task EXCEPT ![t] = new]
  BY <1>1 DEF Is
<1> HIDE DEF new
<1> QED BY <1>1, <1>2, Put

(* The operation goes on, with what it takes along.                        *)
Goes(t, pc, goal, review, hd, gen, reused, next) ==
  Same(t) /\ Is(task'[t], pc, goal, task[t].path, review, hd, gen, reused, next)
LEMMA GoesOn ==
  ASSUME task \in [Tasks -> Task], NEW t \in Tasks, NEW pc \in Locations,
         task' = [task EXCEPT ![t].pc = pc]
  PROVE  Goes(t, pc, task[t].goal, task[t].review, task[t].head, task[t].gen, task[t].reused,
              task[t].next)
BY DEF Task, Goes, Same, Is

LEMMA GoesFor ==
  ASSUME task \in [Tasks -> Task], NEW t \in Tasks, NEW pc \in Locations,
         NEW goal \in Goals,
         task' = [task EXCEPT ![t].pc = pc, ![t].goal = goal]
  PROVE  Goes(t, pc, goal, task[t].review, task[t].head, task[t].gen, task[t].reused,
              task[t].next)
BY DEF Task, Goes, Same, Is

LEMMA GoesWith ==
  ASSUME task \in [Tasks -> Task], NEW t \in Tasks, NEW pc \in Locations,
         NEW next \in Repo \cup {None},
         task' = [task EXCEPT ![t].pc = pc, ![t].next = next]
  PROVE  Goes(t, pc, task[t].goal, task[t].review, task[t].head, task[t].gen, task[t].reused,
              next)
BY DEF Task, Goes, Same, Is

LEMMA GoesAt ==
  ASSUME task \in [Tasks -> Task], NEW t \in Tasks, NEW pc \in Locations,
         NEW hd \in Heads,
         task' = [task EXCEPT ![t].pc = pc, ![t].head = hd]
  PROVE  Goes(t, pc, task[t].goal, task[t].review, hd, task[t].gen, task[t].reused, task[t].next)
BY DEF Task, Goes, Same, Is

LEMMA GoesPrepared ==
  ASSUME task \in [Tasks -> Task], NEW t \in Tasks, NEW pc \in Locations,
         NEW hd \in Heads, NEW reused \in BOOLEAN,
         task' = [task EXCEPT ![t].pc = pc, ![t].head = hd, ![t].reused = reused]
  PROVE  Goes(t, pc, task[t].goal, task[t].review, hd, task[t].gen, reused, task[t].next)
BY ZenonT(60) DEF Task, Goes, Same, Is

LEMMA GoesReview ==
  ASSUME task \in [Tasks -> Task], NEW t \in Tasks, NEW pc \in Locations,
         NEW review \in 0..MaxReviews,
         task' = [task EXCEPT ![t].pc = pc, ![t].review = review]
  PROVE  Goes(t, pc, task[t].goal, review, task[t].head, task[t].gen, task[t].reused,
              task[t].next)
BY DEF Task, Goes, Same, Is

LEMMA GoesRemoving ==
  ASSUME task \in [Tasks -> Task], NEW t \in Tasks, NEW pc \in Locations,
         NEW gen \in Generations,
         task' = [task EXCEPT ![t].pc = pc, ![t].gen = gen]
  PROVE  Goes(t, pc, task[t].goal, task[t].review, task[t].head, gen, task[t].reused,
              task[t].next)
BY DEF Task, Goes, Same, Is

LEMMA GoesDropping ==
  ASSUME task \in [Tasks -> Task], NEW t \in Tasks, NEW pc \in Locations,
         NEW goal \in Goals, NEW gen \in Generations,
         task' = [task EXCEPT ![t].pc = pc, ![t].goal = goal, ![t].gen = gen]
  PROVE  Goes(t, pc, goal, task[t].review, task[t].head, gen, task[t].reused, task[t].next)
BY ZenonT(60) DEF Task, Goes, Same, Is

Ended(t) ==
  /\ Same(t) /\ Is(task'[t], "none", "register", None, 0, 0, 0, FALSE, None)
  /\ QueuesAre' /\ Kept(t)
LEMMA EndFacts ==
  ASSUME task \in [Tasks -> Task], QueuesAre, NEW t \in Tasks, End(t)
  PROVE  Ended(t)
<1>1. Idle \in Task
  BY IdleIs DEF Is
<1>2. Same(t) /\ task'[t] = Idle
  BY <1>1, Put DEF End
<1>3. QueuesAre' /\ Kept(t)
  BY QueuesKept DEF End
<1> QED BY <1>2, <1>3, IdleIs DEF Ended

(* An operation that fails leaves what it holds, and changes nothing.      *)
LEMMA FailsKeeps ==
  ASSUME RepositoryInv, NEW t \in Tasks, Fails(t)
  PROVE  RepositoryInv'
<1> USE BoundFacts
<1>0. /\ TypeOK /\ QueuesTyped /\ ShapeInv /\ LockInv /\ OpenInv /\ OneSaved /\ MutationInv
      /\ RegistryInv /\ WorktreeInv /\ GenerationInv /\ SessionBacked /\ PinnedHead
      /\ NoLostRegistration
      /\ task \in [Tasks -> Task] /\ QueuesAre /\ refreshed \in Nat
  BY DEF RepositoryInv, TypeOK, QueuesTyped, QueuesAre
<1>1. Ended(t)
  BY <1>0, EndFacts DEF Fails
<1>2. UNCHANGED <<repo, file, head, worktrees, sessions, acked, phase, opened, refreshed,
                  restarts>>
  BY DEF Fails, counts
<1>3. TypeOK' /\ QueuesTyped'
  BY <1>0, <1>1, <1>2 DEF TypeOK, QueuesTyped, QueuesAre, counts, Same, Kept, Is, Ended
<1>4. ShapeInv'
  BY <1>0, <1>1, <1>2 DEF ShapeInv, Mutations, Registrations, Same, Kept, Is, Ended
<1>5. (LockInv /\ OpenInv /\ OneSaved)'
  <2>1. LockInv'
    BY <1>0, <1>1, <1>2
       DEF LockInv, Same, Kept, Is, Ended
  <2>2. OpenInv'
    BY <1>0, <1>1, <1>2
       DEF OpenInv, Saved, Same, Kept, Is, Ended
  <2>3. OneSaved'
    BY <1>0, <1>1, <1>2
       DEF OneSaved, Saved, Same, Kept, Is, Ended
  <2> QED BY <2>1, <2>2, <2>3
<1>6. MutationInv'
  BY <1>0, <1>1, <1>2 DEF MutationInv, Mutations, ShapeInv, Registrations, Same, Kept, Is, Ended
<1>7. RegistryInv'
  BY <1>0, <1>1, <1>2 DEF RegistryInv, Follows, Replaceable, Same, Kept, Is, Ended
<1>8. WorktreeInv'
  BY <1>0, <1>1, <1>2 DEF WorktreeInv, Prepared, Preparable, Same, Kept, Is, Ended
<1>9. GenerationInv'
  <2>1. \A r \in Saved' : sessions'[r].gen <= refreshed'
    BY <1>0, <1>1, <1>2 DEF GenerationInv, Saved, Same, Is, Ended
  <2>2. \A u \in Tasks : task'[u].gen <= refreshed'
    BY <1>0, <1>1, <1>2 DEF GenerationInv, Saved, Same, Is, Ended
  <2>3. \A u \in Tasks : task'[u].goal \in {"refresh", "discard"} => task'[u].gen # 0
    BY <1>0, <1>1, <1>2 DEF GenerationInv, Saved, Same, Is, Ended
  <2>4. \A u, v \in Tasks : u # v /\ task'[u].goal = "refresh" => task'[v].gen # task'[u].gen
    BY <1>0, <1>1, <1>2 DEF GenerationInv, Saved, Same, Is, Ended
  <2>5. \A u \in Tasks : task'[u].goal \in {"refresh", "discard", "old"} =>
          \A r \in Saved' : sessions'[r].gen # task'[u].gen
    BY <1>0, <1>1, <1>2 DEF GenerationInv, Saved, Same, Is, Ended
  <2> QED BY <2>1, <2>2, <2>3, <2>4, <2>5 DEF GenerationInv
<1>10. (SessionBacked /\ PinnedHead /\ NoLostRegistration)'
  BY <1>0, <1>1, <1>2
     DEF SessionBacked, PinnedHead, NoLostRegistration, Saved, Same, Kept, Is, Ended
<1> QED
  BY <1>3, <1>4, <1>5, <1>6, <1>7, <1>8, <1>9, <1>10 DEF RepositoryInv

(* A change of the registry is asked for.                                  *)
LEMMA BeginKeeps ==
  ASSUME RepositoryInv, NEW t \in Tasks, NEW goal \in Registrations,          NEW path \in
         Checkouts \cup {None}, Begin(t, goal, path),          goal = "unregister" \/ path \in
         Checkouts
  PROVE  RepositoryInv'
<1> USE BoundFacts
<1>0. /\ TypeOK /\ QueuesTyped /\ ShapeInv /\ LockInv /\ OpenInv /\ OneSaved /\ MutationInv
      /\ RegistryInv /\ WorktreeInv /\ GenerationInv /\ SessionBacked /\ PinnedHead
      /\ NoLostRegistration
      /\ task \in [Tasks -> Task] /\ QueuesAre /\ refreshed \in Nat
  BY DEF RepositoryInv, TypeOK, QueuesTyped, QueuesAre
<1>1. Same(t) /\ Is(task'[t], "lock", goal, path, 0, 0, 0, FALSE, None)
  <2>1. /\ "lock" \in Locations /\ goal \in Goals
        /\ task' = [task EXCEPT ![t] = [Idle EXCEPT !.pc = "lock", !.goal = goal, !.path = path]]
    BY DEF Begin, Locations, Goals, Registrations
  <2> QED BY <1>0, <2>1, NewChange
<1>2. QueuesAre' /\ Kept(t)
  BY <1>0, QueuesKept DEF Begin
<1>3. UNCHANGED <<repo, file, head, worktrees, sessions, acked, phase, opened, refreshed,
                  restarts>>
  BY DEF Begin, counts
<1>4. TypeOK' /\ QueuesTyped'
  BY <1>0, <1>1, <1>2, <1>3 DEF TypeOK, QueuesTyped, QueuesAre, counts, Same, Kept, Is
<1>5. ShapeInv'
  BY <1>0, <1>1, <1>2, <1>3 DEF ShapeInv, Mutations, Registrations, Same, Kept, Is
<1>6. (LockInv /\ OpenInv /\ OneSaved)'
  <2>1. LockInv'
    BY <1>0, <1>1, <1>2, <1>3
       DEF LockInv, Same, Kept, Is, Registrations
  <2>2. OpenInv'
    BY <1>0, <1>1, <1>2, <1>3
       DEF OpenInv, Saved, Same, Kept, Is, Registrations
  <2>3. OneSaved'
    BY <1>0, <1>1, <1>2, <1>3
       DEF OneSaved, Saved, Same, Kept, Is, Registrations
  <2> QED BY <2>1, <2>2, <2>3
<1>7. MutationInv'
  BY <1>0, <1>1, <1>2, <1>3
     DEF MutationInv, Mutations, ShapeInv, Registrations, Same, Kept, Is, Mutations, Registrations
<1>8. RegistryInv'
  BY <1>0, <1>1, <1>2, <1>3 DEF RegistryInv, Follows, Replaceable, Same, Kept, Is
<1>9. WorktreeInv'
  BY <1>0, <1>1, <1>2, <1>3 DEF WorktreeInv, Prepared, Preparable, Same, Kept, Is, Registrations
<1>10. GenerationInv'
  <2>1. \A r \in Saved' : sessions'[r].gen <= refreshed'
    BY <1>0, <1>1, <1>2, <1>3 DEF GenerationInv, Saved, Same, Is, Registrations
  <2>2. \A u \in Tasks : task'[u].gen <= refreshed'
    BY <1>0, <1>1, <1>2, <1>3 DEF GenerationInv, Saved, Same, Is, Registrations
  <2>3. \A u \in Tasks : task'[u].goal \in {"refresh", "discard"} => task'[u].gen # 0
    BY <1>0, <1>1, <1>2, <1>3 DEF GenerationInv, Saved, Same, Is, Registrations
  <2>4. \A u, v \in Tasks : u # v /\ task'[u].goal = "refresh" => task'[v].gen # task'[u].gen
    BY <1>0, <1>1, <1>2, <1>3 DEF GenerationInv, Saved, Same, Is, Registrations
  <2>5. \A u \in Tasks : task'[u].goal \in {"refresh", "discard", "old"} =>
          \A r \in Saved' : sessions'[r].gen # task'[u].gen
    BY <1>0, <1>1, <1>2, <1>3 DEF GenerationInv, Saved, Same, Is, Registrations
  <2> QED BY <2>1, <2>2, <2>3, <2>4, <2>5 DEF GenerationInv
<1>11. (SessionBacked /\ PinnedHead /\ NoLostRegistration)'
  BY <1>0, <1>1, <1>2, <1>3
     DEF SessionBacked, PinnedHead, NoLostRegistration, Saved, Same, Kept, Is
<1> QED
  BY <1>4, <1>5, <1>6, <1>7, <1>8, <1>9, <1>10, <1>11 DEF RepositoryInv

(* A change of the registry is found to be allowed.                        *)
LEMMA CheckedKeeps ==
  ASSUME RepositoryInv, NEW t \in Tasks, NEW goal \in Registrations, At(t, goal),          NEW
         next \in Repo \cup {None}, Checked(t, next), Follows(goal, task[t].path, next)
  PROVE  RepositoryInv'
<1> USE BoundFacts
<1>0. /\ TypeOK /\ QueuesTyped /\ ShapeInv /\ LockInv /\ OpenInv /\ OneSaved /\ MutationInv
      /\ RegistryInv /\ WorktreeInv /\ GenerationInv /\ SessionBacked /\ PinnedHead
      /\ NoLostRegistration
      /\ task \in [Tasks -> Task] /\ QueuesAre /\ refreshed \in Nat
  BY DEF RepositoryInv, TypeOK, QueuesTyped, QueuesAre
<1>1. task[t].pc = "lock" /\ task[t].goal = goal /\ Holds(lock, t)
  BY DEF At, HasLock
<1>2. /\ task[t] \in Task /\ task[t].review \in 0..MaxReviews /\ task[t].head \in Heads
      /\ task[t].gen \in Generations /\ task[t].reused \in BOOLEAN /\ goal \in Goals
  BY <1>0 DEF Task, Goals, Registrations
<1>3. Goes(t, "write", task[t].goal, task[t].review, task[t].head, task[t].gen, task[t].reused,
           next)
  BY <1>0, <1>1, <1>2, GoesWith DEF Checked, Locations
<1>4. QueuesAre' /\ Kept(t) /\ lock' = lock /\ mutations' = mutations
  BY <1>0, QueuesKept DEF Checked, queues
<1>5. UNCHANGED <<repo, file, head, worktrees, sessions, acked, phase, opened, refreshed,
                  restarts>>
  BY DEF Checked, counts
<1>6. TypeOK' /\ QueuesTyped'
  BY <1>0, <1>1, <1>2, <1>3, <1>4, <1>5
     DEF TypeOK, QueuesTyped, QueuesAre, counts, Same, Kept, Is, Goes, Registrations
<1>7. ShapeInv'
  BY <1>0, <1>1, <1>2, <1>3, <1>4, <1>5
     DEF ShapeInv, Mutations, Registrations, Same, Kept, Is, Goes, Registrations
<1>8. (LockInv /\ OpenInv /\ OneSaved)'
  <2>1. LockInv'
    BY <1>0, <1>1, <1>2, <1>3, <1>4, <1>5
       DEF LockInv, Same, Kept, Is, Goes, Registrations
  <2>2. OpenInv'
    BY <1>0, <1>1, <1>2, <1>3, <1>4, <1>5
       DEF OpenInv, Saved, Same, Kept, Is, Goes, Registrations
  <2>3. OneSaved'
    BY <1>0, <1>1, <1>2, <1>3, <1>4, <1>5
       DEF OneSaved, Saved, Same, Kept, Is, Goes, Registrations
  <2> QED BY <2>1, <2>2, <2>3
<1>9. MutationInv'
  BY <1>0, <1>1, <1>2, <1>3, <1>4, <1>5
     DEF MutationInv, Mutations, ShapeInv, Registrations, Same, Kept, Is, Goes, Registrations
<1>10. RegistryInv'
  BY <1>0, <1>1, <1>2, <1>3, <1>4, <1>5
     DEF RegistryInv, Follows, Replaceable, Same, Kept, Is, Goes, Registrations
<1>11. WorktreeInv'
  BY <1>0, <1>1, <1>2, <1>3, <1>4, <1>5
     DEF WorktreeInv, Prepared, Preparable, Same, Kept, Is, Goes, Registrations
<1>12. GenerationInv'
  <2>1. \A r \in Saved' : sessions'[r].gen <= refreshed'
    BY <1>0, <1>1, <1>2, <1>3, <1>4, <1>5 DEF GenerationInv, Saved, Same, Is, Goes, Registrations
  <2>2. \A u \in Tasks : task'[u].gen <= refreshed'
    BY <1>0, <1>1, <1>2, <1>3, <1>4, <1>5 DEF GenerationInv, Saved, Same, Is, Goes, Registrations
  <2>3. \A u \in Tasks : task'[u].goal \in {"refresh", "discard"} => task'[u].gen # 0
    BY <1>0, <1>1, <1>2, <1>3, <1>4, <1>5 DEF GenerationInv, Saved, Same, Is, Goes, Registrations
  <2>4. \A u, v \in Tasks : u # v /\ task'[u].goal = "refresh" => task'[v].gen # task'[u].gen
    BY <1>0, <1>1, <1>2, <1>3, <1>4, <1>5 DEF GenerationInv, Saved, Same, Is, Goes, Registrations
  <2>5. \A u \in Tasks : task'[u].goal \in {"refresh", "discard", "old"} =>
          \A r \in Saved' : sessions'[r].gen # task'[u].gen
    BY <1>0, <1>1, <1>2, <1>3, <1>4, <1>5 DEF GenerationInv, Saved, Same, Is, Goes, Registrations
  <2> QED BY <2>1, <2>2, <2>3, <2>4, <2>5 DEF GenerationInv
<1>13. (SessionBacked /\ PinnedHead /\ NoLostRegistration)'
  BY <1>0, <1>1, <1>2, <1>3, <1>4, <1>5
     DEF SessionBacked, PinnedHead, NoLostRegistration, Saved, Same, Kept, Is, Goes, Registrations
<1> QED
  BY <1>6, <1>7, <1>8, <1>9, <1>10, <1>11, <1>12, <1>13 DEF RepositoryInv

(* Each change fits what is registered.                                    *)
LEMMA RegisterKeeps ==
  ASSUME RepositoryInv, NEW t \in Tasks, Register(t)
  PROVE  RepositoryInv'
<1> DEFINE path == task[t].path
           next == IF repo = None THEN [checkouts |-> {path}, primary |-> path]
                   ELSE [repo EXCEPT !.checkouts = @ \cup {path}]
<1>1. At(t, "register") /\ "register" \in Registrations /\ Checked(t, next)
  BY DEF Register, Registrations
<1>2. path \in Checkouts /\ repo \in Repo \cup {None}
  BY <1>1 DEF At, RepositoryInv, TypeOK, ShapeInv, Mutations, Registrations
<1>3. next \in Repo /\ Follows("register", path, next)
  <2>1. CASE repo = None
    <3>1. next = [checkouts |-> {path}, primary |-> path]
      BY <2>1
    <3>2. next \in Repo /\ path \in next.checkouts
      BY <1>2, <3>1 DEF Repo
    <3> QED BY <2>1, <3>2, BoundFacts DEF Follows
  <2>2. CASE repo # None
    <3>1. next = [repo EXCEPT !.checkouts = @ \cup {path}] /\ repo \in Repo
      BY <1>2, <2>2
    <3>2. /\ next \in Repo /\ path \in next.checkouts
          /\ next.primary = repo.primary /\ repo.checkouts \subseteq next.checkouts
      BY <1>2, <3>1 DEF Repo
    <3> QED BY <3>2, BoundFacts DEF Follows
  <2> QED BY <2>1, <2>2
<1> HIDE DEF next
<1> QED BY <1>1, <1>3, CheckedKeeps

LEMMA SetPrimaryKeeps ==
  ASSUME RepositoryInv, NEW t \in Tasks, SetPrimary(t)
  PROVE  RepositoryInv'
<1> DEFINE path == task[t].path
           next == [repo EXCEPT !.primary = path]
<1>1. /\ At(t, "primary") /\ "primary" \in Registrations /\ Checked(t, next)
      /\ repo # None /\ path \in repo.checkouts /\ Replaceable
  BY DEF SetPrimary, Registrations, Member
<1>2. repo \in Repo
  BY <1>1 DEF RepositoryInv, TypeOK
<1>3. next \in Repo /\ next.checkouts = repo.checkouts
  BY <1>1, <1>2 DEF Repo
<1> HIDE DEF next
<1>4. Follows("primary", path, next)
  BY <1>1, <1>3, BoundFacts DEF Follows
<1> QED BY <1>1, <1>3, <1>4, CheckedKeeps

LEMMA ForgetKeeps ==
  ASSUME RepositoryInv, NEW t \in Tasks, Forget(t)
  PROVE  RepositoryInv'
<1> DEFINE path == task[t].path
           next == [repo EXCEPT !.checkouts = @ \ {path}]
<1>1. /\ At(t, "forget") /\ "forget" \in Registrations /\ Checked(t, next)
      /\ repo # None /\ repo.primary # path
  BY DEF Forget, Registrations, Member
<1>2. repo \in Repo
  BY <1>1 DEF RepositoryInv, TypeOK
<1>3. /\ next \in Repo /\ next.primary = repo.primary
      /\ next.checkouts = repo.checkouts \ {path}
  BY <1>1, <1>2 DEF Repo
<1> HIDE DEF next
<1>4. Follows("forget", path, next)
  BY <1>1, <1>3, BoundFacts DEF Follows
<1> QED BY <1>1, <1>3, <1>4, CheckedKeeps

LEMMA UnregisterKeeps ==
  ASSUME RepositoryInv, NEW t \in Tasks, Unregister(t)
  PROVE  RepositoryInv'
<1>1. /\ At(t, "unregister") /\ "unregister" \in Registrations /\ Checked(t, None)
      /\ Follows("unregister", task[t].path, None)
  BY DEF Unregister, Registrations, Follows
<1> QED BY <1>1, CheckedKeeps

(* What is written follows from what was registered.                       *)
LEMMA WriteKeeps ==
  ASSUME RepositoryInv, NEW t \in Tasks, Write(t)
  PROVE  RepositoryInv'
<1> USE BoundFacts
<1>0. /\ TypeOK /\ QueuesTyped /\ ShapeInv /\ LockInv /\ OpenInv /\ OneSaved /\ MutationInv
      /\ RegistryInv /\ WorktreeInv /\ GenerationInv /\ SessionBacked /\ PinnedHead
      /\ NoLostRegistration
      /\ task \in [Tasks -> Task] /\ QueuesAre /\ refreshed \in Nat
  BY DEF RepositoryInv, TypeOK, QueuesTyped, QueuesAre
<1>1. /\ Ended(t) /\ Holds(lock, t) /\ \A u \in Tasks \ {t} : ~Holds(lock, u)
  BY <1>0, EndFacts DEF Write, LockInv, Holds
<1>2. /\ task[t].goal \in Registrations
      /\ task[t].goal = "unregister" \/ task[t].path \in Checkouts
  BY <1>0 DEF Write, ShapeInv, Mutations
<1>3. /\ repo' = task[t].next /\ file' = task[t].next /\ task[t].next \in Repo \cup {None}
      /\ Follows(task[t].goal, task[t].path, task[t].next)
  BY <1>0 DEF Write, RegistryInv, TypeOK, Task
<1>4. /\ UNCHANGED <<head, worktrees, sessions, phase, opened, refreshed, restarts>>
      /\ acked' = CASE task[t].goal = "register"   -> acked \cup {task[t].path}
                    [] task[t].goal = "forget"     -> acked \ {task[t].path}
                    [] task[t].goal = "unregister" -> {}
                    [] OTHER                       -> acked
  BY DEF Write, counts
<1>5. TypeOK' /\ QueuesTyped'
  BY <1>0, <1>1, <1>2, <1>3, <1>4
     DEF TypeOK, QueuesTyped, QueuesAre, counts, Same, Kept, Is, Ended, Registrations
<1>6. ShapeInv'
  BY <1>0, <1>1, <1>2, <1>3, <1>4
     DEF ShapeInv, Mutations, Registrations, Same, Kept, Is, Ended, Registrations
<1>7. (LockInv /\ OpenInv /\ OneSaved)'
  <2>1. LockInv'
    BY <1>0, <1>1, <1>2, <1>3, <1>4
       DEF LockInv, Same, Kept, Is, Ended, Registrations
  <2>2. OpenInv'
    BY <1>0, <1>1, <1>2, <1>3, <1>4
       DEF OpenInv, Saved, Same, Kept, Is, Ended, Registrations
  <2>3. OneSaved'
    BY <1>0, <1>1, <1>2, <1>3, <1>4
       DEF OneSaved, Saved, Same, Kept, Is, Ended, Registrations
  <2> QED BY <2>1, <2>2, <2>3
<1>8. MutationInv'
  BY <1>0, <1>1, <1>2, <1>3, <1>4
     DEF MutationInv, Mutations, ShapeInv, Registrations, Same, Kept, Is, Ended, Registrations
<1>9. RegistryInv'
  BY <1>0, <1>1, <1>2, <1>3, <1>4 DEF LockInv, RegistryInv, Ended, Same, Is
<1>10. WorktreeInv'
  <2>1. ASSUME NEW u \in Tasks, task'[u].pc \in {"fetch", "save"} PROVE FALSE
    BY <1>0, <1>1, <1>2, <1>3, <1>4, <2>1 DEF Ended, Same, Is, LockInv
  <2>2. ASSUME NEW u \in Tasks, task'[u].pc = "commit", task'[u].goal = "refresh"
        PROVE  Prepared(task[u].gen, task[u].head)'
    <3>1. u # t /\ task'[u] = task[u]
      BY <1>0, <1>1, <1>2, <1>3, <1>4, <2>2 DEF Ended, Same, Is
    <3>2. Prepared(task[u].gen, task[u].head) /\ ~Replaceable
      BY <1>0, <1>1, <1>2, <1>3, <1>4, <2>2, <3>1
         DEF WorktreeInv, MutationInv, Mutations, ShapeInv, Registrations, Replaceable
    <3>3. repo' # None /\ repo'.primary = repo.primary
      BY <1>0, <1>1, <1>2, <1>3, <1>4, <3>2 DEF Follows, Prepared, Registrations
    <3> QED BY <1>0, <1>1, <1>2, <1>3, <1>4, <3>1, <3>2, <3>3 DEF Prepared
  <2> QED BY <2>1, <2>2 DEF WorktreeInv
<1>11. GenerationInv'
  <2>1. \A r \in Saved' : sessions'[r].gen <= refreshed'
    BY <1>0, <1>1, <1>2, <1>3, <1>4 DEF GenerationInv, Saved, Same, Is, Ended, Registrations
  <2>2. \A u \in Tasks : task'[u].gen <= refreshed'
    BY <1>0, <1>1, <1>2, <1>3, <1>4 DEF GenerationInv, Saved, Same, Is, Ended, Registrations
  <2>3. \A u \in Tasks : task'[u].goal \in {"refresh", "discard"} => task'[u].gen # 0
    BY <1>0, <1>1, <1>2, <1>3, <1>4 DEF GenerationInv, Saved, Same, Is, Ended, Registrations
  <2>4. \A u, v \in Tasks : u # v /\ task'[u].goal = "refresh" => task'[v].gen # task'[u].gen
    BY <1>0, <1>1, <1>2, <1>3, <1>4 DEF GenerationInv, Saved, Same, Is, Ended, Registrations
  <2>5. \A u \in Tasks : task'[u].goal \in {"refresh", "discard", "old"} =>
          \A r \in Saved' : sessions'[r].gen # task'[u].gen
    BY <1>0, <1>1, <1>2, <1>3, <1>4 DEF GenerationInv, Saved, Same, Is, Ended, Registrations
  <2> QED BY <2>1, <2>2, <2>3, <2>4, <2>5 DEF GenerationInv
<1>12. (SessionBacked /\ PinnedHead /\ NoLostRegistration)'
  <2>1. SessionBacked' /\ PinnedHead'
    BY <1>0, <1>1, <1>2, <1>3, <1>4
       DEF SessionBacked, PinnedHead, Saved, Follows, Replaceable, Registrations
  <2>2. NoLostRegistration'
    BY <1>0, <1>1, <1>2, <1>3, <1>4 DEF NoLostRegistration, Follows, Registrations, TypeOK
  <2> QED BY <2>1, <2>2
<1> QED
  BY <1>5, <1>6, <1>7, <1>8, <1>9, <1>10, <1>11, <1>12 DEF RepositoryInv

(* What lies at the path is looked at.                                     *)
LEMMA PrepareKeeps ==
  ASSUME RepositoryInv, NEW t \in Tasks, Prepare(t)
  PROVE  RepositoryInv'
<1> USE BoundFacts
<1>0. /\ TypeOK /\ QueuesTyped /\ ShapeInv /\ LockInv /\ OpenInv /\ OneSaved /\ MutationInv
      /\ RegistryInv /\ WorktreeInv /\ GenerationInv /\ SessionBacked /\ PinnedHead
      /\ NoLostRegistration
      /\ task \in [Tasks -> Task] /\ QueuesAre /\ refreshed \in Nat
  BY DEF RepositoryInv, TypeOK, QueuesTyped, QueuesAre
<1> DEFINE pull == IF task[t].goal = "open" THEN head ELSE task[t].head
           reused == worktrees[task[t].gen] # None
<1>1. /\ task[t].pc = "lock" /\ task[t].goal \in {"open", "refresh"} /\ Holds(lock, t)
      /\ repo # None /\ Preparable(task[t].gen, pull)
  BY DEF Prepare, At, HasLock
<1>2. /\ task[t] \in Task /\ task[t].review \in 0..MaxReviews /\ task[t].head \in Heads
      /\ task[t].gen \in Generations /\ task[t].reused \in BOOLEAN
      /\ task[t].goal \in Goals /\ task[t].next \in Repo \cup {None}
  BY <1>0 DEF Task
<1>3. pull \in Heads /\ reused \in BOOLEAN
  BY <1>0, <1>2 DEF TypeOK
<1>4. reused <=> worktrees[task[t].gen] # None
  OBVIOUS
<1>5. task' = [task EXCEPT ![t].pc = "fetch", ![t].head = pull, ![t].reused = reused]
  BY DEF Prepare
<1> HIDE DEF pull, reused
<1>6. Goes(t, "fetch", task[t].goal, task[t].review, pull, task[t].gen, reused, task[t].next)
  BY <1>0, <1>2, <1>3, <1>5, GoesPrepared DEF Locations
<1>7. QueuesAre' /\ Kept(t) /\ lock' = lock /\ opening' = opening /\ mutations' = mutations
  BY <1>0, QueuesKept DEF Prepare, queues
<1>8. UNCHANGED <<repo, file, head, worktrees, sessions, acked, phase, opened, refreshed,
                  restarts>>
  BY DEF Prepare, counts
<1>9. TypeOK' /\ QueuesTyped'
  BY <1>0, <1>1, <1>2, <1>3, <1>4, <1>5, <1>6, <1>7, <1>8
     DEF TypeOK, QueuesTyped, QueuesAre, counts, Same, Kept, Is, Goes
<1>10. ShapeInv'
  BY <1>0, <1>1, <1>2, <1>3, <1>4, <1>5, <1>6, <1>7, <1>8
     DEF ShapeInv, Mutations, Registrations, Same, Kept, Is, Goes
<1>11. (LockInv /\ OpenInv /\ OneSaved)'
  <2>1. LockInv'
    BY <1>0, <1>1, <1>2, <1>3, <1>4, <1>5, <1>6, <1>7, <1>8
       DEF LockInv, Same, Kept, Is, Goes
  <2>2. OpenInv'
    BY <1>0, <1>1, <1>2, <1>3, <1>4, <1>5, <1>6, <1>7, <1>8
       DEF OpenInv, Saved, Same, Kept, Is, Goes
  <2>3. OneSaved'
    BY <1>0, <1>1, <1>2, <1>3, <1>4, <1>5, <1>6, <1>7, <1>8
       DEF OneSaved, Saved, Same, Kept, Is, Goes
  <2> QED BY <2>1, <2>2, <2>3
<1>12. MutationInv'
  <2>1. Same(t) /\ Kept(t) /\ mutations' = mutations /\ sessions' = sessions
    BY <1>6, <1>7, <1>8 DEF Goes
  <2>2. task'[t].goal = task[t].goal /\ task'[t].review = task[t].review
    BY <1>6 DEF Goes, Is
  <2>3. task[t].pc # "queued"
    BY <1>0, <1>1
  <2> QED BY <1>0, <2>1, <2>2, <2>3, MutationsKept DEF MutationInv
<1>13. RegistryInv'
  <2>1. ASSUME NEW u \in Tasks, task'[u].pc = "write"
        PROVE  Follows(task[u].goal, task[u].path, task[u].next)' /\ task'[u] = task[u]
    <3>1. task'[u] = task[u]
      BY <1>6, <2>1 DEF Goes, Same, Is
    <3>2. Follows(task[u].goal, task[u].path, task[u].next)
      BY <1>0, <2>1, <3>1 DEF RegistryInv
    <3> QED BY <1>8, <3>1, <3>2 DEF Follows, Replaceable
  <2> QED BY <2>1 DEF RegistryInv
<1>14. WorktreeInv'
  BY <1>0, <1>1, <1>2, <1>3, <1>4, <1>5, <1>6, <1>7, <1>8
     DEF WorktreeInv, Prepared, Preparable, Same, Kept, Is, Goes
<1>15. GenerationInv'
  <2>1. \A r \in Saved' : sessions'[r].gen <= refreshed'
    BY <1>0, <1>1, <1>2, <1>3, <1>4, <1>5, <1>6, <1>7, <1>8
       DEF GenerationInv, Saved, Same, Is, Goes
  <2>2. \A u \in Tasks : task'[u].gen <= refreshed'
    BY <1>0, <1>1, <1>2, <1>3, <1>4, <1>5, <1>6, <1>7, <1>8
       DEF GenerationInv, Saved, Same, Is, Goes
  <2>3. \A u \in Tasks : task'[u].goal \in {"refresh", "discard"} => task'[u].gen # 0
    BY <1>0, <1>1, <1>2, <1>3, <1>4, <1>5, <1>6, <1>7, <1>8
       DEF GenerationInv, Saved, Same, Is, Goes
  <2>4. \A u, v \in Tasks : u # v /\ task'[u].goal = "refresh" => task'[v].gen # task'[u].gen
    BY <1>0, <1>1, <1>2, <1>3, <1>4, <1>5, <1>6, <1>7, <1>8
       DEF GenerationInv, Saved, Same, Is, Goes
  <2>5. \A u \in Tasks : task'[u].goal \in {"refresh", "discard", "old"} =>
          \A r \in Saved' : sessions'[r].gen # task'[u].gen
    BY <1>0, <1>1, <1>2, <1>3, <1>4, <1>5, <1>6, <1>7, <1>8
       DEF GenerationInv, Saved, Same, Is, Goes
  <2> QED BY <2>1, <2>2, <2>3, <2>4, <2>5 DEF GenerationInv
<1>16. (SessionBacked /\ PinnedHead /\ NoLostRegistration)'
  BY <1>0, <1>1, <1>2, <1>3, <1>4, <1>5, <1>6, <1>7, <1>8
     DEF SessionBacked, PinnedHead, NoLostRegistration, Saved, Same, Kept, Is, Goes
<1> QED
  BY <1>9, <1>10, <1>11, <1>12, <1>13, <1>14, <1>15, <1>16 DEF RepositoryInv

(* The worktree is added: nothing else stands at its path.                 *)
LEMMA AddKeeps ==
  ASSUME RepositoryInv, NEW t \in Tasks, Add(t)
  PROVE  RepositoryInv'
<1> USE BoundFacts
<1>0. /\ TypeOK /\ QueuesTyped /\ ShapeInv /\ LockInv /\ OpenInv /\ OneSaved /\ MutationInv
      /\ RegistryInv /\ WorktreeInv /\ GenerationInv /\ SessionBacked /\ PinnedHead
      /\ NoLostRegistration
      /\ task \in [Tasks -> Task] /\ QueuesAre /\ refreshed \in Nat
  BY DEF RepositoryInv, TypeOK, QueuesTyped, QueuesAre
<1>1. /\ task[t].pc = "fetch" /\ task[t].head = head /\ task[t].goal \in {"open", "refresh"}
      /\ Holds(lock, t) /\ \A u \in Tasks \ {t} : ~Holds(lock, u)
  BY <1>0 DEF Add, HasLock, ShapeInv, Mutations, Registrations, Holds
<1>2. /\ task[t] \in Task /\ task[t].review \in 0..MaxReviews /\ task[t].head \in Heads
      /\ task[t].gen \in Generations /\ task[t].reused \in BOOLEAN
      /\ task[t].goal \in Goals /\ task[t].next \in Repo \cup {None}
  BY <1>0 DEF Task
<1>3. Goes(t, IF task[t].goal = "open" THEN "save" ELSE "commit", task[t].goal, task[t].review,
           task[t].head, task[t].gen, task[t].reused, task[t].next)
  BY <1>0, <1>2, GoesOn DEF Add, Locations
<1>4. /\ QueuesAre' /\ Kept(t) /\ opening' = opening /\ mutations' = mutations
      /\ task[t].goal = "open" => lock' = lock
  BY <1>0, QueuesKept DEF Add
<1>5. UNCHANGED <<repo, file, head, sessions, acked, phase, opened, refreshed, restarts>>
  BY DEF Add, counts
<1>6. /\ repo # None /\ repo.primary \in Checkouts /\ Preparable(task[t].gen, task[t].head)
      /\ task[t].reused <=> worktrees[task[t].gen] # None
      /\ worktrees \in [Generations -> Worktree \cup {None}]
  BY <1>0, <1>1 DEF WorktreeInv, TypeOK, Repo
<1>7. /\ worktrees' \in [Generations -> Worktree \cup {None}]
      /\ Prepared(task[t].gen, task[t].head)'
      /\ \A g \in Generations : worktrees'[g] = worktrees[g]
           \/ (g = task[t].gen /\ worktrees[g] = None)
  <2>1. CASE task[t].reused
    <3>1. worktrees' = worktrees /\ repo' = repo /\ worktrees[task[t].gen] # None
      BY <1>5, <1>6, <2>1 DEF Add
    <3> QED BY <1>3, <1>6, <3>1 DEF Prepared, Preparable, Goes, Is
  <2>2. CASE ~task[t].reused
    <3> DEFINE new == [at |-> repo.primary, head |-> head]
    <3>1. /\ new \in Worktree /\ new # None /\ new.at = repo.primary /\ new.head = task[t].head
          /\ worktrees' = [worktrees EXCEPT ![task[t].gen] = new]
      BY <1>0, <1>1, <1>6, <2>2 DEF Add, Worktree, TypeOK
    <3> HIDE DEF new
    <3>2. worktrees'[task[t].gen] = new /\ repo' = repo /\ worktrees[task[t].gen] = None
      BY <1>2, <1>5, <1>6, <2>2, <3>1
    <3>3. \A g \in Generations : g # task[t].gen => worktrees'[g] = worktrees[g]
      BY <1>2, <1>6, <3>1
    <3>4. worktrees' \in [Generations -> Worktree \cup {None}]
      BY <1>2, <1>6, <3>1
    <3>5. Prepared(task[t].gen, task[t].head)'
      BY <1>3, <1>6, <3>1, <3>2 DEF Prepared, Goes, Is
    <3> QED BY <3>2, <3>3, <3>4, <3>5
  <2> QED BY <2>1, <2>2
<1>8. \A r \in Saved : sessions[r].gen \in Generations /\ sessions[r].gen # task[t].gen
  BY <1>0, <1>1 DEF OpenInv, GenerationInv, Saved, TypeOK, Session
<1>9. TypeOK' /\ QueuesTyped'
  BY <1>0, <1>1, <1>2, <1>3, <1>4, <1>5, <1>6, <1>7, <1>8
     DEF TypeOK, QueuesTyped, QueuesAre, counts, Same, Kept, Is, Goes
<1>10. ShapeInv'
  BY <1>0, <1>1, <1>2, <1>3, <1>4, <1>5, <1>6, <1>7, <1>8
     DEF ShapeInv, Mutations, Registrations, Same, Kept, Is, Goes
<1>11. (LockInv /\ OpenInv /\ OneSaved)'
  <2>1. LockInv'
    BY <1>0, <1>1, <1>2, <1>3, <1>4, <1>5, <1>6, <1>7, <1>8
       DEF LockInv, Same, Kept, Is, Goes
  <2>2. OpenInv'
    BY <1>0, <1>1, <1>2, <1>3, <1>4, <1>5, <1>6, <1>7, <1>8
       DEF OpenInv, Saved, Same, Kept, Is, Goes
  <2>3. OneSaved'
    BY <1>0, <1>1, <1>2, <1>3, <1>4, <1>5, <1>6, <1>7, <1>8
       DEF OneSaved, Saved, Same, Kept, Is, Goes
  <2> QED BY <2>1, <2>2, <2>3
<1>12. MutationInv'
  BY <1>0, <1>1, <1>2, <1>3, <1>4, <1>5, <1>6, <1>7, <1>8
     DEF MutationInv, Mutations, ShapeInv, Registrations, Same, Kept, Is, Goes
<1>13. RegistryInv'
  BY <1>0, <1>1, <1>2, <1>3, <1>4, <1>5, <1>6, <1>7, <1>8
     DEF RegistryInv, Follows, Replaceable, Same, Kept, Is, Goes, LockInv
<1>14. WorktreeInv'
  <2>1. ASSUME NEW u \in Tasks, task'[u].pc = "fetch" PROVE FALSE
    BY <1>0, <1>1, <1>2, <1>3, <1>4, <1>5, <1>6, <1>7, <1>8, <2>1 DEF Goes, Is, Same, LockInv
  <2>2. ASSUME NEW u \in Tasks,
               task'[u].pc = "save" \/ (task'[u].pc = "commit" /\ task'[u].goal = "refresh")
        PROVE  repo' # None /\ Prepared(task[u].gen, task[u].head)' /\ task'[u].gen = task[u].gen
               /\ task'[u].head = task[u].head
    <3>1. CASE u = t
      BY <1>0, <1>1, <1>2, <1>3, <1>4, <1>5, <1>6, <1>7, <1>8, <3>1 DEF Goes, Is
    <3>2. CASE u # t
      <4>1. task'[u] = task[u] /\ task[u].gen \in Generations
        BY <1>0, <1>1, <1>2, <1>3, <1>4, <1>5, <1>6, <1>7, <1>8, <3>2 DEF Goes, Same, Task
      <4>2. Prepared(task[u].gen, task[u].head)
        BY <1>0, <1>1, <1>2, <1>3, <1>4, <1>5, <1>6, <1>7, <1>8, <2>2, <4>1 DEF WorktreeInv
      <4> QED BY <1>0, <1>1, <1>2, <1>3, <1>4, <1>5, <1>6, <1>7, <1>8, <4>1, <4>2 DEF Prepared
    <3> QED BY <3>1, <3>2
  <2> QED BY <2>1, <2>2 DEF WorktreeInv, Prepared
<1>15. GenerationInv'
  <2>1. \A r \in Saved' : sessions'[r].gen <= refreshed'
    BY <1>0, <1>2, <1>3, <1>5 DEF GenerationInv, Saved, Same, Is, Goes
  <2>2. \A u \in Tasks : task'[u].gen <= refreshed'
    BY <1>0, <1>2, <1>3, <1>5 DEF GenerationInv, Saved, Same, Is, Goes
  <2>3. \A u \in Tasks : task'[u].goal \in {"refresh", "discard"} => task'[u].gen # 0
    BY <1>0, <1>2, <1>3, <1>5 DEF GenerationInv, Saved, Same, Is, Goes
  <2>4. \A u, v \in Tasks : u # v /\ task'[u].goal = "refresh" => task'[v].gen # task'[u].gen
    BY <1>0, <1>2, <1>3, <1>5 DEF GenerationInv, Saved, Same, Is, Goes
  <2>5. \A u \in Tasks : task'[u].goal \in {"refresh", "discard", "old"} =>
          \A r \in Saved' : sessions'[r].gen # task'[u].gen
    BY <1>0, <1>2, <1>3, <1>5 DEF GenerationInv, Saved, Same, Is, Goes
  <2> QED BY <2>1, <2>2, <2>3, <2>4, <2>5 DEF GenerationInv
<1>16. (SessionBacked /\ PinnedHead /\ NoLostRegistration)'
  <2>1. \A r \in Saved : worktrees'[sessions[r].gen] = worktrees[sessions[r].gen]
    BY <1>7, <1>8
  <2>2. SessionBacked' /\ PinnedHead'
    BY <1>0, <1>5, <2>1 DEF SessionBacked, PinnedHead, Saved
  <2>3. NoLostRegistration'
    BY <1>0, <1>5 DEF NoLostRegistration
  <2> QED BY <2>2, <2>3
<1> QED
  BY <1>9, <1>10, <1>11, <1>12, <1>13, <1>14, <1>15, <1>16 DEF RepositoryInv

(* An open waits for its turn.                                             *)
LEMMA OpenKeeps ==
  ASSUME RepositoryInv, NEW t \in Tasks, Open(t)
  PROVE  RepositoryInv'
<1> USE BoundFacts
<1>0. /\ TypeOK /\ QueuesTyped /\ ShapeInv /\ LockInv /\ OpenInv /\ OneSaved /\ MutationInv
      /\ RegistryInv /\ WorktreeInv /\ GenerationInv /\ SessionBacked /\ PinnedHead
      /\ NoLostRegistration
      /\ task \in [Tasks -> Task] /\ QueuesAre /\ refreshed \in Nat
  BY DEF RepositoryInv, TypeOK, QueuesTyped, QueuesAre
<1>1. opened + 1 \in 0..MaxReviews /\ opened + 1 \in Reviews
  BY <1>0 DEF Open, QueuesTyped
<1>2. Same(t) /\ Is(task'[t], "opening", "open", None, opened + 1, 0, 0, FALSE, None)
  BY <1>0, <1>1, NewOpen DEF Open
<1>3. QueuesAre' /\ Kept(t)
  BY <1>0, QueuesKept DEF Open
<1>4. /\ UNCHANGED <<repo, file, head, worktrees, sessions, acked, phase, refreshed, restarts>>
      /\ opened' = opened + 1
  BY DEF Open, counts
<1>5. TypeOK' /\ QueuesTyped'
  BY <1>0, <1>1, <1>2, <1>3, <1>4
     DEF TypeOK, QueuesTyped, QueuesAre, counts, Same, Kept, Is, Registrations
<1>6. ShapeInv'
  BY <1>0, <1>1, <1>2, <1>3, <1>4
     DEF ShapeInv, Mutations, Registrations, Same, Kept, Is, Registrations
<1>7. (LockInv /\ OpenInv /\ OneSaved)'
  <2>1. LockInv'
    BY <1>0, <1>1, <1>2, <1>3, <1>4
       DEF LockInv, Same, Kept, Is, Registrations
  <2>2. OpenInv'
    BY <1>0, <1>1, <1>2, <1>3, <1>4
       DEF OpenInv, Saved, Same, Kept, Is, Registrations
  <2>3. OneSaved'
    BY <1>0, <1>1, <1>2, <1>3, <1>4
       DEF OneSaved, Saved, Same, Kept, Is, Registrations
  <2> QED BY <2>1, <2>2, <2>3
<1>8. MutationInv'
  BY <1>0, <1>1, <1>2, <1>3, <1>4
     DEF MutationInv, Mutations, ShapeInv, Registrations, Same, Kept, Is, Registrations
<1>9. RegistryInv'
  BY <1>0, <1>1, <1>2, <1>3, <1>4
     DEF RegistryInv, Follows, Replaceable, Same, Kept, Is, Registrations
<1>10. WorktreeInv'
  BY <1>0, <1>1, <1>2, <1>3, <1>4
     DEF WorktreeInv, Prepared, Preparable, Same, Kept, Is, Registrations
<1>11. GenerationInv'
  <2>1. \A r \in Saved' : sessions'[r].gen <= refreshed'
    BY <1>0, <1>1, <1>2, <1>3, <1>4 DEF GenerationInv, Saved, Same, Is, Registrations
  <2>2. \A u \in Tasks : task'[u].gen <= refreshed'
    BY <1>0, <1>1, <1>2, <1>3, <1>4 DEF GenerationInv, Saved, Same, Is, Registrations
  <2>3. \A u \in Tasks : task'[u].goal \in {"refresh", "discard"} => task'[u].gen # 0
    BY <1>0, <1>1, <1>2, <1>3, <1>4 DEF GenerationInv, Saved, Same, Is, Registrations
  <2>4. \A u, v \in Tasks : u # v /\ task'[u].goal = "refresh" => task'[v].gen # task'[u].gen
    BY <1>0, <1>1, <1>2, <1>3, <1>4 DEF GenerationInv, Saved, Same, Is, Registrations
  <2>5. \A u \in Tasks : task'[u].goal \in {"refresh", "discard", "old"} =>
          \A r \in Saved' : sessions'[r].gen # task'[u].gen
    BY <1>0, <1>1, <1>2, <1>3, <1>4 DEF GenerationInv, Saved, Same, Is, Registrations
  <2> QED BY <2>1, <2>2, <2>3, <2>4, <2>5 DEF GenerationInv
<1>12. (SessionBacked /\ PinnedHead /\ NoLostRegistration)'
  BY <1>0, <1>1, <1>2, <1>3, <1>4
     DEF SessionBacked, PinnedHead, NoLostRegistration, Saved, Same, Kept, Is, Registrations
<1> QED
  BY <1>5, <1>6, <1>7, <1>8, <1>9, <1>10, <1>11, <1>12 DEF RepositoryInv

(* An open finds the review there is.                                      *)
LEMMA ReuseKeeps ==
  ASSUME RepositoryInv, NEW t \in Tasks, NEW r \in Saved, task[t].pc = "opening", Reuse(t, r),
         UNCHANGED <<repo, file, head, worktrees, sessions, acked, phase, opened, refreshed,
         restarts>>, UNCHANGED <<opening, lock>>
  PROVE  RepositoryInv'
<1> USE BoundFacts
<1>0. /\ TypeOK /\ QueuesTyped /\ ShapeInv /\ LockInv /\ OpenInv /\ OneSaved /\ MutationInv
      /\ RegistryInv /\ WorktreeInv /\ GenerationInv /\ SessionBacked /\ PinnedHead
      /\ NoLostRegistration
      /\ task \in [Tasks -> Task] /\ QueuesAre /\ refreshed \in Nat
  BY DEF RepositoryInv, TypeOK, QueuesTyped, QueuesAre
<1>1. task[t].goal = "open" /\ task[t].gen = 0 /\ r \in Reviews /\ r \in 0..MaxReviews
  BY <1>0 DEF ShapeInv, Mutations, Registrations, Saved
<1>2. /\ task[t] \in Task /\ task[t].review \in 0..MaxReviews /\ task[t].head \in Heads
      /\ task[t].gen \in Generations /\ task[t].reused \in BOOLEAN
      /\ task[t].goal \in Goals /\ task[t].next \in Repo \cup {None}
  BY <1>0 DEF Task
<1>3. Goes(t, "touch", task[t].goal, r, task[t].head, task[t].gen, task[t].reused, task[t].next)
  BY <1>0, <1>1, <1>2, GoesReview DEF Reuse, Locations
<1>4. QueuesAre' /\ Kept(t)
  BY <1>0, <1>1, QueuesKept DEF Reuse
<1>5. TypeOK' /\ QueuesTyped'
  BY <1>0, <1>1, <1>2, <1>3, <1>4 DEF TypeOK, QueuesTyped, QueuesAre, counts, Same, Kept, Is, Goes
<1>6. ShapeInv'
  BY <1>0, <1>1, <1>2, <1>3, <1>4 DEF ShapeInv, Mutations, Registrations, Same, Kept, Is, Goes
<1>7. (LockInv /\ OpenInv /\ OneSaved)'
  <2>1. LockInv'
    BY <1>0, <1>1, <1>2, <1>3, <1>4
       DEF LockInv, Same, Kept, Is, Goes
  <2>2. OpenInv'
    BY <1>0, <1>1, <1>2, <1>3, <1>4
       DEF OpenInv, Saved, Same, Kept, Is, Goes
  <2>3. OneSaved'
    BY <1>0, <1>1, <1>2, <1>3, <1>4
       DEF OneSaved, Saved, Same, Kept, Is, Goes
  <2> QED BY <2>1, <2>2, <2>3
<1>8. MutationInv'
  BY <1>0, <1>1, <1>2, <1>3, <1>4
     DEF MutationInv, Mutations, ShapeInv, Registrations, Same, Kept, Is, Goes
<1>9. RegistryInv'
  BY <1>0, <1>1, <1>2, <1>3, <1>4 DEF RegistryInv, Follows, Replaceable, Same, Kept, Is, Goes
<1>10. WorktreeInv'
  BY <1>0, <1>1, <1>2, <1>3, <1>4 DEF WorktreeInv, Prepared, Preparable, Same, Kept, Is, Goes
<1>11. GenerationInv'
  <2>1. \A q \in Saved' : sessions'[q].gen <= refreshed'
    BY <1>0, <1>1, <1>2, <1>3, <1>4 DEF GenerationInv, Saved, Same, Is, Goes
  <2>2. \A u \in Tasks : task'[u].gen <= refreshed'
    BY <1>0, <1>1, <1>2, <1>3, <1>4 DEF GenerationInv, Saved, Same, Is, Goes
  <2>3. \A u \in Tasks : task'[u].goal \in {"refresh", "discard"} => task'[u].gen # 0
    BY <1>0, <1>1, <1>2, <1>3, <1>4 DEF GenerationInv, Saved, Same, Is, Goes
  <2>4. \A u, v \in Tasks : u # v /\ task'[u].goal = "refresh" => task'[v].gen # task'[u].gen
    BY <1>0, <1>1, <1>2, <1>3, <1>4 DEF GenerationInv, Saved, Same, Is, Goes
  <2>5. \A u \in Tasks : task'[u].goal \in {"refresh", "discard", "old"} =>
          \A q \in Saved' : sessions'[q].gen # task'[u].gen
    BY <1>0, <1>1, <1>2, <1>3, <1>4 DEF GenerationInv, Saved, Same, Is, Goes
  <2> QED BY <2>1, <2>2, <2>3, <2>4, <2>5 DEF GenerationInv
<1>12. (SessionBacked /\ PinnedHead /\ NoLostRegistration)'
  BY <1>0, <1>1, <1>2, <1>3, <1>4
     DEF SessionBacked, PinnedHead, NoLostRegistration, Saved, Same, Kept, Is, Goes
<1> QED
  BY <1>5, <1>6, <1>7, <1>8, <1>9, <1>10, <1>11, <1>12 DEF RepositoryInv

(* An open finds none, and waits for the lock.                             *)
LEMMA FindKeeps ==
  ASSUME RepositoryInv, NEW t \in Tasks, task[t].pc = "opening", Holds(opening, t), Saved = {},
         Lock(t, "open"), UNCHANGED <<repo, file, head, worktrees, sessions, acked, phase, opened,
         refreshed, restarts>>, UNCHANGED <<opening, mutations>>
  PROVE  RepositoryInv'
<1> USE BoundFacts
<1>0. /\ TypeOK /\ QueuesTyped /\ ShapeInv /\ LockInv /\ OpenInv /\ OneSaved /\ MutationInv
      /\ RegistryInv /\ WorktreeInv /\ GenerationInv /\ SessionBacked /\ PinnedHead
      /\ NoLostRegistration
      /\ task \in [Tasks -> Task] /\ QueuesAre /\ refreshed \in Nat
  BY DEF RepositoryInv, TypeOK, QueuesTyped, QueuesAre
<1>1. task[t].goal = "open" /\ task[t].gen = 0 /\ task[t].review \in Reviews
  BY <1>0 DEF ShapeInv, Mutations, Registrations
<1>2. /\ task[t] \in Task /\ task[t].review \in 0..MaxReviews /\ task[t].head \in Heads
      /\ task[t].gen \in Generations /\ task[t].reused \in BOOLEAN
      /\ task[t].goal \in Goals /\ task[t].next \in Repo \cup {None}
  BY <1>0 DEF Task
<1>3. Goes(t, "lock", "open", task[t].review, task[t].head, task[t].gen, task[t].reused,
           task[t].next)
  BY <1>0, <1>1, <1>2, GoesFor DEF Lock, Locations, Goals
<1>4. QueuesAre' /\ Kept(t)
  BY <1>0, QueuesKept DEF Lock
<1>5. TypeOK' /\ QueuesTyped'
  BY <1>0, <1>1, <1>2, <1>3, <1>4 DEF TypeOK, QueuesTyped, QueuesAre, counts, Same, Kept, Is, Goes
<1>6. ShapeInv'
  BY <1>0, <1>1, <1>2, <1>3, <1>4 DEF ShapeInv, Mutations, Registrations, Same, Kept, Is, Goes
<1>7. (LockInv /\ OpenInv /\ OneSaved)'
  <2>1. LockInv'
    BY <1>0, <1>1, <1>2, <1>3, <1>4
       DEF LockInv, Same, Kept, Is, Goes
  <2>2. OpenInv'
    BY <1>0, <1>1, <1>2, <1>3, <1>4
       DEF OpenInv, Saved, Same, Kept, Is, Goes
  <2>3. OneSaved'
    BY <1>0, <1>1, <1>2, <1>3, <1>4
       DEF OneSaved, Saved, Same, Kept, Is, Goes
  <2> QED BY <2>1, <2>2, <2>3
<1>8. MutationInv'
  BY <1>0, <1>1, <1>2, <1>3, <1>4
     DEF MutationInv, Mutations, ShapeInv, Registrations, Same, Kept, Is, Goes
<1>9. RegistryInv'
  BY <1>0, <1>1, <1>2, <1>3, <1>4 DEF RegistryInv, Follows, Replaceable, Same, Kept, Is, Goes
<1>10. WorktreeInv'
  BY <1>0, <1>1, <1>2, <1>3, <1>4 DEF WorktreeInv, Prepared, Preparable, Same, Kept, Is, Goes
<1>11. GenerationInv'
  <2>1. \A r \in Saved' : sessions'[r].gen <= refreshed'
    BY <1>0, <1>1, <1>2, <1>3, <1>4 DEF GenerationInv, Saved, Same, Is, Goes
  <2>2. \A u \in Tasks : task'[u].gen <= refreshed'
    BY <1>0, <1>1, <1>2, <1>3, <1>4 DEF GenerationInv, Saved, Same, Is, Goes
  <2>3. \A u \in Tasks : task'[u].goal \in {"refresh", "discard"} => task'[u].gen # 0
    BY <1>0, <1>1, <1>2, <1>3, <1>4 DEF GenerationInv, Saved, Same, Is, Goes
  <2>4. \A u, v \in Tasks : u # v /\ task'[u].goal = "refresh" => task'[v].gen # task'[u].gen
    BY <1>0, <1>1, <1>2, <1>3, <1>4 DEF GenerationInv, Saved, Same, Is, Goes
  <2>5. \A u \in Tasks : task'[u].goal \in {"refresh", "discard", "old"} =>
          \A r \in Saved' : sessions'[r].gen # task'[u].gen
    BY <1>0, <1>1, <1>2, <1>3, <1>4 DEF GenerationInv, Saved, Same, Is, Goes
  <2> QED BY <2>1, <2>2, <2>3, <2>4, <2>5 DEF GenerationInv
<1>12. (SessionBacked /\ PinnedHead /\ NoLostRegistration)'
  BY <1>0, <1>1, <1>2, <1>3, <1>4
     DEF SessionBacked, PinnedHead, NoLostRegistration, Saved, Same, Kept, Is, Goes
<1> QED
  BY <1>5, <1>6, <1>7, <1>8, <1>9, <1>10, <1>11, <1>12 DEF RepositoryInv

(* The first review of the pull request is saved, with its worktree.       *)
LEMMA SaveKeeps ==
  ASSUME RepositoryInv, NEW t \in Tasks, Save(t)
  PROVE  RepositoryInv'
<1> USE BoundFacts
<1>0. /\ TypeOK /\ QueuesTyped /\ ShapeInv /\ LockInv /\ OpenInv /\ OneSaved /\ MutationInv
      /\ RegistryInv /\ WorktreeInv /\ GenerationInv /\ SessionBacked /\ PinnedHead
      /\ NoLostRegistration
      /\ task \in [Tasks -> Task] /\ QueuesAre /\ refreshed \in Nat
  BY DEF RepositoryInv, TypeOK, QueuesTyped, QueuesAre
<1>1. /\ task[t].pc = "save" /\ task[t].goal = "open" /\ task[t].gen = 0
      /\ task[t].review \in Reviews
      /\ Holds(lock, t) /\ \A u \in Tasks \ {t} : ~Holds(lock, u)
      /\ Holds(opening, t) /\ \A u \in Tasks \ {t} : ~Holds(opening, u)
      /\ Saved = {} /\ Prepared(0, task[t].head)
  BY <1>0 DEF Save, ShapeInv, LockInv, OpenInv, WorktreeInv, Mutations, Registrations, Holds
<1>2. Ended(t)
  BY <1>0, EndFacts DEF Save
<1>3. \A u \in Tasks \ {t} : ~(task[u].goal \in Mutations /\ task[u].pc # "queued")
  BY <1>0, <1>1 DEF MutationInv, ShapeInv, Mutations, Registrations, Saved
<1> DEFINE new == [gen |-> 0, head |-> task[t].head, deleting |-> FALSE,
                   sub |-> "none"]
<1>4. /\ new \in Session /\ new # None
      /\ new.gen = 0 /\ new.head = task[t].head /\ new.deleting = FALSE
  <2>1. task[t].head \in Heads /\ 0 \in Generations
    BY <1>0 DEF Task
  <2>2. new \in Session
    BY <2>1 DEF Session, Submissions
  <2> QED BY <2>2
<1>5. sessions' = [sessions EXCEPT ![task[t].review] = new]
  BY DEF Save
<1> HIDE DEF new
<1>6. /\ sessions' \in [Reviews -> Session \cup {None}]
      /\ Saved' = {task[t].review} /\ sessions'[task[t].review] = new
  BY <1>0, <1>1, <1>4, <1>5 DEF Saved, TypeOK
<1>7. UNCHANGED <<repo, file, head, worktrees, acked, phase, opened, refreshed, restarts>>
  BY DEF Save, counts
<1>8. TypeOK' /\ QueuesTyped'
  BY <1>0, <1>1, <1>2, <1>3, <1>4, <1>5, <1>6, <1>7
     DEF TypeOK, QueuesTyped, QueuesAre, counts, Same, Kept, Is, Ended
<1>9. ShapeInv'
  BY <1>0, <1>1, <1>2, <1>3, <1>4, <1>5, <1>6, <1>7
     DEF ShapeInv, Mutations, Registrations, Same, Kept, Is, Ended
<1>10. (LockInv /\ OpenInv /\ OneSaved)'
  <2>1. LockInv'
    BY <1>0, <1>1, <1>2, <1>3, <1>4, <1>5, <1>6, <1>7
       DEF LockInv, Same, Kept, Is, Ended, ShapeInv, Registrations, Mutations
  <2>2. OpenInv'
    BY <1>0, <1>1, <1>2, <1>3, <1>4, <1>5, <1>6, <1>7
       DEF OpenInv, Saved, Same, Kept, Is, Ended, ShapeInv, Registrations, Mutations
  <2>3. OneSaved'
    BY <1>0, <1>1, <1>2, <1>3, <1>4, <1>5, <1>6, <1>7
       DEF OneSaved, Saved, Same, Kept, Is, Ended, ShapeInv, Registrations, Mutations
  <2> QED BY <2>1, <2>2, <2>3
<1>11. MutationInv'
  BY <1>0, <1>1, <1>2, <1>3, <1>4, <1>5, <1>6, <1>7
     DEF MutationInv, Mutations, ShapeInv, Registrations, Same, Kept, Is, Ended
<1>12. RegistryInv'
  BY <1>0, <1>1, <1>2, <1>3, <1>4, <1>5, <1>6, <1>7
     DEF RegistryInv, Follows, Replaceable, Same, Kept, Is, Ended, LockInv
<1>13. WorktreeInv'
  BY <1>0, <1>1, <1>2, <1>3, <1>4, <1>5, <1>6, <1>7
     DEF WorktreeInv, Prepared, Preparable, Same, Kept, Is, Ended
<1>14. GenerationInv'
  <2>1. \A r \in Saved' : sessions'[r].gen <= refreshed'
    BY <1>0, <1>1, <1>2, <1>3, <1>4, <1>5, <1>6, <1>7
       DEF GenerationInv, Saved, Same, Is, Ended, ShapeInv, Mutations, Registrations
  <2>2. \A u \in Tasks : task'[u].gen <= refreshed'
    BY <1>0, <1>1, <1>2, <1>3, <1>4, <1>5, <1>6, <1>7
       DEF GenerationInv, Saved, Same, Is, Ended, ShapeInv, Mutations, Registrations
  <2>3. \A u \in Tasks : task'[u].goal \in {"refresh", "discard"} => task'[u].gen # 0
    BY <1>0, <1>1, <1>2, <1>3, <1>4, <1>5, <1>6, <1>7
       DEF GenerationInv, Saved, Same, Is, Ended, ShapeInv, Mutations, Registrations
  <2>4. \A u, v \in Tasks : u # v /\ task'[u].goal = "refresh" => task'[v].gen # task'[u].gen
    BY <1>0, <1>1, <1>2, <1>3, <1>4, <1>5, <1>6, <1>7
       DEF GenerationInv, Saved, Same, Is, Ended, ShapeInv, Mutations, Registrations
  <2>5. \A u \in Tasks : task'[u].goal \in {"refresh", "discard", "old"} =>
          \A r \in Saved' : sessions'[r].gen # task'[u].gen
    BY <1>0, <1>1, <1>2, <1>3, <1>4, <1>5, <1>6, <1>7
       DEF GenerationInv, Saved, Same, Is, Ended, ShapeInv, Mutations, Registrations
  <2> QED BY <2>1, <2>2, <2>3, <2>4, <2>5 DEF GenerationInv
<1>15. (SessionBacked /\ PinnedHead /\ NoLostRegistration)'
  BY <1>0, <1>1, <1>2, <1>3, <1>4, <1>5, <1>6, <1>7
     DEF SessionBacked, PinnedHead, NoLostRegistration, Saved, Same, Kept, Is, Ended, Prepared
<1> QED
  BY <1>8, <1>9, <1>10, <1>11, <1>12, <1>13, <1>14, <1>15 DEF RepositoryInv

(* What was added for a review that cannot be saved is taken away.         *)
LEMMA SaveFailsKeeps ==
  ASSUME RepositoryInv, NEW t \in Tasks, SaveFails(t)
  PROVE  RepositoryInv'
<1> USE BoundFacts
<1>0. /\ TypeOK /\ QueuesTyped /\ ShapeInv /\ LockInv /\ OpenInv /\ OneSaved /\ MutationInv
      /\ RegistryInv /\ WorktreeInv /\ GenerationInv /\ SessionBacked /\ PinnedHead
      /\ NoLostRegistration
      /\ task \in [Tasks -> Task] /\ QueuesAre /\ refreshed \in Nat
  BY DEF RepositoryInv, TypeOK, QueuesTyped, QueuesAre
<1>1. /\ task[t].pc = "save" /\ task[t].goal = "open" /\ task[t].gen = 0
      /\ task[t].review \in Reviews
      /\ Holds(lock, t) /\ \A u \in Tasks \ {t} : ~Holds(lock, u)
      /\ Holds(opening, t) /\ \A u \in Tasks \ {t} : ~Holds(opening, u)
      /\ Saved = {} /\ Prepared(0, task[t].head)
  BY <1>0 DEF SaveFails, ShapeInv, LockInv, OpenInv, WorktreeInv, Mutations, Registrations, Holds
<1>2. Ended(t)
  BY <1>0, EndFacts DEF SaveFails
<1>3. \A u \in Tasks \ {t} : ~(task[u].goal \in Mutations /\ task[u].pc # "queued")
  BY <1>0, <1>1 DEF MutationInv, ShapeInv, Mutations, Registrations, Saved
<1>4. /\ worktrees' \in [Generations -> Worktree \cup {None}]
  BY <1>0 DEF SaveFails, Removed, TypeOK
<1>5. UNCHANGED <<repo, file, head, sessions, acked, phase, opened, refreshed, restarts>>
  BY DEF SaveFails, counts
<1>6. Saved' = {} /\ \A r \in Reviews : sessions[r] = None
  BY <1>1, <1>5 DEF Saved
<1>7. TypeOK' /\ QueuesTyped'
  BY <1>0, <1>1, <1>2, <1>3, <1>4, <1>5, <1>6
     DEF TypeOK, QueuesTyped, QueuesAre, counts, Same, Kept, Is, Ended
<1>8. ShapeInv'
  BY <1>0, <1>1, <1>2, <1>3, <1>4, <1>5, <1>6
     DEF ShapeInv, Mutations, Registrations, Same, Kept, Is, Ended
<1>9. (LockInv /\ OpenInv /\ OneSaved)'
  <2>1. LockInv'
    BY <1>0, <1>1, <1>2, <1>3, <1>4, <1>5, <1>6
       DEF LockInv, Same, Kept, Is, Ended
  <2>2. OpenInv'
    BY <1>0, <1>1, <1>2, <1>3, <1>4, <1>5, <1>6
       DEF OpenInv, Saved, Same, Kept, Is, Ended
  <2>3. OneSaved'
    BY <1>0, <1>1, <1>2, <1>3, <1>4, <1>5, <1>6
       DEF OneSaved, Saved, Same, Kept, Is, Ended
  <2> QED BY <2>1, <2>2, <2>3
<1>10. MutationInv'
  BY <1>0, <1>1, <1>2, <1>3, <1>4, <1>5, <1>6
     DEF MutationInv, Mutations, ShapeInv, Registrations, Same, Kept, Is, Ended
<1>11. RegistryInv'
  BY <1>0, <1>1, <1>2, <1>3, <1>4, <1>5, <1>6
     DEF RegistryInv, Follows, Replaceable, Same, Kept, Is, Ended, LockInv
<1>12. WorktreeInv'
  <2>1. ASSUME NEW u \in Tasks,
               \/ task'[u].pc \in {"fetch", "save"}
               \/ task'[u].pc = "commit" /\ task'[u].goal = "refresh"
        PROVE  FALSE
    BY <1>0, <1>1, <1>2, <1>3, <1>4, <1>5, <1>6, <2>1 DEF Ended, Same, Is, LockInv, Mutations
  <2> QED BY <2>1 DEF WorktreeInv
<1>13. GenerationInv'
  <2>1. \A r \in Saved' : sessions'[r].gen <= refreshed'
    BY <1>0, <1>1, <1>2, <1>3, <1>4, <1>5, <1>6 DEF GenerationInv, Saved, Same, Is, Ended
  <2>2. \A u \in Tasks : task'[u].gen <= refreshed'
    BY <1>0, <1>1, <1>2, <1>3, <1>4, <1>5, <1>6 DEF GenerationInv, Saved, Same, Is, Ended
  <2>3. \A u \in Tasks : task'[u].goal \in {"refresh", "discard"} => task'[u].gen # 0
    BY <1>0, <1>1, <1>2, <1>3, <1>4, <1>5, <1>6 DEF GenerationInv, Saved, Same, Is, Ended
  <2>4. \A u, v \in Tasks : u # v /\ task'[u].goal = "refresh" => task'[v].gen # task'[u].gen
    BY <1>0, <1>1, <1>2, <1>3, <1>4, <1>5, <1>6 DEF GenerationInv, Saved, Same, Is, Ended
  <2>5. \A u \in Tasks : task'[u].goal \in {"refresh", "discard", "old"} =>
          \A r \in Saved' : sessions'[r].gen # task'[u].gen
    BY <1>0, <1>1, <1>2, <1>3, <1>4, <1>5, <1>6 DEF GenerationInv, Saved, Same, Is, Ended
  <2> QED BY <2>1, <2>2, <2>3, <2>4, <2>5 DEF GenerationInv
<1>14. (SessionBacked /\ PinnedHead /\ NoLostRegistration)'
  BY <1>0, <1>1, <1>2, <1>3, <1>4, <1>5, <1>6
     DEF SessionBacked, PinnedHead, NoLostRegistration, Saved, Same, Kept, Is, Ended
<1> QED
  BY <1>7, <1>8, <1>9, <1>10, <1>11, <1>12, <1>13, <1>14 DEF RepositoryInv

(* A refresh has a generation of its own.                                  *)
LEMMA RefreshKeeps ==
  ASSUME RepositoryInv, NEW t \in Tasks, NEW r \in Reviews, Refresh(t, r)
  PROVE  RepositoryInv'
<1> USE BoundFacts
<1>0. /\ TypeOK /\ QueuesTyped /\ ShapeInv /\ LockInv /\ OpenInv /\ OneSaved /\ MutationInv
      /\ RegistryInv /\ WorktreeInv /\ GenerationInv /\ SessionBacked /\ PinnedHead
      /\ NoLostRegistration
      /\ task \in [Tasks -> Task] /\ QueuesAre /\ refreshed \in Nat
  BY DEF RepositoryInv, TypeOK, QueuesTyped, QueuesAre
<1>1. /\ refreshed + 1 \in Generations /\ refreshed + 1 \in 0..MaxGenerations
      /\ refreshed' = refreshed + 1
  BY <1>0 DEF Refresh, QueuesTyped
<1>2. Same(t) /\ Is(task'[t], "queued", "refresh", None, r, 0, refreshed + 1, FALSE, None)
  <2>1. /\ "refresh" \in Goals /\ r \in 0..MaxReviews
        /\ task' = [task EXCEPT ![t] = [Idle EXCEPT !.pc = "queued", !.goal = "refresh",
                                                     !.review = r, !.gen = refreshed + 1]]
    BY DEF Refresh, Queued, Goals
  <2> QED BY <1>0, <1>1, <2>1, NewMutation
<1>3. QueuesAre' /\ Kept(t)
  BY <1>0, QueuesKept DEF Refresh, Queued
<1>4. UNCHANGED <<repo, file, head, worktrees, sessions, acked, phase, opened, restarts>>
  BY DEF Refresh, Queued
<1>5. /\ \A s \in Saved : sessions[s].gen \in Nat
      /\ \A u \in Tasks : task[u].gen \in Nat
  BY <1>0 DEF Saved, TypeOK, Session, Task
<1>6. TypeOK' /\ QueuesTyped'
  BY <1>0, <1>1, <1>2, <1>3, <1>4, <1>5
     DEF TypeOK, QueuesTyped, QueuesAre, counts, Same, Kept, Is, Mutations
<1>7. ShapeInv'
  BY <1>0, <1>1, <1>2, <1>3, <1>4, <1>5
     DEF ShapeInv, Mutations, Registrations, Same, Kept, Is, Mutations
<1>8. (LockInv /\ OpenInv /\ OneSaved)'
  <2>1. LockInv'
    BY <1>0, <1>1, <1>2, <1>3, <1>4, <1>5
       DEF LockInv, Same, Kept, Is, Mutations
  <2>2. OpenInv'
    BY <1>0, <1>1, <1>2, <1>3, <1>4, <1>5
       DEF OpenInv, Saved, Same, Kept, Is, Mutations
  <2>3. OneSaved'
    BY <1>0, <1>1, <1>2, <1>3, <1>4, <1>5
       DEF OneSaved, Saved, Same, Kept, Is, Mutations
  <2> QED BY <2>1, <2>2, <2>3
<1>9. MutationInv'
  BY <1>0, <1>1, <1>2, <1>3, <1>4, <1>5
     DEF MutationInv, Mutations, ShapeInv, Registrations, Same, Kept, Is, Mutations
<1>10. RegistryInv'
  BY <1>0, <1>1, <1>2, <1>3, <1>4, <1>5
     DEF RegistryInv, Follows, Replaceable, Same, Kept, Is, Mutations
<1>11. WorktreeInv'
  BY <1>0, <1>1, <1>2, <1>3, <1>4, <1>5
     DEF WorktreeInv, Prepared, Preparable, Same, Kept, Is, Mutations
<1>12. GenerationInv'
  <2>1. \A q \in Saved' : sessions'[q].gen <= refreshed'
    BY <1>0, <1>1, <1>2, <1>3, <1>4, <1>5 DEF GenerationInv, Saved, Same, Is, Mutations
  <2>2. \A u \in Tasks : task'[u].gen <= refreshed'
    BY <1>0, <1>1, <1>2, <1>3, <1>4, <1>5 DEF GenerationInv, Saved, Same, Is, Mutations
  <2>3. \A u \in Tasks : task'[u].goal \in {"refresh", "discard"} => task'[u].gen # 0
    BY <1>0, <1>1, <1>2, <1>3, <1>4, <1>5 DEF GenerationInv, Saved, Same, Is, Mutations
  <2>4. \A u, v \in Tasks : u # v /\ task'[u].goal = "refresh" => task'[v].gen # task'[u].gen
    BY <1>0, <1>1, <1>2, <1>3, <1>4, <1>5 DEF GenerationInv, Saved, Same, Is, Mutations
  <2>5. \A u \in Tasks : task'[u].goal \in {"refresh", "discard", "old"} =>
          \A q \in Saved' : sessions'[q].gen # task'[u].gen
    BY <1>0, <1>1, <1>2, <1>3, <1>4, <1>5 DEF GenerationInv, Saved, Same, Is, Mutations
  <2> QED BY <2>1, <2>2, <2>3, <2>4, <2>5 DEF GenerationInv
<1>13. (SessionBacked /\ PinnedHead /\ NoLostRegistration)'
  BY <1>0, <1>1, <1>2, <1>3, <1>4, <1>5
     DEF SessionBacked, PinnedHead, NoLostRegistration, Saved, Same, Kept, Is, Mutations
<1> QED
  BY <1>6, <1>7, <1>8, <1>9, <1>10, <1>11, <1>12, <1>13 DEF RepositoryInv

(* A deletion, or a cleanup, waits in the queue of its review.             *)
LEMMA QueuedKeeps ==
  ASSUME RepositoryInv, NEW t \in Tasks, NEW r \in Reviews,
         NEW goal \in {"delete", "cleanup"}, Queued(t, goal, r, 0),
         UNCHANGED refreshed, phase' \in {"recovering", "sweeping", "ready"}
  PROVE  RepositoryInv'
<1> USE BoundFacts
<1>0. /\ TypeOK /\ QueuesTyped /\ ShapeInv /\ LockInv /\ OpenInv /\ OneSaved /\ MutationInv
      /\ RegistryInv /\ WorktreeInv /\ GenerationInv /\ SessionBacked /\ PinnedHead
      /\ NoLostRegistration
      /\ task \in [Tasks -> Task] /\ QueuesAre /\ refreshed \in Nat
  BY DEF RepositoryInv, TypeOK, QueuesTyped, QueuesAre
<1>1. 0 \in Generations
  OBVIOUS
<1>2. Same(t) /\ Is(task'[t], "queued", goal, None, r, 0, 0, FALSE, None)
  <2>1. /\ goal \in Goals /\ r \in 0..MaxReviews
        /\ task' = [task EXCEPT ![t] = [Idle EXCEPT !.pc = "queued", !.goal = goal,
                                                     !.review = r, !.gen = 0]]
    BY DEF Queued, Goals
  <2> QED BY <1>0, <1>1, <2>1, NewMutation
<1>3. QueuesAre' /\ Kept(t)
  BY <1>0, QueuesKept DEF Queued
<1>4. UNCHANGED <<repo, file, head, worktrees, sessions, acked, opened, refreshed, restarts>>
  BY DEF Queued
<1>5. TypeOK' /\ QueuesTyped'
  BY <1>0, <1>1, <1>2, <1>3, <1>4
     DEF TypeOK, QueuesTyped, QueuesAre, counts, Same, Kept, Is, Mutations
<1>6. ShapeInv'
  BY <1>0, <1>1, <1>2, <1>3, <1>4
     DEF ShapeInv, Mutations, Registrations, Same, Kept, Is, Mutations
<1>7. (LockInv /\ OpenInv /\ OneSaved)'
  <2>1. LockInv'
    BY <1>0, <1>1, <1>2, <1>3, <1>4
       DEF LockInv, Same, Kept, Is, Mutations
  <2>2. OpenInv'
    BY <1>0, <1>1, <1>2, <1>3, <1>4
       DEF OpenInv, Saved, Same, Kept, Is, Mutations
  <2>3. OneSaved'
    BY <1>0, <1>1, <1>2, <1>3, <1>4
       DEF OneSaved, Saved, Same, Kept, Is, Mutations
  <2> QED BY <2>1, <2>2, <2>3
<1>8. MutationInv'
  BY <1>0, <1>1, <1>2, <1>3, <1>4
     DEF MutationInv, Mutations, ShapeInv, Registrations, Same, Kept, Is, Mutations
<1>9. RegistryInv'
  BY <1>0, <1>1, <1>2, <1>3, <1>4 DEF RegistryInv, Follows, Replaceable, Same, Kept, Is, Mutations
<1>10. WorktreeInv'
  BY <1>0, <1>1, <1>2, <1>3, <1>4 DEF WorktreeInv, Prepared, Preparable, Same, Kept, Is, Mutations
<1>11. GenerationInv'
  <2>1. \A q \in Saved' : sessions'[q].gen <= refreshed'
    BY <1>0, <1>1, <1>2, <1>3, <1>4 DEF GenerationInv, Saved, Same, Is, Mutations
  <2>2. \A u \in Tasks : task'[u].gen <= refreshed'
    BY <1>0, <1>1, <1>2, <1>3, <1>4 DEF GenerationInv, Saved, Same, Is, Mutations
  <2>3. \A u \in Tasks : task'[u].goal \in {"refresh", "discard"} => task'[u].gen # 0
    BY <1>0, <1>1, <1>2, <1>3, <1>4 DEF GenerationInv, Saved, Same, Is, Mutations
  <2>4. \A u, v \in Tasks : u # v /\ task'[u].goal = "refresh" => task'[v].gen # task'[u].gen
    BY <1>0, <1>1, <1>2, <1>3, <1>4 DEF GenerationInv, Saved, Same, Is, Mutations
  <2>5. \A u \in Tasks : task'[u].goal \in {"refresh", "discard", "old"} =>
          \A q \in Saved' : sessions'[q].gen # task'[u].gen
    BY <1>0, <1>1, <1>2, <1>3, <1>4 DEF GenerationInv, Saved, Same, Is, Mutations
  <2> QED BY <2>1, <2>2, <2>3, <2>4, <2>5 DEF GenerationInv
<1>12. (SessionBacked /\ PinnedHead /\ NoLostRegistration)'
  BY <1>0, <1>1, <1>2, <1>3, <1>4
     DEF SessionBacked, PinnedHead, NoLostRegistration, Saved, Same, Kept, Is, Mutations
<1> QED
  BY <1>5, <1>6, <1>7, <1>8, <1>9, <1>10, <1>11, <1>12 DEF RepositoryInv

(* A refresh reads the pull request.                                       *)
LEMMA RefreshRunsKeeps ==
  ASSUME RepositoryInv, NEW t \in Tasks, RefreshRuns(t)
  PROVE  RepositoryInv'
<1> USE BoundFacts
<1>0. /\ TypeOK /\ QueuesTyped /\ ShapeInv /\ LockInv /\ OpenInv /\ OneSaved /\ MutationInv
      /\ RegistryInv /\ WorktreeInv /\ GenerationInv /\ SessionBacked /\ PinnedHead
      /\ NoLostRegistration
      /\ task \in [Tasks -> Task] /\ QueuesAre /\ refreshed \in Nat
  BY DEF RepositoryInv, TypeOK, QueuesTyped, QueuesAre
<1>1. /\ task[t].pc = "queued" /\ task[t].goal = "refresh" /\ Holds(mutations[task[t].review], t)
      /\ sessions[task[t].review] # None /\ ~sessions[task[t].review].deleting
      /\ task[t].review \in Reviews /\ head \in Heads
  BY <1>0 DEF RefreshRuns, Runs, ShapeInv, Mutations, Registrations, TypeOK
<1>2. /\ task[t] \in Task /\ task[t].review \in 0..MaxReviews /\ task[t].head \in Heads
      /\ task[t].gen \in Generations /\ task[t].reused \in BOOLEAN
      /\ task[t].goal \in Goals /\ task[t].next \in Repo \cup {None}
  BY <1>0 DEF Task
<1>3. Goes(t, "lock", task[t].goal, task[t].review, head, task[t].gen, task[t].reused,
           task[t].next)
  BY <1>0, <1>1, <1>2, GoesAt DEF RefreshRuns, Locations
<1>4. QueuesAre' /\ Kept(t) /\ mutations' = mutations
  BY <1>0, QueuesKept DEF RefreshRuns
<1>5. UNCHANGED <<repo, file, head, worktrees, sessions, acked, phase, opened, refreshed,
                  restarts>>
  BY DEF RefreshRuns, counts
<1>6. TypeOK' /\ QueuesTyped'
  BY <1>0, <1>1, <1>2, <1>3, <1>4, <1>5
     DEF TypeOK, QueuesTyped, QueuesAre, counts, Same, Kept, Is, Goes, Mutations
<1>7. ShapeInv'
  BY <1>0, <1>1, <1>2, <1>3, <1>4, <1>5
     DEF ShapeInv, Mutations, Registrations, Same, Kept, Is, Goes, Mutations
<1>8. (LockInv /\ OpenInv /\ OneSaved)'
  <2>1. LockInv'
    BY <1>0, <1>1, <1>2, <1>3, <1>4, <1>5
       DEF LockInv, Same, Kept, Is, Goes, Mutations
  <2>2. OpenInv'
    BY <1>0, <1>1, <1>2, <1>3, <1>4, <1>5
       DEF OpenInv, Saved, Same, Kept, Is, Goes, Mutations
  <2>3. OneSaved'
    BY <1>0, <1>1, <1>2, <1>3, <1>4, <1>5
       DEF OneSaved, Saved, Same, Kept, Is, Goes, Mutations
  <2> QED BY <2>1, <2>2, <2>3
<1>9. MutationInv'
  BY <1>0, <1>1, <1>2, <1>3, <1>4, <1>5
     DEF MutationInv, Mutations, ShapeInv, Registrations, Same, Kept, Is, Goes, Mutations
<1>10. RegistryInv'
  BY <1>0, <1>1, <1>2, <1>3, <1>4, <1>5
     DEF RegistryInv, Follows, Replaceable, Same, Kept, Is, Goes, Mutations
<1>11. WorktreeInv'
  BY <1>0, <1>1, <1>2, <1>3, <1>4, <1>5
     DEF WorktreeInv, Prepared, Preparable, Same, Kept, Is, Goes, Mutations
<1>12. GenerationInv'
  <2>1. \A r \in Saved' : sessions'[r].gen <= refreshed'
    BY <1>0, <1>1, <1>2, <1>3, <1>4, <1>5 DEF GenerationInv, Saved, Same, Is, Goes, Mutations
  <2>2. \A u \in Tasks : task'[u].gen <= refreshed'
    BY <1>0, <1>1, <1>2, <1>3, <1>4, <1>5 DEF GenerationInv, Saved, Same, Is, Goes, Mutations
  <2>3. \A u \in Tasks : task'[u].goal \in {"refresh", "discard"} => task'[u].gen # 0
    BY <1>0, <1>1, <1>2, <1>3, <1>4, <1>5 DEF GenerationInv, Saved, Same, Is, Goes, Mutations
  <2>4. \A u, v \in Tasks : u # v /\ task'[u].goal = "refresh" => task'[v].gen # task'[u].gen
    BY <1>0, <1>1, <1>2, <1>3, <1>4, <1>5 DEF GenerationInv, Saved, Same, Is, Goes, Mutations
  <2>5. \A u \in Tasks : task'[u].goal \in {"refresh", "discard", "old"} =>
          \A r \in Saved' : sessions'[r].gen # task'[u].gen
    BY <1>0, <1>1, <1>2, <1>3, <1>4, <1>5 DEF GenerationInv, Saved, Same, Is, Goes, Mutations
  <2> QED BY <2>1, <2>2, <2>3, <2>4, <2>5 DEF GenerationInv
<1>13. (SessionBacked /\ PinnedHead /\ NoLostRegistration)'
  BY <1>0, <1>1, <1>2, <1>3, <1>4, <1>5
     DEF SessionBacked, PinnedHead, NoLostRegistration, Saved, Same, Kept, Is, Goes, Mutations
<1> QED
  BY <1>6, <1>7, <1>8, <1>9, <1>10, <1>11, <1>12, <1>13 DEF RepositoryInv

(* A new revision is saved, with its worktree.                             *)
LEMMA CommitKeeps ==
  ASSUME RepositoryInv, NEW t \in Tasks, Commit(t), sessions[task[t].review].sub = "none"
  PROVE  RepositoryInv'
<1> USE BoundFacts
<1>0. /\ TypeOK /\ QueuesTyped /\ ShapeInv /\ LockInv /\ OpenInv /\ OneSaved /\ MutationInv
      /\ RegistryInv /\ WorktreeInv /\ GenerationInv /\ SessionBacked /\ PinnedHead
      /\ NoLostRegistration
      /\ task \in [Tasks -> Task] /\ QueuesAre /\ refreshed \in Nat
  BY DEF RepositoryInv, TypeOK, QueuesTyped, QueuesAre
<1>1. /\ task[t].pc = "commit" /\ task[t].goal = "refresh" /\ Holds(mutations[task[t].review], t)
      /\ sessions[task[t].review] # None /\ ~sessions[task[t].review].deleting
      /\ task[t].review \in Reviews /\ Prepared(task[t].gen, task[t].head)
  BY <1>0 DEF Commit, MutationInv, WorktreeInv, ShapeInv, Mutations, Registrations
<1>2. /\ task[t] \in Task /\ task[t].review \in 0..MaxReviews /\ task[t].head \in Heads
      /\ task[t].gen \in Generations /\ task[t].reused \in BOOLEAN
      /\ task[t].goal \in Goals /\ task[t].next \in Repo \cup {None}
  BY <1>0 DEF Task
<1>3. /\ task[t].review \in Saved /\ Saved = {task[t].review}
      /\ \A u \in Tasks \ {t} : ~(task[u].goal \in Mutations /\ task[u].pc # "queued")
      /\ \A u \in Tasks : ~(task[u].goal = "open" /\ task[u].pc \in {"lock", "fetch", "save"})
      /\ ~Replaceable
  BY <1>0, <1>1
     DEF OneSaved, OpenInv, MutationInv, ShapeInv, Mutations, Registrations, Saved, Holds,
         Replaceable
<1> DEFINE old == sessions[task[t].review].gen
           new == [gen |-> task[t].gen, head |-> task[t].head, deleting |-> FALSE,
                   sub |-> "none"]
<1>4. old \in Generations /\ old # task[t].gen /\ old <= refreshed /\ task[t].gen <= refreshed
      /\ \A u \in Tasks : task[u].goal = "refresh" => task[u].gen # old
  BY <1>0, <1>1, <1>3 DEF GenerationInv, TypeOK, Session
<1>5. /\ new \in Session /\ new # None
      /\ new.gen = task[t].gen /\ new.head = task[t].head /\ new.deleting = FALSE
  <2>1. new \in Session
    BY <1>2 DEF Session, Submissions
  <2> QED BY <2>1
<1>6. /\ sessions' = [sessions EXCEPT ![task[t].review] = new]
      /\ task' = [task EXCEPT ![t].pc = "lock", ![t].goal = "old", ![t].gen = old]
  BY DEF Commit
<1> HIDE DEF old, new
<1>7. Goes(t, "lock", "old", task[t].review, task[t].head, old, task[t].reused, task[t].next)
  BY <1>0, <1>2, <1>4, <1>6, GoesDropping DEF Locations, Goals
<1>8. QueuesAre' /\ Kept(t) /\ mutations' = mutations
  BY <1>0, QueuesKept DEF Commit
<1>9. /\ sessions' \in [Reviews -> Session \cup {None}]
      /\ Saved' = {task[t].review} /\ sessions'[task[t].review] = new
  BY <1>0, <1>1, <1>3, <1>5, <1>6 DEF Saved, TypeOK
<1>10. UNCHANGED <<repo, file, head, worktrees, acked, phase, opened, refreshed, restarts>>
  BY DEF Commit, counts
<1>11. TypeOK' /\ QueuesTyped'
  BY <1>0, <1>1, <1>2, <1>3, <1>4, <1>5, <1>6, <1>7, <1>8, <1>9, <1>10
     DEF TypeOK, QueuesTyped, QueuesAre, counts, Same, Kept, Is, Goes, Mutations
<1>12. ShapeInv'
  BY <1>0, <1>1, <1>2, <1>3, <1>4, <1>5, <1>6, <1>7, <1>8, <1>9, <1>10
     DEF ShapeInv, Mutations, Registrations, Same, Kept, Is, Goes, Mutations
<1>13. (LockInv /\ OpenInv /\ OneSaved)'
  <2>1. LockInv'
    BY <1>0, <1>1, <1>2, <1>3, <1>4, <1>5, <1>6, <1>7, <1>8, <1>9, <1>10
       DEF LockInv, Same, Kept, Is, Goes, Mutations
  <2>2. OpenInv'
    BY <1>0, <1>1, <1>2, <1>3, <1>4, <1>5, <1>6, <1>7, <1>8, <1>9, <1>10
       DEF OpenInv, Saved, Same, Kept, Is, Goes, Mutations
  <2>3. OneSaved'
    BY <1>0, <1>1, <1>2, <1>3, <1>4, <1>5, <1>6, <1>7, <1>8, <1>9, <1>10
       DEF OneSaved, Saved, Same, Kept, Is, Goes, Mutations
  <2> QED BY <2>1, <2>2, <2>3
<1>14. MutationInv'
  BY <1>0, <1>1, <1>2, <1>3, <1>4, <1>5, <1>6, <1>7, <1>8, <1>9, <1>10
     DEF MutationInv, Mutations, ShapeInv, Registrations, Same, Kept, Is, Goes, Mutations
<1>15. RegistryInv'
  <2>1. ASSUME NEW u \in Tasks, task'[u].pc = "write"
        PROVE  Follows(task[u].goal, task[u].path, task[u].next)' /\ task'[u] = task[u]
    <3>1. task'[u] = task[u]
      BY <1>7, <2>1 DEF Goes, Same, Is
    <3>2. Follows(task[u].goal, task[u].path, task[u].next)
      BY <1>0, <2>1, <3>1 DEF RegistryInv
    <3>3. task[u].goal \in {"register", "forget"}
      BY <1>3, <3>2 DEF Follows
    <3>4. repo' = repo
      BY <1>10
    <3> QED BY <3>1, <3>2, <3>3, <3>4 DEF Follows
  <2> QED BY <2>1 DEF RegistryInv
<1>16. WorktreeInv'
  BY <1>0, <1>1, <1>2, <1>3, <1>4, <1>5, <1>6, <1>7, <1>8, <1>9, <1>10
     DEF WorktreeInv, Prepared, Preparable, Same, Kept, Is, Goes, Mutations
<1>17. GenerationInv'
  <2>1. \A r \in Saved' : sessions'[r].gen <= refreshed'
    BY <1>0, <1>1, <1>2, <1>3, <1>4, <1>5, <1>6, <1>7, <1>8, <1>9, <1>10
       DEF GenerationInv, Saved, Same, Is, Goes, Mutations, ShapeInv, Registrations
  <2>2. \A u \in Tasks : task'[u].gen <= refreshed'
    BY <1>0, <1>1, <1>2, <1>3, <1>4, <1>5, <1>6, <1>7, <1>8, <1>9, <1>10
       DEF GenerationInv, Saved, Same, Is, Goes, Mutations, ShapeInv, Registrations
  <2>3. \A u \in Tasks : task'[u].goal \in {"refresh", "discard"} => task'[u].gen # 0
    BY <1>0, <1>1, <1>2, <1>3, <1>4, <1>5, <1>6, <1>7, <1>8, <1>9, <1>10
       DEF GenerationInv, Saved, Same, Is, Goes, Mutations, ShapeInv, Registrations
  <2>4. \A u, v \in Tasks : u # v /\ task'[u].goal = "refresh" => task'[v].gen # task'[u].gen
    BY <1>0, <1>1, <1>2, <1>3, <1>4, <1>5, <1>6, <1>7, <1>8, <1>9, <1>10
       DEF GenerationInv, Saved, Same, Is, Goes, Mutations, ShapeInv, Registrations
  <2>5. \A u \in Tasks : task'[u].goal \in {"refresh", "discard", "old"} =>
          \A r \in Saved' : sessions'[r].gen # task'[u].gen
    BY <1>0, <1>1, <1>2, <1>3, <1>4, <1>5, <1>6, <1>7, <1>8, <1>9, <1>10
       DEF GenerationInv, Saved, Same, Is, Goes, Mutations, ShapeInv, Registrations
  <2> QED BY <2>1, <2>2, <2>3, <2>4, <2>5 DEF GenerationInv
<1>18. (SessionBacked /\ PinnedHead /\ NoLostRegistration)'
  BY <1>0, <1>1, <1>2, <1>3, <1>4, <1>5, <1>6, <1>7, <1>8, <1>9, <1>10
     DEF SessionBacked, PinnedHead, NoLostRegistration, Saved, Same, Kept, Is, Goes, Mutations,
         Prepared
<1> QED
  BY <1>11, <1>12, <1>13, <1>14, <1>15, <1>16, <1>17, <1>18 DEF RepositoryInv

(* The last step of an operation on a review saves it: what is saved has   *)
(* its worktree, unless it is to be deleted or was submitted.              *)
LEMMA SettledKeeps ==
  ASSUME RepositoryInv, NEW t \in Tasks, task[t].goal \in Mutations, task[t].pc # "queued",
         NEW new \in Session, sessions' = [sessions EXCEPT ![task[t].review] = new],
         End(t), UNCHANGED <<repo, file, head, worktrees, acked, counts>>,
         new.gen <= refreshed,
         \A u \in Tasks \ {t} : task[u].goal = "refresh" => task[u].gen # new.gen,
         worktrees[new.gen] # None => worktrees[new.gen].head = new.head,
         ~new.deleting /\ new.sub = "none" =>
           worktrees[new.gen] # None /\ worktrees[new.gen].at = repo.primary
  PROVE  RepositoryInv'
<1> USE BoundFacts
<1>0. /\ TypeOK /\ QueuesTyped /\ ShapeInv /\ LockInv /\ OpenInv /\ OneSaved /\ MutationInv
      /\ RegistryInv /\ WorktreeInv /\ GenerationInv /\ SessionBacked /\ PinnedHead
      /\ NoLostRegistration
      /\ task \in [Tasks -> Task] /\ QueuesAre /\ refreshed \in Nat
  BY DEF RepositoryInv, TypeOK, QueuesTyped, QueuesAre
<1>1. /\ Holds(mutations[task[t].review], t) /\ sessions[task[t].review] # None
      /\ task[t].review \in Reviews
  BY <1>0 DEF MutationInv, ShapeInv, Mutations, Registrations
<1>2. Ended(t)
  BY <1>0, EndFacts
<1>3. /\ task[t].review \in Saved /\ Saved = {task[t].review}
      /\ \A u \in Tasks \ {t} : ~(task[u].goal \in Mutations /\ task[u].pc # "queued")
      /\ \A u \in Tasks : ~(task[u].goal = "open" /\ task[u].pc \in {"lock", "fetch", "save"})
      /\ ~Replaceable
  BY <1>0, <1>1
     DEF OneSaved, OpenInv, MutationInv, ShapeInv, Mutations, Registrations, Saved, Holds,
         Replaceable
<1>4. /\ sessions' \in [Reviews -> Session \cup {None}] /\ new # None
      /\ Saved' = {task[t].review} /\ sessions'[task[t].review] = new
  BY <1>0, <1>1, <1>3 DEF Saved, TypeOK
<1>5. UNCHANGED <<repo, file, head, worktrees, acked, phase, opened, refreshed, restarts>>
  BY DEF counts
<1>6. \A u \in Tasks \ {t} : task[u].goal \notin {"discard", "old"}
  BY <1>0, <1>3 DEF ShapeInv, Mutations, Registrations
<1>7. TypeOK' /\ QueuesTyped'
  BY <1>0, <1>2, <1>4, <1>5 DEF TypeOK, QueuesTyped, QueuesAre, Same, Is, Ended
<1>8. ShapeInv'
  BY <1>0, <1>2 DEF ShapeInv, Mutations, Registrations, Same, Is, Ended
<1>9. (LockInv /\ OpenInv /\ OneSaved)'
  <2>1. LockInv'
    BY <1>0, <1>2 DEF LockInv, Same, Kept, Is, Ended
  <2>2. OpenInv'
    BY <1>0, <1>2, <1>3 DEF OpenInv, Same, Is, Ended
  <2>3. OneSaved'
    BY <1>4 DEF OneSaved
  <2> QED BY <2>1, <2>2, <2>3
<1>10. MutationInv'
  BY <1>0, <1>2, <1>3 DEF MutationInv, Mutations, Same, Is, Ended
<1>11. RegistryInv'
  <2>1. ASSUME NEW u \in Tasks, task'[u].pc = "write"
        PROVE  Follows(task[u].goal, task[u].path, task[u].next)' /\ task'[u] = task[u]
    <3>1. task'[u] = task[u]
      BY <1>2, <2>1 DEF Ended, Same, Is
    <3>2. Follows(task[u].goal, task[u].path, task[u].next)
      BY <1>0, <2>1, <3>1 DEF RegistryInv
    <3>3. task[u].goal \in {"register", "forget"}
      BY <1>3, <3>2 DEF Follows
    <3>4. repo' = repo
      BY <1>5
    <3> QED BY <3>1, <3>2, <3>3, <3>4 DEF Follows
  <2> QED BY <2>1 DEF RegistryInv
<1>12. WorktreeInv'
  BY <1>0, <1>2, <1>5 DEF WorktreeInv, Prepared, Preparable, Same, Is, Ended
<1>13. GenerationInv'
  <2>1. \A r \in Saved' : sessions'[r].gen <= refreshed'
    BY <1>4, <1>5
  <2>2. \A u \in Tasks : task'[u].gen <= refreshed'
    BY <1>0, <1>2, <1>5 DEF GenerationInv, Same, Is, Ended
  <2>3. \A u \in Tasks : task'[u].goal \in {"refresh", "discard"} => task'[u].gen # 0
    BY <1>0, <1>2 DEF GenerationInv, Same, Is, Ended
  <2>4. \A u, v \in Tasks : u # v /\ task'[u].goal = "refresh" => task'[v].gen # task'[u].gen
    BY <1>0, <1>2 DEF GenerationInv, Same, Is, Ended
  <2>5. \A u \in Tasks : task'[u].goal \in {"refresh", "discard", "old"} =>
          \A r \in Saved' : sessions'[r].gen # task'[u].gen
    BY <1>2, <1>4, <1>6 DEF Same, Is, Ended
  <2> QED BY <2>1, <2>2, <2>3, <2>4, <2>5 DEF GenerationInv
<1>14. (SessionBacked /\ PinnedHead /\ NoLostRegistration)'
  BY <1>0, <1>3, <1>4, <1>5 DEF SessionBacked, PinnedHead, NoLostRegistration
<1> QED
  BY <1>7, <1>8, <1>9, <1>10, <1>11, <1>12, <1>13, <1>14 DEF RepositoryInv

(* A new revision after a submission: the old worktree is left alone.      *)
LEMMA RecommitKeeps ==
  ASSUME RepositoryInv, NEW t \in Tasks, Commit(t), sessions[task[t].review].sub # "none"
  PROVE  RepositoryInv'
<1> DEFINE new == [gen |-> task[t].gen, head |-> task[t].head, deleting |-> FALSE,
                   sub |-> "none"]
<1>1. /\ task[t].pc = "commit" /\ task[t].goal = "refresh" /\ task[t] \in Task
      /\ WorktreeInv /\ GenerationInv
  BY DEF Commit, RepositoryInv, TypeOK
<1>2. /\ new \in Session /\ new.gen = task[t].gen /\ new.head = task[t].head
  BY <1>1 DEF Session, Submissions, Task
<1>3. /\ sessions' = [sessions EXCEPT ![task[t].review] = new]
      /\ End(t) /\ UNCHANGED <<repo, file, head, worktrees, acked, counts>>
  BY DEF Commit
<1> HIDE DEF new
<1>4. /\ worktrees[new.gen] # None /\ worktrees[new.gen].at = repo.primary
      /\ worktrees[new.gen].head = new.head
  BY <1>1, <1>2 DEF WorktreeInv, Prepared
<1>5. /\ new.gen <= refreshed
      /\ \A u \in Tasks \ {t} : task[u].goal = "refresh" => task[u].gen # new.gen
  BY <1>1, <1>2 DEF GenerationInv
<1>6. task[t].goal \in Mutations /\ task[t].pc # "queued"
  BY <1>1 DEF Mutations
<1> QED BY <1>2, <1>3, <1>4, <1>5, <1>6, SettledKeeps

(* The outcome of a cleanup is recorded: the review stays submitted.       *)
LEMMA RecordedKeeps ==
  ASSUME RepositoryInv, NEW t \in Tasks, NEW sub \in Submissions \ {"none"}, Recorded(t, sub),
         task[t].goal = "cleanup", task[t].pc # "queued"
  PROVE  RepositoryInv'
<1> DEFINE old == sessions[task[t].review]
           new == [old EXCEPT !.sub = sub]
<1>1. /\ task[t].goal \in Mutations /\ MutationInv /\ ShapeInv /\ GenerationInv /\ PinnedHead
      /\ sessions \in [Reviews -> Session \cup {None}]
  BY DEF RepositoryInv, TypeOK, Mutations
<1>2. task[t].review \in Saved /\ task[t].review \in Reviews
  BY <1>1 DEF MutationInv, ShapeInv, Saved, Mutations, Registrations
<1>3. old \in Session
  BY <1>1, <1>2 DEF Saved
<1>4. /\ new \in Session /\ new.gen = old.gen /\ new.head = old.head /\ new.sub = sub
      /\ sessions' = [sessions EXCEPT ![task[t].review] = new]
  BY <1>1, <1>2, <1>3 DEF Session, Recorded
<1>5. End(t) /\ UNCHANGED <<repo, file, head, worktrees, acked, counts>>
  BY DEF Recorded
<1>6. /\ old.gen <= refreshed
      /\ \A u \in Tasks : task[u].goal = "refresh" => task[u].gen # old.gen
      /\ worktrees[old.gen] # None => worktrees[old.gen].head = old.head
  BY <1>1, <1>2 DEF GenerationInv, PinnedHead
<1> HIDE DEF old, new
<1> QED BY <1>1, <1>4, <1>5, <1>6, SettledKeeps

(* A prepared revision is not saved.                                       *)
LEMMA DiscardKeeps ==
  ASSUME RepositoryInv, NEW t \in Tasks, Discard(t)
  PROVE  RepositoryInv'
<1> USE BoundFacts
<1>0. /\ TypeOK /\ QueuesTyped /\ ShapeInv /\ LockInv /\ OpenInv /\ OneSaved /\ MutationInv
      /\ RegistryInv /\ WorktreeInv /\ GenerationInv /\ SessionBacked /\ PinnedHead
      /\ NoLostRegistration
      /\ task \in [Tasks -> Task] /\ QueuesAre /\ refreshed \in Nat
  BY DEF RepositoryInv, TypeOK, QueuesTyped, QueuesAre
<1>1. /\ task[t].pc = "commit" /\ task[t].goal = "refresh" /\ Holds(mutations[task[t].review], t)
      /\ sessions[task[t].review] # None /\ ~sessions[task[t].review].deleting
      /\ task[t].review \in Reviews
  BY <1>0 DEF Discard, MutationInv, WorktreeInv, ShapeInv, Mutations, Registrations
<1>2. /\ task[t] \in Task /\ task[t].review \in 0..MaxReviews /\ task[t].head \in Heads
      /\ task[t].gen \in Generations /\ task[t].reused \in BOOLEAN
      /\ task[t].goal \in Goals /\ task[t].next \in Repo \cup {None}
  BY <1>0 DEF Task
<1>3. Goes(t, "lock", "discard", task[t].review, task[t].head, task[t].gen, task[t].reused,
           task[t].next)
  BY <1>0, <1>2, GoesFor DEF Discard, Lock, Locations, Goals
<1>4. QueuesAre' /\ Kept(t) /\ mutations' = mutations
  BY <1>0, QueuesKept DEF Discard, Lock
<1>5. UNCHANGED <<repo, file, head, worktrees, sessions, acked, phase, opened, refreshed,
                  restarts>>
  BY DEF Discard, counts
<1>6. TypeOK' /\ QueuesTyped'
  BY <1>0, <1>1, <1>2, <1>3, <1>4, <1>5
     DEF TypeOK, QueuesTyped, QueuesAre, counts, Same, Kept, Is, Goes, Mutations
<1>7. ShapeInv'
  BY <1>0, <1>1, <1>2, <1>3, <1>4, <1>5
     DEF ShapeInv, Mutations, Registrations, Same, Kept, Is, Goes, Mutations
<1>8. (LockInv /\ OpenInv /\ OneSaved)'
  <2>1. LockInv'
    BY <1>0, <1>1, <1>2, <1>3, <1>4, <1>5
       DEF LockInv, Same, Kept, Is, Goes, Mutations
  <2>2. OpenInv'
    BY <1>0, <1>1, <1>2, <1>3, <1>4, <1>5
       DEF OpenInv, Saved, Same, Kept, Is, Goes, Mutations
  <2>3. OneSaved'
    BY <1>0, <1>1, <1>2, <1>3, <1>4, <1>5
       DEF OneSaved, Saved, Same, Kept, Is, Goes, Mutations
  <2> QED BY <2>1, <2>2, <2>3
<1>9. MutationInv'
  BY <1>0, <1>1, <1>2, <1>3, <1>4, <1>5
     DEF MutationInv, Mutations, ShapeInv, Registrations, Same, Kept, Is, Goes, Mutations
<1>10. RegistryInv'
  BY <1>0, <1>1, <1>2, <1>3, <1>4, <1>5
     DEF RegistryInv, Follows, Replaceable, Same, Kept, Is, Goes, Mutations
<1>11. WorktreeInv'
  BY <1>0, <1>1, <1>2, <1>3, <1>4, <1>5
     DEF WorktreeInv, Prepared, Preparable, Same, Kept, Is, Goes, Mutations
<1>12. GenerationInv'
  <2>1. \A r \in Saved' : sessions'[r].gen <= refreshed'
    BY <1>0, <1>1, <1>2, <1>3, <1>4, <1>5 DEF GenerationInv, Saved, Same, Is, Goes, Mutations
  <2>2. \A u \in Tasks : task'[u].gen <= refreshed'
    BY <1>0, <1>1, <1>2, <1>3, <1>4, <1>5 DEF GenerationInv, Saved, Same, Is, Goes, Mutations
  <2>3. \A u \in Tasks : task'[u].goal \in {"refresh", "discard"} => task'[u].gen # 0
    BY <1>0, <1>1, <1>2, <1>3, <1>4, <1>5 DEF GenerationInv, Saved, Same, Is, Goes, Mutations
  <2>4. \A u, v \in Tasks : u # v /\ task'[u].goal = "refresh" => task'[v].gen # task'[u].gen
    BY <1>0, <1>1, <1>2, <1>3, <1>4, <1>5 DEF GenerationInv, Saved, Same, Is, Goes, Mutations
  <2>5. \A u \in Tasks : task'[u].goal \in {"refresh", "discard", "old"} =>
          \A r \in Saved' : sessions'[r].gen # task'[u].gen
    BY <1>0, <1>1, <1>2, <1>3, <1>4, <1>5 DEF GenerationInv, Saved, Same, Is, Goes, Mutations
  <2> QED BY <2>1, <2>2, <2>3, <2>4, <2>5 DEF GenerationInv
<1>13. (SessionBacked /\ PinnedHead /\ NoLostRegistration)'
  BY <1>0, <1>1, <1>2, <1>3, <1>4, <1>5
     DEF SessionBacked, PinnedHead, NoLostRegistration, Saved, Same, Kept, Is, Goes, Mutations
<1> QED
  BY <1>6, <1>7, <1>8, <1>9, <1>10, <1>11, <1>12, <1>13 DEF RepositoryInv

(* A deletion, or a submission, is recorded.                               *)
LEMMA MarkKeeps ==
  ASSUME RepositoryInv, NEW t \in Tasks, DeleteRuns(t) \/ CleanupRuns(t)
  PROVE  RepositoryInv'
<1> USE BoundFacts
<1>0. /\ TypeOK /\ QueuesTyped /\ ShapeInv /\ LockInv /\ OpenInv /\ OneSaved /\ MutationInv
      /\ RegistryInv /\ WorktreeInv /\ GenerationInv /\ SessionBacked /\ PinnedHead
      /\ NoLostRegistration
      /\ task \in [Tasks -> Task] /\ QueuesAre /\ refreshed \in Nat
  BY DEF RepositoryInv, TypeOK, QueuesTyped, QueuesAre
<1>1. /\ task[t].pc = "queued" /\ task[t].goal \in {"delete", "cleanup"}
      /\ Holds(mutations[task[t].review], t)
      /\ sessions[task[t].review] # None /\ task[t].review \in Reviews
      /\ task[t].goal = "delete" \/ ~sessions[task[t].review].deleting
  BY <1>0 DEF DeleteRuns, CleanupRuns, Runs, ShapeInv, Mutations, Registrations
<1>2. /\ task[t] \in Task /\ task[t].review \in 0..MaxReviews /\ task[t].head \in Heads
      /\ task[t].gen \in Generations /\ task[t].reused \in BOOLEAN
      /\ task[t].goal \in Goals /\ task[t].next \in Repo \cup {None}
  BY <1>0 DEF Task
<1>3. /\ task[t].review \in Saved /\ Saved = {task[t].review}
      /\ \A u \in Tasks \ {t} : ~(task[u].goal \in Mutations /\ task[u].pc # "queued")
      /\ \A u \in Tasks : ~(task[u].goal = "open" /\ task[u].pc \in {"lock", "fetch", "save"})
      /\ ~Replaceable
  BY <1>0, <1>1
     DEF OneSaved, OpenInv, MutationInv, ShapeInv, Mutations, Registrations, Saved, Holds,
         Replaceable
<1> DEFINE old == sessions[task[t].review]
           new == IF task[t].goal = "delete" THEN [old EXCEPT !.deleting = TRUE]
                  ELSE [old EXCEPT !.sub = IF @ = "none" THEN "posted" ELSE @]
<1>4. /\ old \in Session /\ old.gen \in Generations /\ old.gen <= refreshed
      /\ \A u \in Tasks : task[u].goal = "refresh" => task[u].gen # old.gen
      /\ worktrees[old.gen] # None => worktrees[old.gen].head = old.head
  BY <1>0, <1>1, <1>3 DEF GenerationInv, TypeOK, Session, PinnedHead
<1>5. /\ new \in Session /\ new # None /\ new.gen = old.gen /\ new.head = old.head
      /\ new.deleting <=> task[t].goal = "delete"
      /\ task[t].goal = "cleanup" => new.sub # "none"
  <2>1. CASE task[t].goal = "delete"
    BY <1>4, <2>1 DEF Session
  <2>2. CASE task[t].goal = "cleanup"
    <3>1. old.sub \in Submissions /\ old.deleting = FALSE
      BY <1>1, <1>4, <2>2 DEF Session
    <3>2. new = [old EXCEPT !.sub = IF old.sub = "none" THEN "posted" ELSE old.sub]
      BY <1>4, <2>2 DEF Session
    <3> QED BY <1>4, <2>2, <3>1, <3>2 DEF Session, Submissions
  <2> QED BY <1>1, <2>1, <2>2
<1>6. /\ sessions' = [sessions EXCEPT ![task[t].review] = new]
      /\ task' = [task EXCEPT ![t].pc = "lock", ![t].gen = old.gen]
  <2>1. CASE DeleteRuns(t)
    BY <1>0, <1>1, <2>1 DEF DeleteRuns, Runs, TypeOK
  <2>2. CASE CleanupRuns(t)
    BY <1>0, <1>1, <2>2 DEF CleanupRuns, Runs, TypeOK
  <2> QED BY <2>1, <2>2
<1> HIDE DEF old, new
<1>7. Goes(t, "lock", task[t].goal, task[t].review, task[t].head, old.gen, task[t].reused,
           task[t].next)
  BY <1>0, <1>2, <1>4, <1>6, GoesRemoving DEF Locations
<1>8. QueuesAre' /\ Kept(t) /\ mutations' = mutations
  BY <1>0, QueuesKept DEF DeleteRuns, CleanupRuns
<1>9. /\ sessions' \in [Reviews -> Session \cup {None}]
      /\ Saved' = {task[t].review} /\ sessions'[task[t].review] = new
  BY <1>0, <1>1, <1>3, <1>5, <1>6 DEF Saved, TypeOK
<1>10. /\ \A u \in Tasks \ {t} : task[u].goal \in {"discard", "old"} => FALSE
  BY <1>0, <1>3 DEF ShapeInv, Mutations, Registrations
<1>11. UNCHANGED <<repo, file, head, worktrees, acked, phase, opened, refreshed, restarts>>
  BY DEF DeleteRuns, CleanupRuns, counts
<1>12. TypeOK' /\ QueuesTyped'
  BY <1>0, <1>1, <1>2, <1>3, <1>4, <1>5, <1>6, <1>7, <1>8, <1>9, <1>10, <1>11
     DEF TypeOK, QueuesTyped, QueuesAre, counts, Same, Kept, Is, Goes, Mutations
<1>13. ShapeInv'
  BY <1>0, <1>1, <1>2, <1>3, <1>4, <1>5, <1>6, <1>7, <1>8, <1>9, <1>10, <1>11
     DEF ShapeInv, Mutations, Registrations, Same, Kept, Is, Goes, Mutations
<1>14. (LockInv /\ OpenInv /\ OneSaved)'
  <2>1. LockInv'
    BY <1>0, <1>1, <1>2, <1>3, <1>4, <1>5, <1>6, <1>7, <1>8, <1>9, <1>10, <1>11
       DEF LockInv, Same, Kept, Is, Goes, Mutations
  <2>2. OpenInv'
    BY <1>0, <1>1, <1>2, <1>3, <1>4, <1>5, <1>6, <1>7, <1>8, <1>9, <1>10, <1>11
       DEF OpenInv, Saved, Same, Kept, Is, Goes, Mutations
  <2>3. OneSaved'
    BY <1>0, <1>1, <1>2, <1>3, <1>4, <1>5, <1>6, <1>7, <1>8, <1>9, <1>10, <1>11
       DEF OneSaved, Saved, Same, Kept, Is, Goes, Mutations
  <2> QED BY <2>1, <2>2, <2>3
<1>15. MutationInv'
  BY <1>0, <1>1, <1>2, <1>3, <1>4, <1>5, <1>6, <1>7, <1>8, <1>9, <1>10, <1>11
     DEF MutationInv, Mutations, ShapeInv, Registrations, Same, Kept, Is, Goes, Mutations
<1>16. RegistryInv'
  BY <1>0, <1>1, <1>2, <1>3, <1>4, <1>5, <1>6, <1>7, <1>8, <1>9, <1>10, <1>11
     DEF RegistryInv, Follows, Replaceable, Same, Kept, Is, Goes, Mutations
<1>17. WorktreeInv'
  BY <1>0, <1>1, <1>2, <1>3, <1>4, <1>5, <1>6, <1>7, <1>8, <1>9, <1>10, <1>11
     DEF WorktreeInv, Prepared, Preparable, Same, Kept, Is, Goes, Mutations
<1>18. GenerationInv'
  <2>1. \A r \in Saved' : sessions'[r].gen <= refreshed'
    BY <1>0, <1>1, <1>2, <1>3, <1>4, <1>5, <1>6, <1>7, <1>8, <1>9, <1>10, <1>11
       DEF GenerationInv, Saved, Same, Is, Goes, Mutations
  <2>2. \A u \in Tasks : task'[u].gen <= refreshed'
    BY <1>0, <1>1, <1>2, <1>3, <1>4, <1>5, <1>6, <1>7, <1>8, <1>9, <1>10, <1>11
       DEF GenerationInv, Saved, Same, Is, Goes, Mutations
  <2>3. \A u \in Tasks : task'[u].goal \in {"refresh", "discard"} => task'[u].gen # 0
    BY <1>0, <1>1, <1>2, <1>3, <1>4, <1>5, <1>6, <1>7, <1>8, <1>9, <1>10, <1>11
       DEF GenerationInv, Saved, Same, Is, Goes, Mutations
  <2>4. \A u, v \in Tasks : u # v /\ task'[u].goal = "refresh" => task'[v].gen # task'[u].gen
    BY <1>0, <1>1, <1>2, <1>3, <1>4, <1>5, <1>6, <1>7, <1>8, <1>9, <1>10, <1>11
       DEF GenerationInv, Saved, Same, Is, Goes, Mutations
  <2>5. \A u \in Tasks : task'[u].goal \in {"refresh", "discard", "old"} =>
          \A r \in Saved' : sessions'[r].gen # task'[u].gen
    BY <1>0, <1>1, <1>2, <1>3, <1>4, <1>5, <1>6, <1>7, <1>8, <1>9, <1>10, <1>11
       DEF GenerationInv, Saved, Same, Is, Goes, Mutations
  <2> QED BY <2>1, <2>2, <2>3, <2>4, <2>5 DEF GenerationInv
<1>19. (SessionBacked /\ PinnedHead /\ NoLostRegistration)'
  BY <1>0, <1>1, <1>2, <1>3, <1>4, <1>5, <1>6, <1>7, <1>8, <1>9, <1>10, <1>11
     DEF SessionBacked, PinnedHead, NoLostRegistration, Saved, Same, Kept, Is, Goes, Mutations
<1> QED
  BY <1>12, <1>13, <1>14, <1>15, <1>16, <1>17, <1>18, <1>19 DEF RepositoryInv

(* A worktree that is no longer current is removed.                        *)
LEMMA RemoveKeeps ==
  ASSUME RepositoryInv, NEW t \in Tasks, RemoveWorktree(t),
         task[t].goal \notin {"delete", "cleanup"}
  PROVE  RepositoryInv'
<1> USE BoundFacts
<1>0. /\ TypeOK /\ QueuesTyped /\ ShapeInv /\ LockInv /\ OpenInv /\ OneSaved /\ MutationInv
      /\ RegistryInv /\ WorktreeInv /\ GenerationInv /\ SessionBacked /\ PinnedHead
      /\ NoLostRegistration
      /\ task \in [Tasks -> Task] /\ QueuesAre /\ refreshed \in Nat
  BY DEF RepositoryInv, TypeOK, QueuesTyped, QueuesAre
<1>1. /\ task[t].pc = "lock" /\ task[t].goal \in Removals /\ task[t].goal \in Mutations
      /\ Holds(lock, t) /\ \A u \in Tasks \ {t} : ~Holds(lock, u)
      /\ Holds(mutations[task[t].review], t) /\ sessions[task[t].review] # None
      /\ sessions[task[t].review].deleting <=> task[t].goal = "delete"
      /\ task[t].goal = "cleanup" => sessions[task[t].review].sub # "none"
      /\ task[t].review \in Reviews
  BY <1>0
     DEF RemoveWorktree, HasLock, MutationInv, ShapeInv, Mutations, Registrations, Removals, Holds
<1>2. /\ task[t] \in Task /\ task[t].review \in 0..MaxReviews /\ task[t].head \in Heads
      /\ task[t].gen \in Generations /\ task[t].reused \in BOOLEAN
      /\ task[t].goal \in Goals /\ task[t].next \in Repo \cup {None}
  BY <1>0 DEF Task
<1>3. Ended(t)
  BY <1>0, EndFacts DEF RemoveWorktree
<1>4. /\ worktrees' \in [Generations -> Worktree \cup {None}]
      /\ \A g \in Generations : worktrees'[g] = IF g = task[t].gen THEN None ELSE worktrees[g]
  BY <1>0, <1>2 DEF RemoveWorktree, Removed, TypeOK
<1>5. \A r \in Saved : ~sessions[r].deleting /\ sessions[r].sub = "none" =>
        sessions[r].gen # task[t].gen
  BY <1>0, <1>1 DEF GenerationInv, OneSaved, Saved, Removals
<1>6. \A u \in Tasks \ {t} : task[u].goal = "refresh" => task[u].gen # task[t].gen
  BY <1>0 DEF GenerationInv
<1>7. UNCHANGED <<repo, file, head, sessions, acked, phase, opened, refreshed, restarts>>
  BY DEF RemoveWorktree, counts
<1>8. /\ sessions \in [Reviews -> Session \cup {None}]
      /\ \A r \in Saved : sessions[r].gen \in Generations
      /\ \A u \in Tasks : task[u].gen \in Generations
  BY <1>0 DEF TypeOK, Saved, Session, Task
<1>9. TypeOK' /\ QueuesTyped'
  BY <1>0, <1>1, <1>2, <1>3, <1>4, <1>5, <1>6, <1>7, <1>8
     DEF TypeOK, QueuesTyped, QueuesAre, counts, Same, Kept, Is, Ended
<1>10. ShapeInv'
  BY <1>0, <1>3 DEF ShapeInv, Mutations, Registrations, Same, Kept, Is, Ended
<1>11. (LockInv /\ OpenInv /\ OneSaved)'
  <2>1. LockInv'
    BY <1>0, <1>1, <1>2, <1>3, <1>4, <1>5, <1>6, <1>7, <1>8
       DEF LockInv, Same, Kept, Is, Ended
  <2>2. OpenInv'
    BY <1>0, <1>3, <1>7 DEF OpenInv, Saved, Same, Kept, Is, Ended
  <2>3. OneSaved'
    BY <1>0, <1>1, <1>2, <1>3, <1>4, <1>5, <1>6, <1>7, <1>8
       DEF OneSaved, Saved, Same, Kept, Is, Ended
  <2> QED BY <2>1, <2>2, <2>3
<1>12. MutationInv'
  <2>1. Same(t) /\ Kept(t) /\ task'[t].goal \notin Mutations /\ sessions' = sessions
    BY <1>3, <1>7 DEF Ended, Is, Mutations
  <2> QED BY <1>0, <2>1, MutationsKept
<1>13. RegistryInv'
  <2>1. ASSUME NEW u \in Tasks, task'[u].pc = "write" PROVE FALSE
    <3>1. u # t /\ task'[u] = task[u]
      BY <1>3, <2>1 DEF Ended, Same, Is
    <3>2. Holds(lock, u)
      BY <1>0, <2>1, <3>1 DEF LockInv
    <3> QED BY <1>1, <3>1, <3>2
  <2> QED BY <2>1 DEF RegistryInv
<1>14. WorktreeInv'
  <2>1. ASSUME NEW u \in Tasks, task'[u].pc \in {"fetch", "save"} PROVE FALSE
    BY <1>0, <1>1, <1>2, <1>3, <1>4, <1>5, <1>6, <1>7, <1>8, <2>1
       DEF Goes, Ended, Same, Is, LockInv
  <2>2. ASSUME NEW u \in Tasks, task'[u].pc = "commit", task'[u].goal = "refresh"
        PROVE  u # t /\ Prepared(task[u].gen, task[u].head)'
    <3>1. u # t /\ task'[u] = task[u]
      BY <1>0, <1>1, <1>2, <1>3, <1>4, <1>5, <1>6, <1>7, <1>8, <2>2
         DEF Goes, Ended, Same, Is, Removals
    <3>2. Prepared(task[u].gen, task[u].head)
      BY <1>0, <1>1, <1>2, <1>3, <1>4, <1>5, <1>6, <1>7, <1>8, <2>2, <3>1 DEF WorktreeInv
    <3> QED BY <1>0, <1>1, <1>2, <1>3, <1>4, <1>5, <1>6, <1>7, <1>8, <2>2, <3>1, <3>2 DEF Prepared
  <2> QED BY <1>0, <1>1, <1>2, <1>3, <1>4, <1>5, <1>6, <1>7, <1>8, <2>1, <2>2
             DEF Goes, Ended, Same, Prepared, WorktreeInv
<1>15. GenerationInv'
  <2>1. \A r \in Saved' : sessions'[r].gen <= refreshed'
    BY <1>0, <1>3, <1>7, <1>8 DEF GenerationInv, Saved, Same, Is, Ended
  <2>2. \A u \in Tasks : task'[u].gen <= refreshed'
    BY <1>0, <1>3, <1>7, <1>8 DEF GenerationInv, Saved, Same, Is, Ended
  <2>3. \A u \in Tasks : task'[u].goal \in {"refresh", "discard"} => task'[u].gen # 0
    BY <1>0, <1>3, <1>7, <1>8 DEF GenerationInv, Saved, Same, Is, Ended
  <2>4. \A u, v \in Tasks : u # v /\ task'[u].goal = "refresh" => task'[v].gen # task'[u].gen
    BY <1>0, <1>3, <1>7, <1>8 DEF GenerationInv, Saved, Same, Is, Ended
  <2>5. \A u \in Tasks : task'[u].goal \in {"refresh", "discard", "old"} =>
          \A r \in Saved' : sessions'[r].gen # task'[u].gen
    BY <1>0, <1>3, <1>7, <1>8 DEF GenerationInv, Saved, Same, Is, Ended
  <2> QED BY <2>1, <2>2, <2>3, <2>4, <2>5 DEF GenerationInv
<1>16. (SessionBacked /\ PinnedHead /\ NoLostRegistration)'
  <2>1. \A r \in Saved : ~sessions[r].deleting /\ sessions[r].sub = "none" =>
          worktrees'[sessions[r].gen] = worktrees[sessions[r].gen]
    BY <1>4, <1>5, <1>8
  <2>2. SessionBacked'
    BY <1>0, <1>7, <2>1 DEF SessionBacked, Saved
  <2>3. \A r \in Saved : worktrees'[sessions[r].gen] # None =>
          worktrees'[sessions[r].gen] = worktrees[sessions[r].gen]
    BY <1>4, <1>8
  <2>4. PinnedHead'
    BY <1>0, <1>7, <2>3 DEF PinnedHead, Saved
  <2>5. NoLostRegistration'
    BY <1>0, <1>7 DEF NoLostRegistration
  <2> QED BY <2>2, <2>4, <2>5
<1> QED
  BY <1>9, <1>10, <1>11, <1>12, <1>13, <1>14, <1>15, <1>16 DEF RepositoryInv

(* The worktree of a review that is deleted, or submitted, is removed.     *)
LEMMA DropKeeps ==
  ASSUME RepositoryInv, NEW t \in Tasks, RemoveWorktree(t),
         task[t].goal \in {"delete", "cleanup"}
  PROVE  RepositoryInv'
<1> USE BoundFacts
<1>0. /\ TypeOK /\ QueuesTyped /\ ShapeInv /\ LockInv /\ OpenInv /\ OneSaved /\ MutationInv
      /\ RegistryInv /\ WorktreeInv /\ GenerationInv /\ SessionBacked /\ PinnedHead
      /\ NoLostRegistration
      /\ task \in [Tasks -> Task] /\ QueuesAre /\ refreshed \in Nat
  BY DEF RepositoryInv, TypeOK, QueuesTyped, QueuesAre
<1>1. /\ task[t].pc = "lock" /\ task[t].goal \in Removals /\ task[t].goal \in Mutations
      /\ Holds(lock, t) /\ \A u \in Tasks \ {t} : ~Holds(lock, u)
      /\ Holds(mutations[task[t].review], t) /\ sessions[task[t].review] # None
      /\ sessions[task[t].review].deleting <=> task[t].goal = "delete"
      /\ task[t].goal = "cleanup" => sessions[task[t].review].sub # "none"
      /\ task[t].review \in Reviews
  BY <1>0
     DEF RemoveWorktree, HasLock, MutationInv, ShapeInv, Mutations, Registrations, Removals, Holds
<1>2. /\ task[t] \in Task /\ task[t].review \in 0..MaxReviews /\ task[t].head \in Heads
      /\ task[t].gen \in Generations /\ task[t].reused \in BOOLEAN
      /\ task[t].goal \in Goals /\ task[t].next \in Repo \cup {None}
  BY <1>0 DEF Task
<1>3. Goes(t, "commit", task[t].goal, task[t].review, task[t].head, task[t].gen, task[t].reused,
           task[t].next) /\ QueuesAre' /\ Kept(t) /\ mutations' = mutations
  BY <1>0, <1>2, GoesOn, QueuesKept DEF RemoveWorktree, Locations
<1>4. /\ worktrees' \in [Generations -> Worktree \cup {None}]
      /\ \A g \in Generations : worktrees'[g] = IF g = task[t].gen THEN None ELSE worktrees[g]
  BY <1>0, <1>2 DEF RemoveWorktree, Removed, TypeOK
<1>5. \A r \in Saved : ~sessions[r].deleting /\ sessions[r].sub = "none" =>
        sessions[r].gen # task[t].gen
  BY <1>0, <1>1 DEF GenerationInv, OneSaved, Saved, Removals
<1>6. \A u \in Tasks \ {t} : task[u].goal = "refresh" => task[u].gen # task[t].gen
  BY <1>0 DEF GenerationInv
<1>7. UNCHANGED <<repo, file, head, sessions, acked, phase, opened, refreshed, restarts>>
  BY DEF RemoveWorktree, counts
<1>8. /\ sessions \in [Reviews -> Session \cup {None}]
      /\ \A r \in Saved : sessions[r].gen \in Generations
      /\ \A u \in Tasks : task[u].gen \in Generations
  BY <1>0 DEF TypeOK, Saved, Session, Task
<1>9. TypeOK' /\ QueuesTyped'
  BY <1>0, <1>1, <1>2, <1>3, <1>4, <1>5, <1>6, <1>7, <1>8
     DEF TypeOK, QueuesTyped, QueuesAre, counts, Same, Kept, Is, Goes
<1>10. ShapeInv'
  BY <1>0, <1>1, <1>3 DEF ShapeInv, Mutations, Registrations, Same, Kept, Is, Goes
<1>11. (LockInv /\ OpenInv /\ OneSaved)'
  <2>1. LockInv'
    BY <1>0, <1>1, <1>2, <1>3, <1>4, <1>5, <1>6, <1>7, <1>8
       DEF LockInv, Same, Kept, Is, Goes
  <2>2. OpenInv'
    BY <1>0, <1>1, <1>2, <1>3, <1>4, <1>5, <1>6, <1>7, <1>8
       DEF OpenInv, Saved, Same, Kept, Is, Goes
  <2>3. OneSaved'
    BY <1>0, <1>1, <1>2, <1>3, <1>4, <1>5, <1>6, <1>7, <1>8
       DEF OneSaved, Saved, Same, Kept, Is, Goes
  <2> QED BY <2>1, <2>2, <2>3
<1>12. MutationInv'
  <2>1. Same(t) /\ Kept(t) /\ mutations' = mutations /\ sessions' = sessions
    BY <1>3, <1>7 DEF Goes
  <2>2. task'[t].goal = task[t].goal /\ task'[t].review = task[t].review
    BY <1>3 DEF Goes, Is
  <2>3. /\ Holds(mutations'[task'[t].review], t)
        /\ sessions[task'[t].review] # None
        /\ sessions[task'[t].review].deleting <=> task'[t].goal = "delete"
        /\ task'[t].goal = "cleanup" => sessions[task'[t].review].sub # "none"
    BY <1>1, <2>1, <2>2
  <2> QED BY <1>0, <2>1, <2>3, MutationsKept
<1>13. RegistryInv'
  <2>1. ASSUME NEW u \in Tasks, task'[u].pc = "write" PROVE FALSE
    <3>1. u # t /\ task'[u] = task[u]
      BY <1>3, <2>1 DEF Goes, Same, Is
    <3>2. Holds(lock, u)
      BY <1>0, <2>1, <3>1 DEF LockInv
    <3> QED BY <1>1, <3>1, <3>2
  <2> QED BY <2>1 DEF RegistryInv
<1>14. WorktreeInv'
  <2>1. ASSUME NEW u \in Tasks, task'[u].pc \in {"fetch", "save"} PROVE FALSE
    BY <1>0, <1>1, <1>2, <1>3, <1>4, <1>5, <1>6, <1>7, <1>8, <2>1 DEF Goes, Same, Is, LockInv
  <2>2. ASSUME NEW u \in Tasks, task'[u].pc = "commit", task'[u].goal = "refresh"
        PROVE  u # t /\ Prepared(task[u].gen, task[u].head)'
    <3>1. u # t /\ task'[u] = task[u]
      BY <1>0, <1>1, <1>2, <1>3, <1>4, <1>5, <1>6, <1>7, <1>8, <2>2 DEF Goes, Same, Is, Removals
    <3>2. Prepared(task[u].gen, task[u].head)
      BY <1>0, <1>1, <1>2, <1>3, <1>4, <1>5, <1>6, <1>7, <1>8, <2>2, <3>1 DEF WorktreeInv
    <3> QED BY <1>0, <1>1, <1>2, <1>3, <1>4, <1>5, <1>6, <1>7, <1>8, <2>2, <3>1, <3>2 DEF Prepared
  <2> QED BY <1>0, <1>1, <1>2, <1>3, <1>4, <1>5, <1>6, <1>7, <1>8, <2>1, <2>2
             DEF Goes, Same, Prepared, WorktreeInv
<1>15. GenerationInv'
  <2>1. \A r \in Saved' : sessions'[r].gen <= refreshed'
    BY <1>0, <1>1, <1>3, <1>7, <1>8 DEF GenerationInv, Saved, Same, Is, Goes
  <2>2. \A u \in Tasks : task'[u].gen <= refreshed'
    BY <1>0, <1>1, <1>3, <1>7, <1>8 DEF GenerationInv, Saved, Same, Is, Goes
  <2>3. \A u \in Tasks : task'[u].goal \in {"refresh", "discard"} => task'[u].gen # 0
    BY <1>0, <1>1, <1>3, <1>7, <1>8 DEF GenerationInv, Saved, Same, Is, Goes
  <2>4. \A u, v \in Tasks : u # v /\ task'[u].goal = "refresh" => task'[v].gen # task'[u].gen
    BY <1>0, <1>1, <1>3, <1>7, <1>8 DEF GenerationInv, Saved, Same, Is, Goes
  <2>5. \A u \in Tasks : task'[u].goal \in {"refresh", "discard", "old"} =>
          \A r \in Saved' : sessions'[r].gen # task'[u].gen
    BY <1>0, <1>1, <1>3, <1>7, <1>8 DEF GenerationInv, Saved, Same, Is, Goes
  <2> QED BY <2>1, <2>2, <2>3, <2>4, <2>5 DEF GenerationInv
<1>16. (SessionBacked /\ PinnedHead /\ NoLostRegistration)'
  <2>1. \A r \in Saved : ~sessions[r].deleting /\ sessions[r].sub = "none" =>
          worktrees'[sessions[r].gen] = worktrees[sessions[r].gen]
    BY <1>4, <1>5, <1>8
  <2>2. SessionBacked'
    BY <1>0, <1>7, <2>1 DEF SessionBacked, Saved
  <2>3. \A r \in Saved : worktrees'[sessions[r].gen] # None =>
          worktrees'[sessions[r].gen] = worktrees[sessions[r].gen]
    BY <1>4, <1>8
  <2>4. PinnedHead'
    BY <1>0, <1>7, <2>3 DEF PinnedHead, Saved
  <2>5. NoLostRegistration'
    BY <1>0, <1>7 DEF NoLostRegistration
  <2> QED BY <2>2, <2>4, <2>5
<1> QED
  BY <1>9, <1>10, <1>11, <1>12, <1>13, <1>14, <1>15, <1>16 DEF RepositoryInv

(* A deleted review is gone.                                               *)
LEMMA DeletedKeeps ==
  ASSUME RepositoryInv, NEW t \in Tasks, Deleted(t)
  PROVE  RepositoryInv'
<1> USE BoundFacts
<1>0. /\ TypeOK /\ QueuesTyped /\ ShapeInv /\ LockInv /\ OpenInv /\ OneSaved /\ MutationInv
      /\ RegistryInv /\ WorktreeInv /\ GenerationInv /\ SessionBacked /\ PinnedHead
      /\ NoLostRegistration
      /\ task \in [Tasks -> Task] /\ QueuesAre /\ refreshed \in Nat
  BY DEF RepositoryInv, TypeOK, QueuesTyped, QueuesAre
<1>1. /\ task[t].pc = "commit" /\ task[t].goal = "delete" /\ Holds(mutations[task[t].review], t)
      /\ sessions[task[t].review] # None /\ task[t].review \in Reviews
  BY <1>0 DEF Deleted, MutationInv, ShapeInv, Mutations, Registrations
<1>2. Ended(t)
  BY <1>0, EndFacts DEF Deleted
<1>3. /\ task[t].review \in Saved /\ Saved = {task[t].review}
      /\ \A u \in Tasks \ {t} : ~(task[u].goal \in Mutations /\ task[u].pc # "queued")
      /\ \A u \in Tasks : ~(task[u].goal = "open" /\ task[u].pc \in {"lock", "fetch", "save"})
      /\ ~Replaceable
  BY <1>0, <1>1
     DEF OneSaved, OpenInv, MutationInv, ShapeInv, Mutations, Registrations, Saved, Holds,
         Replaceable
<1>4. /\ sessions' \in [Reviews -> Session \cup {None}]
      /\ Saved' = {} /\ \A r \in Reviews : sessions'[r] = None
  BY <1>0, <1>1, <1>3 DEF Deleted, Saved, TypeOK
<1>5. UNCHANGED <<repo, file, head, worktrees, acked, phase, opened, refreshed, restarts>>
  BY DEF Deleted, counts
<1>6. TypeOK' /\ QueuesTyped'
  BY <1>0, <1>1, <1>2, <1>3, <1>4, <1>5
     DEF TypeOK, QueuesTyped, QueuesAre, counts, Same, Kept, Is, Ended, Mutations
<1>7. ShapeInv'
  BY <1>0, <1>1, <1>2, <1>3, <1>4, <1>5
     DEF ShapeInv, Mutations, Registrations, Same, Kept, Is, Ended, Mutations
<1>8. (LockInv /\ OpenInv /\ OneSaved)'
  <2>1. LockInv'
    BY <1>0, <1>1, <1>2, <1>3, <1>4, <1>5
       DEF LockInv, Same, Kept, Is, Ended, Mutations
  <2>2. OpenInv'
    BY <1>0, <1>1, <1>2, <1>3, <1>4, <1>5
       DEF OpenInv, Saved, Same, Kept, Is, Ended, Mutations
  <2>3. OneSaved'
    BY <1>0, <1>1, <1>2, <1>3, <1>4, <1>5
       DEF OneSaved, Saved, Same, Kept, Is, Ended, Mutations
  <2> QED BY <2>1, <2>2, <2>3
<1>9. MutationInv'
  BY <1>0, <1>1, <1>2, <1>3, <1>4, <1>5
     DEF MutationInv, Mutations, ShapeInv, Registrations, Same, Kept, Is, Ended, Mutations
<1>10. RegistryInv'
  BY <1>0, <1>1, <1>2, <1>3, <1>4, <1>5
     DEF RegistryInv, Follows, Replaceable, Same, Kept, Is, Ended, Mutations
<1>11. WorktreeInv'
  BY <1>0, <1>1, <1>2, <1>3, <1>4, <1>5
     DEF WorktreeInv, Prepared, Preparable, Same, Kept, Is, Ended, Mutations
<1>12. GenerationInv'
  <2>1. \A r \in Saved' : sessions'[r].gen <= refreshed'
    BY <1>0, <1>1, <1>2, <1>3, <1>4, <1>5 DEF GenerationInv, Saved, Same, Is, Ended, Mutations
  <2>2. \A u \in Tasks : task'[u].gen <= refreshed'
    BY <1>0, <1>1, <1>2, <1>3, <1>4, <1>5 DEF GenerationInv, Saved, Same, Is, Ended, Mutations
  <2>3. \A u \in Tasks : task'[u].goal \in {"refresh", "discard"} => task'[u].gen # 0
    BY <1>0, <1>1, <1>2, <1>3, <1>4, <1>5 DEF GenerationInv, Saved, Same, Is, Ended, Mutations
  <2>4. \A u, v \in Tasks : u # v /\ task'[u].goal = "refresh" => task'[v].gen # task'[u].gen
    BY <1>0, <1>1, <1>2, <1>3, <1>4, <1>5 DEF GenerationInv, Saved, Same, Is, Ended, Mutations
  <2>5. \A u \in Tasks : task'[u].goal \in {"refresh", "discard", "old"} =>
          \A r \in Saved' : sessions'[r].gen # task'[u].gen
    BY <1>0, <1>1, <1>2, <1>3, <1>4, <1>5 DEF GenerationInv, Saved, Same, Is, Ended, Mutations
  <2> QED BY <2>1, <2>2, <2>3, <2>4, <2>5 DEF GenerationInv
<1>13. (SessionBacked /\ PinnedHead /\ NoLostRegistration)'
  BY <1>0, <1>1, <1>2, <1>3, <1>4, <1>5
     DEF SessionBacked, PinnedHead, NoLostRegistration, Saved, Same, Kept, Is, Ended, Mutations
<1> QED
  BY <1>6, <1>7, <1>8, <1>9, <1>10, <1>11, <1>12, <1>13 DEF RepositoryInv

(* The pull request moves: no operation relies on where it was.            *)
LEMMA PushKeeps ==
  ASSUME RepositoryInv, Push
  PROVE  RepositoryInv'
<1> USE BoundFacts
<1>1. head' \in Heads
  BY DEF Push, RepositoryInv, TypeOK
<1>2. UNCHANGED <<repo, file, worktrees, sessions, queues, task, acked, counts>>
  BY DEF Push
<1>3. UNCHANGED Saved /\ UNCHANGED Replaceable
  BY <1>2 DEF Saved, Replaceable
<1>4. TypeOK' /\ QueuesTyped'
  BY <1>1, <1>2 DEF RepositoryInv, TypeOK, QueuesTyped, queues, counts
<1>5. (ShapeInv /\ LockInv /\ OpenInv /\ OneSaved /\ MutationInv)'
  BY <1>2, <1>3
     DEF RepositoryInv, ShapeInv, LockInv, OpenInv, OneSaved, MutationInv, queues, Holds
<1>6. RegistryInv' /\ WorktreeInv'
  BY <1>2, <1>3
     DEF RepositoryInv, RegistryInv, Follows, WorktreeInv, Prepared, Preparable
<1>7. (GenerationInv /\ SessionBacked /\ PinnedHead /\ NoLostRegistration)'
  BY <1>2, <1>3
     DEF RepositoryInv, GenerationInv, SessionBacked, PinnedHead, NoLostRegistration, counts
<1> QED BY <1>4, <1>5, <1>6, <1>7 DEF RepositoryInv

(* What stays true when no operation runs: the reviews, their worktrees    *)
(* and the registry stand by themselves.                                   *)
LEMMA Standing ==
  ASSUME TypeOK, QueuesTyped, OneSaved, SessionBacked, PinnedHead, NoLostRegistration,
         \A r \in Saved : sessions[r].gen <= refreshed,
         \A t \in Tasks : task[t].pc = "none" /\ task[t].goal \in Registrations,
         \A t \in Tasks : task[t].gen <= refreshed
  PROVE  RepositoryInv
<1>1. ShapeInv /\ LockInv /\ OpenInv /\ MutationInv
  BY DEF ShapeInv, LockInv, OpenInv, MutationInv, Mutations, Registrations
<1>2. RegistryInv /\ WorktreeInv /\ GenerationInv
  BY DEF RegistryInv, WorktreeInv, GenerationInv, Registrations
<1> QED BY <1>1, <1>2 DEF RepositoryInv

LEMMA StandingNext ==
  ASSUME TypeOK', QueuesTyped', OneSaved', SessionBacked', PinnedHead', NoLostRegistration',
         \A r \in Saved' : sessions'[r].gen <= refreshed',
         \A t \in Tasks : task'[t].pc = "none" /\ task'[t].goal \in Registrations,
         \A t \in Tasks : task'[t].gen <= refreshed'
  PROVE  RepositoryInv'
<1>1. (ShapeInv /\ LockInv /\ OpenInv /\ MutationInv)'
  BY DEF ShapeInv, LockInv, OpenInv, MutationInv, Mutations, Registrations
<1>2. (RegistryInv /\ WorktreeInv /\ GenerationInv)'
  BY DEF RegistryInv, WorktreeInv, GenerationInv, Registrations
<1> QED BY <1>1, <1>2 DEF RepositoryInv

LEMMA RestartKeeps ==
  ASSUME RepositoryInv, Restart
  PROVE  RepositoryInv'
<1> USE BoundFacts
<1>1. /\ UNCHANGED <<repo, file, head, worktrees, sessions, acked, opened, refreshed>>
      /\ phase' = "recovering" /\ restarts' \in 0..MaxRestarts
  BY DEF Restart, RepositoryInv, TypeOK, QueuesTyped
<1>2. /\ task' \in [Tasks -> Task]
      /\ \A t \in Tasks : Is(task'[t], "none", "register", None, 0, 0, 0, FALSE, None)
  BY IdleIs DEF Restart, Is
<1>3. opening' \in Seq(Tasks) /\ lock' \in Seq(Tasks) /\ mutations' \in [Reviews -> Seq(Tasks)]
  BY DEF Restart
<1>4. TypeOK' /\ QueuesTyped'
  BY <1>1, <1>2, <1>3 DEF RepositoryInv, TypeOK, QueuesTyped
<1>5. /\ (OneSaved /\ SessionBacked /\ PinnedHead /\ NoLostRegistration)'
      /\ \A r \in Saved' : sessions'[r].gen <= refreshed' /\ refreshed' \in Nat
  BY <1>1 DEF RepositoryInv, OneSaved, SessionBacked, PinnedHead, NoLostRegistration, Saved,
              GenerationInv, QueuesTyped
<1>6. \A t \in Tasks :
        /\ task'[t].pc = "none" /\ task'[t].goal \in Registrations /\ task'[t].gen <= refreshed'
  <2>1. refreshed' \in Nat
    BY <1>1 DEF RepositoryInv, QueuesTyped
  <2> QED BY <1>2, <2>1 DEF Is, Registrations
<1> QED BY <1>4, <1>5, <1>6, StandingNext

(* What no review uses is swept.                                           *)
LEMMA SweepKeeps ==
  ASSUME RepositoryInv, Sweep
  PROVE  RepositoryInv'
<1>1. /\ UNCHANGED <<repo, file, head, sessions, queues, task, acked, opened, refreshed,
                     restarts>>
      /\ phase' = "ready"
  BY DEF Sweep
<1>2. PICK swept \in SUBSET {g \in Generations : Sweepable(g)} :
        worktrees' = [g \in Generations |-> IF g \in swept THEN None ELSE worktrees[g]]
  BY DEF Sweep
<1>3. \A t \in Tasks : task[t].pc = "none" /\ task[t].goal \in Registrations
  BY DEF Sweep, RepositoryInv, ShapeInv, Mutations, Registrations
<1>4. TypeOK' /\ QueuesTyped'
  BY <1>1, <1>2 DEF RepositoryInv, TypeOK, QueuesTyped, queues
<1>5. \A r \in Saved : sessions[r].gen \in Generations /\ sessions[r].gen \notin swept
  BY <1>2 DEF RepositoryInv, TypeOK, Session, Saved, Sweepable
<1>6. \A r \in Saved : worktrees'[sessions[r].gen] = worktrees[sessions[r].gen]
  BY <1>2, <1>5
<1>7. (OneSaved /\ SessionBacked /\ PinnedHead /\ NoLostRegistration)'
  BY <1>1, <1>6
     DEF RepositoryInv, OneSaved, SessionBacked, PinnedHead, NoLostRegistration, Saved
<1>8. /\ \A r \in Saved' : sessions'[r].gen <= refreshed'
      /\ \A t \in Tasks : task'[t].pc = "none" /\ task'[t].goal \in Registrations
      /\ \A t \in Tasks : task'[t].gen <= refreshed'
  BY <1>1, <1>3 DEF RepositoryInv, GenerationInv, Saved
<1> QED BY <1>4, <1>7, <1>8, StandingNext

LEMMA RecoverKeeps ==
  ASSUME RepositoryInv, NEW t \in Tasks, Recover(t)
  PROVE  RepositoryInv'
<1>1. phase' = "sweeping"
  BY DEF Recover
<1>2. CASE \E r \in Doomed : Queued(t, "delete", r, 0) /\ UNCHANGED refreshed
  BY <1>1, <1>2, QueuedKeeps DEF Doomed, Saved
<1>3. CASE UNCHANGED <<repo, file, head, worktrees, sessions, queues, task, acked, opened,
                       refreshed, restarts>>
  <2>1. UNCHANGED Saved /\ UNCHANGED Replaceable
    BY <1>3 DEF Saved, Replaceable
  <2>2. TypeOK' /\ QueuesTyped'
    BY <1>1, <1>3 DEF RepositoryInv, TypeOK, QueuesTyped, queues
  <2>3. (ShapeInv /\ LockInv /\ OpenInv /\ OneSaved /\ MutationInv)'
    BY <1>3, <2>1
       DEF RepositoryInv, ShapeInv, LockInv, OpenInv, OneSaved, MutationInv, queues, Holds
  <2>4. RegistryInv' /\ WorktreeInv'
    BY <1>3, <2>1
       DEF RepositoryInv, RegistryInv, Follows, WorktreeInv, Prepared, Preparable
  <2>5. (GenerationInv /\ SessionBacked /\ PinnedHead /\ NoLostRegistration)'
    BY <1>3, <2>1
       DEF RepositoryInv, GenerationInv, SessionBacked, PinnedHead, NoLostRegistration
  <2> QED BY <2>2, <2>3, <2>4, <2>5 DEF RepositoryInv
<1>4. CASE \E r \in Saved : Queued(t, "cleanup", r, 0) /\ UNCHANGED refreshed
  BY <1>1, <1>4, QueuedKeeps DEF Saved
<1> QED BY <1>2, <1>3, <1>4 DEF Recover

(***************************************************************************)
(* The steps together.                                                     *)
(***************************************************************************)
LEMMA RequestsKeep ==
  ASSUME RepositoryInv, NEW t \in Tasks, Requests(t)
  PROVE  RepositoryInv'
<1>1. ASSUME NEW path \in Checkouts, NEW goal \in {"register", "primary", "forget"},
             Begin(t, goal, path)
      PROVE  RepositoryInv'
  BY <1>1, BeginKeeps DEF Registrations
<1>2. CASE Begin(t, "unregister", None)
  BY <1>2, BeginKeeps DEF Registrations
<1>3. CASE Open(t)
  BY <1>3, OpenKeeps
<1>4. ASSUME NEW r \in Reviews, Refresh(t, r)
      PROVE  RepositoryInv'
  BY <1>4, RefreshKeeps
<1>5. ASSUME NEW r \in Reviews, Delete(t, r)
      PROVE  RepositoryInv'
  BY <1>5, QueuedKeeps DEF Delete, RepositoryInv, TypeOK
<1>6. ASSUME NEW r \in Reviews, Submit(t, r)
      PROVE  RepositoryInv'
  BY <1>6, QueuedKeeps DEF Submit, RepositoryInv, TypeOK
<1> QED BY <1>1, <1>2, <1>3, <1>4, <1>5, <1>6 DEF Requests

LEMMA StepsKeep ==
  ASSUME RepositoryInv, NEW t \in Tasks, Steps(t)
  PROVE  RepositoryInv'
<1>1. CASE Register(t) \/ SetPrimary(t) \/ Forget(t) \/ Unregister(t)
  BY <1>1, RegisterKeeps, SetPrimaryKeeps, ForgetKeeps, UnregisterKeeps
<1>2. CASE Write(t)
  BY <1>2, WriteKeeps
<1>3. CASE \/ RegistryRefuses(t) \/ WriteFails(t) \/ PrepareFails(t) \/ Touch(t)
           \/ MutationFails(t) \/ RemoveFails(t) \/ RecordFails(t)
  BY <1>3, FailsKeeps
     DEF RegistryRefuses, WriteFails, PrepareFails, Touch, MutationFails, RemoveFails, RecordFails
<1>4. CASE Prepare(t) \/ Add(t)
  BY <1>4, PrepareKeeps, AddKeeps
<1>5. CASE Find(t)
  <2>1. UNCHANGED <<repo, file, head, worktrees, sessions, acked, phase, opened, refreshed,
                    restarts>> /\ UNCHANGED opening
    BY <1>5 DEF Find, counts
  <2>2. task[t].pc = "opening" /\ Holds(opening, t)
    BY <1>5 DEF Find
  <2>3. ASSUME NEW r \in Saved, Reuse(t, r), UNCHANGED lock
        PROVE  RepositoryInv'
    BY <2>1, <2>2, <2>3, ReuseKeeps
  <2>4. CASE Saved = {} /\ Lock(t, "open") /\ UNCHANGED mutations
    BY <2>1, <2>2, <2>4, FindKeeps
  <2> QED BY <1>5, <2>3, <2>4 DEF Find
<1>6. CASE Save(t) \/ SaveFails(t)
  BY <1>6, SaveKeeps, SaveFailsKeeps
<1>7. CASE RefreshRuns(t) \/ Commit(t) \/ Discard(t) \/ DeleteRuns(t) \/ CleanupRuns(t)
  BY <1>7, RefreshRunsKeeps, CommitKeeps, RecommitKeeps, DiscardKeeps, MarkKeeps
<1>8. CASE RemoveWorktree(t) \/ Deleted(t)
  BY <1>8, RemoveKeeps, DropKeeps, DeletedKeeps
<1>9. CASE CleanedUp(t) \/ CleanupFails(t)
  BY <1>9, RecordedKeeps DEF CleanedUp, CleanupFails, At, Submissions
<1> QED BY <1>1, <1>2, <1>3, <1>4, <1>5, <1>6, <1>7, <1>8, <1>9 DEF Steps

LEMMA RepositoryInitially == Init => RepositoryInv
<1> SUFFICES ASSUME Init PROVE RepositoryInv
  OBVIOUS
<1> USE BoundFacts
<1>1. task \in [Tasks -> Task] /\ \A t \in Tasks : task[t] = Idle
  BY IdleIs DEF Init, Is
<1>2. /\ \A t \in Tasks : task[t].pc = "none" /\ task[t].goal \in Registrations
      /\ \A t \in Tasks : task[t].gen <= refreshed
  BY <1>1, IdleIs DEF Is, Init, Registrations
<1>3. Saved = {}
  BY DEF Init, Saved
<1>4. TypeOK /\ QueuesTyped
  BY <1>1 DEF Init, TypeOK, QueuesTyped
<1>5. OneSaved /\ SessionBacked /\ PinnedHead /\ NoLostRegistration
  BY <1>3 DEF Init, OneSaved, SessionBacked, PinnedHead, NoLostRegistration
<1> QED BY <1>2, <1>3, <1>4, <1>5, Standing

LEMMA RepositoryNext == RepositoryInv /\ [Next]_vars => RepositoryInv'
<1> SUFFICES ASSUME RepositoryInv, [Next]_vars PROVE RepositoryInv'
  OBVIOUS
<1>1. ASSUME NEW t \in Tasks, Requests(t) \/ Steps(t) \/ Recover(t)
      PROVE  RepositoryInv'
  BY <1>1, RequestsKeep, StepsKeep, RecoverKeeps
<1>2. CASE Push \/ Restart \/ Sweep
  BY <1>2, PushKeeps, RestartKeeps, SweepKeeps
<1>3. CASE UNCHANGED vars
  <2>1. UNCHANGED Saved /\ UNCHANGED Replaceable
    BY <1>3 DEF vars, Saved, Replaceable
  <2>2. TypeOK' /\ QueuesTyped'
    BY <1>3 DEF vars, RepositoryInv, TypeOK, QueuesTyped
  <2>3. (ShapeInv /\ LockInv /\ OpenInv /\ OneSaved /\ MutationInv)'
    BY <1>3, <2>1
       DEF vars, RepositoryInv, ShapeInv, LockInv, OpenInv, OneSaved, MutationInv, Holds
  <2>4. RegistryInv' /\ WorktreeInv'
    BY <1>3, <2>1 DEF vars, RepositoryInv, RegistryInv, Follows, WorktreeInv, Prepared, Preparable
  <2>5. (GenerationInv /\ SessionBacked /\ PinnedHead /\ NoLostRegistration)'
    BY <1>3, <2>1
       DEF vars, RepositoryInv, GenerationInv, SessionBacked, PinnedHead, NoLostRegistration
  <2> QED BY <2>2, <2>3, <2>4, <2>5 DEF RepositoryInv
<1> QED BY <1>1, <1>2, <1>3 DEF Next, Startup, World

(* All that is known of the registry, the reviews and the worktrees holds  *)
(* in every behavior.                                                      *)
THEOREM RepositoryAlways == Spec => []RepositoryInv
BY RepositoryInitially, RepositoryNext, PTL DEF Spec

(***************************************************************************)
(* What follows of it.                                                     *)
(***************************************************************************)
(* A pull request has one review, and behind a saved one stand its         *)
(* repository and, until it is submitted or its deletion is recorded, the  *)
(* worktree of its head: however registrations, opens, refreshes,          *)
(* cleanups, deletions, failures and restarts interleave                   *)
(* (repos/service.ts:45, sessions/open-service.ts:80).                     *)
THEOREM ReviewsAlwaysBacked == Spec => []ReviewsBacked
<1>1. RepositoryInv => ReviewsBacked
  <2> SUFFICES ASSUME RepositoryInv PROVE Cardinality(Saved) <= 1
    BY DEF RepositoryInv, ReviewsBacked, OneReviewPerPull
  <2>1. CASE Saved = {}
    BY <2>1, FS_EmptySet
  <2>2. ASSUME NEW r \in Saved
        PROVE  Cardinality(Saved) <= 1
    <3>1. Saved = {r}
      BY DEF RepositoryInv, OneSaved
    <3>2. Cardinality({r}) = 1
      BY FS_Singleton
    <3> QED BY <3>1, <3>2
  <2> QED BY <2>1, <2>2
<1> QED BY <1>1, RepositoryAlways, PTL

(* No change of the registry overwrites a registration that was answered   *)
(* (repos/service.ts:103-118).                                             *)
THEOREM RegistrationsAreKept == Spec => []NoLostRegistration
<1>1. RepositoryInv => NoLostRegistration
  BY DEF RepositoryInv
<1> QED BY <1>1, RepositoryAlways, PTL
=============================================================================
