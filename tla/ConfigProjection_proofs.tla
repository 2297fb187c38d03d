------------------------ MODULE ConfigProjection_proofs ------------------------
(***************************************************************************)
(* Theorems about ConfigProjection, for any number of worktrees, files,    *)
(* contents, leases, edits, faults and crashes.                            *)
(***************************************************************************)
EXTENDS ConfigProjectionProperties, TLAPS

(***************************************************************************)
(* Lemmas: the operations a worktree can be in.                            *)
(***************************************************************************)

(* An operation that starts has every file to look at.                     *)
LEMMA StartFields ==
  ASSUME NEW for \in {"stale", "acquire", "undo", "release", "recover"},
         NEW at \in {"verify", "check"}
  PROVE  /\ Start(for, at) \in Operations
         /\ Start(for, at).for = for /\ Start(for, at).at = at
         /\ Start(for, at).todo = Files /\ Start(for, at).next = {}
         /\ Start(for, at).conflicts = {}
BY DEF Start, Idle, Operations

(* A worktree on which nothing runs.                                       *)
LEMMA IdleFields ==
  /\ Idle \in Operations /\ Idle.for = "none" /\ Idle.at = "none"
  /\ Idle.todo = {} /\ Idle.next = {} /\ Idle.conflicts = {}
BY DEF Idle, Operations

(* Writing one file changes the content of no other.                       *)
LEMMA WriteFields ==
  ASSUME TypeOK, NEW w \in Worktrees, NEW f \in Files, NEW c \in {"head", "base"},
         Write(w, f, c)
  PROVE  /\ file' \in [Worktrees -> [Files -> {"head", "base"} \cup Edits]]
         /\ edited' \subseteq Worktrees \X Files
         /\ file'[w][f] = c
         /\ \A v \in Worktrees, g \in Files :
              <<v, g>> # <<w, f>> => /\ file'[v][g] = file[v][g]
                                     /\ <<v, g>> \in edited => <<v, g>> \in edited'
BY DEF TypeOK, Write

(* A lease that is counted, or a projection that begins.                   *)
LEMMA AcquireKeeps ==
  ASSUME ProjectionInv, Acquire
  PROVE  ProjectionInv'
<1> USE EditsAssumption, ProjectionBoundsAssumption
<1>1. current \in Worktrees /\ op[current].for = "none"
  BY DEF ProjectionInv, TypeOK, Acquire
<1>2. PICK o \in Operations :
       /\ op' = [op EXCEPT ![current] = o]
       /\ \/ o = op[current] /\ current \in counted
             /\ active' = [active EXCEPT ![current] = @ + 1]
             /\ held' = [held EXCEPT ![current] = @ + 1]
             /\ active[current] > 0 /\ held[current] < MaxLeases
          \/ /\ current \notin counted /\ UNCHANGED <<active, held>>
             /\ \/ o.for = "stale" /\ o.at = "check"
                \/ o.for = "acquire" /\ o.at = "verify"
             /\ o.todo = Files /\ o.conflicts = {}
  <2>1. CASE current \in counted
    BY <1>1, <2>1 DEF ProjectionInv, TypeOK, Acquire
  <2>2. CASE current \notin counted
    BY <1>1, <2>2, StartFields DEF ProjectionInv, TypeOK, Acquire, Run
  <2> QED BY <2>1, <2>2
<1>3. /\ daemon = "up"
      /\ UNCHANGED <<daemon, current, exists, file, manifest, counted, edited, edits,
                     faults, crashes>>
  BY DEF Acquire, Bounds
<1>4. TypeOK'
  BY <1>1, <1>2, <1>3 DEF ProjectionInv, TypeOK, LeaseInv
<1>5. OperationInv'
  BY <1>1, <1>2, <1>3 DEF ProjectionInv, TypeOK, OperationInv, LeaseInv
<1>6. LeaseInv'
  BY <1>1, <1>2, <1>3 DEF ProjectionInv, TypeOK, OperationInv, LeaseInv
<1>7. BaseWhileHeld'
  BY <1>1, <1>2, <1>3 DEF ProjectionInv, TypeOK, OperationInv, LeaseInv, BaseWhileHeld
<1>8. ConflictInv'
  BY <1>1, <1>2, <1>3 DEF ProjectionInv, TypeOK, ConflictInv, OperationInv
<1>9. BlockedForCause'
  BY <1>1, <1>2, <1>3 DEF ProjectionInv, TypeOK, OperationInv, LeaseInv, ConflictInv,
       BlockedForCause
<1> QED BY <1>4, <1>5, <1>6, <1>7, <1>8, <1>9 DEF ProjectionInv

(* The worktree is verified, or the projection given up.                   *)
LEMMA VerifyKeeps ==
  ASSUME ProjectionInv, NEW w \in Worktrees, Verify(w)
  PROVE  ProjectionInv'
<1> USE EditsAssumption, ProjectionBoundsAssumption
<1>1. PICK o \in Operations :
       /\ op' = [op EXCEPT ![w] = o]
       /\ \/ o = Idle
          \/ o = [op[w] EXCEPT !.at = "prepare"] /\ w \in exists
  BY IdleFields DEF ProjectionInv, TypeOK, Operations, Verify, Run, Clean
<1>2. /\ op[w].at = "verify" /\ op[w] \in Operations
      /\ UNCHANGED <<daemon, current, exists, file, manifest, counted, active, held,
                     edited, edits, faults, crashes>>
  BY DEF ProjectionInv, TypeOK, Verify, Bounds
<1>3. \/ o.for = "none" /\ o.at = "none" /\ o.conflicts = {}
      \/ /\ o.for = op[w].for /\ o.at = "prepare" /\ w \in exists
         /\ o.todo = op[w].todo /\ o.conflicts = op[w].conflicts
  BY <1>1, <1>2, IdleFields DEF Operations
<1>4. TypeOK'
  BY <1>1, <1>2, <1>3 DEF ProjectionInv, TypeOK, LeaseInv
<1>5. OperationInv'
  BY <1>1, <1>2, <1>3 DEF ProjectionInv, TypeOK, OperationInv, LeaseInv
<1>6. LeaseInv'
  BY <1>1, <1>2, <1>3 DEF ProjectionInv, TypeOK, OperationInv, LeaseInv
<1>7. BaseWhileHeld'
  BY <1>1, <1>2, <1>3 DEF ProjectionInv, TypeOK, OperationInv, LeaseInv, BaseWhileHeld
<1>8. ConflictInv'
  BY <1>1, <1>2, <1>3 DEF ProjectionInv, TypeOK, ConflictInv, OperationInv
<1>9. BlockedForCause'
  BY <1>1, <1>2, <1>3 DEF ProjectionInv, TypeOK, OperationInv, LeaseInv, ConflictInv,
       BlockedForCause
<1> QED BY <1>4, <1>5, <1>6, <1>7, <1>8, <1>9 DEF ProjectionInv

(* The manifest is written; the second time the lease is handed out.       *)
LEMMA WriteManifestKeeps ==
  ASSUME ProjectionInv, NEW w \in Worktrees, WriteManifest(w)
  PROVE  ProjectionInv'
<1> USE EditsAssumption, ProjectionBoundsAssumption
<1>1. /\ op[w] \in Operations /\ op[w].for # "none" /\ w \in exists
      /\ held[w] = 0 /\ active[w] = 0
      /\ UNCHANGED <<daemon, current, exists, file, edited, edits, faults, crashes>>
  BY DEF ProjectionInv, TypeOK, OperationInv, LeaseInv, WriteManifest, Bounds
<1>2. manifest' \in Manifests
  BY DEF WriteManifest, Manifests
<1>3. PICK o \in Operations :
       /\ op' = [op EXCEPT ![w] = o]
       /\ \/ /\ op[w].at = "prepare" /\ o.at = "project" /\ o.for = op[w].for
             /\ o.todo = op[w].todo /\ o.conflicts = op[w].conflicts
             /\ UNCHANGED <<counted, active, held>>
          \/ /\ op[w].at = "activate" /\ o.at = "none" /\ o.for = "none" /\ o.conflicts = {}
             /\ counted' = counted \cup {w}
             /\ active' = [active EXCEPT ![w] = 1] /\ held' = [held EXCEPT ![w] = 1]
  <2>1. CASE op[w].at = "prepare"
    <3> DEFINE o == [op[w] EXCEPT !.at = "project"]
    <3>1. /\ o \in Operations /\ o.at = "project" /\ o.for = op[w].for
          /\ o.todo = op[w].todo /\ o.conflicts = op[w].conflicts
      BY <1>1 DEF Operations
    <3>2. op' = [op EXCEPT ![w] = o] /\ UNCHANGED <<counted, active, held>>
      BY <2>1 DEF WriteManifest, Run
    <3> HIDE DEF o
    <3> QED BY <2>1, <3>1, <3>2
  <2>2. CASE op[w].at = "activate"
    BY <1>1, <2>2, IdleFields DEF ProjectionInv, TypeOK, WriteManifest, Run
  <2> QED BY <2>1, <2>2 DEF WriteManifest
<1>4. TypeOK'
  BY <1>1, <1>2, <1>3 DEF ProjectionInv, TypeOK, LeaseInv
<1>5. OperationInv'
  BY <1>1, <1>2, <1>3 DEF ProjectionInv, TypeOK, OperationInv, LeaseInv
<1>6. LeaseInv'
  BY <1>1, <1>2, <1>3 DEF ProjectionInv, TypeOK, OperationInv, LeaseInv
<1>7. BaseWhileHeld'
  BY <1>1, <1>2, <1>3 DEF ProjectionInv, TypeOK, OperationInv, LeaseInv, BaseWhileHeld
<1>8. ConflictInv'
  BY <1>1, <1>2, <1>3 DEF ProjectionInv, TypeOK, ConflictInv, OperationInv
<1>9. BlockedForCause'
  BY <1>1, <1>2, <1>3 DEF ProjectionInv, TypeOK, OperationInv, LeaseInv, ConflictInv,
       BlockedForCause
<1> QED BY <1>4, <1>5, <1>6, <1>7, <1>8, <1>9 DEF ProjectionInv

(* One file is projected, or all are.                                      *)
LEMMA ProjectKeeps ==
  ASSUME ProjectionInv, NEW w \in Worktrees, Project(w)
  PROVE  ProjectionInv'
<1> USE EditsAssumption, ProjectionBoundsAssumption
<1>1. /\ op[w] \in Operations /\ op[w].for # "none" /\ w \in exists
      /\ held[w] = 0
      /\ op[w].at = "project"
      /\ UNCHANGED <<daemon, current, exists, manifest, counted, active, held, edits,
                     faults, crashes>>
  BY DEF ProjectionInv, TypeOK, OperationInv, LeaseInv, Project, Bounds
<1>2. PICK o \in Operations :
       /\ op' = [op EXCEPT ![w] = o] /\ o.for = op[w].for /\ o.conflicts = op[w].conflicts
       /\ \/ \E f \in Files : /\ Write(w, f, "base") /\ o.at = "project"
                              /\ o.todo = op[w].todo \ {f}
          \/ /\ UNCHANGED <<file, edited>> /\ op[w].todo = {}
             /\ o.at = "activate" /\ o.todo = {}
  <2>1. CASE \E f \in op[w].todo : Write(w, f, "base") /\ Run(w,
       [op[w] EXCEPT !.todo = @ \ {f}])
    <3>1. PICK f \in op[w].todo : Write(w, f, "base") /\ Run(w,
         [op[w] EXCEPT !.todo = @ \ {f}])
      BY <2>1
    <3> DEFINE o == [op[w] EXCEPT !.todo = @ \ {f}]
    <3>2. /\ o \in Operations /\ o.at = "project" /\ o.for = op[w].for
          /\ o.todo = op[w].todo \ {f} /\ o.conflicts = op[w].conflicts /\ f \in Files
      BY <1>1 DEF Operations
    <3>3. op' = [op EXCEPT ![w] = o] /\ Write(w, f, "base")
      BY <3>1 DEF Run
    <3> HIDE DEF o
    <3> QED BY <3>2, <3>3
  <2>2. CASE /\ op[w].todo = {} /\ UNCHANGED <<file, edited>>
            /\ Run(w, [op[w] EXCEPT !.at = "activate"])
    <3> DEFINE o == [op[w] EXCEPT !.at = "activate"]
    <3>1. /\ o \in Operations /\ o.at = "activate" /\ o.for = op[w].for
          /\ o.todo = op[w].todo /\ o.conflicts = op[w].conflicts
      BY <1>1 DEF Operations
    <3>2. op' = [op EXCEPT ![w] = o] /\ UNCHANGED <<file, edited>>
      BY <2>2 DEF Run
    <3> HIDE DEF o
    <3> QED BY <2>2, <3>1, <3>2
  <2> QED BY <2>1, <2>2 DEF Project
<1>3. /\ file' \in [Worktrees -> [Files -> {"head", "base"} \cup Edits]]
      /\ edited' \subseteq Worktrees \X Files
      /\ \A v \in Worktrees, g \in Files :
           \/ file'[v][g] = file[v][g] /\ (<<v, g>> \in edited => <<v, g>> \in edited')
           \/ v = w /\ file'[v][g] = "base"
      /\ \A g \in op[w].todo \ o.todo : file'[w][g] = "base"
  BY <1>1, <1>2, WriteFields DEF ProjectionInv, TypeOK
<1>4. TypeOK'
  BY <1>1, <1>2, <1>3 DEF ProjectionInv, TypeOK, LeaseInv
<1>5. OperationInv'
  BY <1>1, <1>2, <1>3 DEF ProjectionInv, TypeOK, OperationInv, LeaseInv
<1>6. LeaseInv'
  BY <1>1, <1>2, <1>3 DEF ProjectionInv, TypeOK, OperationInv, LeaseInv
<1>7. BaseWhileHeld'
  BY <1>1, <1>2, <1>3 DEF ProjectionInv, TypeOK, OperationInv, LeaseInv, BaseWhileHeld
<1>8. ConflictInv'
  <2>1. SUFFICES ASSUME edits = 0, NEW v \in Worktrees
                 PROVE  op'[v].conflicts = {} /\ \A g \in Files : file'[v][g] \in {"head",
                 "base"}
    BY <1>1 DEF ConflictInv
  <2>2. op'[v].conflicts = op[v].conflicts
    BY <1>1, <1>2 DEF ProjectionInv, TypeOK
  <2> QED BY <1>3, <2>1, <2>2 DEF ProjectionInv, ConflictInv
<1>9. BlockedForCause'
  BY <1>1, <1>2, <1>3 DEF ProjectionInv, TypeOK, OperationInv, LeaseInv, ConflictInv,
       BlockedForCause
<1> QED BY <1>4, <1>5, <1>6, <1>7, <1>8, <1>9 DEF ProjectionInv

(* The worktree is there, or the restoration fails.                        *)
LEMMA CheckWorktreeKeeps ==
  ASSUME ProjectionInv, NEW w \in Worktrees, CheckWorktree(w)
  PROVE  ProjectionInv'
<1> USE EditsAssumption, ProjectionBoundsAssumption
<1>1. /\ op[w] \in Operations /\ op[w].at = "check" /\ daemon' \in {daemon, "up"}
      /\ UNCHANGED <<current, exists, file, manifest, counted, active, held, edited, edits,
                     faults, crashes>>
  BY DEF ProjectionInv, TypeOK, CheckWorktree, Bounds
<1>2. PICK o \in Operations :
       /\ op' = [op EXCEPT ![w] = o]
       /\ \/ w \notin exists /\ o.for = "none" /\ o.at = "none" /\ o.conflicts = {}
          \/ w \in exists /\ o.for = op[w].for /\ o.at = "look" /\ o.conflicts = op[w].conflicts
  <2>1. CASE w \notin exists
    BY <2>1, IdleFields DEF CheckWorktree, Run
  <2>2. CASE w \in exists
    <3> DEFINE o == [op[w] EXCEPT !.at = "look"]
    <3>1. o \in Operations /\ o.for = op[w].for /\ o.at = "look" /\ o.conflicts = op[w].conflicts
      BY <1>1 DEF Operations
    <3>2. op' = [op EXCEPT ![w] = o]
      BY <2>2 DEF CheckWorktree, Run
    <3> HIDE DEF o
    <3> QED BY <2>2, <3>1, <3>2
  <2> QED BY <2>1, <2>2
<1>3. TypeOK'
  BY <1>1, <1>2 DEF ProjectionInv, TypeOK, LeaseInv
<1>4. OperationInv'
  BY <1>1, <1>2 DEF ProjectionInv, TypeOK, OperationInv, LeaseInv
<1>5. LeaseInv'
  BY <1>1, <1>2 DEF ProjectionInv, TypeOK, OperationInv, LeaseInv
<1>6. BaseWhileHeld'
  BY <1>1, <1>2 DEF ProjectionInv, TypeOK, OperationInv, LeaseInv, BaseWhileHeld
<1>7. ConflictInv'
  BY <1>1, <1>2 DEF ProjectionInv, TypeOK, ConflictInv, OperationInv
<1>8. BlockedForCause'
  BY <1>1, <1>2 DEF ProjectionInv, TypeOK, OperationInv, LeaseInv, ConflictInv,
       BlockedForCause
<1> QED BY <1>3, <1>4, <1>5, <1>6, <1>7, <1>8 DEF ProjectionInv

(* A file is compared with what was recorded.                              *)
LEMMA LookKeeps ==
  ASSUME ProjectionInv, NEW w \in Worktrees, Look(w)
  PROVE  ProjectionInv'
<1> USE EditsAssumption, ProjectionBoundsAssumption
<1>1. /\ op[w] \in Operations /\ op[w].at = "look" /\ op[w].for # "none" /\ w \in exists
      /\ UNCHANGED <<daemon, current, exists, file, manifest, counted, active, held,
                     edited, edits, faults, crashes>>
  BY DEF ProjectionInv, TypeOK, OperationInv, Look, Bounds
<1>2. PICK f \in Files, o \in Operations :
       /\ op' = [op EXCEPT ![w] = o] /\ o.for = op[w].for /\ o.at \in {"look", "put"}
       /\ o.conflicts \subseteq op[w].conflicts \cup {f}
       /\ file[w][f] \in {"head", "base"} => o.conflicts = op[w].conflicts
  <2>1. PICK f \in op[w].todo : Run(w, LookAt(w, f))
    BY DEF Look
  <2>2. /\ f \in Files /\ LookAt(w, f) \in Operations
        /\ LookAt(w, f).for = op[w].for /\ LookAt(w, f).at \in {"look", "put"}
        /\ LookAt(w, f).conflicts \subseteq op[w].conflicts \cup {f}
        /\ file[w][f] \in {"head", "base"} => LookAt(w, f).conflicts = op[w].conflicts
    BY <1>1 DEF LookAt, Operations
  <2> QED BY <2>1, <2>2 DEF Run
<1>3. TypeOK'
  BY <1>1, <1>2 DEF ProjectionInv, TypeOK, LeaseInv
<1>4. OperationInv'
  BY <1>1, <1>2 DEF ProjectionInv, TypeOK, OperationInv, LeaseInv
<1>5. LeaseInv'
  BY <1>1, <1>2 DEF ProjectionInv, TypeOK, OperationInv, LeaseInv
<1>6. BaseWhileHeld'
  BY <1>1, <1>2 DEF ProjectionInv, TypeOK, OperationInv, LeaseInv, BaseWhileHeld
<1>7. ConflictInv'
  BY <1>1, <1>2 DEF ProjectionInv, TypeOK, ConflictInv, OperationInv
<1>8. BlockedForCause'
  BY <1>1, <1>2 DEF ProjectionInv, TypeOK, OperationInv, LeaseInv, ConflictInv,
       BlockedForCause
<1> QED BY <1>3, <1>4, <1>5, <1>6, <1>7, <1>8 DEF ProjectionInv

(* The head's content is put back.                                         *)
LEMMA PutKeeps ==
  ASSUME ProjectionInv, NEW w \in Worktrees, Put(w)
  PROVE  ProjectionInv'
<1> USE EditsAssumption, ProjectionBoundsAssumption
<1>1. /\ op[w] \in Operations /\ op[w].at = "put" /\ op[w].for # "none" /\ w \in exists
      /\ held[w] = 0
      /\ UNCHANGED <<daemon, current, exists, manifest, counted, active, held, edits,
                     faults, crashes>>
  BY DEF ProjectionInv, TypeOK, OperationInv, LeaseInv, Put, Bounds
<1>2. PICK o \in Operations :
       /\ op' = [op EXCEPT ![w] = o]
       /\ o.for = op[w].for /\ o.at = "look" /\ o.conflicts = op[w].conflicts
  <2> DEFINE o == [op[w] EXCEPT !.next = {}, !.at = "look"]
  <2>1. o \in Operations /\ o.for = op[w].for /\ o.at = "look" /\ o.conflicts = op[w].conflicts
    BY <1>1 DEF Operations
  <2>2. op' = [op EXCEPT ![w] = o]
    BY DEF Put, Run
  <2> HIDE DEF o
  <2> QED BY <2>1, <2>2
<1>3. PICK f \in Files : Write(w, f, "head")
  BY <1>1 DEF Put, Operations
<1>4. /\ file' \in [Worktrees -> [Files -> {"head", "base"} \cup Edits]]
      /\ edited' \subseteq Worktrees \X Files
      /\ \A v \in Worktrees, g \in Files :
           \/ file'[v][g] = file[v][g] /\ (<<v, g>> \in edited => <<v, g>> \in edited')
           \/ v = w /\ file'[v][g] = "head"
  BY <1>3, WriteFields DEF ProjectionInv
<1>5. TypeOK'
  BY <1>1, <1>2, <1>4 DEF ProjectionInv, TypeOK, LeaseInv
<1>6. OperationInv'
  BY <1>1, <1>2, <1>4 DEF ProjectionInv, TypeOK, OperationInv, LeaseInv
<1>7. LeaseInv'
  BY <1>1, <1>2, <1>4 DEF ProjectionInv, TypeOK, OperationInv, LeaseInv
<1>8. BaseWhileHeld'
  BY <1>1, <1>2, <1>4 DEF ProjectionInv, TypeOK, OperationInv, LeaseInv, BaseWhileHeld
<1>9. ConflictInv'
  BY <1>1, <1>2, <1>4 DEF ProjectionInv, TypeOK, ConflictInv, OperationInv
<1>10. BlockedForCause'
  BY <1>1, <1>2, <1>4 DEF ProjectionInv, TypeOK, OperationInv, LeaseInv, ConflictInv,
       BlockedForCause
<1> QED BY <1>5, <1>6, <1>7, <1>8, <1>9, <1>10 DEF ProjectionInv

(* All files were looked at: the restoration ends.                         *)
LEMMA RestoredKeeps ==
  ASSUME ProjectionInv, NEW w \in Worktrees, Restored(w)
  PROVE  ProjectionInv'
<1> USE EditsAssumption, ProjectionBoundsAssumption
<1>1. /\ op[w] \in Operations /\ op[w].at = "look" /\ op[w].for # "none" /\ held[w] = 0
      /\ manifest' \in {manifest, NoManifest} /\ daemon' \in {daemon, "up"}
      /\ UNCHANGED <<current, exists, file, active, held, edited, edits, faults, crashes>>
  BY DEF ProjectionInv, TypeOK, OperationInv, LeaseInv, Restored, Bounds
<1>2. /\ counted' = counted \/ counted' = counted \ {w}
      /\ op[w].for = "release" /\ op[w].conflicts = {} => counted' = counted \ {w}
  BY DEF Restored, KeepsManifest
<1>3. PICK o \in Operations :
       /\ op' = [op EXCEPT ![w] = o] /\ o.conflicts = {}
       /\ \/ o.for = "none" /\ o.at = "none"
          \/ o.for = "acquire" /\ o.at = "verify" /\ o.todo = Files
  BY IdleFields, StartFields DEF Restored, Run
<1>4. NoManifest \in Manifests
  BY DEF Manifests
<1>5. TypeOK'
  BY <1>1, <1>2, <1>3, <1>4 DEF ProjectionInv, TypeOK, LeaseInv
<1>6. OperationInv'
  BY <1>1, <1>2, <1>3, <1>4 DEF ProjectionInv, TypeOK, OperationInv, LeaseInv
<1>7. LeaseInv'
  BY <1>1, <1>2, <1>3, <1>4 DEF ProjectionInv, TypeOK, OperationInv, LeaseInv
<1>8. BaseWhileHeld'
  BY <1>1, <1>2, <1>3, <1>4 DEF ProjectionInv, TypeOK, OperationInv, LeaseInv, BaseWhileHeld
<1>9. ConflictInv'
  BY <1>1, <1>2, <1>3, <1>4 DEF ProjectionInv, TypeOK, ConflictInv, OperationInv
<1>10. BlockedForCause'
  BY <1>1, <1>2, <1>3, <1>4 DEF ProjectionInv, TypeOK, OperationInv, LeaseInv, ConflictInv,
       BlockedForCause
<1> QED BY <1>5, <1>6, <1>7, <1>8, <1>9, <1>10 DEF ProjectionInv

(* A failure while a projection begins undoes it.                          *)
LEMMA AcquireFailsKeeps ==
  ASSUME ProjectionInv, NEW w \in Worktrees, AcquireFails(w)
  PROVE  ProjectionInv'
<1> USE EditsAssumption, ProjectionBoundsAssumption
<1>1. /\ op[w].for = "acquire" /\ faults' = faults + 1 /\ faults < MaxFaults
      /\ UNCHANGED <<daemon, current, exists, file, manifest, counted, active, held,
                     edited, edits, crashes>>
  BY DEF AcquireFails, Fault
<1>2. PICK o \in Operations :
       /\ op' = [op EXCEPT ![w] = o] /\ o.conflicts = {}
       /\ \/ o.for = "none" /\ o.at = "none"
          \/ o.for = "undo" /\ o.at = "check"
  <2>1. CASE op[w].at \in {"verify", "prepare"}
    BY <2>1, IdleFields DEF AcquireFails, Run
  <2>2. CASE op[w].at \notin {"verify", "prepare"}
    BY <2>2, StartFields DEF AcquireFails, Run
  <2> QED BY <2>1, <2>2
<1>3. held[w] = 0
  BY <1>1 DEF ProjectionInv, TypeOK, LeaseInv
<1>4. TypeOK'
  BY <1>1, <1>2, <1>3 DEF ProjectionInv, TypeOK, LeaseInv
<1>5. OperationInv'
  BY <1>1, <1>2, <1>3 DEF ProjectionInv, TypeOK, OperationInv, LeaseInv
<1>6. LeaseInv'
  BY <1>1, <1>2, <1>3 DEF ProjectionInv, TypeOK, OperationInv, LeaseInv
<1>7. BaseWhileHeld'
  BY <1>1, <1>2, <1>3 DEF ProjectionInv, TypeOK, OperationInv, LeaseInv, BaseWhileHeld
<1>8. ConflictInv'
  BY <1>1, <1>2, <1>3 DEF ProjectionInv, TypeOK, ConflictInv, OperationInv
<1>9. BlockedForCause'
  BY <1>1, <1>2, <1>3 DEF ProjectionInv, TypeOK, OperationInv, LeaseInv, ConflictInv,
       BlockedForCause
<1> QED BY <1>4, <1>5, <1>6, <1>7, <1>8, <1>9 DEF ProjectionInv

(* A failure while files are restored ends the restoration.                *)
LEMMA RestoreFailsKeeps ==
  ASSUME ProjectionInv, NEW w \in Worktrees, RestoreFails(w)
  PROVE  ProjectionInv'
<1> USE EditsAssumption, ProjectionBoundsAssumption
<1>1. /\ op[w].at \in {"check", "look", "put"} /\ faults' = faults + 1 /\ faults < MaxFaults
      /\ daemon' \in {daemon, "up"}
      /\ UNCHANGED <<current, exists, file, manifest, counted, active, held, edited, edits,
                     crashes>>
  BY DEF RestoreFails, Fault
<1>2. PICK o \in Operations :
       op' = [op EXCEPT ![w] = o] /\ o.conflicts = {} /\ o.for = "none" /\ o.at = "none"
  BY IdleFields DEF RestoreFails, Run
<1>3. held[w] = 0
  BY <1>1 DEF ProjectionInv, TypeOK, OperationInv, LeaseInv
<1>4. TypeOK'
  BY <1>1, <1>2, <1>3 DEF ProjectionInv, TypeOK, LeaseInv
<1>5. OperationInv'
  BY <1>1, <1>2, <1>3 DEF ProjectionInv, TypeOK, OperationInv, LeaseInv
<1>6. LeaseInv'
  BY <1>1, <1>2, <1>3 DEF ProjectionInv, TypeOK, OperationInv, LeaseInv
<1>7. BaseWhileHeld'
  BY <1>1, <1>2, <1>3 DEF ProjectionInv, TypeOK, OperationInv, LeaseInv, BaseWhileHeld
<1>8. ConflictInv'
  BY <1>1, <1>2, <1>3 DEF ProjectionInv, TypeOK, ConflictInv, OperationInv
<1>9. BlockedForCause'
  BY <1>1, <1>2, <1>3 DEF ProjectionInv, TypeOK, OperationInv, LeaseInv, ConflictInv,
       BlockedForCause
<1> QED BY <1>4, <1>5, <1>6, <1>7, <1>8, <1>9 DEF ProjectionInv

(* A lease is released; the last one restores.                             *)
LEMMA ReleaseKeeps ==
  ASSUME ProjectionInv, NEW w \in Worktrees, Release(w)
  PROVE  ProjectionInv'
<1> USE EditsAssumption, ProjectionBoundsAssumption
<1>1. /\ op[w].for = "none" /\ held[w] > 0 /\ active[w] = held[w] /\ w \in counted /\ w \in exists
      /\ held[w] \in 0..MaxLeases
      /\ held' = [held EXCEPT ![w] = @ - 1] /\ active' = [active EXCEPT ![w] = @ - 1]
      /\ UNCHANGED <<daemon, current, exists, file, manifest, counted, edited, edits,
                     faults, crashes>>
  BY DEF ProjectionInv, TypeOK, LeaseInv, Release, Bounds
<1>2. PICK o \in Operations :
       /\ op' = [op EXCEPT ![w] = o]
       /\ \/ o = op[w] /\ held[w] # 1
          \/ held[w] = 1 /\ o.for = "release" /\ o.at = "check" /\ o.conflicts = {}
  BY <1>1, StartFields DEF ProjectionInv, TypeOK, Release, Run
<1>3. TypeOK'
  BY <1>1, <1>2 DEF ProjectionInv, TypeOK, LeaseInv
<1>4. OperationInv'
  BY <1>1, <1>2 DEF ProjectionInv, TypeOK, OperationInv, LeaseInv
<1>5. LeaseInv'
  BY <1>1, <1>2 DEF ProjectionInv, TypeOK, OperationInv, LeaseInv
<1>6. BaseWhileHeld'
  BY <1>1, <1>2 DEF ProjectionInv, TypeOK, OperationInv, LeaseInv, BaseWhileHeld
<1>7. ConflictInv'
  BY <1>1, <1>2 DEF ProjectionInv, TypeOK, ConflictInv, OperationInv
<1>8. BlockedForCause'
  BY <1>1, <1>2 DEF ProjectionInv, TypeOK, OperationInv, LeaseInv, ConflictInv,
       BlockedForCause
<1> QED BY <1>3, <1>4, <1>5, <1>6, <1>7, <1>8 DEF ProjectionInv

(* The user writes a file.                                                 *)
LEMMA UserEditsKeeps ==
  ASSUME ProjectionInv, NEW w \in Worktrees, NEW f \in Files, UserEdits(w, f)
  PROVE  ProjectionInv'
<1> USE EditsAssumption, ProjectionBoundsAssumption
<1>1. /\ edits' = edits + 1 /\ edits < MaxEdits /\ edited' = edited \cup {<<w, f>>}
      /\ UNCHANGED <<daemon, current, exists, manifest, counted, active, held, op, faults,
                     crashes>>
  BY DEF UserEdits
<1>2. /\ file' \in [Worktrees -> [Files -> {"head", "base"} \cup Edits]]
      /\ \A v \in Worktrees, g \in Files : <<v, g>> # <<w, f>> => file'[v][g] = file[v][g]
  BY DEF ProjectionInv, TypeOK, UserEdits
<1>3. TypeOK'
  BY <1>1, <1>2 DEF ProjectionInv, TypeOK, LeaseInv
<1>4. OperationInv'
  BY <1>1, <1>2 DEF ProjectionInv, TypeOK, OperationInv, LeaseInv
<1>5. LeaseInv'
  BY <1>1, <1>2 DEF ProjectionInv, TypeOK, OperationInv, LeaseInv
<1>6. BaseWhileHeld'
  BY <1>1, <1>2 DEF ProjectionInv, TypeOK, OperationInv, LeaseInv, BaseWhileHeld
<1>7. ConflictInv'
  BY <1>1, <1>2 DEF ProjectionInv, TypeOK, ConflictInv, OperationInv
<1>8. BlockedForCause'
  BY <1>1, <1>2 DEF ProjectionInv, TypeOK, OperationInv, LeaseInv, ConflictInv,
       BlockedForCause
<1> QED BY <1>3, <1>4, <1>5, <1>6, <1>7, <1>8 DEF ProjectionInv

(* The review moves to a new worktree.                                     *)
LEMMA RefreshKeeps ==
  ASSUME ProjectionInv, Refresh
  PROVE  ProjectionInv'
<1> USE EditsAssumption, ProjectionBoundsAssumption
<1>1. PICK w \in Worktrees \ exists :
       /\ current' = w
       /\ exists' = exists \cup {w} \/ exists' = (exists \ {current}) \cup {w}
       /\ file' = [file EXCEPT ![w] = [f \in Files |-> "head"]]
       /\ edited' = {e \in edited : e[1] # w}
  BY DEF ProjectionInv, TypeOK, Refresh
<1>2. /\ op[current].for = "none" /\ current \notin counted
      /\ UNCHANGED <<daemon, manifest, counted, active, held, op, edits, faults, crashes>>
  BY DEF Refresh, Bounds
<1>3. /\ file' \in [Worktrees -> [Files -> {"head", "base"} \cup Edits]]
      /\ \A v \in Worktrees, g \in Files :
           IF v = w THEN file'[v][g] = "head"
           ELSE file'[v][g] = file[v][g] /\ (<<v, g>> \in edited => <<v, g>> \in edited')
  BY <1>1 DEF ProjectionInv, TypeOK
<1>4. TypeOK'
  BY <1>1, <1>2, <1>3 DEF ProjectionInv, TypeOK, LeaseInv
<1>5. OperationInv'
  BY <1>1, <1>2, <1>3 DEF ProjectionInv, TypeOK, OperationInv, LeaseInv
<1>6. LeaseInv'
  BY <1>1, <1>2, <1>3 DEF ProjectionInv, TypeOK, OperationInv, LeaseInv
<1>7. BaseWhileHeld'
  BY <1>1, <1>2, <1>3 DEF ProjectionInv, TypeOK, OperationInv, LeaseInv, BaseWhileHeld
<1>8. ConflictInv'
  BY <1>1, <1>2, <1>3 DEF ProjectionInv, TypeOK, ConflictInv, OperationInv
<1>9. BlockedForCause'
  BY <1>1, <1>2, <1>3 DEF ProjectionInv, TypeOK, OperationInv, LeaseInv, ConflictInv,
       BlockedForCause
<1> QED BY <1>4, <1>5, <1>6, <1>7, <1>8, <1>9 DEF ProjectionInv

(* The daemon is killed.                                                   *)
LEMMA CrashKeeps ==
  ASSUME ProjectionInv, Crash
  PROVE  ProjectionInv'
<1> USE EditsAssumption, ProjectionBoundsAssumption
<1>1. /\ crashes' = crashes + 1 /\ crashes < MaxCrashes /\ daemon' = "down" /\ counted' = {}
      /\ active' = [w \in Worktrees |-> 0] /\ held' = [w \in Worktrees |-> 0]
      /\ op' = [w \in Worktrees |-> Idle]
      /\ UNCHANGED <<current, exists, file, manifest, edited, edits, faults>>
  BY DEF Crash
<1>2. TypeOK'
  BY <1>1, IdleFields DEF ProjectionInv, TypeOK, LeaseInv
<1>3. OperationInv'
  BY <1>1, IdleFields DEF ProjectionInv, TypeOK, OperationInv, LeaseInv
<1>4. LeaseInv'
  BY <1>1, IdleFields DEF ProjectionInv, TypeOK, OperationInv, LeaseInv
<1>5. BaseWhileHeld'
  BY <1>1, IdleFields DEF ProjectionInv, TypeOK, OperationInv, LeaseInv, BaseWhileHeld
<1>6. ConflictInv'
  BY <1>1, IdleFields DEF ProjectionInv, TypeOK, ConflictInv, OperationInv
<1>7. BlockedForCause'
  BY <1>1, IdleFields DEF ProjectionInv, TypeOK, OperationInv, LeaseInv, ConflictInv,
       BlockedForCause
<1> QED BY <1>2, <1>3, <1>4, <1>5, <1>6, <1>7 DEF ProjectionInv

(* The daemon starts and works off the manifest.                           *)
LEMMA RestartKeeps ==
  ASSUME ProjectionInv, Restart
  PROVE  ProjectionInv'
<1> USE EditsAssumption, ProjectionBoundsAssumption
<1>1. /\ daemon' \in {"up", "recovering"}
      /\ UNCHANGED <<current, exists, file, manifest, counted, active, held, edited, edits,
                     faults, crashes>>
  BY DEF Restart, Bounds
<1>2. \A w \in Worktrees : held[w] = 0 /\ op[w].for = "none"
  BY DEF ProjectionInv, LeaseInv, Restart
<1>3. PICK w \in Worktrees, o \in Operations :
       /\ op' = [op EXCEPT ![w] = o]
       /\ \/ o = op[w]
          \/ o.for = "recover" /\ o.at = "check" /\ o.conflicts = {}
  <2>1. CASE manifest = NoManifest
    <3>1. /\ op' = [op EXCEPT ![current] = op[current]]
          /\ op[current] \in Operations /\ current \in Worktrees
      BY <2>1 DEF ProjectionInv, TypeOK, Restart
    <3> QED BY <3>1
  <2>2. CASE manifest # NoManifest
    <3>1. manifest.worktree \in Worktrees
      BY <2>2 DEF ProjectionInv, TypeOK, Manifests
    <3> QED BY <2>2, <3>1, StartFields DEF Restart, Run
  <2> QED BY <2>1, <2>2
<1>4. TypeOK'
  BY <1>1, <1>2, <1>3 DEF ProjectionInv, TypeOK, LeaseInv
<1>5. OperationInv'
  BY <1>1, <1>2, <1>3 DEF ProjectionInv, TypeOK, OperationInv, LeaseInv
<1>6. LeaseInv'
  BY <1>1, <1>2, <1>3 DEF ProjectionInv, TypeOK, OperationInv, LeaseInv
<1>7. BaseWhileHeld'
  BY <1>1, <1>2, <1>3 DEF ProjectionInv, TypeOK, OperationInv, LeaseInv, BaseWhileHeld
<1>8. ConflictInv'
  BY <1>1, <1>2, <1>3 DEF ProjectionInv, TypeOK, ConflictInv, OperationInv
<1>9. BlockedForCause'
  BY <1>1, <1>2, <1>3 DEF ProjectionInv, TypeOK, OperationInv, LeaseInv, ConflictInv,
       BlockedForCause
<1> QED BY <1>4, <1>5, <1>6, <1>7, <1>8, <1>9 DEF ProjectionInv

(***************************************************************************)
(* Theorems.                                                               *)
(***************************************************************************)

LEMMA ProjectionInitially == Init => ProjectionInv
<1> USE EditsAssumption, ProjectionBoundsAssumption
<1> QED
  BY IdleFields DEF Init, ProjectionInv, TypeOK, OperationInv, LeaseInv, BaseWhileHeld,
     ConflictInv, BlockedForCause, Manifests

LEMMA ProjectionStep == ProjectionInv /\ [Next]_vars => ProjectionInv'
<1> SUFFICES ASSUME ProjectionInv, [Next]_vars PROVE ProjectionInv'
  OBVIOUS
<1>1. CASE Acquire BY <1>1, AcquireKeeps
<1>2. CASE Refresh BY <1>2, RefreshKeeps
<1>3. CASE Crash BY <1>3, CrashKeeps
<1>4. CASE Restart BY <1>4, RestartKeeps
<1>5. ASSUME NEW w \in Worktrees, Step(w) PROVE ProjectionInv'
  BY <1>5, VerifyKeeps, WriteManifestKeeps, ProjectKeeps, CheckWorktreeKeeps, LookKeeps,
     PutKeeps, RestoredKeeps DEF Step
<1>6. ASSUME NEW w \in Worktrees, AcquireFails(w) \/ Release(w) \/ RestoreFails(w)
      PROVE  ProjectionInv'
  BY <1>6, AcquireFailsKeeps, ReleaseKeeps, RestoreFailsKeeps
<1>7. ASSUME NEW w \in Worktrees, NEW f \in Files, UserEdits(w, f) PROVE ProjectionInv'
  BY <1>7, UserEditsKeeps
<1>8. CASE UNCHANGED vars
  BY <1>8 DEF vars, ProjectionInv, TypeOK, OperationInv, LeaseInv, BaseWhileHeld,
     ConflictInv, BlockedForCause
<1> QED BY <1>1, <1>2, <1>3, <1>4, <1>5, <1>6, <1>7, <1>8 DEF Next

LEMMA ProjectionAlways == Spec => []ProjectionInv
<1> QED BY ProjectionInitially, ProjectionStep, PTL DEF Spec

(* Every variable of the projection keeps its type.                        *)
THEOREM ProjectionTypeCorrect == Spec => []TypeOK
<1>1. ProjectionInv => TypeOK
  BY DEF ProjectionInv
<1> QED BY <1>1, ProjectionAlways, PTL

(* Whoever acquires and releases: a lease that is held has the base's      *)
(* configuration, except for what the user changed.                        *)
THEOREM LeasesSeeBase == Spec => []BaseWhileHeld
<1>1. ProjectionInv => BaseWhileHeld
  BY DEF ProjectionInv
<1> QED BY <1>1, ProjectionAlways, PTL

(* Without edits and faults no worktree is ever blocked.                   *)
THEOREM BlockedOnlyForCause == Spec => []BlockedForCause
<1>1. ProjectionInv => BlockedForCause
  BY DEF ProjectionInv
<1> QED BY <1>1, ProjectionAlways, PTL

(***************************************************************************)
(* Edits of the user, when none falls between a check and its write.       *)
(***************************************************************************)
LEMMA WindowStep ==
  ASSUME ~EditsRace, ProjectionInv, WindowInv, [Next]_vars
  PROVE  WindowInv' /\ KeepsUserEdits
<1> USE EditsAssumption DEF WindowInv, KeepsUserEdits
<1> TypeOK /\ OperationInv
  BY DEF ProjectionInv
<1>1. CASE UNCHANGED vars
  BY <1>1 DEF vars

<1>2. CASE Acquire
  BY <1>2, StartFields, IdleFields DEF Acquire, Run, TypeOK
<1>3. CASE Crash
  BY <1>3, StartFields, IdleFields DEF Crash, TypeOK
<1>4. CASE Restart
  BY <1>4, StartFields, IdleFields DEF Restart, TypeOK, Manifests, Run
<1>5. CASE Refresh
  BY <1>5 DEF Refresh, TypeOK, OperationInv
<1>6. ASSUME NEW w \in Worktrees, CheckWorktree(w) PROVE WindowInv' /\ KeepsUserEdits
  BY <1>6, StartFields, IdleFields DEF CheckWorktree, Run, TypeOK, Operations
<1>7. ASSUME NEW w \in Worktrees, Restored(w) PROVE WindowInv' /\ KeepsUserEdits
  BY <1>7, StartFields, IdleFields DEF Restored, Run, TypeOK, KeepsManifest
<1>8. ASSUME NEW w \in Worktrees, AcquireFails(w) PROVE WindowInv' /\ KeepsUserEdits
  BY <1>8, StartFields, IdleFields DEF AcquireFails, Run, TypeOK
<1>9. ASSUME NEW w \in Worktrees, RestoreFails(w) PROVE WindowInv' /\ KeepsUserEdits
  BY <1>9, StartFields, IdleFields DEF RestoreFails, Run, TypeOK
<1>10. ASSUME NEW w \in Worktrees, Release(w) PROVE WindowInv' /\ KeepsUserEdits
  BY <1>10, StartFields, IdleFields DEF Release, Run, TypeOK
<1>11. ASSUME NEW w \in Worktrees, Verify(w) PROVE WindowInv' /\ KeepsUserEdits
  BY <1>11, StartFields, IdleFields DEF Verify, Run, TypeOK, Clean, OperationInv, Operations
<1>12. ASSUME NEW w \in Worktrees, WriteManifest(w) PROVE WindowInv' /\ KeepsUserEdits
  <2>1. /\ op[w] \in Operations /\ UNCHANGED <<exists, file, edits>>
        /\ \A v \in Worktrees \ {w} : op'[v] = op[v]
    BY <1>12 DEF TypeOK, WriteManifest, Run, Bounds
  <2>2. CASE op[w].at = "prepare"
    <3>1. op'[w].at = "project" /\ op'[w].todo = op[w].todo
      BY <1>12, <2>1, <2>2 DEF TypeOK, WriteManifest, Run, Operations
    <3> QED BY <2>1, <2>2, <3>1
  <2>3. CASE op[w].at = "activate"
    <3>1. op'[w].at = "none"
      BY <1>12, <2>3, IdleFields DEF TypeOK, WriteManifest, Run
    <3> QED BY <2>1, <3>1
  <2> QED BY <1>12, <2>2, <2>3 DEF WriteManifest
<1>13. ASSUME NEW w \in Worktrees, Project(w) PROVE WindowInv' /\ KeepsUserEdits
  <2>1. /\ op[w] \in Operations /\ op[w].at = "project" /\ UNCHANGED <<exists, edits>>
        /\ \A v \in Worktrees \ {w} : op'[v] = op[v]
    BY <1>13 DEF TypeOK, Project, Run, Bounds
  <2>2. CASE /\ op[w].todo = {} /\ UNCHANGED <<file, edited>>
            /\ Run(w, [op[w] EXCEPT !.at = "activate"])
    <3>1. op'[w].at = "activate"
      BY <2>1, <2>2 DEF TypeOK, Run, Operations
    <3> QED BY <2>1, <2>2, <3>1
  <2>3. ASSUME NEW f \in op[w].todo, Write(w, f, "base"), Run(w,
       [op[w] EXCEPT !.todo = @ \ {f}])
        PROVE  WindowInv' /\ KeepsUserEdits
    <3>1. op'[w].at = "project" /\ op'[w].todo = op[w].todo \ {f} /\ f \in Files
      BY <2>1, <2>3 DEF TypeOK, Run, Operations
    <3>2. \A v \in Worktrees, g \in Files : <<v, g>> # <<w, f>> => file'[v][g] = file[v][g]
      BY <2>3, <3>1 DEF TypeOK, Write
    <3>3. file[w][f] = "head"
      BY <2>1
    <3>4. KeepsUserEdits
      BY <3>2, <3>3 DEF TypeOK
    <3>5. WindowInv'
      <4>1. \A v \in Worktrees : op[v] \in Operations
        BY DEF TypeOK
      <4>2. \A g \in op'[w].todo : g \in Files /\ file'[w][g] = "head"
        BY <2>1, <3>1, <3>2 DEF Operations
      <4>3. ASSUME NEW v \in Worktrees \ {w}, NEW g \in Files PROVE file'[v][g] = file[v][g]
        BY <3>2
      <4> QED BY <2>1, <3>1, <4>1, <4>2, <4>3 DEF Operations
    <3> QED BY <3>4, <3>5
  <2> QED BY <1>13, <2>2, <2>3 DEF Project
<1>14. ASSUME NEW w \in Worktrees, Look(w) PROVE WindowInv' /\ KeepsUserEdits
  BY <1>14, StartFields, IdleFields DEF Look, Run, TypeOK, LookAt, Operations
<1>15. ASSUME NEW w \in Worktrees, Put(w) PROVE WindowInv' /\ KeepsUserEdits
  BY <1>15, StartFields, IdleFields DEF Put, Run, TypeOK, Write, Operations, OperationInv
<1>16. ASSUME NEW w \in Worktrees, NEW f \in Files, UserEdits(w,
     f) PROVE WindowInv' /\ KeepsUserEdits
  BY <1>16 DEF UserEdits, InWindow, TypeOK, OperationInv, Operations
<1> QED BY <1>1, <1>2, <1>3, <1>4, <1>5, <1>6, <1>7, <1>8, <1>9, <1>10, <1>11, <1>12,
     <1>13, <1>14, <1>15, <1>16 DEF Next, Step

(* Unless it falls between a check and its write, no edit of the user is   *)
(* overwritten or removed by acquire, release or recover.                  *)
THEOREM UserEditsAreKept == ~EditsRace => (Spec => UserEditsSurvive)
<1> SUFFICES ASSUME ~EditsRace PROVE Spec => UserEditsSurvive
  OBVIOUS
<1>1. Init => WindowInv
  BY IdleFields DEF Init, WindowInv
<1>2. ProjectionInv /\ WindowInv /\ [Next]_vars => WindowInv' /\ [KeepsUserEdits]_vars
  BY WindowStep
<1> QED BY <1>1, <1>2, ProjectionAlways, PTL DEF Spec, UserEditsSurvive

(***************************************************************************)
(* What is projected is recorded.                                          *)
(***************************************************************************)
LEMMA ProgressStep ==
  ASSUME TypeOK, ProgressInv, [Next]_vars
  PROVE  ProgressInv'
<1> USE DEF ProgressInv, TypeOK
<1>1. CASE UNCHANGED vars
  BY <1>1 DEF vars
<1>2. CASE Acquire
  BY <1>2, StartFields, IdleFields DEF Acquire, Run
<1>3. CASE Crash
  BY <1>3, StartFields, IdleFields DEF Crash
<1>4. CASE Restart
  BY <1>4, StartFields, IdleFields DEF Restart, Run, Manifests
<1>5. CASE Refresh
  BY <1>5, StartFields, IdleFields DEF Refresh
<1>6. ASSUME NEW w \in Worktrees, CheckWorktree(w) PROVE ProgressInv'
  BY <1>6, StartFields, IdleFields DEF CheckWorktree, Run, Operations
<1>7. ASSUME NEW w \in Worktrees, Restored(w) PROVE ProgressInv'
  BY <1>7, StartFields, IdleFields DEF Restored, Run
<1>8. ASSUME NEW w \in Worktrees, AcquireFails(w) PROVE ProgressInv'
  BY <1>8, StartFields, IdleFields DEF AcquireFails, Run
<1>9. ASSUME NEW w \in Worktrees, RestoreFails(w) PROVE ProgressInv'
  BY <1>9, StartFields, IdleFields DEF RestoreFails, Run
<1>10. ASSUME NEW w \in Worktrees, Release(w) PROVE ProgressInv'
  BY <1>10, StartFields, IdleFields DEF Release, Run
<1>11. ASSUME NEW w \in Worktrees, Verify(w) PROVE ProgressInv'
  BY <1>11, StartFields, IdleFields DEF Verify, Run, Operations
<1>12. ASSUME NEW w \in Worktrees, WriteManifest(w) PROVE ProgressInv'
  <2>1. /\ op[w] \in Operations /\ op[w].at \in {"prepare", "activate"}
        /\ \A v \in Worktrees \ {w} : op'[v] = op[v]
    BY <1>12 DEF WriteManifest, Run
  <2>2. \/ op'[w].for = "none" /\ op'[w].at = "none" /\ op'[w].next = {}
        \/ op'[w].at = "project" /\ op'[w].next = op[w].next /\ op'[w].for = op[w].for
    BY <1>12, <2>1, IdleFields DEF WriteManifest, Run, Operations
  <2> QED BY <2>1, <2>2
<1>13. ASSUME NEW w \in Worktrees, Project(w) PROVE ProgressInv'
  <2>1. /\ op[w] \in Operations /\ op[w].at = "project"
        /\ \A v \in Worktrees \ {w} : op'[v] = op[v]
    BY <1>13 DEF Project, Run
  <2>2. op'[w].at \in {"project", "activate"} /\ op'[w].next = op[w].next
    BY <1>13, <2>1 DEF Project, Run, Operations
  <2> QED BY <2>1, <2>2
<1>14. ASSUME NEW w \in Worktrees, Look(w) PROVE ProgressInv'
  BY <1>14, StartFields, IdleFields DEF Look, Run, LookAt, Operations
<1>15. ASSUME NEW w \in Worktrees, Put(w) PROVE ProgressInv'
  BY <1>15, StartFields, IdleFields DEF Put, Run, Operations
<1>16. ASSUME NEW w \in Worktrees, NEW f \in Files, UserEdits(w, f) PROVE ProgressInv'
  BY <1>16 DEF UserEdits
<1> QED BY <1>1, <1>2, <1>3, <1>4, <1>5, <1>6, <1>7, <1>8, <1>9, <1>10, <1>11, <1>12,
     <1>13, <1>14, <1>15, <1>16 DEF Next, Step

LEMMA RecordedStep ==
  ASSUME ProjectionInv, ProgressInv, RecordedInv, [Next]_vars
  PROVE  RecordedInv'
<1> USE EditsAssumption DEF RecordedInv, CurrentIsRecorded, Stale
<1>0. TypeOK /\ OperationInv /\ LeaseInv
  BY DEF ProjectionInv
<1>1. CASE UNCHANGED vars
  BY <1>1 DEF vars
<1>2. CASE Acquire
  BY <1>0, <1>2, StartFields, IdleFields DEF Acquire, Run, TypeOK, LeaseInv, NoManifest
<1>3. CASE Crash
  BY <1>0, <1>3, StartFields, IdleFields DEF Crash, TypeOK, NoManifest
<1>4. CASE Restart
  BY <1>0, <1>4, StartFields, IdleFields DEF Restart, TypeOK, Manifests, Run, LeaseInv,
       NoManifest
<1>5. CASE Refresh
  BY <1>0, <1>5, StartFields, IdleFields DEF Refresh, TypeOK, OperationInv, LeaseInv,
       NoManifest
<1>6. ASSUME NEW w \in Worktrees, CheckWorktree(w) PROVE RecordedInv'
  <2>1. /\ op[w] \in Operations /\ op[w].at = "check" /\ op[w].for # "none"
        /\ UNCHANGED <<current, exists, file, manifest, counted, held>>
        /\ \A v \in Worktrees \ {w} : op'[v] = op[v]
    BY <1>0, <1>6 DEF TypeOK, OperationInv, CheckWorktree, Run
  <2>2. CASE w \in exists
    <3>1. /\ op'[w].for = op[w].for /\ op'[w].at = "look" /\ op'[w].todo = op[w].todo
          /\ op'[w].next = op[w].next /\ daemon' = daemon
      BY <1>0, <1>6, <2>2 DEF TypeOK, CheckWorktree, Run, Operations
    <3>2. op[w].todo = Files /\ op[w].next = {}
      BY <2>1 DEF ProgressInv
    <3> QED BY <2>1, <3>1, <3>2
  <2>3. CASE w \notin exists
    <3>1. /\ op'[w].for = "none" /\ op'[w].at = "none"
          /\ daemon' = IF op[w].for = "recover" THEN "up" ELSE daemon
      BY <1>0, <1>6, <2>3, IdleFields DEF TypeOK, CheckWorktree, Run
    <3>2. \A v \in Worktrees \ {w} : op[w].for = "recover" => op[v].for = "none"
      BY <1>0, <2>1 DEF TypeOK, LeaseInv
    <3> QED BY <2>1, <3>1, <3>2
  <2> QED BY <2>2, <2>3
<1>7. ASSUME NEW w \in Worktrees, Restored(w) PROVE RecordedInv'
  BY <1>0, <1>7, StartFields, IdleFields DEF Restored, Run, TypeOK, OperationInv, LeaseInv,
       NoManifest, KeepsManifest, ProgressInv
<1>8. ASSUME NEW w \in Worktrees, AcquireFails(w) PROVE RecordedInv'
  <2>1. /\ op[w] \in Operations /\ op[w].for = "acquire"
        /\ UNCHANGED <<daemon, current, exists, file, manifest, counted, held>>
        /\ \A v \in Worktrees \ {w} : op'[v] = op[v]
    BY <1>0, <1>8 DEF TypeOK, AcquireFails, Run
  <2>2. CASE op[w].at \in {"verify", "prepare"}
    <3>1. op'[w].for = "none" /\ op'[w].at = "none"
      BY <1>0, <1>8, <2>2, IdleFields DEF TypeOK, AcquireFails, Run
    <3> QED BY <2>1, <3>1
  <2>3. CASE op[w].at \notin {"verify", "prepare"}
    <3>1. op'[w].for = "undo" /\ op'[w].at = "check"
      BY <1>0, <1>8, <2>3, StartFields DEF TypeOK, AcquireFails, Run
    <3>2. op[w].at \in {"project", "activate"}
      BY <2>1, <2>3 DEF ProgressInv
    <3> QED BY <2>1, <3>1, <3>2
  <2> QED BY <2>2, <2>3
<1>9. ASSUME NEW w \in Worktrees, RestoreFails(w) PROVE RecordedInv'
  BY <1>0, <1>9, StartFields, IdleFields DEF RestoreFails, Run, TypeOK, OperationInv,
       LeaseInv, NoManifest
<1>10. ASSUME NEW w \in Worktrees, Release(w) PROVE RecordedInv'
  BY <1>0, <1>10, StartFields, IdleFields DEF Release, Run, TypeOK, OperationInv, LeaseInv,
       NoManifest
<1>11. ASSUME NEW w \in Worktrees, Verify(w) PROVE RecordedInv'
  BY <1>0, <1>11, StartFields, IdleFields DEF Verify, Run, TypeOK, OperationInv, LeaseInv,
       NoManifest, Clean, Operations
<1>12. ASSUME NEW w \in Worktrees, WriteManifest(w) PROVE RecordedInv'
  BY <1>0, <1>12, StartFields, IdleFields DEF WriteManifest, Run, TypeOK, OperationInv,
       LeaseInv, NoManifest, Operations
<1>13. ASSUME NEW w \in Worktrees, Project(w) PROVE RecordedInv'
  <2>1. /\ op[w] \in Operations /\ op[w].at = "project" /\ op[w].for = "acquire"
        /\ UNCHANGED <<daemon, current, exists, manifest, counted, held>>
        /\ \A v \in Worktrees \ {w} : op'[v] = op[v]
    BY <1>0, <1>13 DEF TypeOK, OperationInv, Project, Run, Bounds
  <2>2. op'[w].for = op[w].for /\ op'[w].at \in {"project", "activate"}
    BY <1>0, <1>13, <2>1 DEF TypeOK, Project, Run, Operations
  <2>3. w = current /\ Stale(w)
    BY <2>1
  <2>4. \A v \in Worktrees \ {w}, g \in Files : file'[v][g] = file[v][g]
    BY <1>0, <1>13 DEF TypeOK, Project, Write
  <2> QED BY <2>1, <2>2, <2>3, <2>4
<1>14. ASSUME NEW w \in Worktrees, Look(w) PROVE RecordedInv'
  BY <1>0, <1>14, StartFields, IdleFields DEF Look, Run, TypeOK, OperationInv, LeaseInv,
       NoManifest, LookAt, Operations, ProgressInv
<1>15. ASSUME NEW w \in Worktrees, Put(w) PROVE RecordedInv'
  <2>1. /\ op[w] \in Operations /\ op[w].at = "put" /\ op[w].for # "none"
        /\ UNCHANGED <<daemon, current, exists, manifest, counted, held>>
        /\ \A v \in Worktrees \ {w} : op'[v] = op[v]
    BY <1>0, <1>15 DEF TypeOK, OperationInv, Put, Run, Bounds
  <2>2. op'[w].for = op[w].for /\ op'[w].at = "look" /\ op'[w].next = {} /\ op'[w].todo = op[w].todo
    BY <1>0, <1>15, <2>1 DEF TypeOK, Put, Run, Operations
  <2>3. PICK f \in op[w].next : Write(w, f, "head")
    BY <1>15 DEF Put
  <2>4. f \in Files /\ file'[w][f] = "head"
    BY <1>0, <2>1, <2>3 DEF TypeOK, Write, Operations
  <2>5. \A v \in Worktrees, g \in Files : <<v, g>> # <<w, f>> => file'[v][g] = file[v][g]
    BY <1>0, <2>3, <2>4 DEF TypeOK, Write
  <2>6. op[w].next \subseteq Files /\ op[w].todo \subseteq Files
    BY <2>1 DEF Operations
  <2>7. \A g \in op[w].next : g = f
    BY <2>1, <2>3 DEF ProgressInv
  <2>8. \A g \in Files \ op'[w].todo : file'[w][g] # "base"
    BY <2>1, <2>2, <2>4, <2>5, <2>6, <2>7
  <2>9. \A v \in Worktrees \ {w}, g \in Files : file'[v][g] = file[v][g]
    BY <2>5
  <2>10. \A g \in Files : file'[w][g] = "base" => file[w][g] = "base"
    BY <2>4, <2>5
  <2>11. CurrentIsRecorded'
    BY <1>0, <2>1, <2>9, <2>10 DEF TypeOK
  <2>12. \A v \in Worktrees : Stale(v)' <=> Stale(v)
    BY <2>1
  <2>13. op[w].for = "acquire" => op[w].at # "put"
    BY <2>1 DEF ProgressInv
  <2> HIDE DEF Stale, CurrentIsRecorded
  <2> QED BY <2>1, <2>2, <2>8, <2>9, <2>11, <2>12, <2>13
<1>16. ASSUME NEW w \in Worktrees, NEW f \in Files, UserEdits(w, f) PROVE RecordedInv'
  BY <1>0, <1>16 DEF UserEdits, TypeOK, OperationInv, Operations
<1> QED BY <1>1, <1>2, <1>3, <1>4, <1>5, <1>6, <1>7, <1>8, <1>9, <1>10, <1>11, <1>12,
     <1>13, <1>14, <1>15, <1>16 DEF Next, Step

LEMMA RecordedInitially == Init => ProgressInv /\ RecordedInv
BY IdleFields, EditsAssumption
   DEF Init, ProgressInv, RecordedInv, CurrentIsRecorded

(* Wherever acquire, release or recover fails or is cut short, the review's *)
(* worktree has the manifest of what it holds, and a restart restores it.   *)
THEOREM CurrentStaysRecorded == Spec => []CurrentIsRecorded
<1>1. ProjectionInv /\ ProgressInv /\ RecordedInv /\ [Next]_vars => ProgressInv' /\ RecordedInv'
  <2>1. ProjectionInv => TypeOK
    BY DEF ProjectionInv
  <2> QED BY <2>1, ProgressStep, RecordedStep
<1>2. RecordedInv => CurrentIsRecorded
  BY DEF RecordedInv
<1> QED BY <1>1, <1>2, RecordedInitially, ProjectionAlways, PTL DEF Spec

=============================================================================
