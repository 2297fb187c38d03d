---------------------- MODULE ConfigProjectionProperties ----------------------
(***************************************************************************)
(* What projecting the base's configuration should guarantee.              *)
(***************************************************************************)
EXTENDS ConfigProjection

Operations ==
  [for: {"none", "stale", "acquire", "undo", "release", "recover"},
   at: {"none", "verify", "prepare", "project", "activate", "check", "look", "put"},
   todo: SUBSET Files, next: SUBSET Files, conflicts: SUBSET Files]

(* Every variable keeps its type.                                          *)
TypeOK ==
  /\ daemon \in {"down", "recovering", "up"}
  /\ current \in exists /\ exists \subseteq Worktrees
  /\ file \in [Worktrees -> [Files -> {"head", "base"} \cup Edits]]
  /\ manifest \in Manifests
  /\ counted \subseteq Worktrees /\ active \in [Worktrees -> 0..MaxLeases]
  /\ held \in [Worktrees -> 0..MaxLeases]
  /\ op \in [Worktrees -> Operations]
  /\ edited \subseteq Worktrees \X Files
  /\ edits \in 0..MaxEdits /\ faults \in 0..MaxFaults /\ crashes \in 0..MaxCrashes

(* While an agent holds a lease it runs with the base's configuration,     *)
(* whoever else acquires or releases; only the user may change that.       *)
BaseWhileHeld ==
  \A w \in Worktrees : held[w] > 0 =>
    \A f \in Files : file[w][f] = "base" \/ <<w, f>> \in edited

(* A worktree that holds projected content has the manifest that lets a    *)
(* restart restore it ("keep the manifest", DESIGN.md:672).  The code      *)
(* breaks it after a refresh: the manifest is named by the session.        *)
ProjectedIsRecorded ==
  \A w \in exists : \A f \in Files : file[w][f] = "base" => Stale(w)

(* The worktree of the review always has it, at whichever step acquire,    *)
(* release or recover fails or is cut short.                               *)
CurrentIsRecorded == \A f \in Files : file[current][f] = "base" => Stale(current)

(* A worktree refuses further leases until a restart only after an edit or *)
(* a fault: leases and crashes alone never block it.                       *)
BlockedForCause ==
  edits = 0 /\ faults = 0 =>
    \A w \in Worktrees : w \in counted /\ active[w] = 0 => op[w].for = "release"

(* The daemon never overwrites or removes what the user wrote.             *)
KeepsUserEdits ==
  \A w \in exists, f \in Files :
    file[w][f] \in Edits /\ w \in exists' /\ file'[w][f] # file[w][f] => edits' # edits

UserEditsSurvive == [][KeepsUserEdits]_vars

(***************************************************************************)
(* The inductive strengthenings.                                           *)
(***************************************************************************)
(* What an operation knows at its awaits.                                  *)
OperationInv ==
  \A w \in Worktrees :
    /\ op[w].for = "none" <=> op[w].at = "none"
    /\ op[w].at \notin {"none", "verify", "check"} \/ op[w].for = "release" => w \in exists
    /\ op[w].at \in {"verify", "prepare", "project", "activate"} => op[w].for = "acquire"
    /\ op[w].at \in {"verify", "prepare"} => op[w].todo = Files
    /\ op[w].at = "activate" => op[w].todo = {}
    /\ op[w].at \in {"project", "activate"} =>
         \A f \in Files \ op[w].todo : file[w][f] = "base" \/ <<w, f>> \in edited

(* The count is right, and no operation runs under a lease.                *)
LeaseInv ==
  \A w \in Worktrees :
    /\ active[w] = held[w]
    /\ held[w] > 0 => w \in counted /\ w \in exists /\ op[w].for = "none"
    /\ daemon = "down" => held[w] = 0 /\ op[w].for = "none"

(* As long as the user wrote nothing there is nothing to conflict with.    *)
ConflictInv ==
  edits = 0 => \A w \in Worktrees :
    op[w].conflicts = {} /\ \A f \in Files : file[w][f] \in {"head", "base"}

(* What is about to be written over is not the user's.                     *)
WindowInv ==
  ~EditsRace => \A w \in Worktrees :
    /\ op[w].at \in {"prepare", "project"} => \A f \in op[w].todo : file[w][f] = "head"
    /\ op[w].at = "put" => \A f \in op[w].next : file[w][f] = "base"

(* Which files an operation has yet to look at, and which one it writes.   *)
ProgressInv ==
  \A w \in Worktrees :
    /\ op[w].for = "acquire" => op[w].at \in {"verify", "prepare", "project", "activate"}
    /\ op[w].at = "check" => op[w].todo = Files
    /\ op[w].at # "put" => op[w].next = {}
    /\ \A f, g \in op[w].next : f = g

(* What runs has its manifest from before it writes until it has looked at *)
(* every file again; only the recovery runs outside the review's worktree. *)
RecordedInv ==
  /\ CurrentIsRecorded
  /\ counted \subseteq {current}
  /\ \A w \in Worktrees :
       /\ held[w] > 0 => Stale(w)
       /\ op[w].for # "none" =>
            IF daemon = "recovering" THEN op[w].for = "recover"
                                     ELSE w = current /\ op[w].for # "recover"
       /\ op[w].for \notin {"none", "acquire"} \/ op[w].at \in {"project", "activate"} => Stale(w)
       /\ op[w].at \in {"look", "put"} =>
            \A f \in Files \ (op[w].todo \cup op[w].next) : file[w][f] # "base"

ProjectionInv ==
  TypeOK /\ OperationInv /\ LeaseInv /\ BaseWhileHeld /\ ConflictInv /\ BlockedForCause
=============================================================================
