--------------------------- MODULE ConfigProjection ---------------------------
(***************************************************************************)
(* Agent configuration that a pull request changes is replaced by the      *)
(* base's while an agent runs (worktrees/config-projection.ts).  One       *)
(* review; each refresh gives it another worktree.  Operations on one      *)
(* worktree run one after another; every read and write of a file is a     *)
(* step; the user edits the files, and the daemon is killed, at any time.  *)
(***************************************************************************)
EXTENDS Integers, FiniteSets

CONSTANTS
  Worktrees,    (* the worktrees of the review                             *)
  Files,        (* protected paths, all different in base and head         *)
  Edits,        (* contents the user writes                                *)
  MaxLeases,    (* bound: leases held at once                              *)
  MaxEdits,     (* bound: edits of the user                                *)
  MaxFaults,    (* bound: failing git commands or file operations          *)
  MaxCrashes,   (* bound: kills of the daemon                              *)
  EditsRace     (* the user may also write between a check and its write   *)

ASSUME EditsAssumption == Edits \cap {"head", "base"} = {}
ASSUME ProjectionBoundsAssumption ==
  /\ MaxLeases \in Nat \ {0} /\ MaxEdits \in Nat /\ MaxFaults \in Nat
  /\ MaxCrashes \in Nat /\ EditsRace \in BOOLEAN

NoManifest == [status |-> "none"]
Manifests == {NoManifest} \cup [status: {"preparing", "active"}, worktree: Worktrees]

VARIABLES
  daemon,     (* "down", "recovering" or "up"                              *)
  current,    (* the worktree of the review                                *)
  exists,     (* worktrees that exist                                      *)
  file,       (* what each protected file of a worktree holds              *)
  manifest,   (* the manifest file of the review                           *)
  counted,    (* worktrees that have an entry in #active                   *)
  active,     (* the leases counted there                                  *)
  held,       (* leases handed out and not yet released                    *)
  op,         (* the operation that runs on a worktree                     *)
  edited,     (* history: files last written by the user                   *)
  edits, faults, crashes

vars == <<daemon, current, exists, file, manifest, counted, active, held, op,
          edited, edits, faults, crashes>>
Bounds == <<edits, faults, crashes>>

(* An operation: what it is for, the await it is suspended at, the files   *)
(* it has yet to look at, the one it is about to write, and the conflicts. *)
Idle == [for |-> "none", at |-> "none", todo |-> {}, next |-> {}, conflicts |-> {}]
Start(for, at) == [Idle EXCEPT !.for = for, !.at = at, !.todo = Files]

Init ==
  /\ daemon = "up" /\ current \in Worktrees /\ exists = {current}
  /\ file = [w \in Worktrees |-> [f \in Files |-> "head"]]
  /\ manifest = NoManifest
  /\ counted = {} /\ active = [w \in Worktrees |-> 0]
  /\ held = [w \in Worktrees |-> 0]
  /\ op = [w \in Worktrees |-> Idle]
  /\ edited = {}
  /\ edits = 0 /\ faults = 0 /\ crashes = 0

Run(w, o) == op' = [op EXCEPT ![w] = o]
Write(w, f, content) ==
  /\ file' = [file EXCEPT ![w][f] = content]
  /\ edited' = edited \ {<<w, f>>}
Fault == faults < MaxFaults /\ faults' = faults + 1 /\ UNCHANGED <<edits, crashes>>

(***************************************************************************)
(* acquire: another lease of what is projected already, a refusal, or the  *)
(* projection.                                                             *)
(***************************************************************************)
Stale(w) == manifest # NoManifest /\ manifest.worktree = w

(* A manifest of this worktree is worked off first.                        *)
Acquire ==
  /\ daemon = "up" /\ op[current].for = "none"
  /\ held[current] < MaxLeases
  /\ IF current \in counted
     THEN /\ active[current] > 0
          /\ active' = [active EXCEPT ![current] = @ + 1]
          /\ held' = [held EXCEPT ![current] = @ + 1]
          /\ UNCHANGED op
     ELSE /\ Run(current, IF Stale(current) THEN Start("stale", "check")
                                            ELSE Start("acquire", "verify"))
          /\ UNCHANGED <<active, held>>
  /\ UNCHANGED <<daemon, current, exists, file, manifest, counted, edited, Bounds>>

(* The worktree is compared with its head.                                 *)
Clean(w) == w \in exists /\ \A f \in Files : file[w][f] = "head"

(* Slip: files are projected first, recorded then.                         *)
VerifyThenProject(w) ==
  /\ op[w].at = "verify"
  /\ Run(w, IF Clean(w) THEN [op[w] EXCEPT !.at = "project"] ELSE Idle)
  /\ UNCHANGED <<daemon, current, exists, file, manifest, counted, active, held, edited, Bounds>>

Verify(w) ==
  /\ op[w].at = "verify"
  /\ Run(w, IF Clean(w) THEN [op[w] EXCEPT !.at = "prepare"] ELSE Idle)
  /\ UNCHANGED <<daemon, current, exists, file, manifest, counted, active, held, edited, Bounds>>

(* The manifest is named by the review, not by the worktree.               *)
WriteManifest(w) ==
  /\ op[w].at \in {"prepare", "activate"}
  /\ IF op[w].at = "prepare"
     THEN /\ manifest' = [status |-> "preparing", worktree |-> w]
          /\ Run(w, [op[w] EXCEPT !.at = "project"])
          /\ UNCHANGED <<counted, active, held>>
     ELSE /\ manifest' = [status |-> "active", worktree |-> w]
          /\ Run(w, Idle)
          /\ counted' = counted \cup {w}
          /\ active' = [active EXCEPT ![w] = 1]
          /\ held' = [held EXCEPT ![w] = @ + 1]
  /\ UNCHANGED <<daemon, current, exists, file, edited, Bounds>>

Project(w) ==
  /\ op[w].at = "project"
  /\ \/ \E f \in op[w].todo :
          /\ Write(w, f, "base")
          /\ Run(w, [op[w] EXCEPT !.todo = @ \ {f}])
     \/ op[w].todo = {} /\ Run(w, [op[w] EXCEPT !.at = "activate"])
        /\ UNCHANGED <<file, edited>>
  /\ UNCHANGED <<daemon, current, exists, manifest, counted, active, held, Bounds>>

(* A failure before the first manifest just throws; a later one undoes.    *)
AcquireFails(w) ==
  /\ op[w].for = "acquire"
  /\ Fault
  /\ Run(w, IF op[w].at \in {"verify", "prepare"} THEN Idle ELSE Start("undo", "check"))
  /\ UNCHANGED <<daemon, current, exists, file, manifest, counted, active, held, edited>>

(***************************************************************************)
(* #restore, for a stale manifest, an undone acquire, the last release or  *)
(* the recovery at startup.                                                *)
(***************************************************************************)
(* Slip: any release restores.                                             *)
ReleaseForAll(w) ==
  /\ daemon = "up" /\ op[w].for = "none"
  /\ held[w] > 0
  /\ held' = [held EXCEPT ![w] = @ - 1]
  /\ active' = [active EXCEPT ![w] = @ - 1]
  /\ Run(w, Start("release", "check"))
  /\ UNCHANGED <<daemon, current, exists, file, manifest, counted, edited, Bounds>>

(* Slip: a lease can be released again.                                    *)
ReleaseAgain(w) ==
  /\ daemon = "up" /\ op[w].for = "none"
  /\ w \in counted
  /\ held' = [held EXCEPT ![w] = IF @ = 0 THEN 0 ELSE @ - 1]
  /\ active' = [active EXCEPT ![w] = @ - 1]
  /\ IF active[w] < 2 THEN Run(w, Start("release", "check")) ELSE UNCHANGED op
  /\ UNCHANGED <<daemon, current, exists, file, manifest, counted, edited, Bounds>>

(* A release only counts while others hold the projection.                 *)
Release(w) ==
  /\ daemon = "up" /\ op[w].for = "none"
  /\ held[w] > 0
  /\ held' = [held EXCEPT ![w] = @ - 1]
  /\ active' = [active EXCEPT ![w] = @ - 1]
  /\ IF active[w] = 1 THEN Run(w, Start("release", "check")) ELSE UNCHANGED op
  /\ UNCHANGED <<daemon, current, exists, file, manifest, counted, edited, Bounds>>

(* A worktree that is gone is a failure.                                   *)
CheckWorktree(w) ==
  /\ op[w].at = "check"
  /\ Run(w, IF w \in exists THEN [op[w] EXCEPT !.at = "look"] ELSE Idle)
  /\ daemon' = IF op[w].for = "recover" /\ w \notin exists THEN "up" ELSE daemon
  /\ UNCHANGED <<current, exists, file, manifest, counted, active, held, edited, Bounds>>

(* Slip: what is not head is taken for projected.                          *)
LookAtHead(w, f) ==
  IF file[w][f] = "head" THEN [op[w] EXCEPT !.todo = @ \ {f}]
  ELSE [op[w] EXCEPT !.todo = @ \ {f}, !.next = {f}, !.at = "put"]

(* A file is as in head, as projected, or the user's.                      *)
LookAt(w, f) ==
  IF file[w][f] = "head" THEN [op[w] EXCEPT !.todo = @ \ {f}]
  ELSE IF file[w][f] = "base" THEN [op[w] EXCEPT !.todo = @ \ {f}, !.next = {f}, !.at = "put"]
  ELSE [op[w] EXCEPT !.todo = @ \ {f}, !.conflicts = @ \cup {f}]

Look(w) ==
  /\ op[w].at = "look"
  /\ \E f \in op[w].todo : Run(w, LookAt(w, f))
  /\ UNCHANGED <<daemon, current, exists, file, manifest, counted, active, held, edited, Bounds>>

Put(w) ==
  /\ op[w].at = "put"
  /\ \E f \in op[w].next : Write(w, f, "head")
  /\ Run(w, [op[w] EXCEPT !.next = {}, !.at = "look"])
  /\ UNCHANGED <<daemon, current, exists, manifest, counted, active, held, Bounds>>

(* Something could not be restored: the manifest stays.                    *)
KeepsManifest(w) == op[w].conflicts # {}

(* Slip: the count stays when the projection has ended.                    *)
RestoredStillCounted(w) ==
  /\ op[w].at = "look" /\ op[w].todo = {}
  /\ manifest' = IF KeepsManifest(w) THEN manifest ELSE NoManifest
  /\ Run(w, IF op[w].for = "stale" /\ ~KeepsManifest(w)
            THEN Start("acquire", "verify") ELSE Idle)
  /\ daemon' = IF op[w].for = "recover" THEN "up" ELSE daemon
  /\ UNCHANGED <<current, exists, file, counted, active, held, edited, Bounds>>

Restored(w) ==
  /\ op[w].at = "look" /\ op[w].todo = {}
  /\ manifest' = IF KeepsManifest(w) THEN manifest ELSE NoManifest
  /\ counted' = IF op[w].for = "release" /\ ~KeepsManifest(w)
                THEN counted \ {w} ELSE counted
  /\ Run(w, IF op[w].for = "stale" /\ ~KeepsManifest(w)
            THEN Start("acquire", "verify") ELSE Idle)
  /\ daemon' = IF op[w].for = "recover" THEN "up" ELSE daemon
  /\ UNCHANGED <<current, exists, file, active, held, edited, Bounds>>

RestoreFails(w) ==
  /\ op[w].at \in {"check", "look", "put"}
  /\ Fault
  /\ Run(w, Idle)
  /\ daemon' = IF op[w].for = "recover" THEN "up" ELSE daemon
  /\ UNCHANGED <<current, exists, file, manifest, counted, active, held, edited>>

(***************************************************************************)
(* Around it: the user, a refresh, the daemon.                             *)
(***************************************************************************)
(* A file is between a check and its write.                                *)
InWindow(w, f) ==
  \/ op[w].at \in {"prepare", "project"} /\ f \in op[w].todo
  \/ op[w].at = "put" /\ f \in op[w].next

(* The user writes something else, or what head has.                       *)
UserEdits(w, f) ==
  /\ w \in exists /\ edits < MaxEdits
  /\ EditsRace \/ ~InWindow(w, f)
  /\ \E c \in Edits \cup {"head"} :
       /\ c # file[w][f]
       /\ file' = [file EXCEPT ![w][f] = c]
  /\ edited' = edited \cup {<<w, f>>}
  /\ edits' = edits + 1
  /\ UNCHANGED <<daemon, current, exists, manifest, counted, active, held, op, faults, crashes>>

(* A refresh moves on once the agent is gone and its release went well;    *)
(* the old worktree goes if it is clean, and may stay.                     *)
Refresh ==
  /\ daemon = "up" /\ op[current].for = "none" /\ current \notin counted
  /\ \E w \in Worktrees \ exists :
       /\ ~Stale(w)
       /\ current' = w
       /\ \/ exists' = exists \cup {w}
          \/ Clean(current) /\ exists' = (exists \ {current}) \cup {w}
       /\ file' = [file EXCEPT ![w] = [f \in Files |-> "head"]]
       /\ edited' = {e \in edited : e[1] # w}
  /\ UNCHANGED <<daemon, manifest, counted, active, held, op, Bounds>>

Crash ==
  /\ daemon # "down" /\ crashes < MaxCrashes
  /\ crashes' = crashes + 1
  /\ daemon' = "down"
  /\ counted' = {}
  /\ active' = [w \in Worktrees |-> 0]
  /\ held' = [w \in Worktrees |-> 0]
  /\ op' = [w \in Worktrees |-> Idle]
  /\ UNCHANGED <<current, exists, file, manifest, edited, edits, faults>>

(* recover works off what manifest there is before anything else begins.   *)
Restart ==
  /\ daemon = "down"
  /\ IF manifest = NoManifest
     THEN daemon' = "up" /\ UNCHANGED op
     ELSE daemon' = "recovering" /\ Run(manifest.worktree, Start("recover", "check"))
  /\ UNCHANGED <<current, exists, file, manifest, counted, active, held, edited, Bounds>>

(***************************************************************************)
Step(w) ==
  \/ Verify(w) \/ WriteManifest(w) \/ Project(w)
  \/ CheckWorktree(w) \/ Look(w) \/ Put(w) \/ Restored(w)

Next ==
  \/ Acquire \/ Refresh \/ Crash \/ Restart
  \/ \E w \in Worktrees : Step(w) \/ AcquireFails(w) \/ Release(w) \/ RestoreFails(w)
  \/ \E w \in Worktrees, f \in Files : UserEdits(w, f)

Spec == Init /\ [][Next]_vars
=============================================================================
