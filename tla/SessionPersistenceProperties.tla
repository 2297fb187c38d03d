----------------------- MODULE SessionPersistenceProperties -----------------------
(***************************************************************************)
(* What SessionPersistence promises: nothing acknowledged is lost, nothing *)
(* removed comes back, a file is never a mixture, and a clean stop leaves  *)
(* everything on disk.                                                     *)
(***************************************************************************)
EXTENDS SessionPersistence

(* The write of a session that its call awaits: one while it saves.        *)
Places(s) == 1 .. Len(chain[s])
Awaited(s, i) == chain[s][i].by = "call"
Saving == {"create", "edit", "open", "mark", "remove", "same", "revise"}
CallWaits(s) ==
  /\ call[s].op \in Saving <=> \E i \in Places(s): Awaited(s, i)
  /\ \A i, j \in Places(s): Awaited(s, i) /\ Awaited(s, j) => i = j

(* Every variable holds a value the code can hold in it.                   *)
Typed ==
  /\ phase \in Phases
  /\ recovering \subseteq Sessions /\ closing \subseteq Sessions
  /\ reported \in BOOLEAN
  /\ live \in [Sessions -> Session \cup {Nothing}]
  /\ chat \in [Sessions -> Chat]
  /\ busy \subseteq Sessions
  /\ disk \in [Sessions -> Record \cup {Nothing}]
  /\ timer \subseteq Sessions /\ suspended \subseteq Sessions /\ errors \subseteq Sessions
  /\ chain \in [Sessions -> Seq(Write)]
  /\ call \in [Sessions -> [op: Ops, next: Session \cup {Nothing}]]
  /\ acked \in [Sessions -> Session \cup {Nothing}]
  /\ removed \subseteq Sessions
  /\ failures \in Nat /\ crashes \in Nat

(* The variables are typed, and a call waits for exactly the write it      *)
(* asked for.                                                              *)
TypeOK == Typed /\ \A s \in Sessions: CallWaits(s)

(* What a call acknowledged is on disk from then on, crashes included: no  *)
(* flush that waited behind its save may put an older session back.        *)
(* (When a review was last opened is not covered: the caller of that save  *)
(* goes on one step later than the others, after such a flush has read.)   *)
AtLeast(session, old) ==
  old # Nothing =>
    /\ session # Nothing
    /\ session.rev >= old.rev /\ session.edits >= old.edits
    /\ old.marked => session.marked

Survives(s) ==
  /\ acked[s] # Nothing => disk[s] # Nothing
  /\ disk[s] # Nothing => AtLeast(disk[s].session, acked[s])

AckedSurvives == \A s \in Sessions: Survives(s)

(* A review whose removal was acknowledged never comes back, whatever was  *)
(* waiting to be written when it was removed.                              *)
RemovedStaysRemoved ==
  \A s \in removed: disk[s] = Nothing /\ live[s] = Nothing

(* A file never pairs the session of one revision with the chat of another *)
(* one: a restart would continue a chat about a diff that is gone.         *)
Paired(s) == disk[s] # Nothing => disk[s].session.rev = disk[s].chat.rev
RevisionsPaired == \A s \in Sessions: Paired(s)

(* A shutdown that reports no error has written all there was: the session *)
(* and the chat in memory are those on disk and nothing is being written.  *)
CleanStopIsComplete ==
  phase = "closed" /\ ~reported =>
    \A s \in Sessions:
      /\ chain[s] = <<>>
      /\ disk[s] = IF live[s] = Nothing THEN Nothing
                   ELSE [session |-> live[s], chat |-> chat[s]]

(* While a refresh prepares the next revision, the file stays as it was,   *)
(* so that a refresh that fails leaves the previous review unchanged.      *)
StillWhileRefreshing ==
  [][\A s \in Sessions: call[s].op = "prepare" => disk'[s] = disk[s]]_vars

(* What was scheduled reaches the disk without being asked again, unless a *)
(* write failed, the daemon stopped, or a refresh cancelled the timer.     *)
Unsaved(s) == live[s] # Nothing /\ disk[s] # [session |-> live[s], chat |-> chat[s]]
MemoryReachesDisk ==
  \A s \in Sessions:
    (phase = "ready" /\ s \in timer) ~>
      (~Unsaved(s) \/ failures > 0 \/ phase # "ready" \/ call[s].op = "suspend")

(* A stop that was begun ends, whatever was under way when it came.        *)
StopEnds == phase = "stopping" ~> phase \in {"closed", "down"}

(* What was answered stays so across kills: saved edits are saved, removed *)
(* sessions are removed (persistence.ts:116); and the variables are typed. *)
AnswersSurvive == TypeOK /\ AckedSurvives /\ RemovedStaysRemoved

(* A file is never half of something: not of two revisions, and after a    *)
(* clean stop not of an earlier state (refresh-service.ts:120,             *)
(* persistence.ts:96-108).                                                 *)
FilesAreWhole == RevisionsPaired /\ CleanStopIsComplete

(* Writes happen when they must and only then: none while a refresh is     *)
(* prepared, the scheduled ones in the end, and all before a stop ends.    *)
WritesInTime == StillWhileRefreshing /\ MemoryReachesDisk /\ StopEnds

(***************************************************************************)
(* Strengthenings: what makes these inductive.                             *)
(***************************************************************************)
(* A daemon that is down has no memory; one that stops has no call once    *)
(* they are drained, and no turn and no timer once it flushes.             *)
PhaseInv(s) ==
  /\ phase = "down" => /\ live[s] = Nothing /\ call[s].op = "none" /\ chain[s] = <<>>
                       /\ s \notin busy /\ s \notin timer
  /\ phase \in {"chats", "flushing", "closed"} => call[s].op = "none"
  /\ phase \in {"flushing", "closed"} => s \notin busy /\ s \notin timer

(* The registry knows what is on disk, and at least what was answered; its *)
(* chat is of its revision.                                                *)
MemoryInv(s) ==
  /\ phase # "down" => /\ live[s] = Nothing <=> disk[s] = Nothing
                       /\ AtLeast(live[s], acked[s])
  /\ live[s] # Nothing => live[s].rev = chat[s].rev
  /\ live[s] = Nothing => s \notin busy /\ s \notin timer
  /\ live[s] = Nothing /\ s \notin removed => chat[s].rev = 0
  /\ s \in removed =>
       disk[s] = Nothing /\ live[s] = Nothing /\ acked[s] = Nothing /\ call[s].op = "none"

(* What a call is about to save continues what is registered.              *)
Follows(op, next, session) ==
  /\ op \in {"create", "none"} \/ session # Nothing
  /\ op = "create" => session = Nothing /\ next = Created
  /\ op \in {"edit", "open", "mark", "same", "revise"} =>
       /\ next # Nothing /\ AtLeast(next, session)
       /\ next.rev = session.rev + (IF op = "revise" THEN 1 ELSE 0)
  /\ op = "open" => next.edits = session.edits /\ next.marked = session.marked
CallInv(s) ==
  /\ Follows(call[s].op, call[s].next, live[s])
  /\ Gated(s) => s \notin busy
  /\ Gated(s) /\ call[s].op # "clean" => s \notin timer
  /\ call[s].op = "prepare" => chain[s] = <<>>
  /\ call[s].op \in {"mark", "remove", "revise"} => Awaited(s, Len(chain[s]))

(* A write in the chain is the call's, a flush of a session there is, or   *)
(* the second removal of one that is removed.  The one that runs pairs the *)
(* revisions and takes nothing back.                                       *)
WriteInv(s, w) ==
  CASE w.by = "call" ->
         /\ w.kind = CASE call[s].op = "remove" -> "remove"
                    [] call[s].op = "revise" -> "revision"
                    [] OTHER                 -> "save"
         /\ w.kind # "remove" => w.session = call[s].next
         /\ w.kind = "revision" => w.session.rev = w.chat.rev
    [] w.by = "event" -> w.kind = "remove" /\ s \in removed
    [] OTHER -> w.kind = "flush" /\ live[s] # Nothing
RunningInv(s, w) ==
  w.kind # "remove" => /\ w.session # Nothing /\ w.session.rev = w.chat.rev
                       /\ AtLeast(w.session, acked[s])
ChainInv(s) ==
  /\ \A i \in Places(s): WriteInv(s, chain[s][i])
  /\ chain[s] # <<>> => RunningInv(s, chain[s][1])

(* The flush of the closing daemon is the last write of its session, and   *)
(* writes what is in memory.                                               *)
FlushInv(s) ==
  /\ \A i \in Places(s):
       chain[s][i].by = "close" => i = Len(chain[s]) /\ phase \in {"flushing", "closed"}
  /\ phase = "flushing" \/ (phase = "closed" /\ ~reported) =>
       IF live[s] = Nothing THEN s \notin closing
       ELSE \/ /\ s \in closing /\ chain[s] # <<>> /\ chain[s][Len(chain[s])].by = "close"
               /\ Len(chain[s]) = 1 => /\ chain[s][1].session = live[s]
                                     /\ chain[s][1].chat = chat[s]
            \/ /\ s \notin closing /\ chain[s] = <<>>
               /\ disk[s] = [session |-> live[s], chat |-> chat[s]]
  /\ phase = "closed" /\ ~reported => s \notin closing /\ chain[s] = <<>>

SessionInv(s) ==
  /\ CallWaits(s) /\ Survives(s) /\ Paired(s)
  /\ PhaseInv(s) /\ MemoryInv(s) /\ CallInv(s) /\ ChainInv(s) /\ FlushInv(s)

PersistenceInv == Typed /\ \A s \in Sessions: SessionInv(s)
=============================================================================
