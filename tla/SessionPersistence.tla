--------------------------- MODULE SessionPersistence ---------------------------
(***************************************************************************)
(* What reaches the disk and when (sessions/persistence.ts, store.ts), with *)
(* the callers that save through it and the start and stop of the daemon   *)
(* around it (server.ts, lifecycle/state.ts).                              *)
(*                                                                         *)
(* Every session has one chain of writes.  A write is requested by a call  *)
(* (an HTTP operation that awaits it), by a timer an event armed, by the   *)
(* event of a removal, or by the closing daemon.  What a flush writes is   *)
(* read when the write starts, not when it is requested.                   *)
(*                                                                         *)
(* A session is its review revision and counters of what operations did to *)
(* it; a chat is the revision it belongs to and a count of its events.     *)
(***************************************************************************)
EXTENDS Naturals, Sequences, FiniteSets

CONSTANTS
  Sessions,      (* ids of sessions                                        *)
  Nothing,       (* no session, no record                                  *)
  MaxEdits,      (* bound: edits, and openings, of a session               *)
  MaxRevision,   (* bound: refreshes of a session                          *)
  MaxEvents,     (* bound: events of a chat                                *)
  MaxFailures,   (* bound: failed writes                                   *)
  MaxCrashes     (* bound: crashes                                         *)

ASSUME PersistenceBoundsAssumption ==
  /\ MaxEdits \in Nat /\ MaxRevision \in Nat /\ MaxEvents \in Nat
  /\ MaxFailures \in Nat /\ MaxCrashes \in Nat

VARIABLES
  phase,      (* of the daemon: "down", "starting", "ready", "stopping",   *)
              (* "chats", "flushing" or "closed"                           *)
  recovering, (* marked sessions whose deletion the start has yet to retry *)
  live,       (* SessionRegistry                                           *)
  chat,       (* the exported state of every chat                          *)
  busy,       (* sessions whose chat has an active turn                    *)
  disk,       (* the session files                                         *)
  timer,      (* #timers                                                   *)
  suspended,  (* #suspended                                                *)
  errors,     (* #errors                                                   *)
  chain,      (* #writes: the head runs, the others wait for it            *)
  call,       (* the operation that holds the session's mutation queue     *)
  closing,    (* sessions whose flush the closing daemon awaits            *)
  reported,   (* the close reported an error                               *)
  acked,      (* history: the session the last acknowledged call left      *)
  removed,    (* history: sessions whose removal was acknowledged          *)
  failures,   (* failed writes so far                                      *)
  crashes     (* crashes so far                                            *)

daemon == <<phase, recovering, closing, reported>>
memory == <<live, chat, busy>>
history == <<acked, removed>>
counts == <<failures, crashes>>
vars == <<daemon, memory, disk, timer, suspended, errors, chain, call, history, counts>>

Session == [rev: Nat, edits: Nat, opened: Nat, marked: BOOLEAN]
Chat == [rev: Nat, events: Nat]
Record == [session: Session, chat: Chat]
ASSUME PersistenceSentinelAssumption == Nothing \notin Session \cup Record

Created == [rev |-> 0, edits |-> 0, opened |-> 0, marked |-> FALSE]
NoChat == [rev |-> 0, events |-> 0]

Phases == {"down", "starting", "ready", "stopping", "chats", "flushing", "closed"}
Kinds == {"save", "flush", "revision", "remove"}
Callers == {"call", "timer", "event", "close"}
Write == [kind: Kinds, by: Callers, session: Session \cup {Nothing}, chat: Chat]
Ops == {"none", "create", "edit", "open", "mark", "clean", "remove",
        "suspend", "prepare", "same", "revise"}
NoCall == [op |-> "none", next |-> Nothing]

Init ==
  /\ phase = "ready" /\ recovering = {} /\ closing = {} /\ reported = FALSE
  /\ live = [s \in Sessions |-> Nothing]
  /\ chat = [s \in Sessions |-> NoChat]
  /\ busy = {}
  /\ disk = [s \in Sessions |-> Nothing]
  /\ timer = {} /\ suspended = {} /\ errors = {}
  /\ chain = [s \in Sessions |-> <<>>]
  /\ call = [s \in Sessions |-> NoCall]
  /\ acked = [s \in Sessions |-> Nothing] /\ removed = {}
  /\ failures = 0 /\ crashes = 0

(***************************************************************************)
(* The chain of writes.                                                    *)
(***************************************************************************)
(* What a write needs of the memory is read when it starts.                *)
Started(w, session, dialogue) ==
  CASE w.kind = "flush" -> [w EXCEPT !.session = session, !.chat = dialogue]
    [] w.kind = "save"  -> [w EXCEPT !.chat = dialogue]
    [] OTHER            -> w

Enqueued(queue, w, s) ==
  IF queue = <<>> THEN <<Started(w, live[s], chat[s])>> ELSE Append(queue, w)
Enqueue(w, s) == chain' = [chain EXCEPT ![s] = Enqueued(@, w, s)]

Flush(by) == [kind |-> "flush", by |-> by, session |-> Nothing, chat |-> NoChat]
Save(session) == [kind |-> "save", by |-> "call", session |-> session, chat |-> NoChat]
(* Slip: the next revision is saved with the chat of this one.             *)
RevisionAsSave(session, dialogue) == Save(session)

Revision(session, dialogue) ==
  [kind |-> "revision", by |-> "call", session |-> session, chat |-> dialogue]
Remove(by) == [kind |-> "remove", by |-> by, session |-> Nothing, chat |-> NoChat]

(* The file is replaced by a rename, so it is the old one or the new one.  *)
Stored(w, old) ==
  CASE w.kind = "remove" -> Nothing
    [] w.kind # "remove" /\ w.session = Nothing -> old
    [] OTHER -> [session |-> w.session, chat |-> w.chat]

(* The listener of the event bus: the close unsubscribes it.               *)
Subscribed == phase \notin {"down", "flushing", "closed"}
Scheduled(s) == IF Subscribed /\ s \notin suspended THEN timer \cup {s} ELSE timer

TimerFires(s) ==
  /\ s \in timer
  /\ timer' = timer \ {s}
  /\ Enqueue(Flush("timer"), s)
  /\ UNCHANGED <<daemon, memory, disk, suspended, errors, call, history, counts>>

(***************************************************************************)
(* Calls.  Those of one session are serialised by its mutation queue.      *)
(***************************************************************************)
(* DaemonLifecycle.#mutate refuses them unless the daemon is ready; the    *)
(* start itself reconciles submissions, which are edits.                   *)
Free(s) == call[s].op = "none"
Draft(s) == live[s] # Nothing /\ ~live[s].marked
Gated(s) == call[s].op \in {"mark", "clean", "remove", "suspend", "prepare", "same", "revise"}

Call(s, op, next) == call' = [call EXCEPT ![s] = [op |-> op, next |-> next]]

(* SessionPersistence.save                                                 *)
SaveFor(s, op, next) ==
  /\ Call(s, op, next)
  /\ timer' = timer \ {s}
  /\ Enqueue(Save(next), s)

(* OpenReviewService.open: the review is saved before it is registered.    *)
Create(s) ==
  /\ phase = "ready" /\ Free(s)
  /\ live[s] = Nothing /\ disk[s] = Nothing /\ s \notin removed
  /\ SaveFor(s, "create", Created)
  /\ UNCHANGED <<daemon, memory, disk, suspended, errors, history, counts>>

(* Comments and submissions: save, then replace.                           *)
Edit(s) ==
  /\ \/ phase = "ready"
     \/ phase = "starting" /\ recovering = {} /\ \A t \in Sessions: Free(t)
  /\ Free(s) /\ Draft(s)
  /\ live[s].edits < MaxEdits
  /\ SaveFor(s, "edit", [live[s] EXCEPT !.edits = @ + 1])
  /\ UNCHANGED <<daemon, memory, disk, suspended, errors, history, counts>>

(* SessionManagementService.open                                           *)
Open(s) ==
  /\ phase = "ready" /\ Free(s) /\ Draft(s)
  /\ live[s].opened < MaxEdits
  /\ SaveFor(s, "open", [live[s] EXCEPT !.opened = @ + 1])
  /\ UNCHANGED <<daemon, memory, disk, suspended, errors, history, counts>>

(* SessionManagementService.deleteArchived: the intent is saved first.     *)
Delete(s) ==
  /\ \/ phase = "ready"
     \/ phase = "starting" /\ s \in recovering /\ \A t \in Sessions: Free(t)
  /\ recovering' = recovering \ {s}
  /\ Free(s) /\ live[s] # Nothing /\ s \notin busy
  /\ IF live[s].marked
     THEN Call(s, "clean", Nothing) /\ UNCHANGED <<timer, chain>>
     ELSE SaveFor(s, "mark", [live[s] EXCEPT !.marked = TRUE])
  /\ UNCHANGED <<phase, closing, reported, memory, disk, suspended, errors,
                 history, counts>>

(* Slip: the file is removed beside the chain, during a write under way.   *)
WorktreeRemovedBeside(s) ==
  /\ call[s].op = "clean"
  /\ Call(s, "remove", Nothing)
  /\ timer' = timer \ {s}
  /\ chain' = [chain EXCEPT ![s] =
       <<Remove("call")>> \o [i \in DOMAIN @ |-> [@[i] EXCEPT !.kind = "revision"]]]
  /\ UNCHANGED <<daemon, memory, disk, suspended, errors, history, counts>>

(* The worktree is removed, then the file; or it is in use and stays.      *)
WorktreeRemoved(s) ==
  /\ call[s].op = "clean"
  /\ Call(s, "remove", Nothing)
  /\ timer' = timer \ {s}
  /\ Enqueue(Remove("call"), s)
  /\ UNCHANGED <<daemon, memory, disk, suspended, errors, history, counts>>

WorktreeKept(s) ==
  /\ call[s].op = "clean"
  /\ call' = [call EXCEPT ![s] = NoCall]
  /\ UNCHANGED <<daemon, memory, disk, timer, suspended, errors, chain, history, counts>>

(* ReviewRefreshService.refresh: suspend, then wait for the writes there   *)
(* are.                                                                    *)
Refresh(s) ==
  /\ phase = "ready" /\ Free(s) /\ Draft(s) /\ s \notin busy
  /\ live[s].rev < MaxRevision
  /\ suspended' = suspended \cup {s}
  /\ timer' = timer \ {s}
  /\ Call(s, "suspend", Nothing)
  /\ UNCHANGED <<daemon, memory, disk, errors, chain, history, counts>>

(* Slip: the refresh does not wait for a write under way.                  *)
SuspendedAtOnce(s) ==
  /\ call[s].op = "suspend"
  /\ Call(s, "prepare", Nothing)
  /\ UNCHANGED <<daemon, memory, disk, timer, suspended, errors, chain, history, counts>>

Suspended(s) ==
  /\ call[s].op = "suspend" /\ chain[s] = <<>>
  /\ Call(s, "prepare", Nothing)
  /\ UNCHANGED <<daemon, memory, disk, timer, suspended, errors, chain, history, counts>>

(* The pull request did not move: only its title and base are saved.       *)
SaveUnchanged(s) ==
  /\ call[s].op = "prepare"
  /\ live[s].edits < MaxEdits
  /\ SaveFor(s, "same", [live[s] EXCEPT !.edits = @ + 1])
  /\ UNCHANGED <<daemon, memory, disk, suspended, errors, history, counts>>

NextRevision(s) == [live[s] EXCEPT !.rev = @ + 1]
NextChat(s) == [chat[s] EXCEPT !.rev = @ + 1]

(* SessionPersistence.saveRevision: the session and its chat in one file.  *)
SaveRevision(s) ==
  /\ call[s].op = "prepare"
  /\ Call(s, "revise", NextRevision(s))
  /\ Enqueue(Revision(NextRevision(s), NextChat(s)), s)
  /\ UNCHANGED <<daemon, memory, disk, timer, suspended, errors, history, counts>>

RefreshFails(s) ==
  /\ call[s].op = "prepare"
  /\ call' = [call EXCEPT ![s] = NoCall]
  /\ suspended' = suspended \ {s}
  /\ UNCHANGED <<daemon, memory, disk, timer, errors, chain, history, counts>>

(***************************************************************************)
(* The end of the write at the head of a chain.                            *)
(***************************************************************************)
(* A caller that awaits the save itself goes on before the next write      *)
(* starts; one that awaits save(...).catch(...) goes on after it has read. *)
Direct(op) == op \in {"create", "edit", "same", "remove"}

Committed(s) == IF call[s].op = "remove" THEN Nothing ELSE call[s].next
Visible(s, w) == IF w.by = "call" /\ Direct(call[s].op) THEN Committed(s) ELSE live[s]

Rest(s, session) ==
  LET rest == Tail(chain[s]) IN
  IF rest = <<>> THEN <<>> ELSE <<Started(Head(rest), session, chat[s])>> \o Tail(rest)

(* A removal from the registry enqueues another removal of the file.       *)
WithRemoval(queue) == Append(queue, Remove("event"))

CallReturns(s) ==
  /\ live' = [live EXCEPT ![s] = Committed(s)]
  /\ chat' = IF call[s].op = "revise" THEN [chat EXCEPT ![s] = NextChat(s)] ELSE chat
  /\ call' = [call EXCEPT ![s] = IF @.op = "mark" THEN [op |-> "clean", next |-> Nothing]
                                 ELSE NoCall]
  /\ suspended' = suspended \ {s}
  /\ timer' = IF call[s].op = "remove" THEN timer \ {s}
              ELSE IF Subscribed THEN timer \cup {s} ELSE timer
  /\ acked' = [acked EXCEPT ![s] = Committed(s)]
  /\ removed' = IF call[s].op = "remove" THEN removed \cup {s} ELSE removed
  /\ errors' = errors \ {s}
  /\ chain' = [chain EXCEPT ![s] =
       IF call[s].op = "remove" THEN WithRemoval(Rest(s, Visible(s, Head(@))))
                                ELSE Rest(s, Visible(s, Head(@)))]
  /\ UNCHANGED <<daemon, busy, counts>>

WriteDone(s) ==
  /\ chain[s] # <<>>
  /\ LET w == Head(chain[s]) IN
     /\ disk' = [disk EXCEPT ![s] = Stored(w, @)]
     /\ \/ w.by = "call" /\ CallReturns(s)
        \/ /\ w.by # "call"
           /\ errors' = errors \ {s}
           /\ closing' = IF w.by = "close" THEN closing \ {s} ELSE closing
           /\ chain' = [chain EXCEPT ![s] = Rest(s, live[s])]
           /\ UNCHANGED <<phase, recovering, reported, memory, timer, suspended, call,
                          history, counts>>

(* A failed write leaves the file.  A call reports it to its caller; what  *)
(* a timer or an event began is recorded; the close gives up at once.      *)
WriteFails(s) ==
  /\ failures < MaxFailures /\ chain[s] # <<>>
  /\ failures' = failures + 1
  /\ chain' = [chain EXCEPT ![s] = Rest(s, live[s])]
  /\ LET w == Head(chain[s]) IN
     \/ /\ w.by = "call"
        /\ call' = [call EXCEPT ![s] = NoCall]
        /\ suspended' = suspended \ {s}
        /\ UNCHANGED <<errors, phase, closing, reported>>
     \/ /\ w.by \in {"timer", "event"}
        /\ errors' = errors \cup {s}
        /\ UNCHANGED <<call, suspended, phase, closing, reported>>
     \/ /\ w.by = "close"
        /\ phase' = "closed" /\ reported' = TRUE /\ closing' = {}
        /\ UNCHANGED <<call, suspended, errors>>
  /\ UNCHANGED <<recovering, memory, disk, timer, history, crashes>>

(***************************************************************************)
(* Chats: a turn publishes events.                                         *)
(***************************************************************************)
Publish(s) ==
  /\ chat' = [chat EXCEPT ![s].events = @ + 1]
  /\ timer' = Scheduled(s)

BeginTurn(s) ==
  /\ phase = "ready" /\ Draft(s) /\ ~Gated(s) /\ s \notin busy
  /\ chat[s].events < MaxEvents
  /\ busy' = busy \cup {s}
  /\ Publish(s)
  /\ UNCHANGED <<daemon, live, disk, suspended, errors, chain, call, history, counts>>

ChatEvent(s) ==
  /\ s \in busy /\ chat[s].events < MaxEvents
  /\ Publish(s)
  /\ UNCHANGED <<daemon, live, busy, disk, suspended, errors, chain, call, history, counts>>

EndTurn(s) ==
  /\ s \in busy
  /\ busy' = busy \ {s}
  /\ Publish(s)
  /\ UNCHANGED <<daemon, live, disk, suspended, errors, chain, call, history, counts>>

(***************************************************************************)
(* The daemon.                                                             *)
(***************************************************************************)
(* restore loads every file while the listener ignores events; the         *)
(* deletions that were requested are then retried.                         *)
Start ==
  /\ phase = "down"
  /\ phase' = "starting"
  /\ live' = [s \in Sessions |-> IF disk[s] = Nothing THEN Nothing ELSE disk[s].session]
  /\ chat' = [s \in Sessions |-> IF disk[s] = Nothing THEN NoChat ELSE disk[s].chat]
  /\ recovering' = {s \in Sessions: disk[s] # Nothing /\ disk[s].session.marked}
  /\ closing' = {} /\ reported' = FALSE
  /\ UNCHANGED <<busy, disk, timer, suspended, errors, chain, call, history, counts>>

Ready ==
  /\ phase = "starting" /\ recovering = {}
  /\ \A s \in Sessions: Free(s)
  /\ phase' = "ready"
  /\ UNCHANGED <<recovering, closing, reported, memory, disk, timer, suspended, errors,
                 chain, call, history, counts>>

(* DaemonLifecycle.drain                                                   *)
Stop ==
  /\ phase = "ready"
  /\ phase' = "stopping"
  /\ UNCHANGED <<recovering, closing, reported, memory, disk, timer, suspended, errors,
                 chain, call, history, counts>>

Drained ==
  /\ phase = "stopping"
  /\ \A s \in Sessions: Free(s)
  /\ phase' = "chats"
  /\ UNCHANGED <<recovering, closing, reported, memory, disk, timer, suspended, errors,
                 chain, call, history, counts>>

(* Once the chats are closed: SessionPersistence.close                     *)
ToFlush == timer \cup {s \in Sessions: live[s] # Nothing}

Close ==
  /\ phase = "chats" /\ busy = {}
  /\ phase' = "flushing"
  /\ timer' = {}
  /\ closing' = ToFlush
  /\ chain' = [s \in Sessions |->
       IF s \in ToFlush THEN Enqueued(chain[s], Flush("close"), s) ELSE chain[s]]
  /\ UNCHANGED <<recovering, reported, memory, disk, suspended, errors, call, history, counts>>

Closed ==
  /\ phase = "flushing" /\ closing = {}
  /\ \A s \in Sessions: chain[s] = <<>>
  /\ phase' = "closed"
  /\ reported' = (errors # {})
  /\ UNCHANGED <<recovering, closing, memory, disk, timer, suspended, errors, chain, call,
                 history, counts>>

(* Nothing of the memory survives the process.                             *)
Forget ==
  /\ phase' = "down" /\ recovering' = {} /\ closing' = {} /\ reported' = FALSE
  /\ live' = [s \in Sessions |-> Nothing]
  /\ chat' = [s \in Sessions |-> NoChat]
  /\ busy' = {} /\ timer' = {} /\ suspended' = {} /\ errors' = {}
  /\ chain' = [s \in Sessions |-> <<>>]
  /\ call' = [s \in Sessions |-> NoCall]
  /\ UNCHANGED <<disk, history, failures>>

Exit ==
  /\ phase = "closed"
  /\ \A s \in Sessions: chain[s] = <<>>
  /\ Forget /\ UNCHANGED crashes

Crash ==
  /\ phase # "down" /\ crashes < MaxCrashes
  /\ crashes' = crashes + 1
  /\ Forget

Calls(s) ==
  \/ Create(s) \/ Edit(s) \/ Open(s) \/ Delete(s) \/ Refresh(s)
Steps(s) ==
  \/ WorktreeRemoved(s) \/ WorktreeKept(s)
  \/ Suspended(s) \/ SaveUnchanged(s) \/ SaveRevision(s) \/ RefreshFails(s)
Chats(s) == BeginTurn(s) \/ ChatEvent(s) \/ EndTurn(s)
Daemon == Start \/ Ready \/ Stop \/ Drained \/ Close \/ Closed \/ Exit \/ Crash

Next ==
  \/ \E s \in Sessions: Calls(s) \/ Steps(s) \/ Chats(s)
                        \/ TimerFires(s) \/ WriteDone(s) \/ WriteFails(s)
  \/ Daemon

Spec == Init /\ [][Next]_vars

(* Timers fire, writes and the I/O of a call end, turns end once the chats *)
(* are closed, and the stop goes on when what it awaits is there.          *)
FairSpec ==
  /\ Spec
  /\ \A s \in Sessions:
       /\ WF_vars(TimerFires(s)) /\ WF_vars(WriteDone(s)) /\ WF_vars(Steps(s))
       /\ WF_vars(phase = "chats" /\ EndTurn(s))
       /\ WF_vars(phase = "starting" /\ Delete(s))
  /\ WF_vars(Ready) /\ WF_vars(Drained) /\ WF_vars(Close) /\ WF_vars(Closed)
=============================================================================
