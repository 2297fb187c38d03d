------------------------ MODULE SessionPersistence_proofs ------------------------
(***************************************************************************)
(* Proofs of the safety properties of SessionPersistence, for any number   *)
(* of sessions and any bounds.                                             *)
(*                                                                         *)
(* Nothing relates two sessions but the phase of the daemon, so the        *)
(* invariant speaks of one session at a time and every action but those of *)
(* the daemon touches only one (Untouched).  What is in a chain is known   *)
(* by the places of it: what Enqueued and Rest do to them is stated first. *)
(***************************************************************************)
EXTENDS SessionPersistenceProperties, TLAPS

(***************************************************************************)
(* Sessions, and what is at least as new as another one.                   *)
(***************************************************************************)
LEMMA Sentinel == Nothing \notin Session /\ Nothing \notin Record
BY PersistenceSentinelAssumption

LEMMA CreatedTyped == Created \in Session
BY DEF Created, Session

LEMMA AtLeastItself == ASSUME NEW a \in Session PROVE AtLeast(a, a)
BY DEF AtLeast, Session

LEMMA AtLeastTransitive ==
  ASSUME NEW a \in Session \cup {Nothing}, NEW b \in Session \cup {Nothing},
         NEW c \in Session \cup {Nothing}, AtLeast(a, b), AtLeast(b, c)
  PROVE  AtLeast(a, c)
BY Sentinel DEF AtLeast, Session

(***************************************************************************)
(* The chain of writes.                                                    *)
(***************************************************************************)
LEMMA WriteFields ==
  ASSUME NEW w \in Write
  PROVE  /\ w.kind \in Kinds /\ w.by \in Callers
         /\ w.session \in Session \cup {Nothing} /\ w.chat \in Chat
BY DEF Write

(* What a write reads when it starts.                                      *)
LEMMA StartedFacts ==
  ASSUME NEW w \in Write, NEW session \in Session \cup {Nothing}, NEW dialogue \in Chat
  PROVE  /\ Started(w, session, dialogue) \in Write
         /\ Started(w, session, dialogue).kind = w.kind
         /\ Started(w, session, dialogue).by = w.by
         /\ w.kind = "flush" => /\ Started(w, session, dialogue).session = session
                                /\ Started(w, session, dialogue).chat = dialogue
         /\ w.kind = "save" => /\ Started(w, session, dialogue).session = w.session
                               /\ Started(w, session, dialogue).chat = dialogue
         /\ w.kind \notin {"flush", "save"} => Started(w, session, dialogue) = w
BY DEF Started, Write

(* The operators that make writes.                                         *)
LEMMA MadeFacts ==
  /\ \A by \in Callers : /\ Flush(by) \in Write
                         /\ Flush(by).kind = "flush" /\ Flush(by).by = by
                         /\ Remove(by) \in Write
                         /\ Remove(by).kind = "remove" /\ Remove(by).by = by
  /\ \A a \in Session : /\ Save(a) \in Write /\ Save(a).kind = "save"
                        /\ Save(a).by = "call" /\ Save(a).session = a
  /\ \A a \in Session, c \in Chat :
       /\ Revision(a, c) \in Write /\ Revision(a, c).kind = "revision"
       /\ Revision(a, c).by = "call"
       /\ Revision(a, c).session = a /\ Revision(a, c).chat = c
BY DEF Flush, Remove, Save, Revision, Write, Kinds, Callers, NoChat, Chat

LEMMA AppendFacts ==
  ASSUME NEW q \in Seq(Write), NEW w \in Write
  PROVE  /\ Append(q, w) \in Seq(Write) /\ Len(Append(q, w)) = Len(q) + 1
         /\ Append(q, w) # <<>> /\ Append(q, w)[Len(q) + 1] = w
         /\ \A i \in 1 .. Len(q) : Append(q, w)[i] = q[i]
OBVIOUS

LEMMA EnqueuedFacts ==
  ASSUME NEW s \in Sessions, Typed, NEW w \in Write
  PROVE  LET q == Enqueued(chain[s], w, s) IN
           /\ q \in Seq(Write) /\ Len(q) = Len(chain[s]) + 1 /\ q # <<>>
           /\ \A i \in Places(s) : q[i] = chain[s][i]
           /\ q[Len(q)] = IF chain[s] = <<>> THEN Started(w, live[s], chat[s]) ELSE w
<1> chain[s] \in Seq(Write) /\ live[s] \in Session \cup {Nothing} /\ chat[s] \in Chat
  BY DEF Typed
<1>1. CASE chain[s] = <<>>
  BY <1>1, StartedFacts DEF Enqueued, Places
<1>2. CASE chain[s] # <<>>
  <2>1. Enqueued(chain[s], w, s) = Append(chain[s], w)
    BY <1>2 DEF Enqueued
  <2> QED BY <1>2, <2>1, AppendFacts DEF Places
<1> QED BY <1>1, <1>2

LEMMA RestFacts ==
  ASSUME NEW s \in Sessions, Typed, chain[s] # <<>>, NEW session \in Session \cup {Nothing}
  PROVE  LET q == Rest(s, session) IN
           /\ q \in Seq(Write) /\ Len(q) = Len(chain[s]) - 1
           /\ \A i \in 1 .. Len(q) :
                q[i] = IF i = 1 THEN Started(chain[s][2], session, chat[s]) ELSE chain[s][i + 1]
<1> chain[s] \in Seq(Write) /\ chat[s] \in Chat
  BY DEF Typed
<1> DEFINE rest == Tail(chain[s])
<1>1. /\ rest \in Seq(Write) /\ Len(rest) = Len(chain[s]) - 1
      /\ \A i \in 1 .. Len(rest) : rest[i] = chain[s][i + 1]
  OBVIOUS
<1>2. CASE rest = <<>>
  <2>1. Rest(s, session) = <<>>
    BY <1>2 DEF Rest
  <2>2. Len(chain[s]) - 1 = 0
    BY <1>1, <1>2
  <2>3. <<>> \in Seq(Write) /\ Len(<<>>) = 0
    OBVIOUS
  <2> HIDE DEF rest
  <2> QED BY <2>1, <2>2, <2>3
<1>3. CASE rest # <<>>
  <2>1. Head(rest) = chain[s][2] /\ Head(rest) \in Write
    BY <1>1, <1>3
  <2>2. Started(Head(rest), session, chat[s]) \in Write
    BY <2>1, StartedFacts
  <2>3. /\ Tail(rest) \in Seq(Write) /\ Len(Tail(rest)) = Len(rest) - 1
        /\ \A i \in 1 .. Len(Tail(rest)) : Tail(rest)[i] = rest[i + 1]
    BY <1>1, <1>3
  <2>4. Rest(s, session) = <<Started(Head(rest), session, chat[s])>> \o Tail(rest)
    BY <1>3 DEF Rest
  <2> HIDE DEF rest
  <2> QED BY <1>1, <1>3, <2>1, <2>2, <2>3, <2>4
<1> QED BY <1>2, <1>3

(***************************************************************************)
(* A step of one session leaves the others alone.                          *)
(***************************************************************************)
Untouched(t) ==
  /\ live'[t] = live[t] /\ chat'[t] = chat[t] /\ disk'[t] = disk[t]
  /\ chain'[t] = chain[t] /\ call'[t] = call[t] /\ acked'[t] = acked[t]
  /\ t \in busy' <=> t \in busy
  /\ t \in timer' <=> t \in timer
  /\ t \in removed' <=> t \in removed

LEMMA UntouchedKept ==
  ASSUME PersistenceInv, NEW t \in Sessions, Untouched(t),
         phase' = phase, reported' = reported, t \in closing' <=> t \in closing
  PROVE  SessionInv(t)'
<1>1. SessionInv(t)
  BY DEF PersistenceInv
<1>2. (CallWaits(t) /\ Survives(t) /\ Paired(t))'
  BY <1>1 DEF Untouched, SessionInv, CallWaits, Places, Awaited, Survives, Paired, AtLeast
<1>3. (PhaseInv(t) /\ MemoryInv(t))'
  BY <1>1 DEF Untouched, SessionInv, PhaseInv, MemoryInv, AtLeast
<1>4. CallInv(t)'
  BY <1>1 DEF Untouched, SessionInv, CallInv, Follows, Gated, Awaited, AtLeast
<1>5. ChainInv(t)'
  BY <1>1 DEF Untouched, SessionInv, ChainInv, WriteInv, RunningInv, Places, AtLeast
<1>6. FlushInv(t)'
  BY <1>1 DEF Untouched, SessionInv, FlushInv, Places
<1> QED BY <1>2, <1>3, <1>4, <1>5, <1>6 DEF SessionInv

LEMMA OneSession ==
  ASSUME PersistenceInv, NEW s \in Sessions,
         phase' = phase, reported' = reported,
         \A t \in Sessions : t # s => /\ Untouched(t)
                                      /\ t \in closing' <=> t \in closing,
         Typed', SessionInv(s)'
  PROVE  PersistenceInv'
BY UntouchedKept DEF PersistenceInv

(* What is known of one session, with its types.                           *)
LEMMA Known ==
  ASSUME PersistenceInv, NEW s \in Sessions
  PROVE  /\ Typed /\ SessionInv(s)
         /\ live[s] \in Session \cup {Nothing} /\ acked[s] \in Session \cup {Nothing}
         /\ chat[s] \in Chat /\ chat[s].rev \in Nat /\ chat[s].events \in Nat
         /\ disk[s] \in Record \cup {Nothing}
         /\ chain[s] \in Seq(Write) /\ Len(chain[s]) \in Nat
         /\ \A i \in Places(s) : chain[s][i] \in Write
         /\ chain[s] # <<>> <=> Len(chain[s]) # 0
         /\ call[s].op \in Ops /\ call[s].next \in Session \cup {Nothing}
BY DEF PersistenceInv, Typed, Places, Chat

(***************************************************************************)
(* A call asks for its write.                                              *)
(***************************************************************************)
LEMMA CallSaves ==
  ASSUME PersistenceInv, NEW s \in Sessions, NEW op \in Saving,
         NEW next \in Session \cup {Nothing}, NEW w \in Write,
         phase \notin {"down", "chats", "flushing", "closed"},
         call[s].op \notin Saving, s \notin removed,
         Follows(op, next, live[s]), w.by = "call",
         w.kind = CASE op = "remove" -> "remove"
                    [] op = "revise" -> "revision"
                    [] OTHER         -> "save",
         w.kind # "remove" => w.session = next,
         w.kind = "revision" => w.session.rev = w.chat.rev,
         op \in {"mark", "remove", "same", "revise"} => s \notin busy,
         Call(s, op, next), Enqueue(w, s), timer' = timer \ {s},
         recovering' \subseteq Sessions,
         UNCHANGED <<phase, closing, reported, memory, disk, suspended, errors,
                     history, counts>>
  PROVE  PersistenceInv'
<1>0. PersistenceInv
  OBVIOUS
<1>t. /\ live[s] \in Session \cup {Nothing} /\ acked[s] \in Session \cup {Nothing}
      /\ chat[s] \in Chat /\ chat[s].rev \in Nat
  BY Known
<1>i. /\ CallWaits(s) /\ Survives(s) /\ Paired(s)
      /\ PhaseInv(s) /\ MemoryInv(s) /\ CallInv(s) /\ ChainInv(s) /\ FlushInv(s)
  BY Known DEF SessionInv
<1>1. /\ live' = live /\ chat' = chat /\ busy' = busy /\ disk' = disk /\ acked' = acked
      /\ removed' = removed /\ closing' = closing /\ phase' = phase /\ reported' = reported
  BY DEF memory, history
<1>n. PICK n \in Nat : n = Len(chain[s])
  BY Known
<1>q. PICK q \in Seq(Write) :
        /\ q = chain'[s] /\ Len(q) = n + 1 /\ q # <<>>
        /\ \A i \in 1 .. n : q[i] = chain[s][i]
        /\ q[n + 1] = IF chain[s] = <<>> THEN Started(w, live[s], chat[s]) ELSE w
  <2>1. chain'[s] = Enqueued(chain[s], w, s)
    BY Known DEF Enqueue, Typed
  <2> QED BY <1>n, <2>1, Known, EnqueuedFacts DEF Places
<1>3. call'[s].op = op /\ call'[s].next = next /\ s \notin timer'
  BY Known DEF Call, Typed
<1>4. q[n + 1] \in Write /\ q[n + 1].by = "call" /\ q[n + 1].kind = w.kind
  <2>1. /\ Started(w, live[s], chat[s]) \in Write
        /\ Started(w, live[s], chat[s]).by = w.by
        /\ Started(w, live[s], chat[s]).kind = w.kind
    BY <1>t, StartedFacts
  <2> QED BY <1>q, <2>1
<1>5. \A i \in 1 .. n : ~Awaited(s, i)
  BY <1>n, Known DEF SessionInv, CallWaits, Places
<1>6. chain[s] \in Seq(Write) /\ (n = 0 <=> chain[s] = <<>>)
  BY <1>n, Known
<1>7. Places(s)' = 1 .. n + 1 /\ Places(s) = 1 .. n
  BY <1>n, <1>q DEF Places
<1>8. \A t \in Sessions : t # s => Untouched(t)
  BY <1>1, Known DEF Call, Enqueue, Untouched, Typed
<1>9. Typed'
  <2>1. chain' \in [Sessions -> Seq(Write)]
    BY <1>q, Known DEF Enqueue, Typed
  <2>2. call' \in [Sessions -> [op: Ops, next: Session \cup {Nothing}]]
    BY Known DEF Call, Typed, Ops, Saving
  <2> QED BY <1>0, <2>1, <2>2 DEF PersistenceInv, Typed, memory, history, counts
<1>10. CallWaits(s)'
  <2>1. \A i \in 1 .. n + 1 : Awaited(s, i)' <=> i = n + 1
    BY <1>q, <1>4, <1>5, <1>6 DEF Awaited
  <2>2. op \in Saving
    OBVIOUS
  <2>3. n + 1 \in 1 .. n + 1
    OBVIOUS
  <2>4. \E i \in Places(s)' : Awaited(s, i)'
    BY <1>7, <2>1, <2>3
  <2>5. \A i, j \in Places(s)' : Awaited(s, i)' /\ Awaited(s, j)' => i = j
    BY <1>7, <2>1
  <2> QED BY <1>3, <2>2, <2>4, <2>5 DEF CallWaits
<1>11. (Survives(s) /\ Paired(s) /\ MemoryInv(s))'
  <2>1. Survives(s) /\ Paired(s) /\ MemoryInv(s)
    BY Known DEF SessionInv
  <2> QED BY <1>1, <1>3, <2>1 DEF Survives, Paired, MemoryInv, AtLeast
<1>12. PhaseInv(s)'
  BY <1>1 DEF PhaseInv
<1>13. CallInv(s)'
  <2>1. Follows(op, next, live[s])
    OBVIOUS
  <2>2. Gated(s)' => s \notin busy'
    BY <1>1, <1>3 DEF Gated, Saving
  <2>3. Awaited(s, Len(chain[s]))'
    BY <1>n, <1>q, <1>4 DEF Awaited
  <2> QED BY <1>1, <1>3, <2>1, <2>2, <2>3 DEF CallInv, Follows, AtLeast, Saving
<1>14. ChainInv(s)'
  <2>1. \A i \in 1 .. n : WriteInv(s, chain[s][i])'
    <3>1. TAKE i \in 1 .. n
    <3>2. chain'[s][i] = chain[s][i] /\ chain[s][i].by # "call" /\ WriteInv(s, chain[s][i])
      BY <1>i, <1>n, <1>q, <1>5, <1>7 DEF ChainInv, Awaited
    <3> QED BY <1>1, <3>2 DEF WriteInv
  <2>2. /\ q[n + 1].kind # "remove" => q[n + 1].session = next
        /\ q[n + 1].kind = "revision" => q[n + 1].session.rev = q[n + 1].chat.rev
    <3>1. chain[s] = <<>> => q[n + 1] = Started(w, live[s], chat[s])
      BY <1>q
    <3>2. w.kind \in {"remove", "revision", "save"}
      OBVIOUS
    <3>3. chain[s] = <<>> =>
            IF w.kind = "save" THEN q[n + 1].session = w.session ELSE q[n + 1] = w
      <4> DEFINE v == Started(w, live[s], chat[s])
      <4>1. /\ w.kind = "save" => v.session = w.session
            /\ w.kind \notin {"flush", "save"} => v = w
        BY <1>t, StartedFacts
      <4> HIDE DEF v
      <4> QED BY <3>1, <3>2, <4>1 DEF v
    <3>4. chain[s] # <<>> => q[n + 1] = w
      BY <1>q
    <3>5. q[n + 1] = w \/ (w.kind = "save" /\ q[n + 1].session = w.session)
      BY <3>3, <3>4
    <3>6. /\ w.kind # "remove" => w.session = next
          /\ w.kind = "revision" => w.session.rev = w.chat.rev
      OBVIOUS
    <3> QED BY ONLY <1>4, <3>5, <3>6
  <2>3. WriteInv(s, q[n + 1])'
    BY <1>3, <1>4, <2>2 DEF WriteInv
  <2>4. \A i \in 1 .. n + 1 : WriteInv(s, chain[s][i])'
    BY <1>q, <1>6, <2>1, <2>3
  <2>5. ASSUME n = 0, w.kind # "remove" PROVE RunningInv(s, q[1])'
    <3>1. q[1] = Started(w, live[s], chat[s]) /\ q[1].kind = w.kind /\ q[1].session = next
      BY <1>q, <1>4, <1>6, <2>2, <2>5
    <3>2. next \in Session /\ AtLeast(next, acked[s])
      <4>1. op # "remove"
        BY <2>5
      <4>2. next \in Session
        BY <4>1, CreatedTyped DEF Follows, Saving
      <4>3. AtLeast(next, live[s])
        BY <4>1 DEF Follows, Saving, AtLeast
      <4>4. AtLeast(live[s], acked[s])
        BY <1>i DEF MemoryInv
      <4> QED BY <1>t, <4>2, <4>3, <4>4, AtLeastTransitive
    <3>3. op # "revise" => next.rev = chat[s].rev /\ q[1].chat = chat[s]
      <4>1. ASSUME op # "revise" PROVE w.kind = "save"
        BY <2>5, <4>1
      <4>2. op # "revise" => q[1].chat = chat[s]
        BY SMTT(60), <1>t, <3>1, <4>1, StartedFacts
      <4>3. op # "revise" => next.rev = chat[s].rev
        BY <1>t, <1>i, <2>5 DEF MemoryInv, Follows, Saving, Created
      <4> QED BY <4>2, <4>3
    <3> QED BY <1>1, <2>2, <2>5, <3>1, <3>2, <3>3, Sentinel DEF RunningInv, AtLeast
  <2>6. n = 0 => RunningInv(s, q[1])'
    BY <1>q, <1>4, <2>5 DEF RunningInv
  <2>7. n # 0 => RunningInv(s, q[1])'
    BY <1>1, <1>i, <1>q, <1>6 DEF ChainInv, RunningInv, AtLeast
  <2>8. RunningInv(s, chain[s][1])'
    BY <1>q, <2>6, <2>7
  <2> QED BY <1>7, <2>4, <2>8 DEF ChainInv
<1>15. FlushInv(s)'
  <2>1. \A i \in 1 .. n + 1 : q[i].by # "close"
    BY <1>i, <1>q, <1>4, <1>7 DEF FlushInv
  <2> QED BY <1>1, <1>q, <1>7, <2>1 DEF FlushInv
<1>16. SessionInv(s)'
  BY <1>10, <1>11, <1>12, <1>13, <1>14, <1>15 DEF SessionInv
<1> QED BY <1>1, <1>8, <1>9, <1>16, OneSession

(***************************************************************************)
(* The calls.                                                              *)
(***************************************************************************)
LEMMA CreateKeeps ==
  ASSUME PersistenceInv, NEW s \in Sessions, Create(s) PROVE PersistenceInv'
<1>1. Save(Created) \in Write /\ Save(Created).kind = "save" /\ Save(Created).by = "call"
      /\ Save(Created).session = Created
  BY MadeFacts, CreatedTyped
<1>2. Follows("create", Created, live[s])
  BY DEF Create, Follows
<1>3. recovering' \subseteq Sessions /\ UNCHANGED <<phase, closing, reported>>
  BY Known DEF Create, daemon, Typed
<1>4. SaveFor(s, "create", Created) /\ call[s].op = "none" /\ phase = "ready" /\ s \notin removed
      /\ UNCHANGED <<memory, disk, suspended, errors, history, counts>>
  BY DEF Create, Free
<1> QED BY <1>1, <1>2, <1>3, <1>4, CreatedTyped, CallSaves DEF SaveFor, Saving

LEMMA SaveCall ==
  ASSUME PersistenceInv, NEW s \in Sessions, NEW op \in {"edit", "open", "mark", "same"},
         NEW next \in Session,
         phase \notin {"down", "chats", "flushing", "closed"},
         call[s].op \notin Saving, live[s] # Nothing, Follows(op, next, live[s]),
         op \in {"mark", "same"} => s \notin busy,
         SaveFor(s, op, next), recovering' \subseteq Sessions,
         UNCHANGED <<phase, closing, reported, memory, disk, suspended, errors,
                     history, counts>>
  PROVE  PersistenceInv'
<1>1. Save(next) \in Write /\ Save(next).kind = "save" /\ Save(next).by = "call"
      /\ Save(next).session = next
  BY MadeFacts
<1>2. s \notin removed
  BY Known DEF SessionInv, MemoryInv
<1> QED BY <1>1, <1>2, CallSaves DEF SaveFor, Saving

LEMMA EditKeeps ==
  ASSUME PersistenceInv, NEW s \in Sessions, Edit(s) PROVE PersistenceInv'
<1> DEFINE next == [live[s] EXCEPT !.edits = @ + 1]
<1>1. live[s] \in Session /\ live[s] # Nothing
  BY Known DEF Edit, Draft
<1>2. next \in Session /\ Follows("edit", next, live[s])
  BY <1>1, Sentinel DEF Session, Follows, AtLeast
<1>3. recovering' \subseteq Sessions /\ UNCHANGED <<phase, closing, reported>>
  BY Known DEF Edit, daemon, Typed
<1>4. SaveFor(s, "edit", next) /\ call[s].op = "none" /\ phase \in {"ready", "starting"}
      /\ UNCHANGED <<memory, disk, suspended, errors, history, counts>>
  BY DEF Edit, Free
<1> HIDE DEF next
<1> QED BY <1>1, <1>2, <1>3, <1>4, SaveCall DEF Saving

LEMMA OpenKeeps ==
  ASSUME PersistenceInv, NEW s \in Sessions, Open(s) PROVE PersistenceInv'
<1> DEFINE next == [live[s] EXCEPT !.opened = @ + 1]
<1>1. live[s] \in Session /\ live[s] # Nothing
  BY Known DEF Open, Draft
<1>2. next \in Session /\ Follows("open", next, live[s])
  BY <1>1, Sentinel DEF Session, Follows, AtLeast
<1>3. recovering' \subseteq Sessions /\ UNCHANGED <<phase, closing, reported>>
  BY Known DEF Open, daemon, Typed
<1>4. SaveFor(s, "open", next) /\ call[s].op = "none" /\ phase = "ready"
      /\ UNCHANGED <<memory, disk, suspended, errors, history, counts>>
  BY DEF Open, Free
<1> HIDE DEF next
<1> QED BY <1>1, <1>2, <1>3, <1>4, SaveCall DEF Saving

LEMMA SaveUnchangedKeeps ==
  ASSUME PersistenceInv, NEW s \in Sessions, SaveUnchanged(s) PROVE PersistenceInv'
<1> DEFINE next == [live[s] EXCEPT !.edits = @ + 1]
<1>1. live[s] \in Session /\ live[s] # Nothing /\ s \notin busy
      /\ phase \notin {"down", "chats", "flushing", "closed"}
  BY Known DEF SaveUnchanged, SessionInv, CallInv, Follows, Gated, PhaseInv
<1>2. next \in Session /\ Follows("same", next, live[s])
  BY <1>1, Sentinel DEF Session, Follows, AtLeast
<1>3. recovering' \subseteq Sessions /\ UNCHANGED <<phase, closing, reported>>
  BY Known DEF SaveUnchanged, daemon, Typed
<1>4. SaveFor(s, "same", next) /\ call[s].op = "prepare"
      /\ UNCHANGED <<memory, disk, suspended, errors, history, counts>>
  BY DEF SaveUnchanged
<1> HIDE DEF next
<1> QED BY <1>1, <1>2, <1>3, <1>4, SaveCall DEF Saving

LEMMA SaveRevisionKeeps ==
  ASSUME PersistenceInv, NEW s \in Sessions, SaveRevision(s) PROVE PersistenceInv'
<1> DEFINE next == NextRevision(s)
           w == Revision(next, NextChat(s))
<1>1. /\ live[s] \in Session /\ live[s] # Nothing /\ s \notin busy /\ s \notin timer
      /\ phase \notin {"down", "chats", "flushing", "closed"}
      /\ live[s].rev = chat[s].rev /\ s \notin removed /\ chat[s] \in Chat
  BY Known DEF SaveRevision, SessionInv, CallInv, MemoryInv, Follows, Gated, PhaseInv
<1>2. next \in Session /\ Follows("revise", next, live[s]) /\ next.rev = live[s].rev + 1
  BY <1>1, Sentinel DEF Session, Follows, AtLeast, NextRevision
<1>3. NextChat(s) \in Chat /\ NextChat(s).rev = chat[s].rev + 1
  BY <1>1 DEF Chat, NextChat
<1>4. /\ w \in Write /\ w.kind = "revision" /\ w.by = "call"
      /\ w.session = next /\ w.chat = NextChat(s)
  BY <1>2, <1>3, MadeFacts
<1>5. recovering' \subseteq Sessions /\ UNCHANGED <<phase, closing, reported>>
  BY Known DEF SaveRevision, daemon, Typed
<1>6. Call(s, "revise", next) /\ Enqueue(w, s) /\ call[s].op = "prepare"
      /\ UNCHANGED <<memory, disk, suspended, errors, history, counts>>
  BY DEF SaveRevision
<1>7. timer' = timer \ {s}
  BY <1>1 DEF SaveRevision
<1> HIDE DEF next, w
<1> QED BY <1>1, <1>2, <1>3, <1>4, <1>5, <1>6, <1>7, CallSaves DEF Saving

LEMMA WorktreeRemovedKeeps ==
  ASSUME PersistenceInv, NEW s \in Sessions, WorktreeRemoved(s) PROVE PersistenceInv'
<1> DEFINE w == Remove("call")
<1>1. /\ s \notin busy /\ live[s] # Nothing /\ s \notin removed
      /\ phase \notin {"down", "chats", "flushing", "closed"}
  BY Known DEF WorktreeRemoved, SessionInv, CallInv, MemoryInv, Follows, Gated, PhaseInv
<1>2. Follows("remove", Nothing, live[s])
  BY <1>1 DEF Follows
<1>3. w \in Write /\ w.kind = "remove" /\ w.by = "call"
  BY MadeFacts DEF Callers
<1>4. recovering' \subseteq Sessions /\ UNCHANGED <<phase, closing, reported>>
  BY Known DEF WorktreeRemoved, daemon, Typed
<1>5. Call(s, "remove", Nothing) /\ Enqueue(w, s) /\ call[s].op = "clean"
      /\ timer' = timer \ {s}
      /\ UNCHANGED <<memory, disk, suspended, errors, history, counts>>
  BY DEF WorktreeRemoved
<1> HIDE DEF w
<1> QED BY <1>1, <1>2, <1>3, <1>4, <1>5, CallSaves DEF Saving

(* A call that writes nothing yet, or ends without having written.         *)
LEMMA CallMoves ==
  ASSUME PersistenceInv, NEW s \in Sessions, NEW op \in {"none", "clean", "suspend", "prepare"},
         phase \notin {"down", "chats", "flushing", "closed"},
         call[s].op \notin Saving,
         op # "none" => /\ live[s] # Nothing /\ s \notin busy
                        /\ op # "clean" => s \notin timer',
         op = "prepare" => chain[s] = <<>>,
         call' = [call EXCEPT ![s] = [op |-> op, next |-> Nothing]],
         timer' \in {timer, timer \ {s}}, suspended' \subseteq Sessions,
         recovering' \subseteq Sessions,
         UNCHANGED <<phase, closing, reported, memory, disk, errors, chain, history, counts>>
  PROVE  PersistenceInv'
<1>0. PersistenceInv /\ op \in Ops /\ op \notin Saving
  BY DEF Ops, Saving
<1>1. /\ live' = live /\ chat' = chat /\ busy' = busy /\ disk' = disk /\ acked' = acked
      /\ removed' = removed /\ closing' = closing /\ phase' = phase /\ reported' = reported
      /\ chain' = chain
  BY DEF memory, history
<1>2. call'[s].op = op /\ call'[s].next = Nothing
  BY Known DEF Typed
<1>3. /\ CallWaits(s) /\ Survives(s) /\ Paired(s)
      /\ PhaseInv(s) /\ MemoryInv(s) /\ CallInv(s) /\ ChainInv(s) /\ FlushInv(s)
  BY Known DEF SessionInv
<1>4. \A t \in Sessions : t # s => Untouched(t)
  BY <1>1, Known DEF Untouched, Typed
<1>5. Typed'
  <2>1. call' \in [Sessions -> [op: Ops, next: Session \cup {Nothing}]]
    BY <1>0, Known DEF Typed
  <2> QED BY <1>0, <2>1 DEF PersistenceInv, Typed, memory, history, counts
<1>6. \A i \in Places(s) : ~Awaited(s, i)
  BY <1>3 DEF CallWaits
<1>7. CallWaits(s)'
  BY <1>0, <1>1, <1>2, <1>6 DEF CallWaits, Places, Awaited
<1>8. (Survives(s) /\ Paired(s) /\ PhaseInv(s))'
  BY <1>1, <1>3 DEF Survives, Paired, PhaseInv, AtLeast
<1>9. MemoryInv(s)'
  <2>1. s \in removed => op = "none"
    BY <1>3 DEF MemoryInv
  <2> QED BY <1>1, <1>2, <1>3, <2>1 DEF MemoryInv, AtLeast
<1>10. CallInv(s)'
  BY <1>1, <1>2 DEF CallInv, Follows, Gated
<1>11. ChainInv(s)'
  BY <1>1, <1>3, <1>6 DEF ChainInv, WriteInv, RunningInv, Places, Awaited, AtLeast
<1>12. FlushInv(s)'
  BY <1>1, <1>3 DEF FlushInv, Places
<1>13. SessionInv(s)'
  BY <1>7, <1>8, <1>9, <1>10, <1>11, <1>12 DEF SessionInv
<1> QED BY <1>1, <1>4, <1>5, <1>13, OneSession

LEMMA DeleteKeeps ==
  ASSUME PersistenceInv, NEW s \in Sessions, Delete(s) PROVE PersistenceInv'
<1>1. live[s] \in Session /\ live[s] # Nothing /\ s \notin busy
  BY Known DEF Delete
<1>2. recovering' \subseteq Sessions /\ UNCHANGED <<phase, closing, reported>>
  BY Known DEF Delete, Typed
<1>3. /\ call[s].op = "none" /\ phase \in {"ready", "starting"}
      /\ UNCHANGED <<memory, disk, suspended, errors, history, counts>>
  BY DEF Delete, Free
<1>4. CASE live[s].marked
  <2>1. Call(s, "clean", Nothing) /\ UNCHANGED <<timer, chain>>
    BY <1>4 DEF Delete
  <2>2. suspended' \subseteq Sessions
    BY <1>3, Known DEF Typed
  <2> QED BY <1>1, <1>2, <1>3, <2>1, <2>2, CallMoves DEF Call, Saving
<1>5. CASE ~live[s].marked
  <2> DEFINE next == [live[s] EXCEPT !.marked = TRUE]
  <2>1. SaveFor(s, "mark", next)
    BY <1>5 DEF Delete
  <2>2. next \in Session /\ Follows("mark", next, live[s])
    <3>1. /\ next \in Session /\ next # Nothing
          /\ next.rev = live[s].rev /\ next.edits = live[s].edits /\ next.marked = TRUE
          /\ live[s].rev \in Nat /\ live[s].edits \in Nat
      BY <1>1, Sentinel DEF Session
    <3> HIDE DEF next
    <3> QED BY <1>1, <3>1 DEF Follows, AtLeast
  <2> HIDE DEF next
  <2> QED BY <1>1, <1>2, <1>3, <2>1, <2>2, SaveCall DEF Saving
<1> QED BY <1>4, <1>5

(* What the operations after the first step of a call know.                *)
LEMMA CallKnows ==
  ASSUME PersistenceInv, NEW s \in Sessions, call[s].op # "none"
  PROVE  /\ phase \notin {"down", "chats", "flushing", "closed"}
         /\ call[s].op # "create" => live[s] # Nothing
         /\ Gated(s) => s \notin busy
         /\ Gated(s) /\ call[s].op # "clean" => s \notin timer
BY Known DEF SessionInv, PhaseInv, CallInv, Follows

LEMMA WorktreeKeptKeeps ==
  ASSUME PersistenceInv, NEW s \in Sessions, WorktreeKept(s) PROVE PersistenceInv'
<1>1. /\ call' = [call EXCEPT ![s] = [op |-> "none", next |-> Nothing]]
      /\ call[s].op = "clean"
      /\ UNCHANGED <<phase, closing, reported, recovering, memory, disk, timer, suspended,
                     errors, chain, history, counts>>
  BY DEF WorktreeKept, NoCall, daemon
<1>2. suspended' \subseteq Sessions /\ recovering' \subseteq Sessions
  BY <1>1, Known DEF Typed
<1> QED BY <1>1, <1>2, CallKnows, CallMoves DEF Saving

LEMMA RefreshKeeps ==
  ASSUME PersistenceInv, NEW s \in Sessions, Refresh(s) PROVE PersistenceInv'
<1>1. /\ call' = [call EXCEPT ![s] = [op |-> "suspend", next |-> Nothing]]
      /\ call[s].op = "none" /\ phase = "ready" /\ live[s] # Nothing /\ s \notin busy
      /\ timer' = timer \ {s}
      /\ UNCHANGED <<phase, closing, reported, recovering, memory, disk,
                     errors, chain, history, counts>>
  BY DEF Refresh, Call, Free, Draft, daemon
<1>2. suspended' \subseteq Sessions /\ recovering' \subseteq Sessions
  BY <1>1, Known DEF Typed, Refresh
<1> QED BY <1>1, <1>2, CallMoves DEF Saving

LEMMA SuspendedKeeps ==
  ASSUME PersistenceInv, NEW s \in Sessions, Suspended(s) PROVE PersistenceInv'
<1>1. /\ call' = [call EXCEPT ![s] = [op |-> "prepare", next |-> Nothing]]
      /\ call[s].op = "suspend" /\ chain[s] = <<>>
      /\ UNCHANGED <<phase, closing, reported, recovering, memory, disk, timer, suspended,
                     errors, chain, history, counts>>
  BY DEF Suspended, Call, daemon
<1>2. suspended' \subseteq Sessions /\ recovering' \subseteq Sessions
  BY <1>1, Known DEF Typed
<1>3. s \notin busy /\ s \notin timer
  BY <1>1, CallKnows DEF Gated
<1> QED BY <1>1, <1>2, <1>3, CallKnows, CallMoves DEF Saving

LEMMA RefreshFailsKeeps ==
  ASSUME PersistenceInv, NEW s \in Sessions, RefreshFails(s) PROVE PersistenceInv'
<1>1. /\ call' = [call EXCEPT ![s] = [op |-> "none", next |-> Nothing]]
      /\ call[s].op = "prepare"
      /\ UNCHANGED <<phase, closing, reported, recovering, memory, disk, timer,
                     errors, chain, history, counts>>
  BY DEF RefreshFails, NoCall, daemon
<1>2. suspended' \subseteq Sessions /\ recovering' \subseteq Sessions
  BY <1>1, Known DEF Typed, RefreshFails
<1> QED BY <1>1, <1>2, CallKnows, CallMoves DEF Saving

(***************************************************************************)
(* Timers and chats.                                                       *)
(***************************************************************************)
LEMMA TimerFiresKeeps ==
  ASSUME PersistenceInv, NEW s \in Sessions, TimerFires(s) PROVE PersistenceInv'
<1>0. PersistenceInv
  OBVIOUS
<1>t. /\ live[s] \in Session \cup {Nothing} /\ acked[s] \in Session \cup {Nothing}
      /\ chat[s] \in Chat /\ chat[s].rev \in Nat
  BY Known
<1>i. /\ CallWaits(s) /\ Survives(s) /\ Paired(s)
      /\ PhaseInv(s) /\ MemoryInv(s) /\ CallInv(s) /\ ChainInv(s) /\ FlushInv(s)
  BY Known DEF SessionInv
<1>1. /\ live' = live /\ chat' = chat /\ busy' = busy /\ disk' = disk /\ acked' = acked
      /\ removed' = removed /\ closing' = closing /\ phase' = phase /\ reported' = reported
      /\ call' = call /\ timer' = timer \ {s} /\ s \in timer
  BY DEF TimerFires, memory, history, daemon
<1>2. /\ phase \notin {"down", "flushing", "closed"} /\ live[s] # Nothing /\ s \notin removed
      /\ call[s].op \notin {"mark", "remove", "suspend", "prepare", "same", "revise"}
  BY <1>1, <1>i DEF PhaseInv, MemoryInv, CallInv, Gated
<1>n. PICK n \in Nat : n = Len(chain[s])
  BY Known
<1>w. PICK w \in Write : w = Flush("timer") /\ w.kind = "flush" /\ w.by = "timer"
  BY MadeFacts DEF Callers
<1>q. PICK q \in Seq(Write) :
        /\ q = chain'[s] /\ Len(q) = n + 1 /\ q # <<>>
        /\ \A i \in 1 .. n : q[i] = chain[s][i]
        /\ q[n + 1] = IF chain[s] = <<>> THEN Started(w, live[s], chat[s]) ELSE w
  <2>1. chain'[s] = Enqueued(chain[s], w, s)
    BY <1>w, Known DEF TimerFires, Enqueue, Typed
  <2> QED BY <1>n, <1>w, <2>1, Known, EnqueuedFacts DEF Places
<1>3. /\ q[n + 1].by = "timer" /\ q[n + 1].kind = "flush"
      /\ n = 0 => q[1].session = live[s] /\ q[1].chat = chat[s]
  <2>1. /\ Started(w, live[s], chat[s]).by = w.by
        /\ Started(w, live[s], chat[s]).kind = w.kind
        /\ Started(w, live[s], chat[s]).session = live[s]
        /\ Started(w, live[s], chat[s]).chat = chat[s]
    BY <1>t, <1>w, StartedFacts
  <2>2. n = 0 => chain[s] = <<>>
    BY <1>n, Known
  <2> QED BY <1>q, <1>w, <2>1, <2>2
<1>4. Places(s)' = 1 .. n + 1 /\ Places(s) = 1 .. n
  BY <1>n, <1>q DEF Places
<1>5. \A t \in Sessions : t # s => Untouched(t)
  BY <1>1, Known DEF TimerFires, Enqueue, Untouched, Typed
<1>6. Typed'
  <2>1. chain' \in [Sessions -> Seq(Write)]
    BY <1>q, Known DEF TimerFires, Enqueue, Typed
  <2> QED BY <1>0, <1>1, <2>1
    DEF PersistenceInv, Typed, TimerFires, daemon, memory, history, counts
<1>7. CallWaits(s)'
  <2>1. \A i \in 1 .. n : Awaited(s, i)' <=> Awaited(s, i)
    BY <1>q DEF Awaited
  <2>2. ~Awaited(s, n + 1)'
    BY <1>q, <1>3 DEF Awaited
  <2> QED BY <1>i, <1>1, <1>4, <2>1, <2>2 DEF CallWaits
<1>8. (Survives(s) /\ Paired(s) /\ PhaseInv(s) /\ MemoryInv(s))'
  BY <1>1, <1>i DEF Survives, Paired, PhaseInv, MemoryInv, AtLeast
<1>9. CallInv(s)'
  BY <1>1, <1>2, <1>i DEF CallInv, Follows, Gated, AtLeast
<1>10. ChainInv(s)'
  <2>1. ASSUME NEW i \in 1 .. n PROVE WriteInv(s, q[i])'
    <3>1. q[i] = chain[s][i] /\ WriteInv(s, chain[s][i])
      BY <1>i, <1>4, <1>q DEF ChainInv
    <3> QED BY <1>1, <3>1 DEF WriteInv
  <2>2. WriteInv(s, q[n + 1])'
    BY <1>1, <1>2, <1>3 DEF WriteInv
  <2>3. RunningInv(s, q[1])'
    <3>1. CASE n = 0
      BY <1>1, <1>2, <1>3, <1>i, <3>1 DEF RunningInv, MemoryInv, PhaseInv, AtLeast
    <3>2. CASE n # 0
      <4>1. q[1] = chain[s][1] /\ chain[s] # <<>>
        BY <1>n, <1>q, <3>2, Known
      <4> QED BY <1>1, <1>i, <4>1 DEF ChainInv, RunningInv, AtLeast
    <3> QED BY <3>1, <3>2
  <2> QED BY <1>4, <1>q, <2>1, <2>2, <2>3 DEF ChainInv
<1>11. FlushInv(s)'
  <2>1. \A i \in 1 .. n + 1 : q[i].by # "close"
    BY <1>i, <1>q, <1>2, <1>3, <1>4 DEF FlushInv
  <2> QED BY <1>1, <1>2, <1>q, <1>4, <2>1 DEF FlushInv
<1>12. SessionInv(s)'
  BY <1>7, <1>8, <1>9, <1>10, <1>11 DEF SessionInv
<1> QED BY <1>1, <1>5, <1>6, <1>12, OneSession

(* A turn changes what the chat says, not what it is about.                *)
LEMMA PublishKeeps ==
  ASSUME PersistenceInv, NEW s \in Sessions, Publish(s),
         live[s] # Nothing, ~Gated(s), phase \notin {"down", "flushing", "closed"},
         busy' \subseteq busy \cup {s}, busy \ {s} \subseteq busy',
         UNCHANGED <<daemon, live, disk, suspended, errors, chain, call, history, counts>>
  PROVE  PersistenceInv'
<1>0. PersistenceInv
  OBVIOUS
<1>1. /\ live' = live /\ disk' = disk /\ acked' = acked /\ chain' = chain /\ call' = call
      /\ removed' = removed /\ closing' = closing /\ phase' = phase /\ reported' = reported
  BY DEF history, daemon
<1>2. timer' \subseteq timer \cup {s} /\ timer \subseteq timer'
  BY DEF Publish, Scheduled
<1>3. chat'[s] \in Chat /\ chat'[s].rev = chat[s].rev
  BY Known DEF Publish, Chat, Typed
<1>i. /\ CallWaits(s) /\ Survives(s) /\ Paired(s)
      /\ PhaseInv(s) /\ MemoryInv(s) /\ CallInv(s) /\ ChainInv(s) /\ FlushInv(s)
  BY Known DEF SessionInv
<1>4. \A t \in Sessions : t # s => Untouched(t)
  BY <1>1, <1>2, Known DEF Publish, Untouched, Typed
<1>5. Typed'
  <2>1. chat' \in [Sessions -> Chat]
    BY <1>3, Known DEF Publish, Typed
  <2> QED BY <1>0, <1>1, <1>2, <2>1 DEF PersistenceInv, Typed, daemon, history, counts
<1>6. (CallWaits(s) /\ Survives(s) /\ Paired(s))'
  BY <1>1, <1>i DEF CallWaits, Places, Awaited, Survives, Paired, AtLeast
<1>7. (PhaseInv(s) /\ MemoryInv(s))'
  BY <1>1, <1>3, <1>i DEF PhaseInv, MemoryInv, AtLeast
<1>8. (CallInv(s) /\ ChainInv(s))'
  BY <1>1, <1>i DEF CallInv, Follows, Gated, Awaited, ChainInv, WriteInv, RunningInv,
                    Places, AtLeast
<1>9. FlushInv(s)'
  BY <1>1, <1>i DEF FlushInv, Places
<1>10. SessionInv(s)'
  BY <1>6, <1>7, <1>8, <1>9 DEF SessionInv
<1> QED BY <1>1, <1>4, <1>5, <1>10, OneSession

LEMMA ChatsKeep ==
  ASSUME PersistenceInv, NEW s \in Sessions, Chats(s) PROVE PersistenceInv'
<1>1. CASE BeginTurn(s)
  BY <1>1, PublishKeeps DEF BeginTurn, Draft
<1>2. ASSUME s \in busy
      PROVE  live[s] # Nothing /\ ~Gated(s) /\ phase \notin {"down", "flushing", "closed"}
  BY <1>2, Known DEF SessionInv, PhaseInv, MemoryInv, CallInv
<1>3. CASE ChatEvent(s)
  BY <1>2, <1>3, PublishKeeps DEF ChatEvent
<1>4. CASE EndTurn(s)
  BY <1>2, <1>4, PublishKeeps DEF EndTurn
<1> QED BY <1>1, <1>3, <1>4 DEF Chats

(***************************************************************************)
(* The end of a write.                                                     *)
(***************************************************************************)
(* What is left in the chain, and what the next write has read.            *)
LEMMA RestFields ==
  ASSUME NEW s \in Sessions, Typed, chain[s] # <<>>, NEW session \in Session \cup {Nothing},
         NEW n \in Nat, n = Len(chain[s]), NEW q, q = Rest(s, session)
  PROVE  /\ q \in Seq(Write) /\ Len(q) = n - 1 /\ n > 0
         /\ \A i \in 1 .. n - 1 :
              /\ q[i] \in Write
              /\ q[i].by = chain[s][i + 1].by /\ q[i].kind = chain[s][i + 1].kind
              /\ q[i].kind \in {"save", "revision"} => q[i].session = chain[s][i + 1].session
              /\ q[i].kind = "revision" => q[i].chat = chain[s][i + 1].chat
              /\ i = 1 /\ q[i].kind = "save" => q[i].chat = chat[s]
              /\ i = 1 /\ q[i].kind = "flush" => q[i].session = session /\ q[i].chat = chat[s]
<1>1. chain[s] \in Seq(Write) /\ chat[s] \in Chat /\ n > 0
  BY DEF Typed
<1>2. /\ q \in Seq(Write) /\ Len(q) = n - 1
      /\ \A i \in 1 .. n - 1 :
           q[i] = IF i = 1 THEN Started(chain[s][2], session, chat[s]) ELSE chain[s][i + 1]
  BY RestFacts
<1>3. ASSUME NEW i \in 1 .. n - 1
      PROVE  /\ q[i] \in Write
             /\ q[i].by = chain[s][i + 1].by /\ q[i].kind = chain[s][i + 1].kind
             /\ q[i].kind \in {"save", "revision"} => q[i].session = chain[s][i + 1].session
             /\ q[i].kind = "revision" => q[i].chat = chain[s][i + 1].chat
             /\ i = 1 /\ q[i].kind = "save" => q[i].chat = chat[s]
             /\ i = 1 /\ q[i].kind = "flush" => q[i].session = session /\ q[i].chat = chat[s]
  <2>1. i + 1 \in 1 .. n /\ chain[s][i + 1] \in Write
    BY <1>1
  <2>2. CASE i # 1
    BY <1>2, <2>1, <2>2
  <2>3. CASE i = 1
    <3>1. q[1] = Started(chain[s][2], session, chat[s]) /\ chain[s][2] \in Write
      BY <1>2, <2>1, <2>3
    <3> DEFINE w == chain[s][2]
               v == Started(w, session, chat[s])
    <3>2. /\ v \in Write /\ v.kind = w.kind /\ v.by = w.by
          /\ w.kind = "flush" => v.session = session /\ v.chat = chat[s]
          /\ w.kind = "save" => v.session = w.session /\ v.chat = chat[s]
          /\ w.kind = "revision" => v = w
      <4>1. w \in Write /\ session \in Session \cup {Nothing} /\ chat[s] \in Chat
        BY <1>1, <3>1
      <4> HIDE DEF w
      <4> QED BY <4>1, StartedFacts
    <3>3. q[1] = v /\ chain[s][i + 1] = w
      BY <2>3, <3>1
    <3> HIDE DEF v, w
    <3> QED BY <2>3, <3>2, <3>3
  <2> QED BY <2>2, <2>3
<1> QED BY <1>1, <1>2, <1>3

LEMMA RestBy ==
  ASSUME PersistenceInv, NEW s \in Sessions, chain[s] # <<>>,
         NEW session \in Session \cup {Nothing}, NEW n \in Nat, n = Len(chain[s])
  PROVE  /\ Rest(s, session) \in Seq(Write) /\ Len(Rest(s, session)) = n - 1 /\ n > 0
         /\ \A i \in 1 .. n - 1 : Rest(s, session)[i].by = chain[s][i + 1].by
<1> DEFINE q == Rest(s, session)
<1>1. Typed
  BY Known
<1> HIDE DEF q
<1>2. q = Rest(s, session)
  BY DEF q
<1>3. /\ q \in Seq(Write) /\ Len(q) = n - 1 /\ n > 0
      /\ \A i \in 1 .. n - 1 : q[i].by = chain[s][i + 1].by
  BY <1>1, <1>2, RestFields
<1> QED BY <1>2, <1>3

(* The call's write, once it has read what it needs, may run.              *)
LEMMA CallWriteRuns ==
  ASSUME PersistenceInv, NEW s \in Sessions, NEW w \in Write, w.by = "call",
         call[s].op \in Saving, WriteInv(s, w), w.kind = "save" => w.chat = chat[s]
  PROVE  RunningInv(s, w)
<1>1. /\ live[s] \in Session \cup {Nothing} /\ acked[s] \in Session \cup {Nothing}
      /\ call[s].next \in Session \cup {Nothing} /\ s \notin removed
      /\ Follows(call[s].op, call[s].next, live[s]) /\ AtLeast(live[s], acked[s])
      /\ live[s] # Nothing => live[s].rev = chat[s].rev
      /\ live[s] = Nothing => chat[s].rev = 0
      /\ chat[s].rev \in Nat
  BY Known DEF SessionInv, PhaseInv, MemoryInv, CallInv, Saving
<1>2. CASE w.kind # "remove"
  <2>1. call[s].op # "remove" /\ w.session = call[s].next
    BY <1>2 DEF WriteInv
  <2>2. call[s].next \in Session /\ AtLeast(call[s].next, live[s])
    BY <1>1, <2>1, CreatedTyped DEF Follows, Saving, AtLeast
  <2>3. AtLeast(w.session, acked[s]) /\ w.session # Nothing
    BY <1>1, <2>1, <2>2, Sentinel, AtLeastTransitive
  <2>4. w.session.rev = w.chat.rev
    <3>1. CASE call[s].op = "revise"
      BY <3>1 DEF WriteInv
    <3>2. CASE call[s].op # "revise"
      <4>1. w.kind = "save"
        BY <1>2, <2>1, <3>2 DEF WriteInv
      <4>2. call[s].next.rev = chat[s].rev
        BY <1>1, <2>1, <3>2 DEF Follows, Saving, Created
      <4> QED BY <2>1, <4>1, <4>2
    <3> QED BY <3>1, <3>2
  <2> QED BY <2>3, <2>4 DEF RunningInv
<1> QED BY <1>2 DEF RunningInv

(* What is left is sound while the memory stays as it is.                  *)
LEMMA RestSound ==
  ASSUME PersistenceInv, NEW s \in Sessions, chain[s] # <<>>,
         NEW n \in Nat, n = Len(chain[s]), NEW q, q = Rest(s, live[s])
  PROVE  /\ \A i \in 1 .. n - 1 : WriteInv(s, q[i])
         /\ n > 1 => RunningInv(s, q[1])
<1>1. /\ live[s] \in Session \cup {Nothing} /\ chat[s].rev \in Nat
      /\ phase # "down" /\ AtLeast(live[s], acked[s])
      /\ live[s] # Nothing => live[s].rev = chat[s].rev
      /\ CallWaits(s) /\ ChainInv(s)
  BY Known DEF SessionInv, PhaseInv, MemoryInv
<1>2. /\ q \in Seq(Write) /\ Len(q) = n - 1 /\ n > 0
      /\ \A i \in 1 .. n - 1 :
           /\ q[i] \in Write
           /\ q[i].by = chain[s][i + 1].by /\ q[i].kind = chain[s][i + 1].kind
           /\ q[i].kind \in {"save", "revision"} => q[i].session = chain[s][i + 1].session
           /\ q[i].kind = "revision" => q[i].chat = chain[s][i + 1].chat
           /\ i = 1 /\ q[i].kind = "save" => q[i].chat = chat[s]
           /\ i = 1 /\ q[i].kind = "flush" => q[i].session = live[s] /\ q[i].chat = chat[s]
  BY Known, RestFields
<1>3. ASSUME NEW i \in 1 .. n - 1 PROVE WriteInv(s, q[i])
  <2>1. WriteInv(s, chain[s][i + 1]) /\ q[i] \in Write
    BY <1>1, <1>2 DEF ChainInv, Places
  <2>2. /\ q[i].by = chain[s][i + 1].by /\ q[i].kind = chain[s][i + 1].kind
        /\ q[i].kind \in {"save", "revision"} => q[i].session = chain[s][i + 1].session
        /\ q[i].kind = "revision" => q[i].chat = chain[s][i + 1].chat
    BY <1>2
  <2> QED BY <2>1, <2>2 DEF WriteInv
<1>4. ASSUME n > 1 PROVE RunningInv(s, q[1])
  <2>1. 1 \in 1 .. n - 1 /\ WriteInv(s, q[1]) /\ q[1] \in Write
    BY <1>2, <1>3, <1>4
  <2>2. CASE q[1].by = "call"
    <3>1. chain[s][2].by = "call" /\ 2 \in Places(s)
      BY <1>2, <1>4, <2>1, <2>2 DEF Places
    <3>2. call[s].op \in Saving
      BY <1>1, <3>1 DEF CallWaits, Awaited
    <3> QED BY <1>2, <2>1, <2>2, <3>2, CallWriteRuns
  <2>3. CASE q[1].by = "event"
    BY <2>1, <2>3 DEF WriteInv, RunningInv
  <2>4. CASE q[1].by \notin {"call", "event"}
    <3>1. q[1].kind = "flush" /\ live[s] # Nothing
      BY <2>1, <2>4 DEF WriteInv
    <3>2. q[1].session = live[s] /\ q[1].chat = chat[s]
      BY <1>2, <2>1, <3>1
    <3> QED BY <1>1, <3>1, <3>2 DEF RunningInv
  <2> QED BY <2>2, <2>3, <2>4
<1> QED BY <1>3, <1>4

(* The flush of the closing daemon stays the last, and reads the memory.   *)
LEMMA RestFlushes ==
  ASSUME PersistenceInv, NEW s \in Sessions, chain[s] # <<>>, chain[s][1].by # "close",
         NEW n \in Nat, n = Len(chain[s]), NEW q, q = Rest(s, live[s])
  PROVE  /\ \A i \in 1 .. n - 1 :
              q[i].by = "close" => i = n - 1 /\ phase \in {"flushing", "closed"}
         /\ ~(phase = "closed" /\ ~reported)
         /\ phase = "flushing" =>
              IF live[s] = Nothing THEN s \notin closing
              ELSE /\ s \in closing /\ n > 1 /\ q[n - 1].by = "close"
                   /\ n = 2 => q[1].session = live[s] /\ q[1].chat = chat[s]
<1>1. FlushInv(s) /\ ChainInv(s)
  BY Known DEF SessionInv
<1>2. /\ q \in Seq(Write) /\ Len(q) = n - 1 /\ n > 0
      /\ \A i \in 1 .. n - 1 :
           /\ q[i].by = chain[s][i + 1].by /\ q[i].kind = chain[s][i + 1].kind
           /\ i = 1 /\ q[i].kind = "flush" => q[i].session = live[s] /\ q[i].chat = chat[s]
  BY Known, RestFields
<1>3. ASSUME NEW i \in 1 .. n - 1, q[i].by = "close"
      PROVE  i = n - 1 /\ phase \in {"flushing", "closed"}
  <2>1. i + 1 \in Places(s) /\ chain[s][i + 1].by = "close"
    BY <1>2, <1>3 DEF Places
  <2> QED BY <1>1, <2>1 DEF FlushInv
<1>4. ~(phase = "closed" /\ ~reported)
  BY <1>1 DEF FlushInv
<1>5. ASSUME phase = "flushing", live[s] # Nothing
      PROVE  /\ s \in closing /\ n > 1 /\ q[n - 1].by = "close"
             /\ n = 2 => q[1].session = live[s] /\ q[1].chat = chat[s]
  <2>1. s \in closing /\ chain[s][n].by = "close"
    BY <1>1, <1>5 DEF FlushInv
  <2>2. n > 1
    BY <1>2, <2>1
  <2>3. q[n - 1].by = "close"
    BY <1>2, <2>1, <2>2
  <2>4. chain[s][n].kind = "flush"
    BY <1>1, <1>2, <2>1 DEF ChainInv, WriteInv, Places
  <2> QED BY <1>2, <2>1, <2>2, <2>3, <2>4
<1>6. phase = "flushing" /\ live[s] = Nothing => s \notin closing
  BY <1>1 DEF FlushInv
<1> QED BY <1>3, <1>4, <1>5, <1>6

(* What is left when a write ends that no call waits for.                  *)
LEMMA RestKeeps ==
  ASSUME PersistenceInv, NEW s \in Sessions, chain[s] # <<>>, chain[s][1].by # "call",
         chain' = [chain EXCEPT ![s] = Rest(s, live[s])],
         UNCHANGED <<live, chat, busy, timer, acked, removed, call>>
  PROVE  /\ chain' \in [Sessions -> Seq(Write)]
         /\ CallWaits(s)' /\ CallInv(s)' /\ ChainInv(s)'
<1>1. /\ live' = live /\ chat' = chat /\ busy' = busy /\ acked' = acked /\ call' = call
      /\ removed' = removed /\ timer' = timer
  OBVIOUS
<1>w. PICK w \in Write : w = chain[s][1] /\ chain[s] # <<>>
  BY Known
<1>i. CallWaits(s) /\ CallInv(s) /\ ChainInv(s)
  BY Known DEF SessionInv
<1>n. PICK n \in Nat : n = Len(chain[s])
  BY Known
<1>q. PICK q \in Seq(Write) :
        /\ q = Rest(s, live[s]) /\ q = chain'[s] /\ Len(q) = n - 1 /\ n > 0
        /\ \A i \in 1 .. n - 1 : q[i].by = chain[s][i + 1].by
  <2>1. Rest(s, live[s]) = chain'[s]
    BY <1>1, Known DEF Typed
  <2>2. live[s] \in Session \cup {Nothing}
    BY Known
  <2>3. /\ Rest(s, live[s]) \in Seq(Write) /\ Len(Rest(s, live[s])) = n - 1 /\ n > 0
        /\ \A i \in 1 .. n - 1 : Rest(s, live[s])[i].by = chain[s][i + 1].by
    BY <1>n, <1>w, <2>2, RestBy
  <2> QED BY <2>1, <2>3
<1>3. Places(s) = 1 .. n /\ Places(s)' = 1 .. n - 1 /\ 1 \in Places(s)
  BY <1>n, <1>q DEF Places
<1>4. w.by # "call"
  BY <1>w
<1>5. chain' \in [Sessions -> Seq(Write)]
  BY <1>q, Known DEF Typed
<1>6. CallWaits(s)'
  <2>1. \A i \in 1 .. n - 1 : Awaited(s, i)' <=> Awaited(s, i + 1)
    BY <1>q DEF Awaited
  <2>2. ~Awaited(s, 1)
    BY <1>w, <1>4 DEF Awaited
  <2>3. ASSUME NEW i \in 1 .. n, Awaited(s, i) PROVE i - 1 \in 1 .. n - 1 /\ Awaited(s, i - 1)'
    <3>1. i - 1 \in 1 .. n - 1 /\ (i - 1) + 1 = i
      BY <2>2, <2>3
    <3> QED BY <2>1, <2>3, <3>1
  <2>4. (\E i \in 1 .. n : Awaited(s, i)) <=> (\E i \in 1 .. n - 1 : Awaited(s, i)')
    <3>1. ASSUME NEW i \in 1 .. n - 1, Awaited(s, i)' PROVE i + 1 \in 1 .. n /\ Awaited(s, i + 1)
      BY <2>1, <3>1
    <3> QED BY <2>3, <3>1
  <2>5. ASSUME NEW i \in 1 .. n - 1, NEW j \in 1 .. n - 1, Awaited(s, i)', Awaited(s, j)'
        PROVE  i = j
    <3>1. i + 1 \in 1 .. n /\ j + 1 \in 1 .. n /\ Awaited(s, i + 1) /\ Awaited(s, j + 1)
      BY <2>1, <2>5
    <3>2. i + 1 = j + 1
      BY <1>i, <1>3, <3>1 DEF CallWaits
    <3> QED BY <3>2
  <2> QED BY <1>1, <1>i, <1>3, <2>4, <2>5 DEF CallWaits
<1>7. CallInv(s)'
  <2>1. call[s].op # "prepare"
    BY <1>w, <1>i DEF CallInv
  <2>2. call[s].op \in {"mark", "remove", "revise"} => Awaited(s, Len(chain[s]))'
    <3>1. ASSUME call[s].op \in {"mark", "remove", "revise"} PROVE Awaited(s, Len(chain[s]))'
      <4>1. chain[s][n].by = "call" /\ n # 1
        BY <1>i, <1>n, <1>w, <1>4, <3>1 DEF CallInv, Awaited
      <4>2. n - 1 \in 1 .. n - 1 /\ (n - 1) + 1 = n
        BY <1>q, <4>1
      <4>3. q[n - 1].by = "call"
        BY <1>q, <4>1, <4>2
      <4> QED BY <1>q, <4>3 DEF Awaited
    <3> QED BY <3>1
  <2> QED BY <1>1, <1>i, <2>1, <2>2 DEF CallInv, Follows, Gated, AtLeast
<1>8. ChainInv(s)'
  <2>1. /\ \A i \in 1 .. n - 1 : WriteInv(s, q[i])
        /\ n > 1 => RunningInv(s, q[1])
    BY <1>n, <1>q, <1>w, RestSound
  <2>2. \A i \in 1 .. n - 1 : WriteInv(s, q[i])'
    BY <1>1, <2>1 DEF WriteInv
  <2>3. q # <<>> => RunningInv(s, q[1])'
    BY <1>1, <1>q, <2>1 DEF RunningInv, AtLeast
  <2> QED BY <1>q, <1>3, <2>2, <2>3 DEF ChainInv
<1> QED BY <1>5, <1>6, <1>7, <1>8

(* A write that no call waits for: a flush that is saved, or a second      *)
(* removal that changes nothing.                                           *)
LEMMA OthersWriteDone ==
  ASSUME PersistenceInv, NEW s \in Sessions, WriteDone(s), chain[s][1].by # "call"
  PROVE  PersistenceInv'
<1>0. PersistenceInv
  OBVIOUS
<1>w. PICK w \in Write : w = chain[s][1] /\ w = Head(chain[s]) /\ chain[s] # <<>>
  BY Known DEF WriteDone
<1>1. /\ live' = live /\ chat' = chat /\ busy' = busy /\ acked' = acked /\ call' = call
      /\ removed' = removed /\ phase' = phase /\ reported' = reported /\ timer' = timer
      /\ disk' = [disk EXCEPT ![s] = Stored(w, disk[s])]
      /\ closing' = IF w.by = "close" THEN closing \ {s} ELSE closing
      /\ chain' = [chain EXCEPT ![s] = Rest(s, live[s])]
      /\ errors' = errors \ {s} /\ UNCHANGED <<recovering, suspended, counts>>
  BY <1>w DEF WriteDone, memory, history
<1>t. /\ live[s] \in Session \cup {Nothing} /\ acked[s] \in Session \cup {Nothing}
      /\ chat[s] \in Chat /\ disk[s] \in Record \cup {Nothing}
  BY Known
<1>i. /\ CallWaits(s) /\ Survives(s) /\ Paired(s)
      /\ PhaseInv(s) /\ MemoryInv(s) /\ CallInv(s) /\ ChainInv(s) /\ FlushInv(s)
  BY Known DEF SessionInv
<1>n. PICK n \in Nat : n = Len(chain[s])
  BY Known
<1>q. PICK q \in Seq(Write) :
        /\ q = Rest(s, live[s]) /\ q = chain'[s] /\ Len(q) = n - 1 /\ n > 0
        /\ \A i \in 1 .. n - 1 : q[i].by = chain[s][i + 1].by
  <2>1. Rest(s, live[s]) = chain'[s]
    BY <1>1, Known DEF Typed
  <2>2. live[s] \in Session \cup {Nothing}
    BY Known
  <2>3. /\ Rest(s, live[s]) \in Seq(Write) /\ Len(Rest(s, live[s])) = n - 1 /\ n > 0
        /\ \A i \in 1 .. n - 1 : Rest(s, live[s])[i].by = chain[s][i + 1].by
    BY <1>n, <1>w, <2>2, RestBy
  <2> QED BY <2>1, <2>3
<1>2. chain' \in [Sessions -> Seq(Write)] /\ CallWaits(s)' /\ CallInv(s)' /\ ChainInv(s)'
  BY <1>0, <1>1, <1>w, RestKeeps
<1>3. Places(s) = 1 .. n /\ Places(s)' = 1 .. n - 1 /\ 1 \in Places(s)
  BY <1>n, <1>q DEF Places
<1>4. WriteInv(s, w) /\ RunningInv(s, w) /\ w.by # "call"
  BY <1>i, <1>w, <1>3 DEF ChainInv
<1>5. /\ disk'[s] \in Record \cup {Nothing}
      /\ \/ /\ w.by = "event" /\ live[s] = Nothing /\ acked[s] = Nothing /\ disk'[s] = Nothing
         \/ /\ w.by \in {"timer", "close"} /\ live[s] # Nothing
            /\ disk'[s] = [session |-> w.session, chat |-> w.chat]
            /\ w.session \in Session /\ w.chat \in Chat
            /\ w.session.rev = w.chat.rev /\ AtLeast(w.session, acked[s])
  <2>1. disk'[s] = Stored(w, disk[s])
    BY <1>1, Known DEF Typed
  <2>2. CASE w.by = "event"
    BY <1>4, <1>i, <2>1, <2>2 DEF WriteInv, MemoryInv, Stored
  <2>3. CASE w.by # "event"
    <3>1. w.kind = "flush" /\ live[s] # Nothing /\ w.by \in {"timer", "close"}
      BY <1>4, <2>3, WriteFields DEF WriteInv, Callers
    <3>2. /\ w.session \in Session /\ w.chat \in Chat
          /\ w.session.rev = w.chat.rev /\ AtLeast(w.session, acked[s])
      BY <1>4, <3>1, WriteFields DEF RunningInv
    <3>3. disk'[s] = [session |-> w.session, chat |-> w.chat]
      BY <2>1, <3>1, <3>2, Sentinel DEF Stored
    <3> QED BY <3>1, <3>2, <3>3 DEF Record
  <2> QED BY <2>2, <2>3
<1>6. \A t \in Sessions : t # s => /\ Untouched(t)
                                   /\ t \in closing' <=> t \in closing
  BY <1>1, Known DEF Untouched, Typed
<1>7. Typed'
  <2>1. disk' \in [Sessions -> Record \cup {Nothing}]
    BY <1>1, <1>5, Known DEF Typed
  <2> QED BY <1>0, <1>1, <1>2, <2>1 DEF PersistenceInv, Typed, counts
<1>8. (Survives(s) /\ Paired(s))'
  <2>1. disk'[s] # Nothing =>
          /\ disk'[s].session = w.session /\ disk'[s].chat = w.chat
          /\ w.session.rev = w.chat.rev /\ AtLeast(w.session, acked[s])
    BY <1>5
  <2>2. acked[s] # Nothing => disk'[s] # Nothing
    BY <1>5, Sentinel DEF Record
  <2> QED BY <1>1, <2>1, <2>2 DEF Survives, Paired, AtLeast
<1>9. (PhaseInv(s) /\ MemoryInv(s))'
  <2>1. n # 0 /\ chain[s] # <<>>
    BY <1>w, <1>q
  <2>2. live[s] = Nothing <=> disk'[s] = Nothing
    BY <1>5, Sentinel DEF Record
  <2> QED BY <1>1, <1>5, <1>i, <2>1, <2>2 DEF PhaseInv, MemoryInv, AtLeast
<1>10. FlushInv(s)'
  <2>1. CASE w.by = "close"
    <3>1. n = 1 /\ q = <<>>
      <4>1. 1 = Len(chain[s])
        BY <1>i, <1>w, <1>3, <2>1 DEF FlushInv
      <4>2. n = 1 /\ Len(q) = 0
        BY <1>n, <1>q, <4>1
      <4>3. q \in Seq(Write)
        OBVIOUS
      <4> QED BY ONLY <4>2, <4>3
    <3>2. phase = "flushing" \/ (phase = "closed" /\ ~reported) =>
            w.session = live[s] /\ w.chat = chat[s]
      BY <1>i, <1>n, <1>w, <1>5, <2>1, <3>1 DEF FlushInv
    <3> QED BY <1>1, <1>3, <1>5, <1>q, <2>1, <3>1, <3>2 DEF FlushInv
  <2>2. CASE w.by # "close"
    <3>1. /\ \A i \in 1 .. n - 1 :
               q[i].by = "close" => i = n - 1 /\ phase \in {"flushing", "closed"}
          /\ ~(phase = "closed" /\ ~reported)
          /\ phase = "flushing" =>
               IF live[s] = Nothing THEN s \notin closing
               ELSE /\ s \in closing /\ n > 1 /\ q[n - 1].by = "close"
                    /\ n = 2 => q[1].session = live[s] /\ q[1].chat = chat[s]
      <4>1. q = Rest(s, live[s]) /\ n = Len(chain[s]) /\ chain[s] # <<>>
        BY <1>n, <1>q, <1>w
      <4>2. chain[s][1].by # "close" /\ n \in Nat
        BY <1>w, <2>2
      <4> QED BY ZenonT(60), <4>1, <4>2, RestFlushes
    <3>2. n > 1 => q # <<>>
      BY <1>q
    <3> QED BY <1>1, <1>3, <1>q, <2>2, <3>1, <3>2 DEF FlushInv
  <2> QED BY <2>1, <2>2
<1>11. SessionInv(s)'
  BY <1>2, <1>8, <1>9, <1>10 DEF SessionInv
<1> QED BY <1>1, <1>6, <1>7, <1>11, OneSession

(* A write that fails and that no call waits for.                          *)
LEMMA OthersWriteFails ==
  ASSUME PersistenceInv, NEW s \in Sessions, WriteFails(s), chain[s][1].by # "call"
  PROVE  PersistenceInv'
<1>0. PersistenceInv
  OBVIOUS
<1>w. PICK w \in Write : w = chain[s][1] /\ w = Head(chain[s]) /\ chain[s] # <<>>
  BY Known DEF WriteFails
<1>1. /\ live' = live /\ chat' = chat /\ busy' = busy /\ acked' = acked /\ call' = call
      /\ removed' = removed /\ timer' = timer /\ disk' = disk
      /\ chain' = [chain EXCEPT ![s] = Rest(s, live[s])]
      /\ errors' \subseteq errors \cup {s} /\ failures' = failures + 1
      /\ UNCHANGED <<recovering, suspended, crashes>>
  BY <1>w DEF WriteFails, memory, history
<1>i. /\ Survives(s) /\ Paired(s) /\ PhaseInv(s) /\ MemoryInv(s) /\ FlushInv(s)
  BY Known DEF SessionInv
<1>n. PICK n \in Nat : n = Len(chain[s])
  BY Known
<1>q. PICK q \in Seq(Write) :
        /\ q = Rest(s, live[s]) /\ q = chain'[s] /\ Len(q) = n - 1 /\ n > 0
        /\ \A i \in 1 .. n - 1 : q[i].by = chain[s][i + 1].by
  <2>1. Rest(s, live[s]) = chain'[s]
    BY <1>1, Known DEF Typed
  <2>2. live[s] \in Session \cup {Nothing}
    BY Known
  <2>3. /\ Rest(s, live[s]) \in Seq(Write) /\ Len(Rest(s, live[s])) = n - 1 /\ n > 0
        /\ \A i \in 1 .. n - 1 : Rest(s, live[s])[i].by = chain[s][i + 1].by
    BY <1>n, <1>w, <2>2, RestBy
  <2> QED BY <2>1, <2>3
<1>2. chain' \in [Sessions -> Seq(Write)] /\ CallWaits(s)' /\ CallInv(s)' /\ ChainInv(s)'
  BY <1>0, <1>1, <1>w, RestKeeps
<1>3. Places(s) = 1 .. n /\ Places(s)' = 1 .. n - 1 /\ 1 \in Places(s)
  BY <1>n, <1>q DEF Places
<1>4. (Survives(s) /\ Paired(s))'
  BY <1>1, <1>i DEF Survives, Paired, AtLeast
<1>5. \A t \in Sessions : t # s => Untouched(t)
  BY <1>1, Known DEF Untouched, Typed
<1>6. CASE w.by # "close"
  <2>1. phase' = phase /\ closing' = closing /\ reported' = reported
    BY <1>w, <1>6 DEF WriteFails
  <2>2. Typed'
    BY <1>0, <1>1, <1>2, <2>1 DEF PersistenceInv, Typed
  <2>3. (PhaseInv(s) /\ MemoryInv(s))'
    BY <1>1, <1>i, <1>w, <2>1 DEF PhaseInv, MemoryInv, AtLeast
  <2>4. FlushInv(s)'
    <3>1. /\ \A i \in 1 .. n - 1 :
               q[i].by = "close" => i = n - 1 /\ phase \in {"flushing", "closed"}
          /\ ~(phase = "closed" /\ ~reported)
          /\ phase = "flushing" =>
               IF live[s] = Nothing THEN s \notin closing
               ELSE /\ s \in closing /\ n > 1 /\ q[n - 1].by = "close"
                    /\ n = 2 => q[1].session = live[s] /\ q[1].chat = chat[s]
      <4>1. q = Rest(s, live[s]) /\ n = Len(chain[s]) /\ chain[s] # <<>>
        BY <1>n, <1>q, <1>w
      <4>2. chain[s][1].by # "close" /\ n \in Nat
        BY <1>w, <1>6
      <4> QED BY ZenonT(60), <4>1, <4>2, RestFlushes
    <3>2. n > 1 => q # <<>>
      BY <1>q
    <3> QED BY <1>1, <1>3, <1>q, <2>1, <3>1, <3>2 DEF FlushInv
  <2>5. SessionInv(s)'
    BY <1>2, <1>4, <2>3, <2>4 DEF SessionInv
  <2> QED BY <1>5, <2>1, <2>2, <2>5, OneSession
<1>7. CASE w.by = "close"
  <2>1. phase' = "closed" /\ closing' = {} /\ reported' = TRUE
    BY <1>w, <1>7 DEF WriteFails
  <2>2. Typed'
    BY <1>0, <1>1, <1>2, <2>1 DEF PersistenceInv, Typed, Phases
  <2>3. phase \in {"flushing", "closed"}
    BY <1>i, <1>w, <1>3, <1>7 DEF FlushInv
  <2>4. n = 1
    BY <1>i, <1>n, <1>w, <1>3, <1>7 DEF FlushInv
  <2>5. (PhaseInv(s) /\ MemoryInv(s) /\ FlushInv(s))'
    BY <1>1, <1>3, <1>i, <2>1, <2>3, <2>4 DEF PhaseInv, MemoryInv, FlushInv, AtLeast
  <2>6. SessionInv(s)'
    BY <1>2, <1>4, <2>5 DEF SessionInv
  <2>7. ASSUME NEW t \in Sessions, t # s PROVE SessionInv(t)'
    <3>1. Untouched(t) /\ SessionInv(t)
      BY <1>0, <1>5, <2>7 DEF PersistenceInv
    <3>2. (CallWaits(t) /\ Survives(t) /\ Paired(t))'
      BY <3>1 DEF Untouched, SessionInv, CallWaits, Places, Awaited, Survives, Paired, AtLeast
    <3>3. (PhaseInv(t) /\ MemoryInv(t) /\ FlushInv(t))'
      BY <2>1, <2>3, <3>1 DEF Untouched, SessionInv, PhaseInv, MemoryInv, FlushInv, Places,
                             AtLeast
    <3>4. CallInv(t)'
      BY <3>1 DEF Untouched, SessionInv, CallInv, Follows, Gated, Awaited, AtLeast
    <3>5. ChainInv(t)'
      BY <3>1 DEF Untouched, SessionInv, ChainInv, WriteInv, RunningInv, Places, AtLeast
    <3> QED BY <3>2, <3>3, <3>4, <3>5 DEF SessionInv
  <2> QED BY <2>2, <2>6, <2>7 DEF PersistenceInv
<1> QED BY <1>6, <1>7

(* What a call that waits for the running write knows.                     *)
LEMMA CallWaitsAlone ==
  ASSUME PersistenceInv, NEW s \in Sessions, chain[s] # <<>>, chain[s][1].by = "call",
         NEW n \in Nat, n = Len(chain[s])
  PROVE  /\ call[s].op \in Saving /\ s \notin removed
         /\ phase \notin {"down", "chats", "flushing", "closed"}
         /\ \A i \in 2 .. n : chain[s][i].by = "timer" /\ live[s] # Nothing
         /\ call[s].op \in {"mark", "remove", "revise"} => n = 1
         /\ WriteInv(s, chain[s][1]) /\ RunningInv(s, chain[s][1])
<1>1. /\ CallWaits(s) /\ PhaseInv(s) /\ MemoryInv(s) /\ CallInv(s) /\ ChainInv(s) /\ FlushInv(s)
      /\ n > 0 /\ Places(s) = 1 .. n
  BY Known DEF SessionInv, Places
<1>2. 1 \in Places(s) /\ Awaited(s, 1)
  BY <1>1 DEF Awaited
<1>3. call[s].op \in Saving
  BY <1>1, <1>2 DEF CallWaits
<1>4. s \notin removed /\ phase \notin {"down", "chats", "flushing", "closed"}
  BY <1>1, <1>3 DEF MemoryInv, PhaseInv, Saving
<1>5. ASSUME NEW i \in 2 .. n PROVE chain[s][i].by = "timer" /\ live[s] # Nothing
  <2>1. i \in Places(s) /\ i # 1
    BY <1>1
  <2>2. chain[s][i].by # "call"
    BY <1>1, <1>2, <2>1 DEF CallWaits, Awaited
  <2>3. WriteInv(s, chain[s][i]) /\ chain[s][i].by # "close" /\ chain[s][i].by \in Callers
    BY <1>1, <1>4, <2>1, Known, WriteFields DEF ChainInv, FlushInv
  <2> QED BY <1>4, <2>2, <2>3 DEF WriteInv, Callers
<1>6. call[s].op \in {"mark", "remove", "revise"} => n = 1
  <2>1. n \in Places(s) /\ n = Len(chain[s])
    BY <1>1
  <2> QED BY <1>1, <1>2, <2>1 DEF CallInv, CallWaits
<1> QED BY <1>1, <1>2, <1>3, <1>4, <1>5, <1>6 DEF ChainInv

(* A call whose write fails ends without it.                               *)
LEMMA CallFails ==
  ASSUME PersistenceInv, NEW s \in Sessions, WriteFails(s), chain[s][1].by = "call"
  PROVE  PersistenceInv'
<1>0. PersistenceInv
  OBVIOUS
<1>w. PICK w \in Write : w = chain[s][1] /\ w = Head(chain[s]) /\ chain[s] # <<>>
  BY Known DEF WriteFails
<1>1. /\ live' = live /\ chat' = chat /\ busy' = busy /\ acked' = acked
      /\ removed' = removed /\ timer' = timer /\ disk' = disk /\ errors' = errors
      /\ phase' = phase /\ closing' = closing /\ reported' = reported
      /\ chain' = [chain EXCEPT ![s] = Rest(s, live[s])]
      /\ call' = [call EXCEPT ![s] = NoCall]
      /\ suspended' = suspended \ {s} /\ failures' = failures + 1
      /\ UNCHANGED <<recovering, crashes>>
  BY <1>w DEF WriteFails, memory, history
<1>n. PICK n \in Nat : n = Len(chain[s])
  BY Known
<1>i. /\ Survives(s) /\ Paired(s) /\ PhaseInv(s) /\ MemoryInv(s) /\ FlushInv(s)
  BY Known DEF SessionInv
<1>2. /\ phase \notin {"down", "chats", "flushing", "closed"}
      /\ \A i \in 2 .. n : chain[s][i].by = "timer"
  BY <1>n, <1>w, CallWaitsAlone
<1>q. PICK q \in Seq(Write) :
        /\ q = Rest(s, live[s]) /\ q = chain'[s] /\ Len(q) = n - 1 /\ n > 0
        /\ \A i \in 1 .. n - 1 : q[i].by = chain[s][i + 1].by
  <2>1. Rest(s, live[s]) = chain'[s]
    BY <1>1, Known DEF Typed
  <2>2. live[s] \in Session \cup {Nothing}
    BY Known
  <2>3. /\ Rest(s, live[s]) \in Seq(Write) /\ Len(Rest(s, live[s])) = n - 1 /\ n > 0
        /\ \A i \in 1 .. n - 1 : Rest(s, live[s])[i].by = chain[s][i + 1].by
    BY <1>n, <1>w, <2>2, RestBy
  <2> QED BY <2>1, <2>3
<1>3. ASSUME NEW i \in 1 .. n - 1 PROVE q[i].by = "timer"
  <2>1. i + 1 \in 2 .. n
    OBVIOUS
  <2> QED BY <1>q, <1>2, <2>1
<1>4. Places(s)' = 1 .. n - 1
  BY <1>q DEF Places
<1>5. call'[s].op = "none" /\ NoCall \in [op: Ops, next: Session \cup {Nothing}]
  BY <1>1, Known DEF NoCall, Typed, Ops
<1>6. \A t \in Sessions : t # s => Untouched(t)
  BY <1>1, Known DEF Untouched, Typed
<1>7. Typed'
  <2>1. chain' \in [Sessions -> Seq(Write)]
    BY <1>1, <1>q, Known DEF Typed
  <2>2. call' \in [Sessions -> [op: Ops, next: Session \cup {Nothing}]]
    BY <1>1, <1>5, Known DEF Typed
  <2> QED BY <1>0, <1>1, <2>1, <2>2 DEF PersistenceInv, Typed
<1>8. CallWaits(s)'
  <2>1. \A i \in 1 .. n - 1 : ~Awaited(s, i)'
    BY <1>3, <1>q DEF Awaited
  <2> QED BY <1>4, <1>5, <2>1 DEF CallWaits, Saving
<1>9. (Survives(s) /\ Paired(s) /\ PhaseInv(s) /\ MemoryInv(s))'
  BY <1>1, <1>2, <1>5, <1>i DEF Survives, Paired, PhaseInv, MemoryInv, AtLeast
<1>10. CallInv(s)'
  BY <1>5 DEF CallInv, Follows, Gated
<1>11. ChainInv(s)'
  <2>1. /\ \A i \in 1 .. n - 1 : WriteInv(s, q[i])
        /\ n > 1 => RunningInv(s, q[1])
    BY <1>n, <1>q, <1>w, RestSound
  <2>2. \A i \in 1 .. n - 1 : WriteInv(s, q[i])'
    BY <1>1, <1>3, <2>1 DEF WriteInv
  <2>3. q # <<>> => RunningInv(s, q[1])'
    BY <1>1, <1>q, <2>1 DEF RunningInv, AtLeast
  <2> QED BY <1>q, <1>4, <2>2, <2>3 DEF ChainInv
<1>12. FlushInv(s)'
  BY <1>1, <1>2, <1>3, <1>4, <1>q DEF FlushInv
<1>13. SessionInv(s)'
  BY <1>8, <1>9, <1>10, <1>11, <1>12 DEF SessionInv
<1> QED BY <1>1, <1>6, <1>7, <1>13, OneSession

(* What a call that returns does to its session, and to nothing else.      *)
Returns(s, w) ==
  /\ disk' = [disk EXCEPT ![s] = Stored(w, disk[s])]
  /\ live' = [live EXCEPT ![s] = Committed(s)]
  /\ acked' = [acked EXCEPT ![s] = Committed(s)]
  /\ chat' = IF call[s].op = "revise" THEN [chat EXCEPT ![s] = NextChat(s)] ELSE chat
  /\ call' = [call EXCEPT ![s] = IF call[s].op = "mark"
                                 THEN [op |-> "clean", next |-> Nothing] ELSE NoCall]
  /\ timer' = IF call[s].op = "remove" THEN timer \ {s}
              ELSE IF Subscribed THEN timer \cup {s} ELSE timer
  /\ removed' = IF call[s].op = "remove" THEN removed \cup {s} ELSE removed
  /\ chain' = [chain EXCEPT ![s] =
       IF call[s].op = "remove" THEN WithRemoval(Rest(s, Visible(s, w)))
                                ELSE Rest(s, Visible(s, w))]
  /\ suspended' = suspended \ {s} /\ errors' = errors \ {s}
  /\ busy' = busy /\ phase' = phase /\ closing' = closing /\ reported' = reported
  /\ UNCHANGED <<recovering, failures, crashes>>

LEMMA CallReturnsDoes ==
  ASSUME Typed, NEW s \in Sessions, WriteDone(s), chain[s][1].by = "call"
  PROVE  chain[s] # <<>> /\ Returns(s, chain[s][1])
<1>1. chain[s] # <<>> /\ chain[s] \in Seq(Write)
  BY DEF WriteDone, Typed
<1>2. Head(chain[s]) = chain[s][1]
  BY <1>1
<1>3. /\ disk' = [disk EXCEPT ![s] = Stored(chain[s][1], disk[s])]
      /\ CallReturns(s)
  BY <1>2 DEF WriteDone
<1> QED BY <1>1, <1>2, <1>3 DEF CallReturns, Returns, daemon, counts

LEMMA ReturnsLeavesOthers ==
  ASSUME Typed, NEW s \in Sessions, NEW w, Returns(s, w)
  PROVE  \A t \in Sessions : t # s => Untouched(t)
<1>1. ASSUME NEW t \in Sessions, t # s PROVE Untouched(t)
  <2>1. /\ live'[t] = live[t] /\ disk'[t] = disk[t] /\ chain'[t] = chain[t]
        /\ call'[t] = call[t] /\ acked'[t] = acked[t]
    BY <1>1 DEF Typed, Returns
  <2>2. chat'[t] = chat[t] /\ (t \in busy' <=> t \in busy)
    BY <1>1 DEF Typed, Returns
  <2>3. (t \in timer' <=> t \in timer) /\ (t \in removed' <=> t \in removed)
    BY <1>1 DEF Returns
  <2> QED BY <2>1, <2>2, <2>3 DEF Untouched
<1> QED BY <1>1

(* The call that removes a session leaves one thing in its chain: the      *)
(* second removal of a file that is gone.                                  *)
LEMMA CallRemoves ==
  ASSUME PersistenceInv, NEW s \in Sessions, WriteDone(s), chain[s][1].by = "call",
         call[s].op = "remove"
  PROVE  PersistenceInv'
<1>0. Typed /\ PersistenceInv
  BY Known
<1>w. PICK w \in Write : w = chain[s][1] /\ chain[s] # <<>> /\ Returns(s, w)
  BY <1>0, Known, CallReturnsDoes
<1>n. PICK n \in Nat : n = Len(chain[s])
  BY Known
<1>1. /\ phase \notin {"down", "chats", "flushing", "closed"} /\ n = 1
      /\ WriteInv(s, w) /\ w.by = "call" /\ s \notin busy
  <2>1. CallInv(s)
    BY Known DEF SessionInv
  <2>2. s \notin busy
    BY <2>1 DEF CallInv, Gated
  <2> QED BY <1>n, <1>w, <2>2, CallWaitsAlone
<1>2. Committed(s) = Nothing /\ Visible(s, w) = Nothing
  BY <1>1 DEF Committed, Visible, Direct
<1>3. Rest(s, Nothing) = <<>>
  <2>1. Rest(s, Nothing) \in Seq(Write) /\ Len(Rest(s, Nothing)) = n - 1
    BY <1>n, <1>w, RestBy
  <2> QED BY <1>1, <2>1
<1>4. /\ live'[s] = Nothing /\ acked'[s] = Nothing /\ disk'[s] = Nothing
      /\ call'[s] = NoCall /\ call'[s].op = "none"
      /\ chain'[s] = <<Remove("event")>>
      /\ timer' = timer \ {s} /\ removed' = removed \cup {s} /\ chat' = chat
  <2>1. Stored(w, disk[s]) = Nothing
    <3>1. w.kind = "remove"
      BY <1>1 DEF WriteInv
    <3> QED BY <3>1 DEF Stored
  <2>2. live'[s] = Nothing /\ acked'[s] = Nothing /\ disk'[s] = Nothing
    BY <1>0, <1>2, <1>w, <2>1 DEF Returns, Typed
  <2>3. call'[s] = NoCall
    BY <1>0, <1>w DEF Returns, Typed
  <2>4. chain'[s] = Append(<<>>, Remove("event"))
    BY <1>0, <1>2, <1>3, <1>w DEF Returns, Typed, WithRemoval
  <2> QED BY <1>w, <2>2, <2>3, <2>4 DEF Returns, NoCall
<1>5. \A t \in Sessions : t # s => Untouched(t)
  BY <1>0, <1>w, ReturnsLeavesOthers
<1>6. /\ phase' = phase /\ closing' = closing /\ reported' = reported /\ busy' = busy
  BY <1>w DEF Returns
<1>7. /\ Remove("event") \in Write
      /\ Remove("event").kind = "remove" /\ Remove("event").by = "event"
  BY MadeFacts DEF Callers
<1>8. /\ Places(s)' = {1} /\ chain'[s] \in Seq(Write) /\ Len(chain[s])' = 1
      /\ chain'[s][1] = Remove("event")
  BY <1>4, <1>7 DEF Places
<1>9. Typed'
  <2>1. chain' \in [Sessions -> Seq(Write)]
    BY <1>0, <1>4, <1>8, <1>w DEF Returns, Typed
  <2>2. call' \in [Sessions -> [op: Ops, next: Session \cup {Nothing}]]
    BY <1>0, <1>w DEF Returns, Typed, NoCall, Ops
  <2>3. /\ live' \in [Sessions -> Session \cup {Nothing}]
        /\ acked' \in [Sessions -> Session \cup {Nothing}]
    BY <1>0, <1>2, <1>w DEF Returns, Typed
  <2>4. disk' \in [Sessions -> Record \cup {Nothing}]
    BY <1>0, <1>4, <1>w DEF Returns, Typed
  <2> QED BY <1>0, <1>4, <1>6, <1>w, <2>1, <2>2, <2>3, <2>4 DEF Returns, Typed
<1>10. CallWaits(s)'
  BY <1>4, <1>7, <1>8 DEF CallWaits, Awaited, Saving
<1>11. (Survives(s) /\ Paired(s) /\ PhaseInv(s) /\ MemoryInv(s))'
  BY <1>1, <1>4, <1>6 DEF Survives, Paired, PhaseInv, MemoryInv, AtLeast
<1>12. CallInv(s)'
  BY <1>4 DEF CallInv, Follows, Gated
<1>13. ChainInv(s)'
  <2>1. WriteInv(s, chain[s][1])' /\ RunningInv(s, chain[s][1])'
    BY <1>4, <1>7, <1>8 DEF WriteInv, RunningInv
  <2> QED BY <1>8, <2>1 DEF ChainInv
<1>14. FlushInv(s)'
  BY <1>1, <1>6, <1>7, <1>8 DEF FlushInv
<1>15. SessionInv(s)'
  BY <1>10, <1>11, <1>12, <1>13, <1>14 DEF SessionInv
<1> QED BY <1>5, <1>6, <1>9, <1>15, OneSession

(* What a call that keeps its session commits, and what a flush behind it  *)
(* has read by then.                                                       *)
LEMMA CommitFacts ==
  ASSUME PersistenceInv, NEW s \in Sessions, chain[s] # <<>>, chain[s][1].by = "call",
         call[s].op # "remove", NEW n \in Nat, n = Len(chain[s]),
         NEW next, next = call[s].next, NEW seen, seen = Visible(s, chain[s][1])
  PROVE  /\ next \in Session /\ Committed(s) = next
         /\ next.rev = chat[s].rev + (IF call[s].op = "revise" THEN 1 ELSE 0)
         /\ seen \in Session \cup {Nothing}
         /\ n > 1 => /\ seen # Nothing /\ seen.rev = chat[s].rev /\ AtLeast(seen, next)
<1>1. /\ live[s] \in Session \cup {Nothing} /\ next \in Session \cup {Nothing}
      /\ chat[s].rev \in Nat /\ phase # "down"
      /\ call[s].op \in Saving /\ s \notin removed /\ chain[s][1] \in Write
  BY Known, CallWaitsAlone DEF Places
<1>2. /\ Follows(call[s].op, next, live[s])
      /\ live[s] # Nothing => live[s].rev = chat[s].rev
      /\ live[s] = Nothing => chat[s].rev = 0
  BY <1>1, Known DEF SessionInv, CallInv, MemoryInv
<1>3. next \in Session /\ Committed(s) = next
  BY <1>1, <1>2, CreatedTyped DEF Follows, Saving, Committed
<1>4. next.rev = chat[s].rev + (IF call[s].op = "revise" THEN 1 ELSE 0)
  <2>1. CASE call[s].op = "create"
    <3>1. live[s] = Nothing /\ next = Created /\ chat[s].rev = 0
      BY <1>2, <2>1 DEF Follows
    <3>2. next.rev = 0
      BY <3>1 DEF Created
    <3> QED BY <2>1, <3>1, <3>2
  <2>2. CASE call[s].op # "create"
    BY <1>1, <1>2, <2>2 DEF Follows, Saving
  <2> QED BY <2>1, <2>2
<1>5. seen = IF Direct(call[s].op) THEN next ELSE live[s]
  BY <1>3 DEF Visible
<1>6. ASSUME n > 1 PROVE seen # Nothing /\ seen.rev = chat[s].rev /\ AtLeast(seen, next)
  <2>1. live[s] # Nothing /\ call[s].op \notin {"mark", "revise"}
    <3>1. 2 \in 2 .. n
      BY <1>6
    <3> QED BY <1>6, <3>1, CallWaitsAlone
  <2>2. call[s].op \in {"edit", "open", "same"}
    BY <1>1, <1>2, <2>1 DEF Follows, Saving
  <2>3. CASE call[s].op \in {"edit", "same"}
    <3>1. seen = next /\ next.rev = chat[s].rev
      BY <1>1, <1>4, <1>5, <2>3 DEF Direct
    <3> QED BY <1>3, <3>1, Sentinel, AtLeastItself
  <2>4. CASE call[s].op = "open"
    <3>1. seen = live[s]
      BY <1>5, <2>4 DEF Direct
    <3>2. /\ next.edits = live[s].edits /\ next.marked = live[s].marked
          /\ next.rev = live[s].rev
      BY <1>1, <1>2, <1>4, <2>1, <2>4 DEF Follows
    <3>3. live[s] \in Session
      BY <1>1, <2>1
    <3> QED BY <1>2, <2>1, <3>1, <3>2, <3>3 DEF AtLeast, Session
  <2> QED BY <2>2, <2>3, <2>4
<1> QED BY <1>1, <1>3, <1>4, <1>5, <1>6

LEMMA CallCommits ==
  ASSUME PersistenceInv, NEW s \in Sessions, WriteDone(s), chain[s][1].by = "call",
         call[s].op # "remove"
  PROVE  PersistenceInv'
<1>0. Typed /\ PersistenceInv
  BY Known
<1>w. PICK w \in Write : w = chain[s][1] /\ chain[s] # <<>> /\ Returns(s, w)
  BY <1>0, Known, CallReturnsDoes
<1>n. PICK n \in Nat : n = Len(chain[s])
  BY Known
<1>x. PICK next, seen : next = call[s].next /\ seen = Visible(s, w)
  OBVIOUS
<1>1. /\ phase \notin {"down", "chats", "flushing", "closed"} /\ s \notin removed
      /\ WriteInv(s, w) /\ RunningInv(s, w) /\ w.by = "call"
      /\ \A i \in 2 .. n : chain[s][i].by = "timer" /\ live[s] # Nothing
      /\ call[s].op \in {"mark", "remove", "revise"} => n = 1
  BY <1>n, <1>w, CallWaitsAlone
<1>2. /\ next \in Session /\ Committed(s) = next
      /\ next.rev = chat[s].rev + (IF call[s].op = "revise" THEN 1 ELSE 0)
      /\ seen \in Session \cup {Nothing}
      /\ n > 1 => /\ seen # Nothing /\ seen.rev = chat[s].rev /\ AtLeast(seen, next)
  <2>1. chain[s] # <<>> /\ chain[s][1].by = "call" /\ seen = Visible(s, chain[s][1])
    BY <1>w, <1>x
  <2> QED BY <1>n, <1>x, <2>1, CommitFacts
<1>t. /\ live[s] \in Session \cup {Nothing} /\ chat[s] \in Chat /\ chat[s].rev \in Nat
      /\ chat[s].events \in Nat /\ chat \in [Sessions -> Chat]
  BY <1>0, Known DEF Typed
<1>q. PICK q \in Seq(Write) :
        /\ q = Rest(s, seen) /\ Len(q) = n - 1 /\ n > 0
        /\ \A i \in 1 .. n - 1 : /\ q[i].by = "timer" /\ q[i].kind = "flush"
                                 /\ i = 1 => q[i].session = seen /\ q[i].chat = chat[s]
  <2>1. PICK q : q = Rest(s, seen)
    OBVIOUS
  <2>2. /\ q \in Seq(Write) /\ Len(q) = n - 1 /\ n > 0
        /\ \A i \in 1 .. n - 1 :
             /\ q[i].by = chain[s][i + 1].by /\ q[i].kind = chain[s][i + 1].kind
             /\ i = 1 /\ q[i].kind = "flush" => q[i].session = seen /\ q[i].chat = chat[s]
    <3>1. Typed /\ chain[s] # <<>> /\ seen \in Session \cup {Nothing} /\ n = Len(chain[s])
      BY <1>0, <1>w, <1>2, <1>n
    <3> QED BY <2>1, <3>1, RestFields
  <2>3. ASSUME NEW i \in 1 .. n - 1 PROVE q[i].by = "timer" /\ q[i].kind = "flush"
    <3>1. i + 1 \in 2 .. n /\ i + 1 \in Places(s)
      BY <1>n DEF Places
    <3>2. chain[s][i + 1].by = "timer" /\ WriteInv(s, chain[s][i + 1])
      BY <1>1, <3>1, Known DEF SessionInv, ChainInv
    <3>3. chain[s][i + 1].kind = "flush"
      BY <3>2 DEF WriteInv
    <3> QED BY <2>2, <3>2, <3>3
  <2> QED BY <2>1, <2>2, <2>3
<1>3. /\ w.kind # "remove" /\ w.session = next /\ w.chat \in Chat /\ w.chat.rev = next.rev
  <2>1. w.kind # "remove" /\ w.session = next
    BY <1>1, <1>x DEF WriteInv
  <2> QED BY <1>1, <2>1, WriteFields DEF RunningInv
<1>4. /\ live'[s] = next /\ acked'[s] = next /\ chain'[s] = q
      /\ disk'[s] = [session |-> next, chat |-> w.chat]
      /\ timer' \subseteq timer \cup {s} /\ removed' = removed
  <2>1. Stored(w, disk[s]) = [session |-> next, chat |-> w.chat]
    BY <1>2, <1>3, Sentinel DEF Stored
  <2>2. live'[s] = next /\ acked'[s] = next
    BY <1>0, <1>2, <1>w DEF Returns, Typed
  <2>3. disk'[s] = Stored(w, disk[s])
    BY <1>0, <1>w DEF Returns, Typed
  <2>4. chain'[s] = q
    BY <1>0, <1>w, <1>x, <1>q DEF Returns, Typed
  <2> QED BY <1>w, <2>1, <2>2, <2>3, <2>4 DEF Returns
<1>5. /\ call'[s].op \in {"none", "clean"}
      /\ call'[s].op = "clean" => call[s].op = "mark"
      /\ call'[s] \in [op: Ops, next: Session \cup {Nothing}]
  <2>1. call'[s] = IF call[s].op = "mark" THEN [op |-> "clean", next |-> Nothing] ELSE NoCall
    BY <1>0, <1>w DEF Returns, Typed
  <2> QED BY <2>1 DEF NoCall, Ops
<1>6. chat'[s].rev = next.rev /\ chat' \in [Sessions -> Chat]
  <2>1. CASE call[s].op = "revise"
    <3>1. chat' = [chat EXCEPT ![s] = NextChat(s)]
      BY <1>w, <2>1 DEF Returns
    <3>2. NextChat(s) \in Chat /\ NextChat(s).rev = chat[s].rev + 1
      BY <1>t DEF NextChat, Chat
    <3> QED BY <1>2, <1>t, <2>1, <3>1, <3>2
  <2>2. CASE call[s].op # "revise"
    <3>1. chat' = chat
      BY <1>w, <2>2 DEF Returns
    <3> QED BY <1>2, <1>t, <2>2, <3>1
  <2> QED BY <2>1, <2>2
<1>7. \A t \in Sessions : t # s => Untouched(t)
  BY <1>0, <1>w, ReturnsLeavesOthers
<1>8. /\ phase' = phase /\ closing' = closing /\ reported' = reported /\ busy' = busy
  BY <1>w DEF Returns
<1>9. Typed'
  <2>1. chain' \in [Sessions -> Seq(Write)]
    BY <1>0, <1>q, <1>w, <1>x DEF Returns, Typed
  <2>2. call' \in [Sessions -> [op: Ops, next: Session \cup {Nothing}]]
    BY <1>0, <1>w DEF Returns, Typed, NoCall, Ops
  <2>3. /\ live' \in [Sessions -> Session \cup {Nothing}]
        /\ acked' \in [Sessions -> Session \cup {Nothing}]
    BY <1>0, <1>2, <1>w DEF Returns, Typed
  <2>4. disk' \in [Sessions -> Record \cup {Nothing}]
    <3>1. disk'[s] \in Record
      BY <1>2, <1>3, <1>4 DEF Record
    <3> QED BY <1>0, <1>w, <3>1 DEF Returns, Typed
  <2> QED BY <1>0, <1>4, <1>6, <1>8, <1>w, <2>1, <2>2, <2>3, <2>4 DEF Returns, Typed
<1>10. Places(s)' = 1 .. n - 1 /\ \A i \in 1 .. n - 1 : ~Awaited(s, i)'
  BY <1>4, <1>q DEF Places, Awaited
<1>11. CallWaits(s)'
  BY <1>5, <1>10 DEF CallWaits, Saving
<1>12. (Survives(s) /\ Paired(s) /\ PhaseInv(s) /\ MemoryInv(s))'
  <2>1. /\ live'[s] # Nothing /\ disk'[s] # Nothing
        /\ disk'[s].session = next /\ disk'[s].chat = w.chat
    <3>1. disk'[s] \in Record
      BY <1>2, <1>3, <1>4 DEF Record
    <3> QED BY <1>2, <1>4, <3>1, Sentinel
  <2>2. AtLeast(next, next)
    BY <1>2, AtLeastItself
  <2>3. (Survives(s) /\ Paired(s))'
    BY <1>3, <1>4, <2>1, <2>2 DEF Survives, Paired, AtLeast
  <2>4. (PhaseInv(s) /\ MemoryInv(s))'
    BY <1>1, <1>4, <1>6, <1>8, <2>1, <2>2 DEF PhaseInv, MemoryInv, AtLeast
  <2> QED BY <2>3, <2>4
<1>13. CallInv(s)'
  <2>1. call'[s].op = "clean" => s \notin busy
    BY <1>5, Known DEF SessionInv, CallInv, Gated
  <2>2. live'[s] # Nothing
    BY <1>2, <1>4, Sentinel
  <2> QED BY <1>5, <1>8, <2>1, <2>2 DEF CallInv, Follows, Gated
<1>14. ChainInv(s)'
  <2>1. live'[s] # Nothing
    BY <1>2, <1>4, Sentinel
  <2>2. \A i \in 1 .. n - 1 : WriteInv(s, q[i])'
    BY <1>q, <2>1 DEF WriteInv
  <2>3. q # <<>> => RunningInv(s, q[1])'
    <3>1. ASSUME q # <<>> PROVE RunningInv(s, q[1])'
      <4>1. n > 1 /\ 1 \in 1 .. n - 1
        BY <1>q, <3>1
      <4>2. q[1].session = seen /\ q[1].chat = chat[s]
        BY <1>q, <4>1
      <4> QED BY <1>2, <1>4, <4>1, <4>2 DEF RunningInv, AtLeast
    <3> QED BY <3>1
  <2> QED BY <1>4, <1>10, <2>2, <2>3 DEF ChainInv
<1>15. FlushInv(s)'
  BY <1>1, <1>4, <1>8, <1>10, <1>q DEF FlushInv
<1>16. SessionInv(s)'
  BY <1>11, <1>12, <1>13, <1>14, <1>15 DEF SessionInv
<1> QED BY <1>7, <1>8, <1>9, <1>16, OneSession

(***************************************************************************)
(* The daemon.                                                             *)
(***************************************************************************)
(* A daemon that moves on keeps what holds of its sessions.                *)
LEMMA DaemonMoves ==
  ASSUME PersistenceInv, NEW s \in Sessions, Untouched(s), phase # "down", phase' # "down"
  PROVE  (/\ CallWaits(s) /\ Survives(s) /\ Paired(s)
          /\ MemoryInv(s) /\ CallInv(s) /\ ChainInv(s))'
<1>1. SessionInv(s)
  BY DEF PersistenceInv
<1>2. (CallWaits(s) /\ Survives(s) /\ Paired(s))'
  BY <1>1 DEF Untouched, SessionInv, CallWaits, Places, Awaited, Survives, Paired, AtLeast
<1>3. MemoryInv(s)'
  BY <1>1 DEF Untouched, SessionInv, MemoryInv, AtLeast
<1>4. CallInv(s)'
  BY <1>1 DEF Untouched, SessionInv, CallInv, Follows, Gated, Awaited, AtLeast
<1>5. ChainInv(s)'
  BY <1>1 DEF Untouched, SessionInv, ChainInv, WriteInv, RunningInv, Places, AtLeast
<1> QED BY <1>2, <1>3, <1>4, <1>5

LEMMA ReadyStopDrainedKeep ==
  ASSUME PersistenceInv, Ready \/ Stop \/ Drained PROVE PersistenceInv'
<1>1. /\ phase \in {"starting", "ready", "stopping"} /\ phase' \in {"ready", "stopping", "chats"}
      /\ phase' = "chats" => \A s \in Sessions : call[s].op = "none"
      /\ UNCHANGED <<recovering, closing, reported, memory, disk, timer, suspended, errors,
                     chain, call, history, counts>>
  BY DEF Ready, Stop, Drained, Free
<1>2. Typed'
  BY <1>1 DEF PersistenceInv, Typed, Phases, memory, history, counts
<1>3. ASSUME NEW s \in Sessions PROVE SessionInv(s)'
  <2>1. Untouched(s)
    BY <1>1 DEF Untouched, memory, history
  <2>2. (/\ CallWaits(s) /\ Survives(s) /\ Paired(s)
         /\ MemoryInv(s) /\ CallInv(s) /\ ChainInv(s))'
    BY <1>1, <2>1, DaemonMoves
  <2>3. PhaseInv(s)'
    BY <1>1 DEF PhaseInv
  <2>4. FlushInv(s)'
    <3>1. FlushInv(s) /\ chain' = chain
      BY <1>1, Known DEF SessionInv
    <3>2. \A i \in Places(s) : chain[s][i].by # "close"
      BY <1>1, <3>1 DEF FlushInv
    <3> QED BY <1>1, <3>1, <3>2 DEF FlushInv, Places
  <2> QED BY <2>2, <2>3, <2>4 DEF SessionInv
<1> QED BY <1>2, <1>3 DEF PersistenceInv

LEMMA ClosedKeeps ==
  ASSUME PersistenceInv, Closed PROVE PersistenceInv'
<1>1. /\ phase = "flushing" /\ phase' = "closed" /\ reported' \in BOOLEAN
      /\ closing = {} /\ closing' = closing /\ \A s \in Sessions : chain[s] = <<>>
      /\ UNCHANGED <<recovering, memory, disk, timer, suspended, errors, chain, call,
                     history, counts>>
  BY DEF Closed
<1>2. Typed'
  BY <1>1 DEF PersistenceInv, Typed, Phases, memory, history, counts
<1>3. ASSUME NEW s \in Sessions PROVE SessionInv(s)'
  <2>1. Untouched(s)
    BY <1>1 DEF Untouched, memory, history
  <2>2. (/\ CallWaits(s) /\ Survives(s) /\ Paired(s)
         /\ MemoryInv(s) /\ CallInv(s) /\ ChainInv(s))'
    BY <1>1, <2>1, DaemonMoves
  <2>3. PhaseInv(s) /\ FlushInv(s) /\ chain[s] = <<>> /\ Places(s) = {} /\ s \notin closing
    BY <1>1, Known DEF SessionInv, Places
  <2>4. PhaseInv(s)'
    BY <1>1, <2>1, <2>3 DEF PhaseInv, Untouched
  <2>5. FlushInv(s)'
    <3>1. live[s] # Nothing => disk[s] = [session |-> live[s], chat |-> chat[s]]
      BY <1>1, <2>3 DEF FlushInv
    <3>2. Places(s)' = {}
      BY <1>1, <2>3 DEF Places
    <3> QED BY <1>1, <2>1, <2>3, <3>1, <3>2 DEF FlushInv, Untouched
  <2> QED BY <2>2, <2>4, <2>5 DEF SessionInv
<1> QED BY <1>2, <1>3 DEF PersistenceInv

(* The closing daemon asks for the flush of all there is.                  *)
LEMMA CloseKeeps ==
  ASSUME PersistenceInv, Close PROVE PersistenceInv'
<1>0. PersistenceInv
  OBVIOUS
<1>1. /\ phase = "chats" /\ phase' = "flushing" /\ busy = {} /\ timer' = {}
      /\ closing' = ToFlush /\ live' = live /\ chat' = chat /\ busy' = busy /\ disk' = disk
      /\ call' = call /\ acked' = acked /\ removed' = removed /\ reported' = reported
      /\ chain' = [s \in Sessions |->
           IF s \in ToFlush THEN Enqueued(chain[s], Flush("close"), s) ELSE chain[s]]
      /\ UNCHANGED <<recovering, suspended, errors, counts>>
  BY DEF Close, memory, history
<1>2. /\ Flush("close") \in Write
      /\ Flush("close").kind = "flush" /\ Flush("close").by = "close"
  BY MadeFacts DEF Callers
<1>3. ASSUME NEW s \in Sessions
      PROVE  chain'[s] \in Seq(Write) /\ SessionInv(s)'
  <2>1. /\ live[s] \in Session \cup {Nothing} /\ chat[s] \in Chat
        /\ chain[s] \in Seq(Write) /\ Typed
    BY Known
  <2>2. /\ CallWaits(s) /\ Survives(s) /\ Paired(s)
        /\ PhaseInv(s) /\ MemoryInv(s) /\ CallInv(s) /\ ChainInv(s) /\ FlushInv(s)
    BY Known DEF SessionInv
  <2>3. call[s].op = "none" /\ (s \in ToFlush <=> live[s] # Nothing)
    BY <1>1, <2>2 DEF PhaseInv, MemoryInv, ToFlush
  <2>4. \A i \in Places(s) : ~Awaited(s, i) /\ chain[s][i].by # "close"
    BY <1>1, <2>2, <2>3 DEF CallWaits, FlushInv, Saving
  <2>5. (Survives(s) /\ Paired(s) /\ PhaseInv(s) /\ MemoryInv(s))'
    BY <1>1, <2>2, <2>3 DEF Survives, Paired, PhaseInv, MemoryInv, AtLeast
  <2>6. CallInv(s)'
    BY <1>1, <2>3 DEF CallInv, Follows, Gated
  <2>7. CASE live[s] = Nothing
    <3>1. chain'[s] = chain[s] /\ Places(s)' = Places(s) /\ s \notin closing'
      BY <1>1, <2>3, <2>7 DEF Places
    <3>2. CallWaits(s)'
      BY <1>1, <2>2, <3>1 DEF CallWaits, Awaited
    <3>3. ChainInv(s)'
      BY <1>1, <2>2, <3>1 DEF ChainInv, WriteInv, RunningInv, AtLeast
    <3>4. FlushInv(s)'
      BY <1>1, <2>4, <2>7, <3>1 DEF FlushInv
    <3> QED BY <2>1, <2>5, <2>6, <3>1, <3>2, <3>3, <3>4 DEF SessionInv
  <2>8. CASE live[s] # Nothing
    <3>n. PICK n \in Nat : n = Len(chain[s])
      BY <2>1
    <3>q. PICK q \in Seq(Write) :
            /\ q = chain'[s] /\ Len(q) = n + 1 /\ q # <<>>
            /\ \A i \in 1 .. n : q[i] = chain[s][i]
            /\ q[n + 1] = IF chain[s] = <<>> THEN Started(Flush("close"), live[s], chat[s])
                          ELSE Flush("close")
      <4>1. chain'[s] = Enqueued(chain[s], Flush("close"), s) /\ Places(s) = 1 .. n
        BY <1>1, <2>3, <2>8, <3>n DEF Places
      <4> QED BY <1>2, <2>1, <3>n, <4>1, EnqueuedFacts
    <3>1. /\ q[n + 1] \in Write /\ q[n + 1].kind = "flush" /\ q[n + 1].by = "close"
          /\ chain[s] = <<>> => q[n + 1].session = live[s] /\ q[n + 1].chat = chat[s]
      <4> DEFINE v == Started(Flush("close"), live[s], chat[s])
      <4>1. /\ v \in Write /\ v.kind = "flush" /\ v.by = "close"
            /\ v.session = live[s] /\ v.chat = chat[s]
        BY <1>2, <2>1, StartedFacts
      <4>2. q[n + 1] = IF chain[s] = <<>> THEN v ELSE Flush("close")
        BY <3>q
      <4> HIDE DEF v
      <4> QED BY <1>2, <4>1, <4>2
    <3>2. Places(s)' = 1 .. n + 1 /\ Places(s) = 1 .. n /\ (n = 0 <=> chain[s] = <<>>)
      BY <2>1, <3>n, <3>q DEF Places
    <3>3. CallWaits(s)'
      <4>1. \A i \in 1 .. n + 1 : ~Awaited(s, i)'
        BY <2>4, <3>q, <3>1, <3>2 DEF Awaited
      <4> QED BY <1>1, <2>3, <3>2, <4>1 DEF CallWaits, Saving
    <3>4. ChainInv(s)'
      <4>1. \A i \in 1 .. n : WriteInv(s, q[i])'
        <5>1. \A i \in 1 .. n : WriteInv(s, chain[s][i])
          BY <2>2, <3>2 DEF ChainInv
        <5> QED BY <1>1, <3>q, <5>1 DEF WriteInv
      <4>2. WriteInv(s, q[n + 1])'
        BY <1>1, <2>8, <3>1 DEF WriteInv
      <4>3. \A i \in 1 .. n + 1 : WriteInv(s, q[i])'
        BY <4>1, <4>2
      <4>4. CASE n = 0
        <5>1. /\ live[s] # Nothing /\ live[s].rev = chat[s].rev /\ AtLeast(live[s], acked[s])
          BY <1>1, <2>2, <2>8 DEF MemoryInv
        <5>2. q[1].session = live[s] /\ q[1].chat = chat[s]
          BY <3>1, <3>2, <4>4
        <5> QED BY <1>1, <3>q, <3>2, <4>3, <5>1, <5>2 DEF ChainInv, RunningInv, AtLeast
      <4>5. CASE n # 0
        <5>1. RunningInv(s, chain[s][1]) /\ q[1] = chain[s][1]
          BY <2>2, <3>q, <3>2, <4>5 DEF ChainInv
        <5> QED BY <1>1, <3>q, <3>2, <4>3, <5>1 DEF ChainInv, RunningInv, AtLeast
      <4> QED BY <4>4, <4>5
    <3>5. FlushInv(s)'
      <4>1. \A i \in 1 .. n + 1 : q[i].by = "close" => i = n + 1
        BY <2>4, <3>q, <3>2
      <4>2. n + 1 = 1 => q[1].session = live[s] /\ q[1].chat = chat[s]
        BY <3>1, <3>2
      <4>3. s \in closing'
        BY <1>1, <2>3, <2>8
      <4> QED BY <1>1, <2>8, <3>q, <3>1, <3>2, <4>1, <4>2, <4>3 DEF FlushInv
    <3> QED BY <2>5, <2>6, <3>q, <3>3, <3>4, <3>5 DEF SessionInv
  <2> QED BY <2>7, <2>8
<1>4. Typed'
  <2>1. chain' \in [Sessions -> Seq(Write)]
    BY <1>1, <1>3
  <2>2. closing' \subseteq Sessions
    BY <1>0, <1>1 DEF PersistenceInv, Typed, ToFlush
  <2> QED BY <1>0, <1>1, <2>1, <2>2 DEF PersistenceInv, Typed, Phases, counts
<1> QED BY <1>3, <1>4 DEF PersistenceInv

(* The next daemon reads back what the files hold.                         *)
LEMMA StartKeeps ==
  ASSUME PersistenceInv, Start PROVE PersistenceInv'
<1>0. PersistenceInv
  OBVIOUS
<1>1. /\ phase = "down" /\ phase' = "starting" /\ reported' = FALSE /\ closing' = {}
      /\ live' = [s \in Sessions |-> IF disk[s] = Nothing THEN Nothing ELSE disk[s].session]
      /\ chat' = [s \in Sessions |-> IF disk[s] = Nothing THEN NoChat ELSE disk[s].chat]
      /\ recovering' \subseteq Sessions
      /\ busy' = busy /\ disk' = disk /\ timer' = timer /\ chain' = chain /\ call' = call
      /\ acked' = acked /\ removed' = removed /\ UNCHANGED <<suspended, errors, counts>>
  BY DEF Start, history
<1>2. ASSUME NEW s \in Sessions
      PROVE  /\ live'[s] \in Session \cup {Nothing} /\ chat'[s] \in Chat
             /\ SessionInv(s)'
  <2>1. /\ disk[s] \in Record \cup {Nothing}
        /\ Survives(s) /\ Paired(s) /\ PhaseInv(s) /\ MemoryInv(s)
    BY Known DEF SessionInv
  <2>2. /\ call[s].op = "none" /\ chain[s] = <<>> /\ s \notin busy /\ s \notin timer
    BY <1>1, <2>1 DEF PhaseInv
  <2>3. /\ live'[s] = IF disk[s] = Nothing THEN Nothing ELSE disk[s].session
        /\ chat'[s] = IF disk[s] = Nothing THEN NoChat ELSE disk[s].chat
    BY <1>1
  <2>4. disk[s] # Nothing => disk[s].session \in Session /\ disk[s].chat \in Chat
    BY <2>1 DEF Record
  <2>5. NoChat \in Chat /\ NoChat.rev = 0
    BY DEF NoChat, Chat
  <2>6. live'[s] = Nothing <=> disk[s] = Nothing
    BY <2>3, <2>4, Sentinel
  <2>7. (Survives(s) /\ Paired(s) /\ PhaseInv(s))'
    BY <1>1, <2>1 DEF Survives, Paired, PhaseInv, AtLeast
  <2>8. MemoryInv(s)'
    <3>1. AtLeast(live[s], acked[s])'
      BY <1>1, <2>1, <2>3 DEF Survives, AtLeast
    <3>2. live'[s] # Nothing => live'[s].rev = chat'[s].rev
      BY <2>1, <2>3, <2>6 DEF Paired
    <3>3. live'[s] = Nothing => chat'[s].rev = 0
      BY <2>3, <2>5, <2>6
    <3>4. s \in removed => /\ disk[s] = Nothing /\ acked[s] = Nothing /\ call[s].op = "none"
      BY <2>1 DEF MemoryInv
    <3> QED BY <1>1, <2>2, <2>6, <3>1, <3>2, <3>3, <3>4 DEF MemoryInv
  <2>9. Places(s)' = {} /\ chain'[s] = <<>>
    BY <1>1, <2>2 DEF Places
  <2>10. CallWaits(s)'
    BY <1>1, <2>2, <2>9 DEF CallWaits, Saving
  <2>11. (CallInv(s) /\ ChainInv(s) /\ FlushInv(s))'
    BY <1>1, <2>2, <2>9 DEF CallInv, Follows, Gated, ChainInv, FlushInv
  <2> QED BY <2>3, <2>4, <2>5, <2>7, <2>8, <2>10, <2>11 DEF SessionInv
<1>3. Typed'
  <2>1. live' \in [Sessions -> Session \cup {Nothing}] /\ chat' \in [Sessions -> Chat]
    BY <1>1, <1>2
  <2> QED BY <1>0, <1>1, <2>1 DEF PersistenceInv, Typed, Phases, counts
<1> QED BY <1>2, <1>3 DEF PersistenceInv

(* Nothing but the files is left of a daemon that is gone.                 *)
LEMMA ForgetKeeps ==
  ASSUME PersistenceInv, Forget, crashes' \in Nat PROVE PersistenceInv'
<1>0. PersistenceInv
  OBVIOUS
<1>1. ASSUME NEW s \in Sessions PROVE SessionInv(s)'
  <2>1. Survives(s) /\ Paired(s) /\ MemoryInv(s)
    BY Known DEF SessionInv
  <2>2. disk' = disk /\ acked' = acked /\ removed' = removed
    BY DEF Forget, history
  <2>3. (Survives(s) /\ Paired(s))'
    BY <2>1, <2>2 DEF Survives, Paired, AtLeast
  <2>4. s \in removed' => disk'[s] = Nothing /\ acked'[s] = Nothing
    BY <2>1, <2>2 DEF MemoryInv
  <2>5. /\ phase' = "down" /\ live'[s] = Nothing /\ chat'[s] = NoChat
        /\ s \notin busy' /\ s \notin timer' /\ chain'[s] = <<>> /\ call'[s] = NoCall
    BY DEF Forget
  <2>6. Places(s)' = {} /\ call'[s].op = "none" /\ chat'[s].rev = 0
    BY <2>5 DEF NoCall, Places, NoChat
  <2>7. (CallWaits(s) /\ PhaseInv(s) /\ MemoryInv(s))'
    BY <2>4, <2>5, <2>6 DEF CallWaits, Saving, PhaseInv, MemoryInv
  <2>8. (CallInv(s) /\ ChainInv(s) /\ FlushInv(s))'
    BY <2>5, <2>6 DEF CallInv, Follows, Gated, ChainInv, FlushInv
  <2> QED BY <2>3, <2>7, <2>8 DEF SessionInv
<1>2. Typed'
  <2>1. /\ NoCall \in [op: Ops, next: Session \cup {Nothing}] /\ NoChat \in Chat
        /\ <<>> \in Seq(Write)
    BY DEF NoCall, Ops, NoChat, Chat
  <2>2. /\ live' \in [Sessions -> Session \cup {Nothing}] /\ chat' \in [Sessions -> Chat]
        /\ chain' \in [Sessions -> Seq(Write)]
        /\ call' \in [Sessions -> [op: Ops, next: Session \cup {Nothing}]]
    BY <2>1 DEF Forget
  <2>3. /\ phase' \in Phases /\ recovering' = {} /\ closing' = {} /\ reported' = FALSE
        /\ busy' = {} /\ timer' = {} /\ suspended' = {} /\ errors' = {}
        /\ disk' = disk /\ acked' = acked /\ removed' = removed /\ failures' = failures
    BY DEF Forget, history, Phases
  <2> QED BY <1>0, <2>2, <2>3 DEF PersistenceInv, Typed
<1> QED BY <1>1, <1>2 DEF PersistenceInv

LEMMA DaemonKeeps ==
  ASSUME PersistenceInv, Daemon PROVE PersistenceInv'
<1>1. CASE Exit
  BY <1>1, ForgetKeeps DEF Exit, PersistenceInv, Typed
<1>2. CASE Crash
  BY <1>2, ForgetKeeps DEF Crash, PersistenceInv, Typed
<1> QED BY <1>1, <1>2, StartKeeps, ReadyStopDrainedKeep, CloseKeeps, ClosedKeeps DEF Daemon

(***************************************************************************)
(* The invariant.                                                          *)
(***************************************************************************)
LEMMA InvInitially == Init => PersistenceInv
<1> SUFFICES ASSUME Init PROVE PersistenceInv
  OBVIOUS
<1>1. ASSUME NEW s \in Sessions PROVE SessionInv(s)
  <2>1. /\ phase = "ready" /\ live[s] = Nothing /\ chat[s].rev = 0 /\ disk[s] = Nothing
        /\ acked[s] = Nothing /\ chain[s] = <<>> /\ call[s].op = "none"
        /\ s \notin busy /\ s \notin timer /\ s \notin removed
    BY <1>1 DEF Init, NoChat, NoCall
  <2>2. CallWaits(s) /\ Survives(s) /\ Paired(s)
    BY <2>1 DEF CallWaits, Saving, Places, Survives, Paired
  <2>3. PhaseInv(s) /\ MemoryInv(s) /\ CallInv(s)
    BY <2>1 DEF PhaseInv, MemoryInv, AtLeast, CallInv, Follows, Gated
  <2>4. ChainInv(s) /\ FlushInv(s)
    BY <2>1 DEF ChainInv, FlushInv, Places
  <2> QED BY <2>2, <2>3, <2>4 DEF SessionInv
<1>2. Typed
  <2>1. /\ NoCall \in [op: Ops, next: Session \cup {Nothing}] /\ NoChat \in Chat
        /\ <<>> \in Seq(Write)
    BY DEF NoCall, Ops, NoChat, Chat
  <2>2. /\ live \in [Sessions -> Session \cup {Nothing}] /\ chat \in [Sessions -> Chat]
        /\ disk \in [Sessions -> Record \cup {Nothing}] /\ chain \in [Sessions -> Seq(Write)]
        /\ call \in [Sessions -> [op: Ops, next: Session \cup {Nothing}]]
        /\ acked \in [Sessions -> Session \cup {Nothing}]
    BY <2>1 DEF Init
  <2> QED BY <2>2 DEF Init, Typed, Phases
<1> QED BY <1>1, <1>2 DEF PersistenceInv

LEMMA InvStep ==
  ASSUME PersistenceInv, [Next]_vars PROVE PersistenceInv'
<1>1. ASSUME NEW s \in Sessions, Calls(s) PROVE PersistenceInv'
  BY <1>1, CreateKeeps, EditKeeps, OpenKeeps, DeleteKeeps, RefreshKeeps DEF Calls
<1>2. ASSUME NEW s \in Sessions, Steps(s) PROVE PersistenceInv'
  BY <1>2, WorktreeRemovedKeeps, WorktreeKeptKeeps, SuspendedKeeps, SaveUnchangedKeeps,
     SaveRevisionKeeps, RefreshFailsKeeps DEF Steps
<1>3. ASSUME NEW s \in Sessions, WriteDone(s) PROVE PersistenceInv'
  BY <1>3, OthersWriteDone, CallRemoves, CallCommits
<1>4. ASSUME NEW s \in Sessions, WriteFails(s) PROVE PersistenceInv'
  BY <1>4, OthersWriteFails, CallFails
<1>5. CASE UNCHANGED vars
  <2>1. /\ phase' = phase /\ reported' = reported /\ closing' = closing
        /\ \A t \in Sessions : Untouched(t)
    BY <1>5 DEF vars, daemon, memory, history, Untouched
  <2>2. Typed'
    BY <1>5 DEF PersistenceInv, Typed, vars, daemon, memory, history, counts
  <2> QED BY <2>1, <2>2, UntouchedKept DEF PersistenceInv
<1> QED
  BY <1>1, <1>2, <1>3, <1>4, <1>5, ChatsKeep, TimerFiresKeeps, DaemonKeeps DEF Next

LEMMA InvAlways == Spec => []PersistenceInv
<1>1. PersistenceInv /\ [Next]_vars => PersistenceInv'
  BY InvStep
<1> QED BY <1>1, InvInitially, PTL DEF Spec

(***************************************************************************)
(* What the runs check, for every number of sessions and every bound.      *)
(***************************************************************************)
(* AnswersSurvive (persistence.ts:116): what a call acknowledged is on     *)
(* disk across kills, and what was removed stays removed.                  *)
THEOREM AnswersAlwaysSurvive == Spec => []AnswersSurvive
<1>1. ASSUME PersistenceInv PROVE AnswersSurvive
  <2>1. Typed /\ \A s \in Sessions : CallWaits(s) /\ Survives(s) /\ MemoryInv(s)
    BY <1>1 DEF PersistenceInv, SessionInv
  <2>2. \A s \in removed : s \in Sessions
    BY <2>1 DEF Typed
  <2> QED BY <2>1, <2>2
          DEF AnswersSurvive, TypeOK, AckedSurvives, RemovedStaysRemoved, MemoryInv
<1> QED BY <1>1, InvAlways, PTL

(* FilesAreWhole (refresh-service.ts:120, persistence.ts:96-108): a file   *)
(* pairs one session with the chat of its revision, and after a stop that  *)
(* reports no error it holds what was in memory.                           *)
THEOREM FilesAlwaysWhole == Spec => []FilesAreWhole
<1>1. ASSUME PersistenceInv PROVE FilesAreWhole
  <2>1. RevisionsPaired
    BY <1>1 DEF PersistenceInv, SessionInv, RevisionsPaired
  <2>2. ASSUME phase = "closed", ~reported, NEW s \in Sessions
        PROVE  /\ chain[s] = <<>>
               /\ disk[s] = IF live[s] = Nothing THEN Nothing
                            ELSE [session |-> live[s], chat |-> chat[s]]
    <3>1. FlushInv(s) /\ MemoryInv(s)
      BY <1>1 DEF PersistenceInv, SessionInv
    <3> QED BY <2>2, <3>1 DEF FlushInv, MemoryInv
  <2> QED BY <2>1, <2>2 DEF FilesAreWhole, CleanStopIsComplete
<1> QED BY <1>1, InvAlways, PTL

(* No step writes the file of a session whose refresh is being prepared:   *)
(* one that fails leaves the previous review as it was.                    *)
THEOREM PreparedRefreshWritesNothing == Spec => StillWhileRefreshing
<1>1. ASSUME PersistenceInv, [Next]_vars, NEW s \in Sessions, call[s].op = "prepare"
      PROVE  disk'[s] = disk[s]
  <2>1. chain[s] = <<>> /\ disk \in [Sessions -> Record \cup {Nothing}]
    BY <1>1 DEF PersistenceInv, SessionInv, CallInv, Typed
  <2>2. ASSUME NEW t \in Sessions, WriteDone(t) PROVE disk'[s] = disk[s]
    <3>1. t # s /\ disk' = [disk EXCEPT ![t] = Stored(Head(chain[t]), disk[t])]
      BY <2>1, <2>2 DEF WriteDone
    <3> QED BY <2>1, <3>1
  <2>3. ASSUME ~\E t \in Sessions : WriteDone(t) PROVE disk' = disk
    <3>1. CASE UNCHANGED vars
      BY <3>1 DEF vars
    <3>2. CASE Daemon
      BY <3>2 DEF Daemon, Start, Ready, Stop, Drained, Close, Closed, Exit, Crash, Forget
    <3>3. ASSUME NEW t \in Sessions, Calls(t) \/ Steps(t) PROVE disk' = disk
      BY <3>3 DEF Calls, Steps, Create, Edit, Open, Delete, Refresh, WorktreeRemoved,
                  WorktreeKept, Suspended, SaveUnchanged, SaveRevision, RefreshFails
    <3>4. ASSUME NEW t \in Sessions, Chats(t) \/ TimerFires(t) \/ WriteFails(t)
          PROVE  disk' = disk
      BY <3>4 DEF Chats, BeginTurn, ChatEvent, EndTurn, TimerFires, WriteFails
    <3> QED BY <1>1, <2>3, <3>1, <3>2, <3>3, <3>4 DEF Next
  <2> QED BY <2>2, <2>3
<1>2. PersistenceInv /\ [Next]_vars =>
        [\A s \in Sessions : call[s].op = "prepare" => disk'[s] = disk[s]]_vars
  BY <1>1
<1> QED BY <1>2, InvAlways, PTL DEF Spec, StillWhileRefreshing
=============================================================================
