-------------------------- MODULE WebClient_proofs --------------------------
(***************************************************************************)
(* Theorems about a browser tab, for any number of changes of the review   *)
(* and any number of lost sockets, failed requests and restarts.           *)
(*                                                                         *)
(* The inductive invariant WebInv has three layers.  The link: a socket    *)
(* that is listened to belongs to the process whose credentials the        *)
(* browser holds, the last update on the wire is the review as it is, and  *)
(* an answer is of the revision it was asked for.  The order: a page is    *)
(* loaded for later and later revisions, one load at a time.  The cover:   *)
(* whatever a view still lacks is in an answer or an event on its way, so  *)
(* that a tab on which nothing is on its way lacks nothing.                *)
(***************************************************************************)
EXTENDS WebClientProperties, SequenceTheorems, TLAPS

(***************************************************************************)
(* Requests.                                                               *)
(***************************************************************************)
Talks == {"chat", "chat again"}
Holds(kind) == IF kind \in Talks THEN Logs ELSE Reviews
Requests(kind) ==
  {Idle}
    \cup [at: {"answered"}, rev: 0..MaxChanges, data: Holds(kind)]
    \cup [at: {"refused", "denied"}, rev: 0..MaxChanges, data: {None}]

Sent(kind, rev, data) ==
  [at |-> Outcome(kind, rev), rev |-> rev,
   data |-> IF Outcome(kind, rev) = "answered" THEN data ELSE None]

(* What an answer on its way has to say.                                   *)
SoundAnswer(kind, r) ==
  /\ cookie = process
  /\ kind \in Talks => IsPrefix(r.data, log)
  /\ kind \in {"drafts", "drafts again", "diff"} => r.data.rev = r.rev
  /\ kind = "diff" => r.data.status = "draft"
  /\ kind = "session" => r.data.rev <= review.rev
  /\ kind = "update" => r.data = review

SoundRequest(kind, r) ==
  /\ r \in Requests(kind)
  /\ r.at = "answered" => SoundAnswer(kind, r)
  /\ cookie = process => r.at # "denied" /\ (kind \in {"session", "list"} => r.at # "refused")
  /\ kind = "diff" /\ r # Idle => r.rev <= review.rev
  /\ kind = "diff" /\ r.at = "refused" /\ cookie = process => r.rev < review.rev

SoundFlight(f) ==
  /\ f = [kind \in Kinds |-> f[kind]]
  /\ \A kind \in Kinds: SoundRequest(kind, f[kind])

(***************************************************************************)
(* The inductive invariant.                                                *)
(***************************************************************************)
DaemonInv ==
  /\ changes \in 0..MaxChanges
  /\ review \in Reviews /\ review.rev <= changes
  /\ log \in Logs /\ Len(log) <= changes
  /\ process \in 0..MaxTroubles /\ cookie \in 0..process
  /\ drops \in Nat /\ fails \in Nat

WireEvents ==
  [type: {"daemon.snapshot"}]
    \cup [type: {"session.updated"}, review: Reviews]
    \cup [type: {"chat.event"}, rev: 1..MaxChanges, change: ChangeIds]

IsUpdate(event) == event.type = "session.updated"
IsSaid(event) == event.type = "chat.event"

(* What is listened to is the process whose credentials the browser holds; *)
(* it tells of the chat as it is, and of every change of the review.       *)
SocketInv ==
  /\ socket \in {"none", "connecting", "accepted", "open", "checking"}
  /\ gate \in {"ready", "disconnected"} /\ (gate = "disconnected") = (socket = "none")
  /\ Listening => cookie = process
  /\ ~Listening => wire = <<>>

WireInv ==
  /\ wire \in Seq(WireEvents)
  /\ \A i \in 1..Len(wire): IsSaid(wire[i]) =>
       wire[i].rev \in 1..Len(log) /\ log[wire[i].rev] = wire[i].change
  /\ \A i \in 1..Len(wire):
       IsUpdate(wire[i]) /\ (\A j \in 1..Len(wire): IsUpdate(wire[j]) => j <= i)
         => wire[i].review = review

(* Each page has its own requests, and none is there without the gate.     *)
ScreenInv ==
  /\ route \in {"home", "review"}
  /\ page \in [at: {"loading", "ready", "error"}, s: Reviews \cup {None},
               diff: 0..MaxChanges \cup {None}, warn: BOOLEAN]
  /\ page.at = "ready" => page.s \in Reviews
  /\ page.at # "ready" => page.diff = None
  /\ pinned \in Reviews \cup {None}
  /\ list \in [data: Reviews \cup {None}, err: BOOLEAN]
  /\ route = "home" => page = Blank /\ pinned = None /\ Idling(Kinds \ {"list"})
  /\ route = "review" => list = NoList /\ Idling({"list"})
  /\ gate = "disconnected" => page = Blank /\ pinned = None /\ list = NoList /\ Idling(Kinds)

(* What the tab has of the chat and of the drafts is of this process and   *)
(* of one revision.                                                        *)
WorkspaceInv ==
  /\ chat \in [log: Logs \cup {None}, err: BOOLEAN]
  /\ notes \in {None} \cup [key: 0..MaxChanges, of: Reviews]
  /\ ~Workspace(page) => chat = NoChat /\ notes = None /\ Idling(Hooks \cup {"edit", "say"})
  /\ cookie = process /\ chat.log # None => IsPrefix(chat.log, log)
  /\ notes # None => notes.of.rev = notes.key
  /\ page.diff # None =>
       page.s.status = "draft" /\ page.diff = page.s.rev /\ pinned \in {None, page.s}

(* Loads, in the order of revisions: what the page was loaded for, what it *)
(* is being loaded for, the review as it is.                               *)
OrderInv ==
  /\ page.at = "ready" => page.s.rev <= review.rev
  /\ pinned # None =>
       /\ pinned.rev <= review.rev
       /\ flight["session"].at = "answered" => pinned.rev <= flight["session"].data.rev
       /\ flight["diff"] # Idle => pinned.rev <= flight["diff"].rev
  /\ Idling({"session"}) \/ Idling({"diff"})

(* With no change of the review on its way, the list and the page are as   *)
(* the review is, or will be with the answer that is.                      *)
NoneUpdated(events) == \A i \in 1..Len(events): ~IsUpdate(events[i])
Fresh == socket = "open" /\ NoneUpdated(wire)

ListInv ==
  Fresh /\ route = "home" =>
    IF Idling({"list"}) THEN list.err \/ list.data = review
    ELSE flight["list"].at = "answered" /\ flight["list"].data = review

PageInv ==
  Fresh /\ route = "review" /\ fails = 0 =>
    /\ flight["session"].at = "answered" => flight["session"].data.rev = review.rev
    /\ flight["diff"] # Idle =>
         flight["diff"].at = "answered" /\ flight["diff"].rev = review.rev
    /\ Idling({"session", "diff"}) /\ page.at = "ready" => page.s.rev = review.rev

(* The changes of the chat behind its first n are on their way.            *)
Told(j) == \E i \in 1..Len(wire): IsSaid(wire[i]) /\ wire[i].rev = j
Follows(n) == \A j \in 1..Len(log): j > n => Told(j)

(* The chat of the revision that is shown is complete with those, or with  *)
(* an answer and those.                                                    *)
ReplicaFollows == chat.log # None /\ Follows(Len(chat.log))
AnswerFollows(kind) == flight[kind].at = "answered" /\ Follows(Len(flight[kind].data))
FollowInv ==
  socket = "open" /\ fails = 0 /\ Workspace(page) /\ page.s.rev = review.rev =>
    \/ ReplicaFollows
    \/ AnswerFollows("chat")
    \/ AnswerFollows("chat again") /\ flight["chat again"].rev = page.s.rev

LinkInv == DaemonInv /\ SocketInv /\ WireInv /\ SoundFlight(flight)
WebInv ==
  /\ LinkInv
  /\ ScreenInv /\ WorkspaceInv /\ OrderInv
  /\ LoadingWaits /\ ListInv /\ PageInv /\ FollowInv

(***************************************************************************)
(* Lemmas: sequences, and what the chat of a review is.                    *)
(***************************************************************************)
LEMMA Bounds ==
  /\ MaxChanges \in Nat /\ MaxTroubles \in Nat
  /\ ChangeIds = 1..MaxChanges
BY BoundsAssumption DEF ChangeIds

LEMMA LogFacts ==
  ASSUME NEW s
  PROVE  /\ s \in Logs <=> s \in Seq(ChangeIds) /\ Len(s) \in 0..MaxChanges
         /\ s \in Logs => s # None
<1>1. ASSUME s \in Logs
      PROVE  s \in Seq(ChangeIds) /\ Len(s) \in 0..MaxChanges /\ s # None
  <2>1. PICK n \in 0..MaxChanges: s \in [1..n -> ChangeIds]
    BY <1>1 DEF Logs
  <2>2. n \in Nat
    BY Bounds
  <2>3. s \in Seq(ChangeIds)
    BY <2>1, <2>2, SeqDef
  <2>4. Len(s) = n
    BY <2>1, <2>2, <2>3, LenProperties
  <2> QED BY <2>1, <2>3, <2>4, SentinelAssumption, Bounds
<1>2. ASSUME s \in Seq(ChangeIds), Len(s) \in 0..MaxChanges
      PROVE  s \in Logs
  BY <1>2, LenProperties DEF Logs
<1> QED BY <1>1, <1>2

LEMMA PrefixMeans ==
  ASSUME NEW S, NEW s \in Seq(S), NEW t \in Seq(S)
  PROVE  IsPrefix(s, t) <=> Len(s) <= Len(t) /\ \A i \in 1..Len(s): s[i] = t[i]
<1>1. Len(s) \in Nat /\ Len(t) \in Nat
  BY LenProperties
<1>2. SubSeq(s, 1, Len(s)) = s
  BY SubSeqFull
<1>3. ASSUME Len(s) <= Len(t)
      PROVE  /\ SubSeq(t, 1, Len(s)) \in Seq(S) /\ Len(SubSeq(t, 1, Len(s))) = Len(s)
             /\ \A i \in 1..Len(s): SubSeq(t, 1, Len(s))[i] = t[i]
  <2>1. 1 \in Int /\ Len(s) \in Int /\ \A i \in 1..Len(s): t[i] \in S
    BY <1>1, <1>3, ElementOfSeq
  <2> HIDE DEF IsPrefix
  <2>2. /\ SubSeq(t, 1, Len(s)) \in Seq(S)
        /\ Len(SubSeq(t, 1, Len(s))) = IF 1 <= Len(s) THEN Len(s) - 1 + 1 ELSE 0
        /\ \A i \in 1..Len(s) - 1 + 1: SubSeq(t, 1, Len(s))[i] = t[1 + i - 1]
    BY <2>1, SubSeqProperties
  <2> QED BY <1>1, <2>2
<1>4. ASSUME Len(s) <= Len(t)
      PROVE  s = SubSeq(t, 1, Len(s)) <=> \A i \in 1..Len(s): s[i] = t[i]
  <2> DEFINE u == SubSeq(t, 1, Len(s))
  <2>1. u \in Seq(S) /\ Len(u) = Len(s) /\ \A i \in 1..Len(s): u[i] = t[i]
    BY <1>3, <1>4
  <2> HIDE DEF u
  <2>2. s = u <=> \A i \in 1..Len(s): s[i] = u[i]
    BY <2>1, SeqEqual
  <2> QED BY <2>1, <2>2 DEF u
<1> QED BY <1>2, <1>4 DEF IsPrefix

(* What was said before is a prefix of what is said now, and two prefixes  *)
(* of one chat are in order.                                               *)
LEMMA PrefixFacts ==
  /\ \A s \in Logs: IsPrefix(s, s) /\ IsPrefix(<<>>, s)
  /\ \A s, t \in Logs, c \in ChangeIds: IsPrefix(s, t) => IsPrefix(s, Append(t, c))
  /\ \A r, s, t \in Logs:
       IsPrefix(r, t) /\ IsPrefix(s, t) => IsPrefix(r, s) \/ Len(s) < Len(r)
  /\ \A s, t \in Logs: IsPrefix(s, t) => Len(s) <= Len(t)
  /\ \A s, t \in Logs: IsPrefix(s, t) /\ Len(t) <= Len(s) => s = t
<1>1. \A s \in Logs: s \in Seq(ChangeIds) /\ Len(s) \in Nat
  BY LogFacts, Bounds
<1>2. \A s, t \in Seq(ChangeIds):
        IsPrefix(s, t) <=> Len(s) <= Len(t) /\ \A i \in 1..Len(s): s[i] = t[i]
  BY PrefixMeans
<1>3. \A s \in Logs: IsPrefix(s, s) /\ IsPrefix(<<>>, s)
  <2>1. ASSUME NEW s \in Logs, NEW e \in Seq(ChangeIds), Len(e) = 0
        PROVE  IsPrefix(s, s) /\ IsPrefix(e, s)
    <3>1. s \in Seq(ChangeIds) /\ Len(s) \in Nat
      BY <1>1
    <3>2. IsPrefix(s, s)
      BY <1>2, <3>1
    <3>3. IsPrefix(e, s) <=> Len(e) <= Len(s) /\ \A i \in 1..Len(e): e[i] = s[i]
      BY <3>1, PrefixMeans
    <3>4. Len(e) <= Len(s) /\ \A i \in 1..Len(e): e[i] = s[i]
      BY <2>1, <3>1
    <3> QED BY <3>2, <3>3, <3>4
  <2>2. <<>> \in Seq(ChangeIds) /\ Len(<<>>) = 0
    OBVIOUS
  <2> QED BY <2>1, <2>2
<1>4. ASSUME NEW s \in Logs, NEW t \in Logs, NEW c \in ChangeIds, IsPrefix(s, t)
      PROVE  IsPrefix(s, Append(t, c))
  <2> DEFINE u == Append(t, c)
  <2>1. /\ u \in Seq(ChangeIds) /\ Len(u) = Len(t) + 1
        /\ \A i \in 1..Len(t): u[i] = t[i]
    BY <1>1, AppendProperties
  <2> HIDE DEF u
  <2>2. IsPrefix(s, u)
    BY <1>1, <1>2, <1>4, <2>1
  <2> QED BY <2>2 DEF u
<1>5. ASSUME NEW r \in Logs, NEW s \in Logs, NEW t \in Logs, IsPrefix(r, t), IsPrefix(s, t),
             ~(Len(s) < Len(r))
      PROVE  IsPrefix(r, s)
  BY <1>1, <1>2, <1>5
<1>6. ASSUME NEW s \in Logs, NEW t \in Logs, IsPrefix(s, t), Len(t) <= Len(s)
      PROVE  s = t
  BY <1>1, <1>2, <1>6, SeqEqual
<1> QED BY <1>1, <1>2, <1>3, <1>4, <1>5, <1>6

(* The next change of the chat makes the next prefix of it.                *)
LEMMA NextPrefix ==
  ASSUME NEW s \in Logs, NEW t \in Logs, NEW j \in 1..Len(t), j = Len(s) + 1, IsPrefix(s, t)
  PROVE  Append(s, t[j]) \in Logs /\ Len(Append(s, t[j])) = j /\ IsPrefix(Append(s, t[j]), t)
         /\ IsPrefix(s, Append(s, t[j]))
<1>1. /\ s \in Seq(ChangeIds) /\ Len(s) \in Nat /\ t \in Seq(ChangeIds) /\ Len(t) \in 0..MaxChanges
      /\ MaxChanges \in Nat /\ t[j] \in ChangeIds
  BY LogFacts, Bounds, ElementOfSeq
<1> DEFINE u == Append(s, t[j])
<1>2. /\ u \in Seq(ChangeIds) /\ Len(u) = Len(s) + 1 /\ u[Len(s) + 1] = t[j]
      /\ \A i \in 1..Len(s): u[i] = s[i]
  BY <1>1, AppendProperties
<1> HIDE DEF u
<1>3. u \in Logs /\ Len(u) = j
  BY <1>1, <1>2, LogFacts
<1>4. \A i \in 1..Len(s): s[i] = t[i]
  BY <1>1, PrefixMeans
<1>5. \A i \in 1..Len(u): u[i] = t[i]
  BY <1>1, <1>2, <1>4
<1>6. IsPrefix(u, t)
  BY <1>1, <1>2, <1>3, <1>5, PrefixMeans
<1>7. IsPrefix(s, u)
  BY <1>1, <1>2, PrefixMeans
<1> QED BY <1>3, <1>6, <1>7 DEF u

(***************************************************************************)
(* Lemmas: requests.                                                       *)
(***************************************************************************)
IsFlight(f) == f = [kind \in Kinds |-> f[kind]]

LEMMA SentIs ==
  ASSUME NEW kind, NEW rev, NEW data
  PROVE  LET r == Sent(kind, rev, data) IN
         /\ r.at = Outcome(kind, rev) /\ r.at \in {"denied", "answered", "refused"}
         /\ r.rev = rev /\ r # Idle
         /\ r.at = "answered" <=> cookie = process /\ Current(kind, rev)
         /\ r.at = "denied" <=> cookie # process
         /\ r.at = "answered" => r.data = data
BY DEF Sent, Outcome, Idle

LEMMA SentTyped ==
  ASSUME NEW kind \in Kinds, NEW rev \in 0..MaxChanges, NEW data \in Holds(kind)
  PROVE  Sent(kind, rev, data) \in Requests(kind)
BY DEF Sent, Outcome, Requests

(* What is read of the daemon is sound.                                    *)
LEMMA ReadSound ==
  ASSUME DaemonInv, NEW kind \in Reads \ {"diff"}, NEW rev \in 0..MaxChanges
  PROVE  SoundRequest(kind, Sent(kind, rev, Content(kind)))
<1> DEFINE r == Sent(kind, rev, Content(kind))
<1>1. kind \in Kinds /\ Content(kind) \in Holds(kind)
  BY DEF Reads, Kinds, Content, Holds, Talks, DaemonInv
<1>2. r \in Requests(kind)
  BY <1>1, SentTyped
<1>3. /\ r.at \in {"denied", "answered", "refused"} /\ r.rev = rev
      /\ r.at = "answered" <=> cookie = process /\ Current(kind, rev)
      /\ r.at = "denied" <=> cookie # process
      /\ r.at = "answered" => r.data = Content(kind)
  BY SentIs
<1> HIDE DEF r
<1>4. IsPrefix(log, log) /\ review.rev <= review.rev
  BY PrefixFacts, Bounds DEF DaemonInv, Reviews
<1>5. r.at = "answered" => SoundAnswer(kind, r)
  BY <1>3, <1>4 DEF SoundAnswer, Content, Talks, Current, Reads
<1>6. cookie = process /\ kind \in {"session", "list"} => r.at # "refused"
  BY <1>3 DEF Current
<1> QED BY <1>2, <1>3, <1>5, <1>6 DEF SoundRequest, r

(* The diff of a session that was loaded.                                  *)
LEMMA DiffSound ==
  ASSUME DaemonInv, NEW s \in Reviews, s.status = "draft", s.rev <= review.rev
  PROVE  SoundRequest("diff", Sent("diff", s.rev, s))
<1> DEFINE r == Sent("diff", s.rev, s)
<1>1. "diff" \in Kinds /\ s \in Holds("diff") /\ s.rev \in 0..MaxChanges
  BY DEF Kinds, Reads, Holds, Talks, Reviews
<1>2. r \in Requests("diff")
  BY <1>1, SentTyped
<1>3. /\ r.at \in {"denied", "answered", "refused"} /\ r.rev = s.rev
      /\ r.at = "answered" <=> cookie = process /\ Current("diff", s.rev)
      /\ r.at = "denied" <=> cookie # process
      /\ r.at = "answered" => r.data = s
  BY SentIs
<1> HIDE DEF r
<1>4. r.at = "answered" => SoundAnswer("diff", r)
  BY <1>3 DEF SoundAnswer, Talks
<1>5. r.at = "refused" /\ cookie = process => r.rev < review.rev
  <2>1. review.rev \in Nat /\ s.rev \in Nat
    BY Bounds DEF DaemonInv, Reviews
  <2> QED BY <1>3, <2>1 DEF Current
<1> QED BY <1>2, <1>3, <1>4, <1>5 DEF SoundRequest, r

LEMMA IdleSound ==
  ASSUME NEW kind PROVE SoundRequest(kind, Idle)
BY DEF SoundRequest, Requests, Idle

LEMMA AbortIs ==
  ASSUME NEW f, NEW kinds
  PROVE  /\ IsFlight(Abort(f, kinds))
         /\ \A k \in Kinds \cap kinds: Abort(f, kinds)[k] = Idle
         /\ \A k \in Kinds \ kinds: Abort(f, kinds)[k] = f[k]
         /\ SoundFlight(f) => SoundFlight(Abort(f, kinds))
<1>1. /\ IsFlight(Abort(f, kinds))
      /\ \A k \in Kinds \cap kinds: Abort(f, kinds)[k] = Idle
      /\ \A k \in Kinds \ kinds: Abort(f, kinds)[k] = f[k]
  BY DEF IsFlight, Abort
<1> QED BY <1>1, IdleSound DEF SoundFlight, IsFlight

LEMMA PutIs ==
  ASSUME NEW f, IsFlight(f), NEW kind \in Kinds, NEW r
  PROVE  LET g == [f EXCEPT ![kind] = r] IN
         /\ IsFlight(g) /\ g[kind] = r
         /\ \A k \in Kinds \ {kind}: g[k] = f[k]
         /\ SoundFlight(f) /\ SoundRequest(kind, r) => SoundFlight(g)
<1> DEFINE g == [f EXCEPT ![kind] = r]
<1>1. IsFlight(g) /\ g[kind] = r /\ \A k \in Kinds \ {kind}: g[k] = f[k]
  BY DEF IsFlight
<1> HIDE DEF g
<1>2. SoundFlight(f) /\ SoundRequest(kind, r) => SoundFlight(g)
  BY <1>1 DEF SoundFlight, IsFlight
<1> QED BY <1>1, <1>2 DEF g

LEMMA AnswerIs ==
  ASSUME NEW f, NEW kind, NEW rev, NEW data
  PROVE  /\ Answer(f, kind, rev, data) = [f EXCEPT ![kind] = Sent(kind, rev, data)]
         /\ Send(f, kind, rev) = [f EXCEPT ![kind] = Sent(kind, rev, Content(kind))]
BY DEF Answer, Send, Sent

(* Loads and fetches replace the requests of their own kinds only.         *)
LEMMA SendIs ==
  ASSUME NEW f, IsFlight(f), NEW kind \in Reads \ {"diff"}, NEW rev
  PROVE  /\ IsFlight(Send(f, kind, rev))
         /\ Send(f, kind, rev)[kind] = Sent(kind, rev, Content(kind))
         /\ \A k \in Kinds \ {kind}: Send(f, kind, rev)[k] = f[k]
         /\ DaemonInv /\ SoundFlight(f) /\ rev \in 0..MaxChanges => SoundFlight(Send(f, kind, rev))
<1> DEFINE r == Sent(kind, rev, Content(kind))
<1>1. kind \in Kinds /\ Send(f, kind, rev) = [f EXCEPT ![kind] = r]
  BY AnswerIs DEF Kinds
<1>2. DaemonInv /\ rev \in 0..MaxChanges => SoundRequest(kind, r)
  BY ReadSound
<1> HIDE DEF r
<1>3. /\ IsFlight([f EXCEPT ![kind] = r]) /\ [f EXCEPT ![kind] = r][kind] = r
      /\ \A k \in Kinds \ {kind}: [f EXCEPT ![kind] = r][k] = f[k]
      /\ SoundFlight(f) /\ SoundRequest(kind, r) => SoundFlight([f EXCEPT ![kind] = r])
  BY <1>1, PutIs
<1> QED BY <1>1, <1>2, <1>3 DEF r

LEMMA LoadIs ==
  ASSUME NEW f
  PROVE  /\ IsFlight(Load(f))
         /\ Load(f)["session"] = Sent("session", 0, review)
         /\ Load(f)["diff"] = Idle
         /\ \A k \in Kinds \ {"session", "diff"}: Load(f)[k] = f[k]
         /\ DaemonInv /\ SoundFlight(f) => SoundFlight(Load(f))
<1> DEFINE g == Abort(f, {"session", "diff"})
<1>1. /\ IsFlight(g) /\ g["diff"] = Idle
      /\ \A k \in Kinds \ {"session", "diff"}: g[k] = f[k]
      /\ SoundFlight(f) => SoundFlight(g)
  <2> DEFINE loads == {"session", "diff"}
  <2>1. "diff" \in Kinds \cap loads
    BY DEF Kinds, Reads
  <2> HIDE DEF loads
  <2> QED BY <2>1, AbortIs DEF loads
<1>2. "session" \in Reads \ {"diff"} /\ 0 \in 0..MaxChanges /\ Content("session") = review
  BY Bounds DEF Reads, Content
<1>3. Load(f) = Send(g, "session", 0)
  BY DEF Load
<1> HIDE DEF g
<1>4. /\ IsFlight(Send(g, "session", 0))
      /\ Send(g, "session", 0)["session"] = Sent("session", 0, review)
      /\ \A k \in Kinds \ {"session"}: Send(g, "session", 0)[k] = g[k]
      /\ DaemonInv /\ SoundFlight(g) => SoundFlight(Send(g, "session", 0))
  BY <1>1, <1>2, SendIs
<1>5. "diff" \in Kinds
  BY DEF Kinds, Reads
<1> QED BY <1>1, <1>3, <1>4, <1>5

LEMMA FetchIs ==
  ASSUME NEW f, IsFlight(f), NEW rev
  PROVE  /\ IsFlight(Fetch(f, rev))
         /\ Fetch(f, rev)["chat"] = Sent("chat", rev, log)
         /\ Fetch(f, rev)["drafts"] = Sent("drafts", rev, review)
         /\ \A k \in Kinds \ {"chat", "drafts"}: Fetch(f, rev)[k] = f[k]
         /\ DaemonInv /\ SoundFlight(f) /\ rev \in 0..MaxChanges => SoundFlight(Fetch(f, rev))
<1> DEFINE g == Send(f, "chat", rev)  h == Send(g, "drafts", rev)
<1>1. /\ "chat" \in Reads \ {"diff"} /\ "drafts" \in Reads \ {"diff"} /\ Reads \subseteq Kinds
      /\ Content("chat") = log /\ Content("drafts") = review
  BY DEF Reads, Kinds, Content
<1>2. /\ IsFlight(g) /\ g["chat"] = Sent("chat", rev, log)
      /\ \A k \in Kinds \ {"chat"}: g[k] = f[k]
      /\ DaemonInv /\ SoundFlight(f) /\ rev \in 0..MaxChanges => SoundFlight(g)
  BY <1>1, SendIs
<1> HIDE DEF g
<1>3. /\ IsFlight(h) /\ h["drafts"] = Sent("drafts", rev, review)
      /\ \A k \in Kinds \ {"drafts"}: h[k] = g[k]
      /\ DaemonInv /\ SoundFlight(g) /\ rev \in 0..MaxChanges => SoundFlight(h)
  BY <1>1, <1>2, SendIs
<1>4. h = Fetch(f, rev)
  BY DEF Fetch, g
<1> HIDE DEF h
<1>5. h["chat"] = Sent("chat", rev, log) /\ \A k \in Kinds \ {"chat", "drafts"}: h[k] = f[k]
  BY <1>1, <1>2, <1>3
<1> QED BY <1>2, <1>3, <1>4, <1>5

LEMMA RefetchIs ==
  ASSUME NEW f
  PROVE  /\ IsFlight(Refetch(f))
         /\ Refetch(f)["list"] = Sent("list", 0, review)
         /\ \A k \in Kinds \ {"list"}: Refetch(f)[k] = f[k]
         /\ DaemonInv /\ SoundFlight(f) => SoundFlight(Refetch(f))
<1> DEFINE g == Abort(f, {"list"})
<1>1. /\ IsFlight(g) /\ \A k \in Kinds \ {"list"}: g[k] = f[k]
      /\ SoundFlight(f) => SoundFlight(g)
  BY AbortIs
<1>2. "list" \in Reads \ {"diff"} /\ 0 \in 0..MaxChanges /\ Content("list") = review
  BY Bounds DEF Reads, Content
<1>3. Refetch(f) = Send(g, "list", 0)
  BY DEF Refetch
<1> HIDE DEF g
<1>4. /\ IsFlight(Send(g, "list", 0))
      /\ Send(g, "list", 0)["list"] = Sent("list", 0, review)
      /\ \A k \in Kinds \ {"list"}: Send(g, "list", 0)[k] = g[k]
      /\ DaemonInv /\ SoundFlight(g) => SoundFlight(Send(g, "list", 0))
  BY <1>1, <1>2, SendIs
<1> QED BY <1>1, <1>3, <1>4

LEMMA RenderIs ==
  ASSUME NEW p, NEW f, IsFlight(f), Render(p, f)
  PROVE  /\ page' = p /\ IsFlight(flight')
         /\ \A k \in Kinds \ (Hooks \cup {"edit", "say"}): flight'[k] = f[k]
         /\ ~Workspace(p) => /\ chat' = NoChat /\ notes' = None
                             /\ \A k \in Hooks \cup {"edit", "say"}: flight'[k] = Idle
         /\ Workspace(p) /\ Workspace(page) => UNCHANGED <<chat, notes>>
         /\ Workspace(p) /\ ~Workspace(page) => chat' = NoChat /\ notes' = None
         /\ Workspace(p) /\ Workspace(page) /\ page.s.rev = p.s.rev => flight' = f
         /\ Workspace(p) /\ ~(Workspace(page) /\ page.s.rev = p.s.rev) =>
              flight' = Fetch(f, p.s.rev)
         /\ (/\ DaemonInv /\ SoundFlight(f)
             /\ Workspace(p) => p.s.rev \in 0..MaxChanges) => SoundFlight(flight')
<1> DEFINE hooks == Hooks \cup {"edit", "say"}
<1>0. hooks \subseteq Kinds /\ {"chat", "drafts"} \subseteq hooks
  BY DEF Hooks, Kinds, Reads, Commands
<1>1. CASE ~Workspace(p)
  <2>1. page' = p /\ chat' = NoChat /\ notes' = None /\ flight' = Abort(f, hooks)
    BY <1>1 DEF Render, Unmount
  <2> HIDE DEF hooks
  <2>2. /\ IsFlight(Abort(f, hooks))
        /\ \A k \in Kinds \cap hooks: Abort(f, hooks)[k] = Idle
        /\ \A k \in Kinds \ hooks: Abort(f, hooks)[k] = f[k]
        /\ SoundFlight(f) => SoundFlight(Abort(f, hooks))
    BY AbortIs
  <2> QED BY <1>0, <1>1, <2>1, <2>2 DEF hooks
<1>2. CASE Workspace(p) /\ Workspace(page) /\ page.s.rev = p.s.rev
  BY <1>2 DEF Render
<1>3. CASE Workspace(p) /\ ~(Workspace(page) /\ page.s.rev = p.s.rev)
  <2>1. /\ page' = p /\ flight' = Fetch(f, p.s.rev)
        /\ IF Workspace(page) THEN UNCHANGED <<chat, notes>> ELSE chat' = NoChat /\ notes' = None
    BY <1>3 DEF Render
  <2> HIDE DEF hooks
  <2>2. /\ IsFlight(flight')
        /\ \A k \in Kinds \ hooks: flight'[k] = f[k]
        /\ DaemonInv /\ SoundFlight(f) /\ p.s.rev \in 0..MaxChanges => SoundFlight(flight')
    BY <1>0, <2>1, FetchIs
  <2> QED BY <1>3, <2>1, <2>2 DEF hooks
<1> QED BY <1>1, <1>2, <1>3

(***************************************************************************)
(* Lemmas: what holds of the pages, and stays when others move.            *)
(***************************************************************************)
LEMMA SoundFrame ==
  ASSUME UNCHANGED <<review, log, process, cookie>>, SoundFlight(flight')
  PROVE  SoundFlight(flight)'
BY DEF SoundFlight, SoundRequest, SoundAnswer, Requests, Holds

LEMMA TabLink ==
  ASSUME LinkInv, UNCHANGED <<daemonVars, linkVars, gate>>, fails' \in {fails, fails + 1},
         SoundFlight(flight')
  PROVE  LinkInv'
<1> USE DEF daemonVars, linkVars
<1>1. DaemonInv'
  BY DEF LinkInv, DaemonInv
<1>2. SocketInv' /\ WireInv'
  BY DEF LinkInv, SocketInv, WireInv, Listening
<1>3. SoundFlight(flight)'
  BY SoundFrame
<1> QED BY <1>1, <1>2, <1>3 DEF LinkInv

(* A request that is out tells which page is there.                        *)
LEMMA PageOfRequest ==
  ASSUME WebInv, NEW kind \in Kinds, flight[kind] # Idle
  PROVE  /\ gate = "ready"
         /\ kind # "list" => route = "review"
         /\ kind \in Hooks \cup {"edit", "say"} => Workspace(page)
BY DEF WebInv, LinkInv, SocketInv, ScreenInv, WorkspaceInv, Idling

LEMMA ArrivedIs ==
  ASSUME WebInv, NEW kind \in Kinds, flight[kind].at # "idle"
  PROVE  /\ flight[kind] # Idle
         /\ flight[kind].rev \in 0..MaxChanges
         /\ flight[kind].at = "answered" =>
              flight[kind].data \in Holds(kind) /\ SoundAnswer(kind, flight[kind])
BY DEF WebInv, LinkInv, SoundFlight, SoundRequest, Requests, Idle

LEMMA WorkspaceOpen ==
  ASSUME WebInv, Workspace(page)
  PROVE  /\ gate = "ready" /\ route = "review" /\ page.at = "ready"
         /\ page.s \in Reviews /\ page.s.rev \in 0..MaxChanges
         /\ page.diff = page.s.rev /\ page.s.status = "draft"
<1>1. page.at = "ready" /\ page.diff # None /\ page.s.status = "draft"
  BY DEF Workspace
<1>2. page # Blank
  BY <1>1 DEF Blank
<1>3. page.s \in Reviews
  BY <1>1 DEF WebInv, ScreenInv
<1> QED
  BY <1>1, <1>2, <1>3 DEF WebInv, LinkInv, SocketInv, ScreenInv, WorkspaceInv, Reviews

(* What is served while the socket is open.                                *)
LEMMA ServedIs ==
  ASSUME LinkInv, socket = "open", NEW kind, NEW rev, Current(kind, rev), NEW data
  PROVE  Sent(kind, rev, data).at = "answered" /\ Sent(kind, rev, data).data = data
<1> DEFINE r == Sent(kind, rev, data)
<1>1. cookie = process
  BY DEF LinkInv, SocketInv, Listening
<1>2. /\ r.at = "answered" <=> cookie = process /\ Current(kind, rev)
      /\ r.at = "answered" => r.data = data
  BY SentIs
<1> QED BY <1>1, <1>2

LEMMA ChatServed ==
  ASSUME LinkInv, socket = "open", NEW kind, NEW rev, rev = review.rev
  PROVE  LET r == Sent(kind, rev, log) IN r.at = "answered" /\ r.data = log /\ r.rev = rev
<1> DEFINE r == Sent(kind, rev, log)
<1>1. Current(kind, rev)
  BY DEF Current
<1>2. r.at = "answered" /\ r.data = log
  BY <1>1, ServedIs
<1>3. r.rev = rev
  BY SentIs
<1> QED BY <1>2, <1>3

LEMMA FollowsAll == ASSUME DaemonInv PROVE Follows(Len(log))
<1>1. Len(log) \in Nat
  BY LogFacts, Bounds DEF DaemonInv
<1> QED BY <1>1 DEF Follows

(* A step that concerns neither the chat nor the revision of the page.     *)
LEMMA FollowSame ==
  ASSUME FollowInv, UNCHANGED <<socket, wire, log, review, chat>>, fails' = 0 => fails = 0,
         Workspace(page') => Workspace(page) /\ page'.s.rev = page.s.rev,
         UNCHANGED <<flight["chat"], flight["chat again"]>>
  PROVE  FollowInv'
BY DEF FollowInv, ReplicaFollows, AnswerFollows, Follows, Told, Workspace, Idle

(***************************************************************************)
(* The page: loads.                                                        *)
(***************************************************************************)
(* The workspace follows the chat of the revision it shows.                *)
LEMMA FollowRender ==
  ASSUME WebInv, NEW p, NEW f, IsFlight(f), Render(p, f),
         UNCHANGED <<daemonVars, linkVars, fails>>,
         f["chat"] = flight["chat"], f["chat again"] = flight["chat again"]
  PROVE  FollowInv'
<1> SUFFICES ASSUME socket' = "open", fails' = 0, Workspace(page'), page'.s.rev = review'.rev
             PROVE  \/ ReplicaFollows'
                    \/ AnswerFollows("chat")'
                    \/ AnswerFollows("chat again")' /\ flight'["chat again"].rev = page'.s.rev
  BY DEF FollowInv, Workspace
<1>1. page' = p /\ LinkInv /\ FollowInv
  BY RenderIs DEF WebInv
<1>2. CASE Workspace(page) /\ page.s.rev = p.s.rev
  <2>1. UNCHANGED chat /\ flight' = f
    BY <1>1, <1>2, RenderIs
  <2> QED BY <1>1, <1>2, <2>1, FollowSame DEF daemonVars, linkVars, FollowInv, Workspace
<1>3. CASE ~(Workspace(page) /\ page.s.rev = p.s.rev)
  <2>1. flight' = Fetch(f, p.s.rev)
    BY <1>1, <1>3, RenderIs
  <2>2. flight'["chat"] = Sent("chat", p.s.rev, log)
    BY <2>1, FetchIs
  <2>3. socket = "open" /\ Current("chat", p.s.rev)
    BY <1>1 DEF linkVars, daemonVars, Current
  <2>4. flight'["chat"].at = "answered" /\ flight'["chat"].data = log
    <3> DEFINE r == Sent("chat", p.s.rev, log)
    <3>1. cookie = process
      BY <1>1, <2>3 DEF LinkInv, SocketInv, Listening
    <3>2. /\ r.at = "answered" <=> cookie = process /\ Current("chat", p.s.rev)
          /\ r.at = "answered" => r.data = log
      BY SentIs
    <3>3. r.at = "answered" /\ r.data = log
      BY <2>3, <3>1, <3>2
    <3> QED BY <2>2, <3>3
  <2>5. Follows(Len(log))'
    BY <1>1, FollowsAll DEF LinkInv, daemonVars, linkVars, Follows, Told
  <2> QED BY <2>4, <2>5 DEF AnswerFollows, daemonVars
<1> QED BY <1>2, <1>3

(* A load arrives.                                                         *)
LEMMA LoadedKeeps ==
  ASSUME WebInv, NEW s \in Reviews, NEW diff, NEW f,
         \/ diff = None /\ s.status = "submitted"
         \/ diff = s.rev /\ s.status = "draft",
         s.rev <= review.rev, Fresh /\ fails = 0 => s.rev = review.rev,
         IsFlight(f), SoundFlight(f), f["session"] = Idle, f["diff"] = Idle,
         \A k \in Kinds \ {"session", "diff"}: f[k] = flight[k],
         gate = "ready", route = "review", UNCHANGED <<gate, list, fails>>,
         Loaded(s, diff, f)
  PROVE  WebInv'
<1> DEFINE p == Ready(s, diff, FALSE)
<1>1. /\ p.at = "ready" /\ p.s = s /\ p.diff = diff /\ p.warn = FALSE
      /\ p \in [at: {"loading", "ready", "error"}, s: Reviews \cup {None},
                diff: 0..MaxChanges \cup {None}, warn: BOOLEAN]
      /\ s.rev \in 0..MaxChanges
      /\ Workspace(p) => s.status = "draft" /\ p.diff = s.rev
  BY DEF Ready, Reviews, Workspace
<1>2. /\ pinned' = s /\ Render(p, f)
      /\ UNCHANGED <<daemonVars, linkVars, route, gate, list, fails>>
  BY DEF Loaded
<1> HIDE DEF p
<1>3. /\ page' = p /\ IsFlight(flight')
      /\ \A k \in Kinds \ (Hooks \cup {"edit", "say"}): flight'[k] = f[k]
      /\ ~Workspace(p) => /\ chat' = NoChat /\ notes' = None
                          /\ \A k \in Hooks \cup {"edit", "say"}: flight'[k] = Idle
      /\ Workspace(p) /\ Workspace(page) => UNCHANGED <<chat, notes>>
      /\ Workspace(p) /\ ~Workspace(page) => chat' = NoChat /\ notes' = None
      /\ SoundFlight(flight')
  BY <1>1, <1>2, RenderIs DEF WebInv, LinkInv
<1>4. LinkInv'
  BY <1>2, <1>3, TabLink DEF WebInv
<1>5. /\ flight'["session"] = Idle /\ flight'["diff"] = Idle /\ flight'["list"] = flight["list"]
  BY <1>3 DEF Kinds, Reads, Hooks
<1>6. ScreenInv'
  BY <1>1, <1>2, <1>3, <1>5 DEF WebInv, ScreenInv, Idling
<1>7. WorkspaceInv'
  <2>1. chat' \in {chat, NoChat} /\ notes' \in {notes, None}
    BY <1>3
  <2>2. chat' \in [log: Logs \cup {None}, err: BOOLEAN]
    <3>1. NoChat \in [log: Logs \cup {None}, err: BOOLEAN]
      BY DEF NoChat
    <3>2. chat \in [log: Logs \cup {None}, err: BOOLEAN]
      BY DEF WebInv, WorkspaceInv
    <3> QED BY <2>1, <3>1, <3>2
  <2>3. notes' \in {None} \cup [key: 0..MaxChanges, of: Reviews]
    BY <2>1 DEF WebInv, WorkspaceInv
  <2>4. ~Workspace(page)' => chat' = NoChat /\ notes' = None
                             /\ \A k \in Hooks \cup {"edit", "say"}: flight'[k] = Idle
    BY <1>3 DEF Workspace
  <2>5. cookie' = process' /\ chat'.log # None => IsPrefix(chat'.log, log')
    BY <1>2, <2>1 DEF WebInv, WorkspaceInv, NoChat, daemonVars, linkVars
  <2>6. notes' # None => notes'.of.rev = notes'.key
    BY <2>1 DEF WebInv, WorkspaceInv
  <2>7. page'.diff # None => page'.s.status = "draft" /\ page'.diff = page'.s.rev
                             /\ pinned' \in {None, page'.s}
    BY <1>1, <1>2, <1>3
  <2> QED BY <2>2, <2>3, <2>4, <2>5, <2>6, <2>7 DEF WorkspaceInv, Idling, Workspace
<1>8. OrderInv'
  BY <1>1, <1>2, <1>3, <1>5 DEF OrderInv, Idling, daemonVars, Idle
<1>9. LoadingWaits' /\ ListInv'
  BY <1>1, <1>2, <1>3 DEF LoadingWaits, ListInv
<1>10. PageInv'
  BY <1>1, <1>2, <1>3, <1>5
  DEF PageInv, Fresh, NoneUpdated, Idle, daemonVars, linkVars
<1>11. FollowInv'
  <2>1. {"chat", "chat again"} \subseteq Kinds \ {"session", "diff"}
    BY DEF Kinds, Reads
  <2> QED BY <1>2, <2>1, FollowRender
<1> QED BY <1>4, <1>6, <1>7, <1>8, <1>9, <1>10, <1>11 DEF WebInv

(* A load begins.                                                          *)
LEMMA ReloadKeeps ==
  ASSUME WebInv, NEW f, IsFlight(f), SoundFlight(f),
         \A k \in Kinds \ {"update"}: f[k] = flight[k], f["update"] \in {flight["update"], Idle},
         gate = "ready", route = "review",
         UNCHANGED <<daemonVars, linkVars, fails, route, page, chat, notes, gate, list>>,
         Reload(f)
  PROVE  WebInv'
<1>0. DaemonInv /\ review \in Reviews /\ review.rev \in Nat
  BY Bounds DEF WebInv, LinkInv, DaemonInv, Reviews
<1>1. pinned' = None /\ flight' = Load(f)
  BY DEF Reload
<1>2. /\ IsFlight(flight') /\ SoundFlight(flight')
      /\ flight'["session"] = Sent("session", 0, review) /\ flight'["diff"] = Idle
      /\ \A k \in Kinds \ {"session", "diff"}: flight'[k] = f[k]
  BY <1>0, <1>1, LoadIs
<1>3. LinkInv'
  BY <1>2, TabLink DEF WebInv
<1>4. /\ flight'["session"] # Idle /\ flight'["list"] = flight["list"]
      /\ flight'["chat"] = flight["chat"] /\ flight'["chat again"] = flight["chat again"]
      /\ \A k \in Hooks \cup {"edit", "say"}: flight'[k] = flight[k]
  <2>1. Sent("session", 0, review) # Idle
    BY SentIs
  <2>2. \A k \in Kinds \ {"session", "diff", "update"}: flight'[k] = flight[k]
    BY <1>2
  <2>3. {"list", "chat", "chat again"} \cup Hooks \cup {"edit", "say"}
          \subseteq Kinds \ {"session", "diff", "update"}
    BY DEF Kinds, Reads, Commands, Hooks
  <2> QED BY <1>2, <2>1, <2>2, <2>3
<1>5. ScreenInv'
  BY <1>1, <1>4 DEF WebInv, ScreenInv, Idling
<1>6. WorkspaceInv'
  BY <1>1, <1>4 DEF WebInv, WorkspaceInv, Idling, Workspace, daemonVars, linkVars
<1>7. OrderInv'
  BY <1>0, <1>1, <1>2 DEF WebInv, OrderInv, Idling, daemonVars
<1>8. LoadingWaits' /\ ListInv'
  BY <1>4 DEF LoadingWaits, ListInv, Idling
<1>9. PageInv'
  <2>1. Sent("session", 0, review).at = "answered" => Sent("session", 0, review).data = review
    BY SentIs
  <2> QED BY <1>2, <1>4, <2>1 DEF PageInv, Idling, daemonVars
<1>10. FollowInv'
  BY <1>4, FollowSame DEF WebInv, daemonVars, linkVars, Workspace
<1> QED BY <1>3, <1>5, <1>6, <1>7, <1>8, <1>9, <1>10 DEF WebInv

LEMMA ReceiveSessionKeeps ==
  ASSUME WebInv, ReceiveSession, UNCHANGED <<gate, list>>
  PROVE  WebInv'
<1> DEFINE s == flight["session"].data  f == Abort(flight, {"session"})
<1>1. "session" \in Kinds /\ flight["session"].at = "answered" /\ fails' = fails
  BY DEF ReceiveSession, Arrives, Kinds, Reads
<1>2. /\ flight["session"] # Idle /\ SoundAnswer("session", flight["session"])
      /\ flight["session"].data \in Holds("session")
  BY <1>1, ArrivedIs
<1>3. s \in Reviews /\ s.rev <= review.rev /\ s.status \in {"draft", "submitted"}
      /\ cookie = process /\ s.rev \in Nat /\ review.rev \in Nat
  BY <1>2, Bounds DEF Holds, Talks, SoundAnswer, Reviews, WebInv, LinkInv, DaemonInv
<1>4. gate = "ready" /\ route = "review" /\ flight["diff"] = Idle /\ "diff" \in Kinds
  <2>1. gate = "ready" /\ route = "review"
    BY <1>1, <1>2, PageOfRequest
  <2> QED BY <1>2, <2>1 DEF WebInv, OrderInv, Idling, Kinds, Reads
<1>5. Fresh /\ fails = 0 => s.rev = review.rev
  BY <1>1, <1>4 DEF WebInv, PageInv
<1>6. /\ IsFlight(f) /\ SoundFlight(f) /\ f["session"] = Idle
      /\ \A k \in Kinds \ {"session"}: f[k] = flight[k]
  <2> DEFINE kinds == {"session"}
  <2>1. "session" \in Kinds \cap kinds /\ SoundFlight(flight)
    BY <1>1 DEF WebInv, LinkInv
  <2> HIDE DEF kinds
  <2>2. /\ IsFlight(Abort(flight, kinds)) /\ SoundFlight(Abort(flight, kinds))
        /\ Abort(flight, kinds)["session"] = Idle
        /\ \A k \in Kinds \ kinds: Abort(flight, kinds)[k] = flight[k]
    BY <2>1, AbortIs
  <2> QED BY <2>2 DEF kinds
<1>7. f["diff"] = Idle
  BY <1>4, <1>6
<1>8. \/ s.status = "submitted" /\ Loaded(s, None, f)
      \/ /\ s.status = "draft" /\ flight' = Answer(f, "diff", s.rev, s)
         /\ UNCHANGED <<daemonVars, linkVars, viewVars>>
  BY DEF ReceiveSession
<1> HIDE DEF s, f
<1>9. CASE s.status = "submitted" /\ Loaded(s, None, f)
  BY <1>1, <1>3, <1>4, <1>5, <1>6, <1>7, <1>9, LoadedKeeps
<1>10. CASE s.status = "draft" /\ flight' = Answer(f, "diff", s.rev, s)
            /\ UNCHANGED <<daemonVars, linkVars, viewVars>>
  <2> DEFINE r == Sent("diff", s.rev, s)
  <2>1. flight' = [f EXCEPT !["diff"] = r]
    BY <1>10, AnswerIs
  <2>2. SoundRequest("diff", r)
    BY <1>3, <1>10, DiffSound DEF WebInv, LinkInv
  <2>3. /\ r.at \in {"denied", "answered", "refused"} /\ r.rev = s.rev /\ r # Idle
        /\ r.at = "answered" <=> cookie = process /\ Current("diff", s.rev)
    BY SentIs
  <2> HIDE DEF r
  <2>4. /\ IsFlight(flight') /\ SoundFlight(flight') /\ flight'["diff"] = r
        /\ \A k \in Kinds \ {"diff"}: flight'[k] = f[k]
    <3>1. /\ IsFlight([f EXCEPT !["diff"] = r]) /\ [f EXCEPT !["diff"] = r]["diff"] = r
          /\ \A k \in Kinds \ {"diff"}: [f EXCEPT !["diff"] = r][k] = f[k]
          /\ SoundFlight(f) /\ SoundRequest("diff", r) => SoundFlight([f EXCEPT !["diff"] = r])
      BY <1>4, <1>6, PutIs
    <3> QED BY <1>6, <2>1, <2>2, <3>1
  <2>5. /\ flight'["session"] = Idle
        /\ \A k \in Kinds \ {"session", "diff"}: flight'[k] = flight[k]
    BY <1>1, <1>6, <2>4
  <2>6. LinkInv'
    BY <1>1, <1>10, <2>4, TabLink DEF WebInv
  <2>7. /\ "list" \in Kinds \ {"session", "diff"}
        /\ Hooks \cup {"edit", "say"} \subseteq Kinds \ {"session", "diff"}
        /\ {"chat", "chat again"} \subseteq Kinds \ {"session", "diff"}
    BY DEF Kinds, Reads, Commands, Hooks
  <2> USE <1>1, <1>10 DEF daemonVars, linkVars, viewVars
  <2>8. ScreenInv'
    BY <1>4, <2>5, <2>7 DEF WebInv, ScreenInv, Idling
  <2>9. WorkspaceInv'
    BY <2>5, <2>7 DEF WebInv, WorkspaceInv, Idling, Workspace
  <2>10. OrderInv'
    <3>1. Idling({"session"})'
      BY <2>5 DEF Idling
    <3>2. pinned' # None => pinned.rev <= s.rev /\ pinned.rev <= review.rev
      BY DEF WebInv, OrderInv, s
    <3>3. page'.at = "ready" => page'.s.rev <= review'.rev
      BY DEF WebInv, OrderInv
    <3>4. flight'["session"].at = "idle"
      BY <2>5 DEF Idle
    <3> QED BY <2>3, <2>4, <3>1, <3>2, <3>3, <3>4 DEF OrderInv
  <2>11. LoadingWaits' /\ ListInv'
    BY <1>4, <2>3, <2>4 DEF LoadingWaits, ListInv, Idling
  <2>12. PageInv'
    <3>1. Fresh /\ fails = 0 => r.at = "answered" /\ r.rev = review.rev
      BY <1>3, <1>5, <2>3 DEF Current
    <3> QED BY <2>3, <2>4, <2>5, <3>1 DEF PageInv, Fresh, NoneUpdated, Idling, Idle
  <2>13. FollowInv'
    BY <2>5, <2>7, FollowSame DEF WebInv, Workspace
  <2> QED BY <2>6, <2>8, <2>9, <2>10, <2>11, <2>12, <2>13 DEF WebInv
<1> QED BY <1>8, <1>9, <1>10

(* Aborting some requests leaves the others alone.                         *)
LEMMA OneAborted ==
  ASSUME SoundFlight(flight), NEW kind \in Kinds
  PROVE  LET f == Abort(flight, {kind}) IN
         /\ IsFlight(f) /\ SoundFlight(f) /\ f[kind] = Idle
         /\ \A k \in Kinds \ {kind}: f[k] = flight[k]
<1> DEFINE kinds == {kind}
<1>1. kind \in Kinds \cap kinds
  OBVIOUS
<1> HIDE DEF kinds
<1>2. /\ IsFlight(Abort(flight, kinds)) /\ SoundFlight(Abort(flight, kinds))
      /\ Abort(flight, kinds)[kind] = Idle
      /\ \A k \in Kinds \ kinds: Abort(flight, kinds)[k] = flight[k]
  BY <1>1, AbortIs
<1> QED BY <1>2 DEF kinds

LEMMA ReceiveDiffKeeps ==
  ASSUME WebInv, ReceiveDiff, UNCHANGED <<gate, list>>
  PROVE  WebInv'
<1> DEFINE s == flight["diff"].data  f == Abort(flight, {"diff"})
<1>1. /\ "diff" \in Kinds /\ "session" \in Kinds \ {"diff"}
      /\ flight["diff"].at = "answered" /\ fails' = fails
      /\ Loaded(s, s.rev, f)
  BY DEF ReceiveDiff, Arrives, Kinds, Reads
<1>2. /\ flight["diff"] # Idle /\ SoundAnswer("diff", flight["diff"])
      /\ flight["diff"].data \in Holds("diff")
  BY <1>1, ArrivedIs
<1>3. SoundRequest("diff", flight["diff"])
  BY <1>1 DEF WebInv, LinkInv, SoundFlight
<1>4. s \in Reviews /\ s.rev = flight["diff"].rev /\ s.rev <= review.rev /\ s.status = "draft"
  BY <1>2, <1>3 DEF Holds, Talks, SoundAnswer, SoundRequest
<1>5. gate = "ready" /\ route = "review" /\ flight["session"] = Idle
  <2>1. gate = "ready" /\ route = "review"
    BY <1>1, <1>2, PageOfRequest
  <2> QED BY <1>2, <2>1 DEF WebInv, OrderInv, Idling
<1>6. Fresh /\ fails = 0 => s.rev = review.rev
  BY <1>2, <1>4, <1>5 DEF WebInv, PageInv
<1>7. /\ IsFlight(f) /\ SoundFlight(f) /\ f["diff"] = Idle
      /\ \A k \in Kinds \ {"diff"}: f[k] = flight[k]
  BY <1>1, OneAborted DEF WebInv, LinkInv
<1>8. f["session"] = Idle
  BY <1>1, <1>5, <1>7
<1> HIDE DEF s, f
<1> QED BY <1>1, <1>4, <1>5, <1>6, <1>7, <1>8, LoadedKeeps

LEMMA RetryKeeps ==
  ASSUME WebInv, Retry, UNCHANGED <<gate, list>>
  PROVE  WebInv'
<1>1. SoundFlight(flight) /\ IsFlight(flight)
  BY DEF WebInv, LinkInv, SoundFlight, IsFlight
<1>2. gate = "ready"
  <2>1. page # Blank
    BY DEF Retry, Blank
  <2> QED BY <2>1 DEF WebInv, LinkInv, SocketInv, ScreenInv
<1> QED BY <1>1, <1>2, ReloadKeeps DEF Retry

LEMMA ReceiveUpdateKeeps ==
  ASSUME WebInv, ReceiveUpdate, UNCHANGED <<gate, list>>
  PROVE  WebInv'
<1> DEFINE s == flight["update"].data  f == Abort(flight, {"update"})
<1>1. "update" \in Kinds /\ flight["update"].at = "answered" /\ fails' = fails
      /\ UNCHANGED <<daemonVars, linkVars, route>>
  BY DEF ReceiveUpdate, Arrives, Kinds, Commands
<1>2. /\ flight["update"] # Idle /\ SoundAnswer("update", flight["update"])
      /\ flight["update"].data \in Holds("update")
  BY <1>1, ArrivedIs
<1>3. s \in Reviews /\ s = review /\ review.rev \in Nat
  BY <1>2, Bounds DEF Holds, Talks, SoundAnswer, Reviews
<1>4. gate = "ready" /\ route = "review"
  BY <1>1, <1>2, PageOfRequest
<1>5. /\ IsFlight(f) /\ SoundFlight(f) /\ f["update"] = Idle
      /\ \A k \in Kinds \ {"update"}: f[k] = flight[k]
  BY <1>1, OneAborted DEF WebInv, LinkInv
<1>6. \/ s.status = "submitted" /\ Render(Ready(s, None, page.warn), f) /\ UNCHANGED pinned
      \/ Reload(f) /\ UNCHANGED <<page, chat, notes>>
  BY DEF ReceiveUpdate
<1> HIDE DEF s, f
<1>7. CASE Reload(f) /\ UNCHANGED <<page, chat, notes>>
  BY <1>1, <1>4, <1>5, <1>7, ReloadKeeps
<1>8. CASE s.status = "submitted" /\ Render(Ready(s, None, page.warn), f) /\ UNCHANGED pinned
  <2> DEFINE p == Ready(s, None, page.warn)
  <2>1. page.warn \in BOOLEAN
    BY DEF WebInv, ScreenInv
  <2>2. /\ p.at = "ready" /\ p.s = s /\ p.diff = None
        /\ p \in [at: {"loading", "ready", "error"}, s: Reviews \cup {None},
                  diff: 0..MaxChanges \cup {None}, warn: BOOLEAN]
        /\ ~Workspace(p)
    BY <1>3, <2>1 DEF Ready, Workspace
  <2>3. Render(p, f)
    BY <1>8
  <2> HIDE DEF p
  <2>4. /\ page' = p /\ IsFlight(flight') /\ SoundFlight(flight')
        /\ \A k \in Kinds \ (Hooks \cup {"edit", "say"}): flight'[k] = f[k]
        /\ chat' = NoChat /\ notes' = None
        /\ \A k \in Hooks \cup {"edit", "say"}: flight'[k] = Idle
    BY <1>5, <2>2, <2>3, RenderIs DEF WebInv, LinkInv
  <2>5. LinkInv'
    BY <1>1, <2>4, TabLink DEF WebInv
  <2>6. /\ flight'["session"] = flight["session"] /\ flight'["diff"] = flight["diff"]
        /\ flight'["list"] = flight["list"]
    BY <1>5, <2>4 DEF Kinds, Reads, Hooks
  <2> USE <1>1, <1>8 DEF daemonVars, linkVars
  <2>7. ScreenInv'
    BY <1>3, <1>4, <2>2, <2>4, <2>6 DEF WebInv, ScreenInv, Idling
  <2>8. WorkspaceInv'
    <3>1. NoChat \in [log: Logs \cup {None}, err: BOOLEAN] /\ NoChat.log = None
      BY DEF NoChat
    <3> QED BY <2>2, <2>4, <3>1 DEF WorkspaceInv, Idling
  <2>9. OrderInv'
    BY <1>3, <2>2, <2>4, <2>6 DEF WebInv, OrderInv, Idling
  <2>10. LoadingWaits' /\ ListInv'
    BY <1>4, <2>2, <2>4 DEF LoadingWaits, ListInv
  <2>11. PageInv'
    BY <1>3, <1>4, <2>2, <2>4, <2>6 DEF WebInv, PageInv, Idling, Fresh, NoneUpdated
  <2>12. FollowInv'
    BY <2>2, <2>4 DEF FollowInv, Workspace
  <2> QED BY <2>5, <2>7, <2>8, <2>9, <2>10, <2>11, <2>12 DEF WebInv
<1> QED BY <1>6, <1>7, <1>8

(***************************************************************************)
(* The hooks and the forms of the workspace.                               *)
(***************************************************************************)
LEMMA CountsFails == ASSUME WebInv PROVE fails \in Nat /\ fails + 1 # 0
BY DEF WebInv, LinkInv, DaemonInv

(* A step that leaves the page, its loads and the list alone.              *)
LEMMA HookKeeps ==
  ASSUME WebInv, UNCHANGED <<daemonVars, linkVars, gate, list, route, page, pinned>>,
         fails' \in {fails, fails + 1}, SoundFlight(flight'),
         UNCHANGED <<flight["session"], flight["diff"], flight["list"]>>,
         gate = "ready", route = "review", WorkspaceInv', FollowInv'
  PROVE  WebInv'
<1>1. LinkInv'
  BY TabLink DEF WebInv
<1>2. fails' = 0 => fails = 0
  BY DEF WebInv, LinkInv, DaemonInv
<1>3. ScreenInv'
  BY DEF WebInv, ScreenInv, Idling
<1>4. OrderInv'
  BY DEF WebInv, OrderInv, Idling, daemonVars
<1>5. LoadingWaits' /\ ListInv'
  BY DEF WebInv, LoadingWaits, ListInv, Idling
<1>6. PageInv'
  BY <1>2 DEF WebInv, PageInv, Fresh, NoneUpdated, Idling, daemonVars, linkVars
<1> QED BY <1>1, <1>3, <1>4, <1>5, <1>6 DEF WebInv

(* A chat with more of the changes is followed by those that are missing.  *)
LEMMA FollowsMore ==
  ASSUME NEW m \in Nat, NEW n \in Nat, m <= n, Follows(m), DaemonInv
  PROVE  Follows(n)
<1>1. Len(log) \in Nat
  BY LogFacts, Bounds DEF DaemonInv
<1> QED BY <1>1 DEF Follows

(* What a failure is.                                                      *)
LEMMA FailsIs ==
  ASSUME WebInv, NEW kind, Fails(kind)
  PROVE  /\ flight[kind].at \in {"refused", "answered"}
         /\ fails' \in {fails, fails + 1}
         /\ fails' = 0 => fails = 0 /\ flight[kind].at = "refused"
<1>2. fails + 1 # 0
  BY CountsFails
<1>3. CASE flight[kind].at = "refused" /\ UNCHANGED fails
  BY <1>3
<1>4. CASE flight[kind].at = "answered" /\ fails' = fails + 1
  BY <1>2, <1>4
<1> QED BY <1>3, <1>4 DEF Fails

(* The kinds, apart from the loads and the list.                           *)
LEMMA OtherKinds ==
  /\ Hooks \cup {"edit", "say"} \subseteq Kinds \ {"session", "diff", "list"}
  /\ Commands \subseteq Kinds \ {"session", "diff", "list"}
  /\ {"session", "diff", "list"} \subseteq Kinds
  /\ {"chat", "chat again", "drafts", "drafts again"} = Hooks
  /\ Commands = {"edit", "say", "update"}
BY DEF Hooks, Kinds, Reads, Commands

(* An answer or a failure takes its own request and no other away.         *)
LEMMA OneGone ==
  ASSUME WebInv, NEW kind \in Kinds, flight[kind].at # "idle", flight' = Abort(flight, {kind})
  PROVE  /\ SoundFlight(flight') /\ IsFlight(flight') /\ flight'[kind] = Idle
         /\ \A k \in Kinds \ {kind}: flight'[k] = flight[k]
         /\ \A k \in Kinds: flight[k] = Idle => flight'[k] = Idle
         /\ gate = "ready" /\ (kind # "list" => route = "review")
<1>1. /\ SoundFlight(flight') /\ IsFlight(flight') /\ flight'[kind] = Idle
      /\ \A k \in Kinds \ {kind}: flight'[k] = flight[k]
  BY OneAborted DEF WebInv, LinkInv
<1>2. \A k \in Kinds: flight[k] = Idle => flight'[k] = Idle
  BY <1>1
<1>3. flight[kind] # Idle
  BY DEF Idle
<1> QED BY <1>1, <1>2, <1>3, PageOfRequest

LEMMA ReceiveChatKeeps ==
  ASSUME WebInv, NEW kind \in Kinds, ReceiveChat(kind), UNCHANGED <<gate, list>>
  PROVE  WebInv'
<1> DEFINE loaded == flight[kind].data
<1>1. /\ kind \in {"chat", "chat again"} /\ flight[kind].at = "answered" /\ fails' = fails
      /\ flight' = Abort(flight, {kind})
      /\ UNCHANGED <<daemonVars, linkVars, route, page, pinned, notes>>
      /\ IF Overdue(kind) THEN UNCHANGED chat ELSE TakeChat(loaded)
  BY DEF ReceiveChat, Arrives
<1>2. loaded \in Logs /\ cookie = process /\ IsPrefix(loaded, log)
  BY <1>1, ArrivedIs DEF Holds, Talks, SoundAnswer
<1>3. /\ SoundFlight(flight') /\ flight'[kind] = Idle
      /\ \A k \in Kinds \ {kind}: flight'[k] = flight[k]
      /\ \A k \in Kinds: flight[k] = Idle => flight'[k] = Idle
      /\ gate = "ready" /\ route = "review"
  BY <1>1, OneGone
<1>4. UNCHANGED <<flight["session"], flight["diff"], flight["list"]>>
  BY <1>1, <1>3, OtherKinds
<1>5. /\ chat \in [log: Logs \cup {None}, err: BOOLEAN]
      /\ chat.log # None => IsPrefix(chat.log, log)
      /\ DaemonInv
  BY <1>2 DEF WebInv, WorkspaceInv, LinkInv
<1>6. \A n \in Logs: n # None /\ Len(n) \in Nat
  BY LogFacts, Bounds
<1>7. /\ chat' \in [log: Logs \cup {None}, err: BOOLEAN]
      /\ chat'.log # None => IsPrefix(chat'.log, log)
      /\ chat.log # None => chat'.log # None /\ Len(chat.log) <= Len(chat'.log)
      /\ ~Overdue(kind) => chat'.log # None /\ Len(loaded) <= Len(chat'.log)
  <2> HIDE DEF loaded
  <2>1. CASE Overdue(kind)
    <3>1. chat' = chat
      BY <1>1, <2>1
    <3>2. chat.log # None => Len(chat.log) \in Nat
      BY <1>5, <1>6
    <3> QED BY <1>5, <2>1, <3>1, <3>2
  <2>2. CASE ~Overdue(kind)
    <3>1. chat' = [log |-> IF chat.log # None /\ Len(chat.log) > Len(loaded) THEN chat.log
                           ELSE loaded, err |-> FALSE]
      BY <1>1, <2>2 DEF TakeChat
    <3>2. CASE chat.log # None /\ Len(chat.log) > Len(loaded)
      BY <1>2, <1>5, <1>6, <3>1, <3>2
    <3>3. CASE chat.log = None \/ ~(Len(chat.log) > Len(loaded))
      BY <1>2, <1>5, <1>6, <3>1, <3>3
    <3> QED BY <3>2, <3>3
  <2> QED BY <2>1, <2>2
<1>8. Workspace(page)
  <2>1. kind \in Hooks /\ flight[kind] # Idle
    <3>1. kind \in Hooks
      BY <1>1 DEF Hooks
    <3>2. flight[kind].at # "idle"
      BY <1>1
    <3> QED BY <3>1, <3>2 DEF Idle
  <2> QED BY <2>1, PageOfRequest
<1> HIDE DEF loaded
<1>9. WorkspaceInv'
  BY <1>1, <1>7, <1>8 DEF WebInv, WorkspaceInv, Workspace, daemonVars, linkVars
<1>10. FollowInv'
  <2> SUFFICES ASSUME socket = "open", fails = 0, page.s.rev = review.rev
               PROVE  \/ ReplicaFollows'
                      \/ AnswerFollows("chat")'
                      \/ AnswerFollows("chat again")' /\ flight'["chat again"].rev = page.s.rev
    BY <1>1 DEF FollowInv, daemonVars, linkVars
  <2>1. \/ ReplicaFollows
        \/ AnswerFollows("chat")
        \/ AnswerFollows("chat again") /\ flight["chat again"].rev = page.s.rev
    BY <1>8 DEF WebInv, FollowInv
  <2>2. \A n: Follows(n) <=> Follows(n)'
    BY <1>1 DEF Follows, Told, daemonVars, linkVars
  <2>3. CASE ReplicaFollows \/ (~Overdue(kind) /\ Follows(Len(loaded)))
    <3>1. chat'.log # None /\ Follows(Len(chat'.log))
      <4>1. CASE ReplicaFollows
        BY <1>5, <1>6, <1>7, <4>1, FollowsMore DEF ReplicaFollows
      <4>2. CASE ~Overdue(kind) /\ Follows(Len(loaded))
        BY <1>2, <1>5, <1>6, <1>7, <4>2, FollowsMore
      <4> QED BY <2>3, <4>1, <4>2
    <3> QED BY <2>2, <3>1 DEF ReplicaFollows
  <2>4. CASE AnswerFollows("chat") /\ kind # "chat"
    BY <1>1, <1>3, <2>2, <2>4, OtherKinds DEF AnswerFollows
  <2>5. CASE AnswerFollows("chat again") /\ flight["chat again"].rev = page.s.rev
             /\ kind # "chat again"
    BY <1>1, <1>3, <2>2, <2>5, OtherKinds DEF AnswerFollows
  <2> QED BY <1>1, <2>1, <2>3, <2>4, <2>5 DEF AnswerFollows, Overdue, loaded
<1> QED BY <1>1, <1>3, <1>4, <1>9, <1>10, HookKeeps

LEMMA ChatFailsKeeps ==
  ASSUME WebInv, NEW kind \in Kinds, ChatFails(kind), UNCHANGED <<gate, list>>
  PROVE  WebInv'
<1>1. /\ kind \in {"chat", "chat again"} /\ Fails(kind)
      /\ flight' = Abort(flight, {kind})
      /\ UNCHANGED <<daemonVars, linkVars, route, page, pinned, notes>>
  BY DEF ChatFails
<1>2. /\ flight[kind].at \in {"refused", "answered"} /\ fails' \in {fails, fails + 1}
      /\ fails' = 0 => fails = 0 /\ flight[kind].at = "refused"
  BY <1>1, FailsIs
<1>3. /\ SoundFlight(flight') /\ flight'[kind] = Idle
      /\ \A k \in Kinds \ {kind}: flight'[k] = flight[k]
      /\ \A k \in Kinds: flight[k] = Idle => flight'[k] = Idle
      /\ gate = "ready" /\ route = "review"
  BY <1>1, <1>2, OneGone
<1>4. UNCHANGED <<flight["session"], flight["diff"], flight["list"]>>
  BY <1>1, <1>3, OtherKinds
<1>5. Workspace(page)
  <2>1. kind \in Hooks /\ flight[kind] # Idle
    <3>1. kind \in Hooks
      BY <1>1 DEF Hooks
    <3>2. flight[kind].at # "idle"
      BY <1>2
    <3> QED BY <3>1, <3>2 DEF Idle
  <2> QED BY <2>1, PageOfRequest
<1>6. chat' \in [log: Logs \cup {None}, err: BOOLEAN] /\ chat'.log = chat.log
  <2>1. chat \in [log: Logs \cup {None}, err: BOOLEAN]
    BY DEF WebInv, WorkspaceInv
  <2>2. chat' = [chat EXCEPT !.err = chat.err \/ ~Overdue(kind)]
    BY DEF ChatFails
  <2>3. (chat.err \/ ~Overdue(kind)) \in BOOLEAN
    OBVIOUS
  <2> QED BY <2>1, <2>2, <2>3
<1>7. WorkspaceInv'
  BY <1>1, <1>5, <1>6 DEF WebInv, WorkspaceInv, Workspace, daemonVars, linkVars
<1>8. FollowInv'
  <2> SUFFICES ASSUME socket = "open", fails = 0, page.s.rev = review.rev,
                      flight[kind].at = "refused"
               PROVE  \/ ReplicaFollows'
                      \/ AnswerFollows("chat")'
                      \/ AnswerFollows("chat again")' /\ flight'["chat again"].rev = page.s.rev
    BY <1>1, <1>2 DEF FollowInv, daemonVars, linkVars
  <2>1. \/ ReplicaFollows
        \/ AnswerFollows("chat")
        \/ AnswerFollows("chat again") /\ flight["chat again"].rev = page.s.rev
    BY <1>5 DEF WebInv, FollowInv
  <2>2. \A n: Follows(n) <=> Follows(n)'
    BY <1>1 DEF Follows, Told, daemonVars, linkVars
  <2>3. CASE ReplicaFollows
    BY <1>6, <2>2, <2>3 DEF ReplicaFollows
  <2>4. CASE AnswerFollows("chat") /\ kind # "chat"
    BY <1>1, <1>3, <2>2, <2>4, OtherKinds DEF AnswerFollows
  <2>5. CASE AnswerFollows("chat again") /\ flight["chat again"].rev = page.s.rev
             /\ kind # "chat again"
    BY <1>1, <1>3, <2>2, <2>5, OtherKinds DEF AnswerFollows
  <2> QED BY <2>1, <2>3, <2>4, <2>5 DEF AnswerFollows
<1> QED BY <1>1, <1>2, <1>3, <1>4, <1>7, <1>8, HookKeeps

(* An answer or a failure that neither the page nor the chat is about.     *)
LEMMA NoteKeeps ==
  ASSUME WebInv, NEW kind \in Kinds \ {"session", "diff", "list", "chat", "chat again"},
         flight[kind].at # "idle", flight' = Abort(flight, {kind}),
         fails' \in {fails, fails + 1}, notes' = notes \/ Workspace(page),
         notes' \in {notes} \cup [key: 0..MaxChanges, of: Reviews],
         notes' # None => notes'.of.rev = notes'.key,
         UNCHANGED <<daemonVars, linkVars, route, page, pinned, chat, gate, list>>
  PROVE  WebInv'
<1>1. /\ SoundFlight(flight') /\ flight'[kind] = Idle
      /\ \A k \in Kinds \ {kind}: flight'[k] = flight[k]
      /\ \A k \in Kinds: flight[k] = Idle => flight'[k] = Idle
      /\ gate = "ready" /\ route = "review"
  BY OneGone
<1>2. /\ UNCHANGED <<flight["session"], flight["diff"], flight["list"]>>
      /\ UNCHANGED <<flight["chat"], flight["chat again"]>>
  BY <1>1, OtherKinds
<1>3. WorkspaceInv'
  <2>1. notes' \in {None} \cup [key: 0..MaxChanges, of: Reviews]
    BY DEF WebInv, WorkspaceInv
  <2>2. ~Workspace(page) => notes' = None
    BY DEF WebInv, WorkspaceInv
  <2>3. ~Workspace(page) => \A k \in Hooks \cup {"edit", "say"}: flight'[k] = Idle
    BY <1>1, OtherKinds DEF WebInv, WorkspaceInv, Idling
  <2> QED BY <2>1, <2>2, <2>3 DEF WebInv, WorkspaceInv, Workspace, Idling, daemonVars, linkVars
<1>4. FollowInv'
  <2>2. fails' = 0 => fails = 0
    BY CountsFails
  <2> QED BY <1>2, <2>2, FollowSame DEF WebInv, Workspace, daemonVars, linkVars
<1> QED BY <1>1, <1>2, <1>3, <1>4, HookKeeps

LEMMA ReceiveDraftsKeeps ==
  ASSUME WebInv, NEW kind \in Kinds, ReceiveDrafts(kind), UNCHANGED <<gate, list>>
  PROVE  WebInv'
<1>1. /\ kind \in {"drafts", "drafts again"} /\ flight[kind].at = "answered" /\ fails' = fails
      /\ notes' \in {notes, Keep(flight[kind].rev, flight[kind].data)}
      /\ flight' = Abort(flight, {kind})
      /\ UNCHANGED <<daemonVars, linkVars, route, page, pinned, chat>>
  BY DEF ReceiveDrafts, Arrives
<1>2. /\ flight[kind].data \in Reviews /\ flight[kind].data.rev = flight[kind].rev
      /\ flight[kind].rev \in 0..MaxChanges /\ flight[kind] # Idle
  BY <1>1, ArrivedIs DEF Holds, Talks, SoundAnswer
<1>3. Workspace(page)
  BY <1>1, <1>2, PageOfRequest, OtherKinds
<1>4. /\ notes' \in {notes} \cup [key: 0..MaxChanges, of: Reviews]
      /\ notes' # None => notes'.of.rev = notes'.key
  <2> DEFINE kept == Keep(flight[kind].rev, flight[kind].data)
  <2>1. kept \in [key: 0..MaxChanges, of: Reviews] /\ kept.of.rev = kept.key
    BY <1>2 DEF Keep
  <2>2. notes # None => notes.of.rev = notes.key
    BY DEF WebInv, WorkspaceInv
  <2>3. notes' \in {notes, kept}
    BY <1>1
  <2> HIDE DEF kept
  <2> QED BY <2>1, <2>2, <2>3
<1> QED BY <1>1, <1>3, <1>4, NoteKeeps

LEMMA DraftsFailKeeps ==
  ASSUME WebInv, NEW kind \in Kinds, DraftsFail(kind) \/ CommandFails(kind),
         UNCHANGED <<gate, list>>
  PROVE  WebInv'
<1>1. /\ kind \in {"drafts", "drafts again"} \cup Commands /\ Fails(kind)
      /\ flight' = Abort(flight, {kind})
      /\ UNCHANGED <<daemonVars, linkVars, route, page, pinned, chat, notes>>
  BY DEF DraftsFail, CommandFails, viewVars
<1>2. flight[kind].at \in {"refused", "answered"} /\ fails' \in {fails, fails + 1}
  BY <1>1, FailsIs
<1>3. notes # None => notes.of.rev = notes.key
  BY DEF WebInv, WorkspaceInv
<1>4. kind \in Kinds \ {"session", "diff", "list", "chat", "chat again"}
  BY <1>1, OtherKinds
<1> QED BY <1>1, <1>2, <1>3, <1>4, NoteKeeps

(* A command is answered: its hook fetches anew.                           *)
LEMMA ReceiveCommandKeeps ==
  ASSUME WebInv, NEW kind \in Kinds, ReceiveCommand(kind), UNCHANGED <<gate, list>>
  PROVE  WebInv'
<1> DEFINE f == Abort(flight, {kind})  rev == flight[kind].rev
<1>1. /\ kind \in {"edit", "say"} /\ flight[kind].at = "answered" /\ fails' = fails
      /\ flight[Again[kind]] = Idle /\ flight' = Send(f, Again[kind], rev)
      /\ UNCHANGED <<daemonVars, linkVars, route, page, pinned, chat, notes>>
  BY DEF ReceiveCommand, Arrives, Again, viewVars
<1>2. PICK again \in {"drafts again", "chat again"}: Again[kind] = again
  <2>1. Again["edit"] = "drafts again" /\ Again["say"] = "chat again"
    BY DEF Again
  <2> HIDE DEF f, rev
  <2>2. kind = "edit" \/ kind = "say"
    BY <1>1
  <2> QED BY <2>1, <2>2
<1>3. rev \in 0..MaxChanges /\ flight[kind] # Idle
  BY <1>1, ArrivedIs
<1>4. Workspace(page) /\ gate = "ready" /\ route = "review"
  <2>1. kind \in Hooks \cup {"edit", "say"} /\ kind # "list"
    BY <1>1
  <2> QED BY <1>3, <2>1, PageOfRequest
<1>5. /\ IsFlight(f) /\ SoundFlight(f)
      /\ \A k \in Kinds \ {kind}: f[k] = flight[k]
  BY OneAborted DEF WebInv, LinkInv
<1>6. again \in Reads \ {"diff"}
  BY DEF Reads
<1>7. flight' = Send(f, again, rev)
  BY <1>1, <1>2
<1> HIDE DEF f, rev
<1>8. /\ SoundFlight(flight')
      /\ \A k \in Kinds \ {again}: flight'[k] = f[k]
  <2>1. DaemonInv
    BY DEF WebInv, LinkInv
  <2>2. /\ \A k \in Kinds \ {again}: Send(f, again, rev)[k] = f[k]
        /\ DaemonInv /\ SoundFlight(f) /\ rev \in 0..MaxChanges => SoundFlight(Send(f, again, rev))
    BY <1>5, <1>6, SendIs
  <2> QED BY <1>3, <1>5, <1>7, <2>1, <2>2
<1>9. \A k \in Kinds \ {kind, again}: flight'[k] = flight[k]
  BY <1>5, <1>8
<1>10. {"session", "diff", "list", "chat"} \subseteq Kinds \ {kind, again}
  BY <1>1, <1>2 DEF Kinds, Reads
<1>11. flight[again] = Idle /\ again \in Kinds
  BY <1>1, <1>2, <1>6 DEF Kinds
<1>12. WorkspaceInv'
  BY <1>1, <1>4 DEF WebInv, WorkspaceInv, Workspace, daemonVars, linkVars
<1>13. FollowInv'
  <2>1. CASE again = "chat again"
    <3> SUFFICES ASSUME socket = "open", fails = 0, page.s.rev = review.rev
                 PROVE  \/ ReplicaFollows'
                        \/ AnswerFollows("chat")'
      BY <1>1 DEF FollowInv, daemonVars, linkVars
    <3>1. ~AnswerFollows("chat again")
      <4>1. flight["chat again"] = Idle
        BY <1>11, <2>1
      <4>2. Idle.at = "idle"
        BY DEF Idle
      <4>3. flight["chat again"].at = "idle"
        BY <4>1, <4>2
      <4> QED BY <4>3 DEF AnswerFollows
    <3>2. ReplicaFollows \/ AnswerFollows("chat")
      BY <1>4, <3>1 DEF WebInv, FollowInv
    <3>3. \A n: Follows(n) <=> Follows(n)'
      BY <1>1 DEF Follows, Told, daemonVars, linkVars
    <3>4. flight'["chat"] = flight["chat"]
      BY <1>9, <1>10
    <3> QED BY <1>1, <3>2, <3>3, <3>4 DEF ReplicaFollows, AnswerFollows
  <2>2. CASE again = "drafts again"
    <3>1. "chat again" \in Kinds \ {kind, again}
      BY <1>1, <2>2 DEF Kinds, Reads
    <3>2. UNCHANGED <<flight["chat"], flight["chat again"]>>
      BY <1>9, <1>10, <3>1
    <3> QED BY <1>1, <3>2, FollowSame DEF WebInv, Workspace, daemonVars, linkVars
  <2> QED BY <1>2, <2>1, <2>2
<1> QED BY <1>1, <1>4, <1>8, <1>9, <1>10, <1>12, <1>13, HookKeeps

(* A load fails.                                                           *)
LEMMA LoadFailsKeeps ==
  ASSUME WebInv, NEW kind \in Kinds, LoadFails(kind), UNCHANGED <<gate, list>>
  PROVE  WebInv'
<1>1. /\ kind \in {"session", "diff"} /\ flight' = Abort(flight, {kind})
      /\ page' = IF page.at = "ready" THEN [page EXCEPT !.warn = TRUE]
                                      ELSE [Blank EXCEPT !.at = "error"]
      /\ UNCHANGED <<daemonVars, linkVars, route, pinned, chat, notes>>
  BY DEF LoadFails
<1>2. /\ flight[kind].at \in {"refused", "answered"} /\ fails' \in {fails, fails + 1}
      /\ fails' = 0 => fails = 0 /\ flight[kind].at = "refused"
  BY FailsIs DEF LoadFails
<1>3. /\ SoundFlight(flight') /\ flight'[kind] = Idle
      /\ \A k \in Kinds \ {kind}: flight'[k] = flight[k]
      /\ \A k \in Kinds: flight[k] = Idle => flight'[k] = Idle
      /\ gate = "ready" /\ route = "review"
  BY <1>1, <1>2, OneGone
<1>4. flight["session"] = Idle \/ flight["diff"] = Idle
  BY DEF WebInv, OrderInv, Idling
<1>5. flight'["session"] = Idle /\ flight'["diff"] = Idle
  <2>1. "session" \in Kinds /\ "diff" \in Kinds
    BY DEF Kinds, Reads
  <2>2. flight[kind] # Idle
    BY <1>2 DEF Idle
  <2> QED BY <1>1, <1>3, <1>4, <2>1, <2>2
<1>6. UNCHANGED <<flight["list"], flight["chat"], flight["chat again"]>>
  BY <1>1, <1>3 DEF Kinds, Reads
<1>7. /\ page' \in [at: {"loading", "ready", "error"}, s: Reviews \cup {None},
                    diff: 0..MaxChanges \cup {None}, warn: BOOLEAN]
      /\ page'.at = "ready" <=> page.at = "ready"
      /\ page.at = "ready" => page'.s = page.s /\ page'.diff = page.diff
      /\ page.at # "ready" => page'.diff = None
      /\ page'.at # "loading"
  <2>1. page \in [at: {"loading", "ready", "error"}, s: Reviews \cup {None},
                  diff: 0..MaxChanges \cup {None}, warn: BOOLEAN]
    BY DEF WebInv, ScreenInv
  <2>2. CASE page.at = "ready"
    BY <1>1, <2>1, <2>2
  <2>3. CASE page.at # "ready"
    BY <1>1, <2>3 DEF Blank
  <2> QED BY <2>2, <2>3
<1>8. page.at # "ready" => page.diff = None
  BY DEF WebInv, ScreenInv
<1>9. Workspace(page') <=> Workspace(page)
  BY <1>7, <1>8 DEF Workspace
<1>10. LinkInv'
  BY <1>1, <1>2, <1>3, TabLink DEF WebInv
<1>11. ScreenInv'
  BY <1>1, <1>3, <1>5, <1>6, <1>7 DEF WebInv, ScreenInv, Idling
<1>12. WorkspaceInv'
  <2>1. ~Workspace(page) => \A k \in Hooks \cup {"edit", "say"}: flight'[k] = Idle
    BY <1>3, OtherKinds DEF WebInv, WorkspaceInv, Idling
  <2>2. page'.diff # None => page.at = "ready" /\ page.diff # None /\ page'.s = page.s
                             /\ page'.diff = page.diff
    BY <1>7
  <2>3. page.diff # None =>
           page.s.status = "draft" /\ page.diff = page.s.rev /\ pinned \in {None, page.s}
    BY DEF WebInv, WorkspaceInv
  <2>4. page'.diff # None =>
           page'.s.status = "draft" /\ page'.diff = page'.s.rev /\ pinned' \in {None, page'.s}
    BY <1>1, <2>2, <2>3
  <2>5. Workspace(page)' <=> Workspace(page)
    BY <1>9 DEF Workspace
  <2> QED BY <1>1, <2>1, <2>4, <2>5 DEF WebInv, WorkspaceInv, Idling, daemonVars, linkVars
<1>13. OrderInv'
  BY <1>1, <1>5, <1>7 DEF WebInv, OrderInv, Idling, Idle, daemonVars
<1>14. LoadingWaits' /\ ListInv'
  BY <1>3, <1>7, <1>1 DEF LoadingWaits, ListInv
<1>15. PageInv'
  <2> SUFFICES ASSUME Fresh, fails' = 0 PROVE FALSE
    BY <1>1 DEF PageInv, Fresh, NoneUpdated, linkVars
  <2>1. fails = 0 /\ flight[kind].at = "refused"
    BY <1>2
  <2>2. cookie = process
    BY DEF Fresh, WebInv, LinkInv, SocketInv, Listening
  <2>3. SoundRequest(kind, flight[kind])
    BY DEF WebInv, LinkInv, SoundFlight
  <2>4. kind = "diff" /\ flight["diff"] # Idle
    BY <1>1, <2>1, <2>2, <2>3 DEF SoundRequest, Idle
  <2>5. flight["diff"].at = "answered"
    BY <1>3, <2>1, <2>4 DEF WebInv, PageInv
  <2> QED BY <2>1, <2>4, <2>5
<1>16. FollowInv'
  BY <1>1, <1>2, <1>6, <1>7, <1>9, FollowSame DEF WebInv, Workspace, daemonVars, linkVars
<1> QED BY <1>10, <1>11, <1>12, <1>13, <1>14, <1>15, <1>16 DEF WebInv

(***************************************************************************)
(* The home page.                                                          *)
(***************************************************************************)
LEMMA ListKeeps ==
  ASSUME WebInv, ReceiveList \/ ListFails
  PROVE  WebInv'
<1>1. /\ flight["list"].at \in {"refused", "answered"} /\ flight' = Abort(flight, {"list"})
      /\ fails' \in {fails, fails + 1}
      /\ UNCHANGED <<daemonVars, linkVars, viewVars, gate>>
  BY FailsIs DEF ReceiveList, Arrives, ListFails
<1>2. "list" \in Kinds
  BY DEF Kinds, Reads
<1>3. /\ SoundFlight(flight') /\ flight'["list"] = Idle /\ flight["list"] # Idle
      /\ \A k \in Kinds \ {"list"}: flight'[k] = flight[k]
      /\ gate = "ready"
  <2>1. flight["list"].at # "idle"
    BY <1>1
  <2> QED BY <1>1, <1>2, <2>1, OneGone DEF Idle
<1>4. route = "home"
  BY <1>3 DEF WebInv, ScreenInv, Idling
<1>5. list' \in [data: Reviews \cup {None}, err: BOOLEAN]
      /\ (Fresh => list'.err \/ list'.data = review)
  <2>1. CASE ReceiveList
    <3>1. list' = [data |-> flight["list"].data, err |-> FALSE] /\ flight["list"].at = "answered"
      BY <2>1 DEF ReceiveList, Arrives
    <3>2. flight["list"].data \in Reviews
      BY <1>2, <3>1, ArrivedIs DEF Holds, Talks
    <3>3. Fresh => flight["list"].data = review
      BY <1>3, <1>4 DEF WebInv, ListInv, Idling
    <3> QED BY <3>1, <3>2, <3>3
  <2>2. CASE ListFails
    BY <2>2 DEF ListFails
  <2> QED BY <2>1, <2>2
<1> USE <1>1 DEF daemonVars, linkVars, viewVars
<1>6. LinkInv'
  BY <1>3, TabLink DEF WebInv
<1>7. page = Blank /\ pinned = None /\ ~Workspace(page)
  BY <1>4 DEF WebInv, ScreenInv, Workspace, Blank
<1>8. ScreenInv'
  BY <1>3, <1>4, <1>5 DEF WebInv, ScreenInv, Idling
<1>9. WorkspaceInv'
  BY <1>3, OtherKinds DEF WebInv, WorkspaceInv, Workspace, Idling
<1>10. OrderInv'
  BY <1>3, OtherKinds DEF WebInv, OrderInv, Idling
<1>11. LoadingWaits' /\ PageInv'
  BY <1>4 DEF LoadingWaits, PageInv
<1>12. ListInv'
  <2>1. Fresh' = Fresh
    BY DEF Fresh, NoneUpdated
  <2>2. Idling({"list"})'
    BY <1>3 DEF Idling
  <2> QED BY <1>5, <2>1, <2>2 DEF ListInv
<1>13. FollowInv'
  BY <1>7 DEF FollowInv, Workspace
<1> QED BY <1>6, <1>8, <1>9, <1>10, <1>11, <1>12, <1>13 DEF WebInv

(***************************************************************************)
(* The gate and the routes.                                                *)
(***************************************************************************)
(* A fresh page, or none, with the one request it begins with.             *)
LEMMA BlankKeeps ==
  ASSUME LinkInv', page' = Blank, pinned' = None, chat' = NoChat, notes' = None, list' = NoList,
         route' \in {"home", "review"},
         \A k \in Kinds \ {"list", "session"}: flight'[k] = Idle,
         gate' = "disconnected" => flight'["list"] = Idle /\ flight'["session"] = Idle,
         route' = "home" =>
           /\ flight'["session"] = Idle
           /\ Fresh' => flight'["list"].at = "answered" /\ flight'["list"].data = review',
         route' = "review" =>
           /\ flight'["list"] = Idle
           /\ gate' = "ready" => flight'["session"] # Idle
           /\ flight'["session"].at = "answered" => flight'["session"].data = review'
  PROVE  WebInv'
<1>1. /\ Blank.at = "loading" /\ Blank.diff = None /\ ~Workspace(Blank) /\ NoChat.log = None
      /\ Blank \in [at: {"loading", "ready", "error"}, s: Reviews \cup {None},
                    diff: 0..MaxChanges \cup {None}, warn: BOOLEAN]
      /\ NoChat \in [log: Logs \cup {None}, err: BOOLEAN]
      /\ NoList \in [data: Reviews \cup {None}, err: BOOLEAN]
  BY DEF Blank, NoChat, NoList, Workspace
<1>2. ~Workspace(page)'
  BY <1>1 DEF Workspace
<1>3. /\ Kinds \ {"list"} \subseteq (Kinds \ {"list", "session"}) \cup {"session"}
      /\ Kinds \subseteq (Kinds \ {"list", "session"}) \cup {"session", "list"}
      /\ Hooks \cup {"edit", "say", "diff"} \subseteq Kinds \ {"list", "session"}
  BY OtherKinds DEF Kinds, Reads, Hooks
<1>4. ScreenInv'
  BY <1>1, <1>3 DEF ScreenInv, Idling
<1>5. WorkspaceInv'
  BY <1>1, <1>2, <1>3 DEF WorkspaceInv, Idling
<1>6. OrderInv'
  BY <1>1, <1>3 DEF OrderInv, Idling
<1>7. LoadingWaits'
  BY DEF LoadingWaits, Idling
<1>8. ListInv'
  <2> SUFFICES ASSUME Fresh', route' = "home"
               PROVE  flight'["list"].at = "answered" /\ flight'["list"].data = review'
                      /\ ~Idling({"list"})'
    BY DEF ListInv
  <2> QED BY DEF Idling, Idle
<1>9. PageInv'
  BY <1>1, <1>3 DEF PageInv, Idling
<1>10. FollowInv'
  BY <1>2 DEF FollowInv
<1> QED BY <1>4, <1>5, <1>6, <1>7, <1>8, <1>9, <1>10 DEF WebInv

LEMMA NoneLeft ==
  LET f == Abort(flight, Kinds) IN
  /\ IsFlight(f) /\ \A k \in Kinds: f[k] = Idle
  /\ SoundFlight(flight) => SoundFlight(f)
<1> DEFINE kinds == Kinds
<1> HIDE DEF kinds
<1>1. /\ IsFlight(Abort(flight, kinds)) /\ \A k \in Kinds \cap kinds: Abort(flight, kinds)[k] = Idle
      /\ SoundFlight(flight) => SoundFlight(Abort(flight, kinds))
  BY AbortIs
<1> QED BY <1>1 DEF kinds

LEMMA NavigateKeeps ==
  ASSUME WebInv, NEW to \in {"home", "review"}, Navigate(to)
  PROVE  WebInv'
<1> DEFINE f == Abort(flight, Kinds)
<1>1. /\ gate = "ready" /\ gate' = "ready" /\ route' = to
      /\ page' = Blank /\ pinned' = None /\ chat' = NoChat /\ notes' = None /\ list' = NoList
      /\ UNCHANGED <<daemonVars, linkVars, fails, gate>>
      /\ flight' = IF to = "home" THEN Refetch(f) ELSE Load(f)
  BY DEF Navigate, Enter
<1>2. /\ IsFlight(f) /\ SoundFlight(f) /\ \A k \in Kinds: f[k] = Idle
      /\ DaemonInv /\ LinkInv
  BY NoneLeft DEF WebInv, LinkInv
<1> HIDE DEF f
<1>3. {"list", "session", "diff"} \subseteq Kinds
  BY OtherKinds
<1>4. CASE to = "home"
  <2>1. /\ SoundFlight(flight') /\ flight'["list"] = Sent("list", 0, review)
        /\ \A k \in Kinds \ {"list"}: flight'[k] = Idle
    BY <1>1, <1>2, <1>4, RefetchIs
  <2>2. LinkInv'
    BY <1>1, <1>2, <2>1, TabLink
  <2>3. Fresh' => flight'["list"].at = "answered" /\ flight'["list"].data = review'
    <3>1. Current("list", 0)
      BY DEF Current
    <3>2. socket = "open" => Sent("list", 0, review).at = "answered"
                             /\ Sent("list", 0, review).data = review
      BY <1>2, <3>1, ServedIs
    <3> QED BY <1>1, <2>1, <3>2 DEF Fresh, daemonVars, linkVars
  <2> QED BY <1>1, <1>3, <1>4, <2>1, <2>2, <2>3, BlankKeeps
<1>5. CASE to = "review"
  <2>1. /\ SoundFlight(flight') /\ flight'["session"] = Sent("session", 0, review)
        /\ flight'["diff"] = Idle /\ \A k \in Kinds \ {"session", "diff"}: flight'[k] = f[k]
    BY <1>1, <1>2, <1>5, LoadIs
  <2>2. \A k \in Kinds \ {"session"}: flight'[k] = Idle
    BY <1>2, <2>1
  <2>3. LinkInv'
    BY <1>1, <1>2, <2>1, TabLink
  <2>4. /\ Sent("session", 0, review) # Idle
        /\ Sent("session", 0, review).at = "answered" => Sent("session", 0, review).data = review
    BY SentIs
  <2>5. review' = review
    BY <1>1 DEF daemonVars
  <2> QED BY <1>1, <1>3, <1>5, <2>1, <2>2, <2>3, <2>4, <2>5, BlankKeeps
<1> QED BY <1>4, <1>5

LEMMA ExpireKeeps ==
  ASSUME WebInv, Expire
  PROVE  WebInv'
<1>1. /\ gate' = "disconnected" /\ socket' = "none" /\ wire' = <<>>
      /\ flight' = Abort(flight, Kinds)
      /\ page' = Blank /\ pinned' = None /\ chat' = NoChat /\ notes' = None /\ list' = NoList
      /\ UNCHANGED <<daemonVars, cookie, drops, fails, route>>
  BY DEF Expire
<1>2. /\ SoundFlight(flight') /\ \A k \in Kinds: flight'[k] = Idle
  BY <1>1, NoneLeft DEF WebInv, LinkInv
<1>3. LinkInv'
  <2>1. DaemonInv'
    BY <1>1 DEF WebInv, LinkInv, DaemonInv, daemonVars
  <2>2. SocketInv' /\ WireInv'
    BY <1>1 DEF SocketInv, WireInv, Listening
  <2>3. SoundFlight(flight)'
    BY <1>1, <1>2, SoundFrame DEF daemonVars
  <2> QED BY <2>1, <2>2, <2>3 DEF LinkInv
<1>4. route' \in {"home", "review"}
  BY <1>1 DEF WebInv, ScreenInv
<1>5. ~Fresh'
  BY <1>1 DEF Fresh
<1>6. flight'["session"] = Idle /\ flight'["list"] = Idle /\ Idle.at # "answered"
  BY <1>2 DEF Kinds, Reads, Idle
<1> QED BY <1>1, <1>2, <1>3, <1>4, <1>5, <1>6, BlankKeeps

LEMMA AuthenticateKeeps ==
  ASSUME WebInv, Authenticate
  PROVE  WebInv'
<1> DEFINE mine == [Idle EXCEPT !.at = "answered", !.data = review]
           kind == IF route = "home" THEN "list" ELSE "session"
<1>1. /\ gate = "disconnected" /\ gate' = "ready" /\ cookie' = process /\ socket' = "connecting"
      /\ flight' = [flight EXCEPT ![kind] = mine]
      /\ UNCHANGED <<daemonVars, wire, drops, fails, viewVars, list>>
  BY DEF Authenticate
<1>2. /\ page = Blank /\ pinned = None /\ list = NoList /\ Idling(Kinds)
      /\ route \in {"home", "review"}
  BY <1>1 DEF WebInv, ScreenInv
<1>3. chat = NoChat /\ notes = None
  BY <1>2 DEF WebInv, WorkspaceInv, Workspace, Blank
<1>4. kind \in Kinds /\ kind \in {"list", "session"} /\ IsFlight(flight)
  BY DEF Kinds, Reads, WebInv, LinkInv, SoundFlight, IsFlight
<1>5. mine = [at |-> "answered", rev |-> 0, data |-> review]
  <2> DEFINE asked == [Idle EXCEPT !.at = "answered"]
  <2>1. asked = [at |-> "answered", rev |-> 0, data |-> None]
    BY DEF Idle
  <2>2. mine = [asked EXCEPT !.data = review]
    OBVIOUS
  <2> HIDE DEF asked, mine
  <2> QED BY <2>1, <2>2
<1> HIDE DEF mine, kind
<1>6. /\ IsFlight(flight') /\ flight'[kind] = mine
      /\ \A k \in Kinds \ {kind}: flight'[k] = Idle
  <2>1. /\ IsFlight([flight EXCEPT ![kind] = mine]) /\ [flight EXCEPT ![kind] = mine][kind] = mine
        /\ \A k \in Kinds \ {kind}: [flight EXCEPT ![kind] = mine][k] = flight[k]
    BY <1>4, PutIs
  <2> QED BY <1>1, <1>2, <2>1 DEF Idling
<1>7. LinkInv'
  <2>0. DaemonInv
    BY DEF WebInv, LinkInv
  <2>1. DaemonInv'
    BY <1>1, <2>0 DEF DaemonInv, daemonVars
  <2>2. SocketInv' /\ WireInv'
    <3>1. wire = <<>> /\ socket = "none"
      BY <1>1 DEF WebInv, LinkInv, SocketInv, Listening
    <3> QED BY <1>1, <3>1 DEF SocketInv, WireInv, Listening, daemonVars
  <2>3. SoundRequest(kind, mine)'
    <3>1. /\ mine.at = "answered" /\ mine.rev = 0 /\ mine.data = review
          /\ mine \in [at: {"answered"}, rev: 0..MaxChanges, data: Reviews]
      BY <1>5, <2>0, Bounds DEF DaemonInv
    <3>2. review.rev <= review.rev
      BY <2>0, Bounds DEF DaemonInv, Reviews
    <3>3. review' = review /\ cookie' = process'
      BY <1>1 DEF daemonVars
    <3>4. /\ kind \notin Talks /\ kind \notin {"drafts", "drafts again", "diff"} /\ kind # "update"
          /\ kind # "diff"
      BY <1>4 DEF Talks
    <3>5. mine' = mine /\ kind' = kind
      BY <1>1, <3>3 DEF mine, kind, viewVars
    <3>6. SoundAnswer(kind, mine)'
      BY <3>1, <3>2, <3>3, <3>4, <3>5 DEF SoundAnswer
    <3>7. (mine \in Requests(kind))'
      BY <3>1, <3>4, <3>5 DEF Requests, Holds
    <3> QED BY <3>1, <3>4, <3>5, <3>6, <3>7 DEF SoundRequest
  <2>4. \A k \in Kinds: SoundRequest(k, Idle)'
    BY <1>1 DEF SoundRequest, Requests, Idle
  <2>5. SoundFlight(flight)'
    <3>1. mine' = mine /\ kind' = kind
      BY <1>1 DEF mine, kind, viewVars, daemonVars
    <3>2. SoundRequest(kind, flight[kind])'
      BY <1>6, <2>3, <3>1
    <3>3. \A k \in Kinds \ {kind}: SoundRequest(k, flight[k])'
      BY <1>6, <2>4
    <3>4. \A k \in Kinds: SoundRequest(k, flight[k])'
      BY <3>1, <3>2, <3>3
    <3> QED BY <1>6, <3>4 DEF SoundFlight, IsFlight
  <2> QED BY <2>1, <2>2, <2>5 DEF LinkInv
<1>8. ~Fresh'
  BY <1>1 DEF Fresh
<1>9. mine # Idle
  BY <1>5 DEF Idle
<1>10. /\ route = "home" => kind = "list"
       /\ route = "review" => kind = "session"
       /\ {"list", "session"} \subseteq Kinds
  BY DEF kind, Kinds, Reads
<1> QED BY <1>1, <1>2, <1>3, <1>5, <1>6, <1>7, <1>8, <1>9, <1>10, BlankKeeps
     DEF viewVars, daemonVars

(***************************************************************************)
(* The event socket.                                                       *)
(***************************************************************************)
LEMMA OpenKeeps ==
  ASSUME WebInv, Open
  PROVE  WebInv'
<1>1. /\ socket = "accepted" /\ socket' = "open"
      /\ UNCHANGED <<daemonVars, cookie, wire, drops, fails, route, page, chat, notes, gate>>
  BY DEF Open
<1>2. /\ DaemonInv /\ cookie = process /\ gate = "ready" /\ IsFlight(flight) /\ SoundFlight(flight)
      /\ review.rev \in Nat
  BY <1>1, Bounds
  DEF WebInv, LinkInv, SocketInv, Listening, SoundFlight, IsFlight, DaemonInv, Reviews
<1>3. \A kind, rev, data: Current(kind, rev) =>
         Sent(kind, rev, data).at = "answered" /\ Sent(kind, rev, data).data = data
  <2> TAKE kind, rev, data
  <2> DEFINE r == Sent(kind, rev, data)
  <2>1. /\ r.at = "answered" <=> cookie = process /\ Current(kind, rev)
        /\ r.at = "answered" => r.data = data
    BY SentIs
  <2> QED BY <1>2, <2>1
<1>4. ASSUME SoundFlight(flight')
      PROVE  LinkInv'
  <2>1. DaemonInv'
    BY <1>1, <1>2 DEF DaemonInv, daemonVars
  <2>2. SocketInv' /\ WireInv'
    BY <1>1, <1>2 DEF WebInv, LinkInv, SocketInv, WireInv, Listening, daemonVars
  <2>3. SoundFlight(flight)'
    BY <1>1, <1>4, SoundFrame DEF daemonVars
  <2> QED BY <2>1, <2>2, <2>3 DEF LinkInv
<1>5. CASE route = "home"
  <2>1. list' = NoList /\ flight' = Refetch(flight) /\ pinned' = pinned
    BY <1>5 DEF Open
  <2>2. /\ SoundFlight(flight') /\ flight'["list"] = Sent("list", 0, review)
        /\ \A k \in Kinds \ {"list"}: flight'[k] = flight[k]
    BY <1>2, <2>1, RefetchIs
  <2>3. /\ page = Blank /\ pinned = None /\ \A k \in Kinds \ {"list"}: flight'[k] = Idle
    BY <1>5, <2>2 DEF WebInv, ScreenInv, Idling
  <2>4. chat = NoChat /\ notes = None
    BY <2>3 DEF WebInv, WorkspaceInv, Workspace, Blank
  <2>5. flight'["list"].at = "answered" /\ flight'["list"].data = review
    BY <1>3, <2>2 DEF Current
  <2>6. "session" \in Kinds \ {"list"}
    BY DEF Kinds, Reads
  <2>7. LinkInv'
    BY <1>4, <2>2
  <2> QED BY <1>1, <1>2, <1>5, <2>1, <2>3, <2>4, <2>5, <2>6, <2>7, BlankKeeps DEF daemonVars
<1>6. CASE route = "review"
  <2> DEFINE f == IF Workspace(page) THEN Fetch(flight, page.s.rev) ELSE flight
  <2>1. pinned' = None /\ flight' = Load(f) /\ list' = list
    BY <1>6 DEF Open, Reload
  <2>2. /\ IsFlight(f) /\ SoundFlight(f)
        /\ \A k \in Kinds \ {"chat", "drafts"}: f[k] = flight[k]
        /\ Workspace(page) => f["chat"] = Sent("chat", page.s.rev, log)
        /\ ~Workspace(page) => f = flight
    <3>1. CASE Workspace(page)
      <4>1. page.s.rev \in 0..MaxChanges
        BY <3>1, WorkspaceOpen
      <4> DEFINE rev == page.s.rev
      <4> HIDE DEF rev
      <4>2. /\ IsFlight(Fetch(flight, rev))
            /\ Fetch(flight, rev)["chat"] = Sent("chat", rev, log)
            /\ \A k \in Kinds \ {"chat", "drafts"}: Fetch(flight, rev)[k] = flight[k]
            /\ DaemonInv /\ SoundFlight(flight) /\ rev \in 0..MaxChanges
                 => SoundFlight(Fetch(flight, rev))
        BY <1>2, FetchIs
      <4> QED BY <1>2, <3>1, <4>1, <4>2 DEF rev
    <3>2. CASE ~Workspace(page)
      BY <1>2, <3>2
    <3> QED BY <3>1, <3>2
  <2> HIDE DEF f
  <2>3. /\ SoundFlight(flight') /\ flight'["session"] = Sent("session", 0, review)
        /\ flight'["diff"] = Idle /\ \A k \in Kinds \ {"session", "diff"}: flight'[k] = f[k]
    BY <1>2, <2>1, <2>2, LoadIs
  <2>4. /\ flight'["session"].at = "answered" /\ flight'["session"].data = review
        /\ flight'["session"] # Idle
    BY <1>3, <2>3, SentIs DEF Current
  <2>5. /\ flight'["list"] = flight["list"] /\ flight'["chat"] = f["chat"]
        /\ ~Workspace(page) => \A k \in Hooks \cup {"edit", "say"}: flight'[k] = flight[k]
    BY <2>2, <2>3 DEF Kinds, Reads, Commands, Hooks
  <2>6. LinkInv'
    BY <1>4, <2>3
  <2>7. ScreenInv'
    BY <1>1, <1>2, <1>6, <2>1, <2>5 DEF WebInv, ScreenInv, Idling
  <2>8. WorkspaceInv'
    BY <1>1, <2>1, <2>5 DEF WebInv, WorkspaceInv, Idling, Workspace, daemonVars
  <2>9. OrderInv'
    BY <1>1, <2>1, <2>3 DEF WebInv, OrderInv, Idling, daemonVars
  <2>10. LoadingWaits' /\ ListInv'
    BY <1>1, <1>6, <2>4 DEF LoadingWaits, ListInv, Idling
  <2>11. PageInv'
    BY <1>1, <2>3, <2>4 DEF PageInv, Idling, daemonVars
  <2>12. FollowInv'
    <3> SUFFICES ASSUME Workspace(page), page.s.rev = review.rev PROVE AnswerFollows("chat")'
      BY <1>1 DEF FollowInv, Workspace, daemonVars
    <3>1. flight'["chat"] = Sent("chat", page.s.rev, log)
      BY <2>2, <2>5
    <3>2. flight'["chat"].at = "answered" /\ flight'["chat"].data = log
      BY <1>3, <3>1 DEF Current
    <3>3. Follows(Len(log))'
      BY <1>1, <1>2, FollowsAll DEF Follows, Told, daemonVars
    <3> QED BY <1>1, <3>2, <3>3 DEF AnswerFollows, daemonVars
  <2> QED BY <2>6, <2>7, <2>8, <2>9, <2>10, <2>11, <2>12 DEF WebInv
<1> QED BY <1>5, <1>6 DEF WebInv, ScreenInv

(* While the socket is not open the page owes nothing but the truth.       *)
LEMMA OfflineKeeps ==
  ASSUME WebInv, LinkInv', socket' # "open", UNCHANGED <<viewVars, gate, list, review>>,
         (gate' = "disconnected") = (gate = "disconnected"),
         \A k \in Kinds: flight'[k] = Idle <=> flight[k] = Idle,
         \A k \in Kinds: flight'[k].rev = flight[k].rev,
         flight'["session"].at = "answered" => flight'["session"] = flight["session"],
         cookie' = process' => cookie = process /\ log' = log
  PROVE  WebInv'
<1>1. ~Fresh'
  BY DEF Fresh
<1>2. ScreenInv'
  BY OtherKinds DEF WebInv, ScreenInv, Idling, viewVars
<1>3. WorkspaceInv'
  BY OtherKinds DEF WebInv, WorkspaceInv, Idling, Workspace, viewVars
<1>4. OrderInv'
  BY OtherKinds DEF WebInv, OrderInv, Idling, viewVars
<1>5. LoadingWaits'
  BY OtherKinds DEF WebInv, LoadingWaits, Idling, viewVars
<1>6. ListInv' /\ PageInv' /\ FollowInv'
  BY <1>1 DEF ListInv, PageInv, FollowInv
<1> QED BY <1>2, <1>3, <1>4, <1>5, <1>6 DEF WebInv

LEMMA SocketStepKeeps ==
  ASSUME WebInv, SocketStep, UNCHANGED <<viewVars, gate, list>>
  PROVE  WebInv'
<1>1. /\ UNCHANGED <<daemonVars, cookie, requestVars>> /\ drops' \in {drops, drops + 1}
      /\ socket # "none" /\ socket' \in {"accepted", "checking", "connecting"}
      /\ socket' = "accepted" => cookie = process
      /\ wire' \in {<<Snapshot>>, <<>>, wire}
      /\ socket' # "accepted" => wire' = <<>> \/ (wire' = wire /\ ~Listening)
  BY DEF SocketStep, Accept, Reject, Drop, Reconnect, Closed, Listening
<1> USE <1>1 DEF daemonVars, requestVars
<1>2. DaemonInv'
  BY DEF WebInv, LinkInv, DaemonInv
<1>3. SocketInv'
  BY DEF WebInv, LinkInv, SocketInv, Listening
<1>4. WireInv'
  <2>1. CASE wire' = <<Snapshot>>
    <3>1. Snapshot \in WireEvents /\ ~IsSaid(Snapshot) /\ ~IsUpdate(Snapshot)
      BY DEF Snapshot, WireEvents, IsSaid, IsUpdate
    <3>2. /\ <<Snapshot>> \in Seq(WireEvents) /\ Len(<<Snapshot>>) = 1
          /\ \A i \in 1..Len(<<Snapshot>>): <<Snapshot>>[i] = Snapshot
      BY <3>1
    <3> QED BY <2>1, <3>1, <3>2 DEF WireInv
  <2>2. CASE wire' = <<>>
    BY <2>2 DEF WireInv
  <2>3. CASE wire' = wire
    BY <2>3 DEF WebInv, LinkInv, WireInv
  <2> QED BY <2>1, <2>2, <2>3
<1>5. SoundFlight(flight)'
  BY SoundFrame DEF WebInv, LinkInv
<1>6. LinkInv'
  BY <1>2, <1>3, <1>4, <1>5 DEF LinkInv
<1> QED BY <1>6, OfflineKeeps

(* A prefix of the chat is one, and so is one with a notice.               *)
LEMMA CutIs ==
  ASSUME DaemonInv, NEW k \in 0..Len(log)
  PROVE  SubSeq(log, 1, k) \in Logs /\ Len(SubSeq(log, 1, k)) = k /\ k <= changes
<1> DEFINE u == SubSeq(log, 1, k)
<1>1. log \in Seq(ChangeIds) /\ Len(log) \in 0..MaxChanges /\ Len(log) <= changes
      /\ changes \in Nat /\ MaxChanges \in Nat
  BY LogFacts, Bounds DEF DaemonInv
<1>2. \A i \in 1..k: log[i] \in ChangeIds
  BY <1>1, ElementOfSeq
<1>3. 1 \in Int /\ k \in Int
  BY <1>1
<1>4. u \in Seq(ChangeIds) /\ Len(u) = IF 1 <= k THEN k - 1 + 1 ELSE 0
  BY <1>2, <1>3, SubSeqProperties
<1> HIDE DEF u
<1>5. Len(u) = k /\ k <= changes /\ k \in 0..MaxChanges
  BY <1>1, <1>4
<1>6. u \in Logs
  BY <1>4, <1>5, LogFacts
<1> QED BY <1>5, <1>6 DEF u

(* A chat with one more change.                                            *)
LEMMA OneMore ==
  ASSUME DaemonInv, Change, NEW s \in Logs, Len(s) <= changes
  PROVE  /\ Append(s, changes') \in Logs /\ Len(Append(s, changes')) = Len(s) + 1
         /\ changes' \in 1..MaxChanges /\ Len(s) + 1 <= changes'
         /\ Append(s, changes')[Len(s) + 1] = changes'
         /\ \A i \in 1..Len(s): Append(s, changes')[i] = s[i]
<1> DEFINE c == changes'
<1>1. /\ s \in Seq(ChangeIds) /\ Len(s) \in Nat /\ c \in ChangeIds /\ c = changes + 1
      /\ MaxChanges \in Nat /\ changes \in Nat /\ Len(s) + 1 <= c /\ ChangeIds = 1..MaxChanges
  BY LogFacts, Bounds DEF DaemonInv, Change
<1> HIDE DEF c
<1>2. /\ Append(s, c) \in Seq(ChangeIds) /\ Len(Append(s, c)) = Len(s) + 1
      /\ Append(s, c)[Len(s) + 1] = c /\ \A i \in 1..Len(s): Append(s, c)[i] = s[i]
  BY <1>1, AppendProperties
<1>3. Len(Append(s, c)) \in 0..MaxChanges
  BY <1>1, <1>2
<1>4. Append(s, c) \in Logs
  BY <1>2, <1>3, LogFacts
<1> QED BY <1>1, <1>2, <1>4 DEF c

LEMMA RestartKeeps ==
  ASSUME WebInv, Restart, UNCHANGED <<viewVars, gate, list>>
  PROVE  WebInv'
<1>1. /\ DaemonInv /\ cookie \in 0..process /\ process \in Nat /\ drops \in Nat /\ fails \in Nat
      /\ MaxTroubles \in Nat
  BY Bounds DEF WebInv, LinkInv, DaemonInv
<1>2. /\ drops + fails + process < MaxTroubles /\ process' = process + 1
      /\ socket' = (IF Listening THEN "checking" ELSE socket) /\ wire' = <<>>
      /\ flight' = Lost /\ UNCHANGED <<review, cookie, drops, fails>>
  BY DEF Restart, Trouble
<1>3. process' \in 0..MaxTroubles /\ cookie' \in 0..process' /\ cookie' # process'
  BY <1>1, <1>2
<1>4. log' \in Logs /\ Len(log') <= changes' /\ changes' \in 0..MaxChanges /\ review.rev <= changes'
  <2>1. PICK k \in 0..Len(log):
           \/ log' = SubSeq(log, 1, k) /\ UNCHANGED changes
           \/ Change /\ log' = Append(SubSeq(log, 1, k), changes')
    BY DEF Restart
  <2> DEFINE s == SubSeq(log, 1, k)
  <2>2. s \in Logs /\ Len(s) <= changes
    BY <1>1, CutIs
  <2>3. /\ changes \in 0..MaxChanges /\ review.rev <= changes /\ review.rev \in Nat
        /\ MaxChanges \in Nat
    BY <1>1, Bounds DEF DaemonInv, Reviews
  <2> HIDE DEF s
  <2>4. CASE log' = s /\ UNCHANGED changes
    BY <2>2, <2>3, <2>4
  <2>5. CASE Change /\ log' = Append(s, changes')
    <3>1. /\ Append(s, changes') \in Logs /\ Len(Append(s, changes')) = Len(s) + 1
          /\ changes' \in 1..MaxChanges /\ Len(s) + 1 <= changes'
      BY <1>1, <2>2, <2>5, OneMore
    <3>2. changes' = changes + 1
      BY <2>5 DEF Change
    <3> QED BY <2>3, <2>5, <3>1, <3>2
  <2> QED BY <2>1, <2>4, <2>5 DEF s
<1>5. DaemonInv'
  BY <1>1, <1>2, <1>3, <1>4 DEF DaemonInv
<1>6. SocketInv' /\ WireInv'
  BY <1>2 DEF WebInv, LinkInv, SocketInv, WireInv, Listening
<1>7. \A k \in Kinds:
        /\ flight[k] = Idle => flight'[k] = Idle
        /\ flight[k] # Idle => flight'[k] = [at |-> "refused", rev |-> flight[k].rev, data |-> None]
  BY <1>2 DEF Lost
<1>8. \A k \in Kinds: /\ flight'[k] = Idle <=> flight[k] = Idle
                      /\ flight'[k].rev = flight[k].rev /\ flight'[k].at # "answered"
  <2> TAKE k \in Kinds
  <2>1. Idle.at = "idle"
    BY DEF Idle
  <2>2. CASE flight[k] = Idle
    BY <1>7, <2>1, <2>2
  <2>3. CASE flight[k] # Idle
    <3>1. flight'[k].at = "refused" /\ flight'[k].rev = flight[k].rev
      <4>1. flight'[k] = [at |-> "refused", rev |-> flight[k].rev, data |-> None]
        BY <1>7, <2>3
      <4> QED BY <4>1
    <3> QED BY <2>1, <2>3, <3>1
  <2> QED BY <2>2, <2>3
<1>9. SoundFlight(flight)'
  <2>1. ASSUME NEW k \in Kinds
        PROVE  SoundRequest(k, flight[k])'
    <3>1. SoundRequest(k, flight[k])
      BY DEF WebInv, LinkInv, SoundFlight
    <3>2. CASE flight[k] = Idle
      <4>1. SoundRequest(k, Idle)'
        BY DEF SoundRequest, Requests, Idle
      <4> QED BY <1>7, <3>2, <4>1
    <3>3. CASE flight[k] # Idle
      <4>1. flight'[k] = [at |-> "refused", rev |-> flight[k].rev, data |-> None]
        BY <1>7, <3>3
      <4>2. flight[k].rev \in 0..MaxChanges /\ (k = "diff" => flight[k].rev <= review.rev)
        BY <3>1, <3>3 DEF SoundRequest, Requests
      <4>3. flight'[k].at = "refused" /\ flight'[k].rev = flight[k].rev
            /\ flight'[k] \in [at: {"refused", "denied"}, rev: 0..MaxChanges, data: {None}]
        BY <4>1, <4>2
      <4>4. (flight[k] \in Requests(k))'
        BY <4>3 DEF Requests
      <4> QED BY <1>2, <1>3, <4>2, <4>3, <4>4 DEF SoundRequest
    <3> QED BY <3>2, <3>3
  <2>2. IsFlight(flight')
    BY <1>2 DEF Lost, IsFlight
  <2> QED BY <2>1, <2>2 DEF SoundFlight, IsFlight
<1>10. LinkInv'
  BY <1>5, <1>6, <1>9 DEF LinkInv
<1>11. socket' # "open"
  BY <1>2 DEF Listening
<1>12. flight'["session"].at # "answered"
  BY <1>8, OtherKinds
<1> QED BY <1>2, <1>3, <1>8, <1>10, <1>11, <1>12, OfflineKeeps

(***************************************************************************)
(* Changes.                                                                *)
(***************************************************************************)
(* Something is said, or the review is replaced by one of its own or of    *)
(* the next revision.                                                      *)
Spoke ==
  /\ review' = review /\ log' = Append(log, changes')
  /\ Publish(ChatEvent(Len(log) + 1, changes'))
Moved ==
  /\ review' \in Reviews /\ Publish(Updated(review'))
  /\ \/ log' = log /\ review'.rev = review.rev
     \/ log' = Append(log, changes') /\ review'.rev = review.rev + 1

LEMMA ChangeIs ==
  ASSUME DaemonInv, Change, Speak \/ EditDrafts \/ Refresh \/ Submit \/ Reconcile
  PROVE  (Spoke \/ Moved) /\ (Speak \/ EditDrafts => review' = review)
<1>1. /\ review \in Reviews /\ review.rev \in Nat /\ review.rev <= changes /\ changes \in Nat
      /\ changes < MaxChanges /\ MaxChanges \in Nat
  BY Bounds DEF DaemonInv, Change, Reviews
<1>2. CASE Speak
  BY <1>2 DEF Speak, Spoke
<1>3. CASE EditDrafts
  BY <1>1, <1>3 DEF EditDrafts, Replace, Moved
<1>4. CASE Refresh
  <2> DEFINE r == [rev |-> review.rev + 1, status |-> "draft"]
  <2>1. review.rev + 1 \in 0..MaxChanges
    BY <1>1
  <2>2. r \in Reviews /\ r.rev = review.rev + 1
    BY <2>1 DEF Reviews
  <2>3. review' = r /\ Publish(Updated(review')) /\ log' = Append(log, changes')
    BY <1>4 DEF Refresh, Replace
  <2> HIDE DEF r
  <2>4. Moved
    BY <2>2, <2>3 DEF Moved
  <2>5. review' # review
    BY <1>1, <2>2, <2>3
  <2> QED BY <2>4, <2>5 DEF Speak, EditDrafts, Replace
<1>5. CASE Submit \/ Reconcile
  <2>1. PICK status \in {"draft", "submitted"}: SetStatus(status) /\ status # review.status
    BY <1>5 DEF Submit, Reconcile
  <2> DEFINE r == [review EXCEPT !.status = status]
  <2>2. r \in Reviews /\ r.rev = review.rev /\ r.status = status
    BY <1>1 DEF Reviews
  <2>3. review' = r /\ Publish(Updated(review')) /\ log' = log
    BY <2>1 DEF SetStatus, Replace
  <2> HIDE DEF r
  <2>4. Moved
    BY <2>2, <2>3 DEF Moved
  <2>5. review' # review
    BY <2>1, <2>2, <2>3
  <2> QED BY <2>4, <2>5 DEF Speak, EditDrafts, Replace
<1> QED BY <1>2, <1>3, <1>4, <1>5

(* The chat only grows, and so does the revision.                          *)
LEMMA GrowthIs ==
  ASSUME DaemonInv, Change, Spoke \/ Moved, UNCHANGED <<process, cookie, drops, fails>>
  PROVE  /\ DaemonInv' /\ review.rev <= review'.rev
         /\ \A s \in Logs: IsPrefix(s, log) => IsPrefix(s, log')
         /\ Len(log) <= Len(log') /\ \A i \in 1..Len(log): log'[i] = log[i]
         /\ log' = Append(log, changes') =>
              Len(log') = Len(log) + 1 /\ log'[Len(log) + 1] = changes' /\ changes' \in 1..MaxChanges
<1>1. /\ log \in Logs /\ Len(log) \in Nat /\ Len(log) <= changes /\ changes \in Nat
      /\ review.rev \in Nat /\ review.rev <= changes /\ changes < MaxChanges /\ MaxChanges \in Nat
      /\ changes' = changes + 1
  BY LogFacts, Bounds DEF DaemonInv, Change, Reviews
<1>2. changes' \in ChangeIds /\ changes' \in 0..MaxChanges
  BY <1>1, Bounds
<1>3. review' \in Reviews /\ review.rev <= review'.rev /\ review'.rev <= changes'
  BY <1>1 DEF Spoke, Moved, DaemonInv, Reviews
<1>4. CASE log' = log
  <2>1. log' # Append(log, changes')
    <3>1. Len(Append(log, changes')) = Len(log) + 1
      BY <1>1, OneMore
    <3> QED BY <1>1, <1>4, <3>1
  <2> QED BY <1>1, <1>2, <1>3, <1>4, <2>1 DEF DaemonInv
<1>5. CASE log' = Append(log, changes')
  <2>1. /\ Append(log, changes') \in Logs /\ Len(Append(log, changes')) = Len(log) + 1
        /\ changes' \in 1..MaxChanges /\ Len(log) + 1 <= changes'
        /\ Append(log, changes')[Len(log) + 1] = changes'
        /\ \A i \in 1..Len(log): Append(log, changes')[i] = log[i]
    BY <1>1, OneMore
  <2>2. \A s \in Logs: IsPrefix(s, log) => IsPrefix(s, log')
    <3> DEFINE c == changes'
    <3>1. c \in ChangeIds /\ log' = Append(log, c)
      BY <1>2, <1>5
    <3> HIDE DEF c
    <3> QED BY <1>1, <3>1, PrefixFacts
  <2>3. /\ log' \in Logs /\ Len(log') = Len(log) + 1 /\ Len(log') <= changes'
        /\ log'[Len(log) + 1] = changes' /\ \A i \in 1..Len(log): log'[i] = log[i]
    BY <1>5, <2>1
  <2>4. DaemonInv'
    BY <1>2, <1>3, <2>3 DEF DaemonInv
  <2> QED BY <1>1, <1>3, <2>1, <2>2, <2>3, <2>4
<1> QED BY <1>4, <1>5 DEF Spoke, Moved

(* What is published is behind everything else.                            *)
LEMMA PublishIs ==
  ASSUME LinkInv, NEW event \in WireEvents, Publish(event)
  PROVE  /\ wire' \in Seq(WireEvents) /\ Len(wire) \in Nat
         /\ ~Listening => wire' = <<>>
         /\ Listening =>
              /\ Len(wire') = Len(wire) + 1 /\ wire'[Len(wire) + 1] = event
              /\ \A i \in 1..Len(wire): wire'[i] = wire[i]
<1>1. wire \in Seq(WireEvents) /\ Len(wire) \in Nat /\ (~Listening => wire = <<>>)
  BY DEF LinkInv, WireInv, SocketInv
<1> DEFINE more == Append(wire, event)
<1>2. /\ more \in Seq(WireEvents) /\ Len(more) = Len(wire) + 1 /\ more[Len(wire) + 1] = event
      /\ \A i \in 1..Len(wire): more[i] = wire[i]
  BY <1>1, AppendProperties
<1>3. wire' = IF Listening THEN more ELSE wire
  BY DEF Publish
<1> HIDE DEF more
<1> QED BY <1>1, <1>2, <1>3

LEMMA ChangeOnWire ==
  ASSUME LinkInv, Change, Spoke \/ Moved, UNCHANGED <<process, cookie, drops, fails, socket>>
  PROVE  /\ WireInv'
         /\ ~Listening => wire' = <<>>
         /\ Listening => /\ Len(wire') = Len(wire) + 1
                         /\ \A i \in 1..Len(wire): wire'[i] = wire[i]
                         /\ Spoke => /\ IsSaid(wire'[Len(wire) + 1])
                                     /\ wire'[Len(wire) + 1].rev = Len(log) + 1
                         /\ Moved => IsUpdate(wire'[Len(wire) + 1])
         /\ Len(wire) \in Nat
<1>1. DaemonInv /\ WireInv /\ Len(log) \in Nat
  BY LogFacts, Bounds DEF LinkInv, DaemonInv
<1>2. /\ DaemonInv' /\ Len(log) <= Len(log') /\ \A i \in 1..Len(log): log'[i] = log[i]
      /\ log' = Append(log, changes') =>
           Len(log') = Len(log) + 1 /\ log'[Len(log) + 1] = changes' /\ changes' \in 1..MaxChanges
  BY <1>1, GrowthIs
<1>3. Len(log') \in Nat /\ Len(log') <= MaxChanges /\ MaxChanges \in Nat
  BY <1>2, LogFacts, Bounds DEF DaemonInv
<1>4. CASE Spoke
  <2> DEFINE rev == Len(log) + 1  change == changes'  event == ChatEvent(rev, change)
  <2>1. rev \in 1..MaxChanges /\ change \in 1..MaxChanges /\ rev \in 1..Len(log') /\ log'[rev] = change
    BY <1>1, <1>2, <1>3, <1>4, Bounds DEF Spoke
  <2>2. event \in WireEvents /\ event.rev = rev /\ event.change = change /\ event.type = "chat.event"
    BY <2>1, Bounds DEF ChatEvent, WireEvents
  <2>3. IsSaid(event) /\ ~IsUpdate(event)
    BY <2>2 DEF IsSaid, IsUpdate
  <2>4. Publish(event)
    BY <1>4 DEF Spoke
  <2> HIDE DEF event, change, rev
  <2>5. /\ wire' \in Seq(WireEvents) /\ Len(wire) \in Nat
        /\ ~Listening => wire' = <<>>
        /\ Listening =>
             /\ Len(wire') = Len(wire) + 1 /\ wire'[Len(wire) + 1] = event
             /\ \A i \in 1..Len(wire): wire'[i] = wire[i]
    BY <2>2, <2>4, PublishIs
  <2>6. WireInv'
    <3>1. CASE ~Listening
      BY <2>5, <3>1 DEF WireInv
    <3>2. CASE Listening
      <4>1. ASSUME NEW i \in 1..Len(wire'), IsSaid(wire'[i])
            PROVE  wire'[i].rev \in 1..Len(log') /\ log'[wire'[i].rev] = wire'[i].change
        <5>1. CASE i = Len(wire) + 1
          BY <2>1, <2>2, <2>5, <3>2, <5>1
        <5>2. CASE i \in 1..Len(wire)
          <6>1. IsSaid(wire[i]) /\ wire'[i] = wire[i]
            BY <2>5, <3>2, <4>1, <5>2
          <6>2. wire[i].rev \in 1..Len(log) /\ log[wire[i].rev] = wire[i].change
            BY <1>1, <5>2, <6>1 DEF WireInv
          <6> QED BY <1>1, <1>2, <1>3, <6>1, <6>2
        <5> QED BY <2>5, <3>2, <4>1, <5>1, <5>2
      <4>2. ASSUME NEW i \in 1..Len(wire'), IsUpdate(wire'[i]),
                   \A j \in 1..Len(wire'): IsUpdate(wire'[j]) => j <= i
            PROVE  wire'[i].review = review'
        <5>1. i \in 1..Len(wire)
          BY <2>3, <2>5, <3>2, <4>2
        <5>2. IsUpdate(wire[i]) /\ \A j \in 1..Len(wire): IsUpdate(wire[j]) => j <= i
          BY <2>5, <3>2, <4>2, <5>1
        <5>3. wire[i].review = review
          BY <1>1, <5>1, <5>2 DEF WireInv
        <5> QED BY <1>4, <2>5, <3>2, <5>1, <5>3 DEF Spoke
      <4> QED BY <2>5, <4>1, <4>2 DEF WireInv, IsSaid, IsUpdate
    <3> QED BY <3>1, <3>2
  <2>7. ~Moved \/ ~Listening
    <3> SUFFICES ASSUME Moved, Listening PROVE FALSE
      OBVIOUS
    <3>1. Updated(review').type = "session.updated" /\ Updated(review') \in WireEvents
      BY DEF Moved, Updated, WireEvents
    <3> DEFINE other == Updated(review')
    <3>2. Publish(other)
      BY DEF Moved
    <3> HIDE DEF other
    <3>3. wire'[Len(wire) + 1] = other
      BY <3>1, <3>2, PublishIs DEF other
    <3> QED BY <2>2, <2>5, <3>1, <3>3 DEF other
  <2> QED BY <1>4, <2>2, <2>3, <2>5, <2>6, <2>7 DEF rev
<1>5. CASE Moved
  <2> DEFINE event == Updated(review')
  <2>2. event \in WireEvents /\ event.review = review' /\ event.type = "session.updated"
    BY <1>5 DEF Moved, Updated, WireEvents
  <2>3. IsUpdate(event) /\ ~IsSaid(event)
    BY <2>2 DEF IsSaid, IsUpdate
  <2>4. Publish(event)
    BY <1>5 DEF Moved
  <2> HIDE DEF event
  <2>5. /\ wire' \in Seq(WireEvents) /\ Len(wire) \in Nat
        /\ ~Listening => wire' = <<>>
        /\ Listening =>
             /\ Len(wire') = Len(wire) + 1 /\ wire'[Len(wire) + 1] = event
             /\ \A i \in 1..Len(wire): wire'[i] = wire[i]
    BY <2>2, <2>4, PublishIs
  <2>6. WireInv'
    <3>1. CASE ~Listening
      BY <2>5, <3>1 DEF WireInv
    <3>2. CASE Listening
      <4>1. ASSUME NEW i \in 1..Len(wire'), IsSaid(wire'[i])
            PROVE  wire'[i].rev \in 1..Len(log') /\ log'[wire'[i].rev] = wire'[i].change
        <5>1. i \in 1..Len(wire)
          BY <2>3, <2>5, <3>2, <4>1
        <5>2. IsSaid(wire[i]) /\ wire'[i] = wire[i]
          BY <2>5, <3>2, <4>1, <5>1
        <5>3. wire[i].rev \in 1..Len(log) /\ log[wire[i].rev] = wire[i].change
          BY <1>1, <5>1, <5>2 DEF WireInv
        <5> QED BY <1>1, <1>2, <1>3, <5>2, <5>3
      <4>2. ASSUME NEW i \in 1..Len(wire'), IsUpdate(wire'[i]),
                   \A j \in 1..Len(wire'): IsUpdate(wire'[j]) => j <= i
            PROVE  wire'[i].review = review'
        <5>1. Len(wire) + 1 \in 1..Len(wire')
          BY <2>5, <3>2
        <5>2. Len(wire) + 1 <= i
          BY <2>3, <2>5, <3>2, <4>2, <5>1
        <5>3. i = Len(wire) + 1
          BY <2>5, <3>2, <5>2
        <5> QED BY <2>2, <2>5, <3>2, <5>3
      <4> QED BY <2>5, <4>1, <4>2 DEF WireInv, IsSaid, IsUpdate
    <3> QED BY <3>1, <3>2
  <2>7. ~Spoke \/ ~Listening
    <3> SUFFICES ASSUME Spoke, Listening PROVE FALSE
      OBVIOUS
    <3> DEFINE other == ChatEvent(Len(log) + 1, changes')
    <3>1. other.type = "chat.event" /\ other \in WireEvents
      <4>1. Len(log) + 1 \in 1..MaxChanges /\ changes' \in ChangeIds
        BY <1>1, <1>2, <1>3, Bounds DEF Spoke
      <4> QED BY <4>1 DEF ChatEvent, WireEvents
    <3>2. Publish(other)
      BY DEF Spoke
    <3> HIDE DEF other
    <3>3. wire'[Len(wire) + 1] = other
      BY <3>1, <3>2, PublishIs
    <3> QED BY <2>2, <2>5, <3>1, <3>3
  <2> QED BY <1>5, <2>3, <2>5, <2>6, <2>7
<1> QED BY <1>4, <1>5

(* A request that is out is as sound after a change as it was before.      *)
LEMMA RequestGrows ==
  ASSUME WebInv, Change, Spoke \/ Moved, UNCHANGED <<process, cookie, drops, fails>>,
         NEW kind \in Kinds, flight'[kind] = flight[kind],
         kind = "update" => flight["update"] = Idle \/ review' = review
  PROVE  SoundRequest(kind, flight[kind])'
<1> DEFINE r == flight[kind]
<1>1. DaemonInv /\ SoundRequest(kind, r)
  BY DEF WebInv, LinkInv, SoundFlight
<1>2. /\ DaemonInv' /\ review.rev <= review'.rev
      /\ \A s \in Logs: IsPrefix(s, log) => IsPrefix(s, log')
  BY <1>1, GrowthIs
<1>3. review.rev \in Nat /\ review'.rev \in Nat
  BY <1>1, <1>2, Bounds DEF DaemonInv, Reviews
<1>4. /\ r \in Requests(kind) /\ (r = Idle \/ r.rev \in Nat)
      /\ r.at = "answered" => r.data \in Holds(kind)
  BY <1>1, Bounds DEF SoundRequest, Requests, Idle
<1>5. r.at = "answered" => SoundAnswer(kind, r)
  BY <1>1 DEF SoundRequest
<1>6. r.at = "answered" => SoundAnswer(kind, flight[kind])'
  <2> SUFFICES ASSUME r.at = "answered" PROVE SoundAnswer(kind, flight[kind])'
    OBVIOUS
  <2>1. cookie' = process' /\ r' = r
    BY <1>5 DEF SoundAnswer
  <2>2. kind \in Talks => IsPrefix(r.data, log')
    BY <1>2, <1>4, <1>5 DEF SoundAnswer, Holds
  <2>3. kind = "session" => r.data.rev <= review'.rev
    <3>1. kind = "session" => r.data.rev \in Nat /\ r.data.rev <= review.rev
      BY <1>4, <1>5, Bounds DEF SoundAnswer, Holds, Talks, Reviews
    <3> QED BY <1>2, <1>3, <3>1
  <2>4. kind = "update" => r.data = review'
    BY <1>5 DEF SoundAnswer, Idle
  <2>5. /\ kind \in {"drafts", "drafts again", "diff"} => r.data.rev = r.rev
        /\ kind = "diff" => r.data.status = "draft"
    BY <1>5 DEF SoundAnswer
  <2> HIDE DEF r
  <2>6. flight'[kind] = r
    BY DEF r
  <2> QED BY <2>1, <2>2, <2>3, <2>4, <2>5, <2>6 DEF SoundAnswer
<1>7. kind = "diff" /\ r # Idle => r.rev <= review'.rev /\ (r.rev < review.rev => r.rev < review'.rev)
  <2>1. kind = "diff" /\ r # Idle => r.rev <= review.rev
    BY <1>1 DEF SoundRequest
  <2> HIDE DEF r
  <2> QED BY <1>2, <1>3, <1>4, <2>1
<1>8. /\ cookie = process => r.at # "denied" /\ (kind \in {"session", "list"} => r.at # "refused")
      /\ kind = "diff" /\ r.at = "refused" /\ cookie = process => r # Idle /\ r.rev < review.rev
  BY <1>1 DEF SoundRequest, Idle
<1>9. (flight[kind] \in Requests(kind))'
  BY <1>4 DEF Requests, Holds
<1>10. flight'[kind] = r /\ cookie' = cookie /\ process' = process
  OBVIOUS
<1> HIDE DEF r
<1> QED BY <1>6, <1>7, <1>8, <1>9, <1>10 DEF SoundRequest

(* What is true of the page while the daemon changes.                      *)
LEMMA ChangeKeeps ==
  ASSUME WebInv, Change, Spoke \/ Moved,
         UNCHANGED <<process, cookie, socket, drops, fails, viewVars, gate, list>>,
         SoundFlight(flight)', \A k \in Reads: flight'[k] = flight[k],
         flight' = flight \/ (route = "review" /\ gate = "ready"),
         Workspace(page) \/ UNCHANGED <<flight["edit"], flight["say"]>>
  PROVE  WebInv'
<1> USE DEF viewVars
<1>1. LinkInv /\ DaemonInv
  BY DEF WebInv, LinkInv
<1>2. /\ DaemonInv' /\ review.rev <= review'.rev
      /\ \A s \in Logs: IsPrefix(s, log) => IsPrefix(s, log')
  BY <1>1, GrowthIs
<1>3. /\ WireInv' /\ (~Listening => wire' = <<>>) /\ Len(wire) \in Nat
      /\ Listening => /\ Len(wire') = Len(wire) + 1
                      /\ \A i \in 1..Len(wire): wire'[i] = wire[i]
                      /\ Spoke => /\ IsSaid(wire'[Len(wire) + 1])
                                  /\ wire'[Len(wire) + 1].rev = Len(log) + 1
                      /\ Moved => IsUpdate(wire'[Len(wire) + 1])
  BY <1>1, ChangeOnWire
<1>4. SocketInv'
  BY <1>1, <1>3 DEF LinkInv, SocketInv, Listening
<1>5. LinkInv'
  BY <1>2, <1>3, <1>4 DEF LinkInv
<1>6. {"session", "diff", "list", "chat", "chat again"} \cup Hooks \subseteq Reads
      /\ Hooks \cup {"edit", "say"} \subseteq Reads \cup {"edit", "say"}
  BY DEF Reads, Hooks
<1>7. review.rev \in Nat /\ review'.rev \in Nat
  BY <1>1, <1>2, Bounds DEF DaemonInv, Reviews
<1>8. ScreenInv'
  BY <1>6 DEF WebInv, ScreenInv, Idling
<1>9. WorkspaceInv'
  <2>1. chat.log \in Logs \cup {None}
    BY DEF WebInv, WorkspaceInv
  <2>2. cookie' = process' /\ chat'.log # None => IsPrefix(chat'.log, log')
    BY <1>2, <2>1 DEF WebInv, WorkspaceInv
  <2>3. ~Workspace(page) => \A k \in Hooks \cup {"edit", "say"}: flight'[k] = Idle
    BY <1>6 DEF WebInv, WorkspaceInv, Idling
  <2> QED BY <2>2, <2>3 DEF WebInv, WorkspaceInv, Idling, Workspace
<1>10. OrderInv'
  <2>1. page.at = "ready" => page.s.rev \in Nat /\ page.s.rev <= review.rev
    BY Bounds DEF WebInv, OrderInv, ScreenInv, Reviews
  <2>2. pinned # None => pinned.rev \in Nat /\ pinned.rev <= review.rev
    BY Bounds DEF WebInv, OrderInv, ScreenInv, Reviews
  <2>3. /\ page.at = "ready" => page.s.rev <= review'.rev
        /\ pinned # None => pinned.rev <= review'.rev
    BY <1>2, <1>7, <2>1, <2>2
  <2> QED BY <1>6, <2>3 DEF WebInv, OrderInv, Idling
<1>11. LoadingWaits'
  BY <1>6 DEF WebInv, LoadingWaits, Idling
<1>12. Fresh' => Fresh /\ review' = review
  <2> SUFFICES ASSUME Fresh' PROVE Fresh /\ review' = review
    OBVIOUS
  <2>1. socket = "open" /\ Listening /\ \A i \in 1..Len(wire'): ~IsUpdate(wire'[i])
    BY DEF Fresh, NoneUpdated, Listening, IsUpdate
  <2>2. ~Moved
    <3>1. Len(wire) + 1 \in 1..Len(wire')
      BY <1>3, <2>1
    <3> QED BY <1>3, <2>1, <3>1
  <2>3. \A i \in 1..Len(wire): ~IsUpdate(wire[i])
    BY <1>3, <2>1
  <2> QED BY <2>1, <2>2, <2>3 DEF Fresh, NoneUpdated, Spoke
<1>13. ListInv'
  BY <1>6, <1>12 DEF WebInv, ListInv, Idling
<1>14. PageInv'
  BY <1>6, <1>12 DEF WebInv, PageInv, Idling
<1>15. FollowInv'
  <2> SUFFICES ASSUME socket = "open", fails = 0, Workspace(page), page.s.rev = review'.rev
               PROVE  \/ ReplicaFollows'
                      \/ AnswerFollows("chat")'
                      \/ AnswerFollows("chat again")' /\ flight'["chat again"].rev = page.s.rev
    BY DEF FollowInv, Workspace
  <2>1. page.s.rev <= review.rev
    BY DEF WebInv, OrderInv, Workspace
  <2>2. page.s.rev = review.rev
    BY <1>2, <1>7, <2>1
  <2>3. Spoke \/ log' = log
    BY <1>7, <2>2 DEF Moved
  <2>4. Listening
    BY DEF Listening
  <2>5. \A j: Told(j) => Told(j)'
    <3> SUFFICES ASSUME NEW j, NEW i \in 1..Len(wire), IsSaid(wire[i]), wire[i].rev = j
                 PROVE  \E h \in 1..Len(wire'): IsSaid(wire'[h]) /\ wire'[h].rev = j
      BY DEF Told, IsSaid
    <3>1. i \in 1..Len(wire') /\ wire'[i] = wire[i]
      BY <1>3, <2>4
    <3> QED BY <3>1
  <2>6. Spoke => Len(log') = Len(log) + 1 /\ \A j: j = Len(log) + 1 => Told(j)'
    <3>1. Spoke => Len(log') = Len(log) + 1
      BY <1>1, GrowthIs DEF Spoke
    <3>2. Len(wire) + 1 \in 1..Len(wire')
      BY <1>3, <2>4
    <3> DEFINE new == Len(wire) + 1
    <3>3. Spoke => IsSaid(wire'[new]) /\ wire'[new].rev = Len(log) + 1
      BY <1>3, <2>4
    <3> HIDE DEF new
    <3> QED BY <3>1, <3>2, <3>3 DEF Told, IsSaid, new
  <2>7. Len(log) \in Nat /\ Len(log') \in Nat
    BY <1>1, <1>2, LogFacts, Bounds DEF DaemonInv
  <2>8. \A n \in Nat: Follows(n) => Follows(n)'
    <3> SUFFICES ASSUME NEW n \in Nat, Follows(n), NEW j \in 1..Len(log'), j > n
                 PROVE  Told(j)'
      BY DEF Follows
    <3>1. CASE j \in 1..Len(log)
      BY <2>5, <3>1 DEF Follows
    <3>2. CASE j \notin 1..Len(log)
      <4>1. Spoke /\ j = Len(log) + 1
        BY <2>3, <2>6, <2>7, <3>2
      <4> QED BY <2>6, <4>1
    <3> QED BY <3>1, <3>2
  <2>9. \A s \in Logs: Len(s) \in Nat
    BY LogFacts, Bounds
  <2>10. chat.log \in Logs \cup {None}
    BY DEF WebInv, WorkspaceInv
  <2>11. \A k \in {"chat", "chat again"}: flight[k].at = "answered" => flight[k].data \in Logs
    <3>1. {"chat", "chat again"} \subseteq Kinds
      BY DEF Kinds, Reads
    <3> QED BY <3>1, ArrivedIs DEF Holds, Talks
  <2>12. \/ ReplicaFollows
         \/ AnswerFollows("chat")
         \/ AnswerFollows("chat again") /\ flight["chat again"].rev = page.s.rev
    BY <2>2 DEF WebInv, FollowInv
  <2>13. ReplicaFollows => ReplicaFollows'
    BY <2>8, <2>9, <2>10 DEF ReplicaFollows
  <2>14. \A k \in {"chat", "chat again"}: AnswerFollows(k) => AnswerFollows(k)'
    BY <1>6, <2>8, <2>9, <2>11 DEF AnswerFollows
  <2>15. flight'["chat again"] = flight["chat again"]
    BY <1>6
  <2> QED BY <2>12, <2>13, <2>14, <2>15
<1> QED BY <1>5, <1>8, <1>9, <1>10, <1>11, <1>13, <1>14, <1>15 DEF WebInv

LEMMA OthersWorkKeeps ==
  ASSUME WebInv, OthersWork, UNCHANGED <<viewVars, gate, list>>
  PROVE  WebInv'
<1>1. /\ Change /\ UNCHANGED <<process, cookie, socket, drops, flight, fails>>
      /\ Speak \/ EditDrafts \/ Refresh \/ Submit \/ Reconcile
      /\ Speak \/ EditDrafts \/ flight["update"] = Idle
  BY DEF OthersWork, requestVars
<1>2. /\ Spoke \/ Moved
      /\ flight["update"] = Idle \/ review' = review
  BY <1>1, ChangeIs DEF WebInv, LinkInv
<1>3. \A kind \in Kinds: SoundRequest(kind, flight[kind])'
  <2> SUFFICES ASSUME NEW kind \in Kinds PROVE SoundRequest(kind, flight[kind])'
    OBVIOUS
  <2>1. flight'[kind] = flight[kind]
    BY <1>1
  <2> QED BY <1>1, <1>2, <2>1, RequestGrows
<1>4. IsFlight(flight')
  BY <1>1 DEF WebInv, LinkInv, SoundFlight, IsFlight
<1>5. SoundFlight(flight)'
  BY <1>3, <1>4 DEF SoundFlight, IsFlight
<1> QED BY <1>1, <1>2, <1>5, ChangeKeeps

LEMMA CommandKeeps ==
  ASSUME WebInv, NEW kind \in Kinds, Command(kind), UNCHANGED <<gate, list>>
  PROVE  WebInv'
<1> DEFINE rev == page.s.rev
<1>1. /\ kind \in Commands /\ Idling(Kinds) /\ (Workspace(page) \/ kind = "update")
      /\ page.at = "ready"
      /\ flight' = Answer(flight, kind, rev, review')
      /\ UNCHANGED <<process, cookie, socket, drops, fails, viewVars>>
  BY DEF Command, Workspace
<1>2. gate = "ready" /\ route = "review" /\ rev \in 0..MaxChanges
  <2>1. page # Blank
    BY <1>1 DEF Blank
  <2>2. page.s \in Reviews
    BY <1>1 DEF WebInv, ScreenInv
  <2> QED BY <2>1, <2>2 DEF WebInv, LinkInv, SocketInv, ScreenInv, Reviews
<1>3. /\ DaemonInv /\ SoundFlight(flight) /\ IsFlight(flight)
      /\ kind \in {"edit", "say", "update"} /\ kind \notin Talks /\ kind \notin Reads
  BY <1>1 DEF WebInv, LinkInv, SoundFlight, IsFlight, Commands, Talks, Reads
<1> DEFINE r == Sent(kind, rev, review')
<1>4. flight' = [flight EXCEPT ![kind] = r]
  BY <1>1, AnswerIs
<1>5. /\ r.at = Outcome(kind, rev) /\ r.at \in {"denied", "answered", "refused"} /\ r.rev = rev
      /\ r.at = "answered" <=> cookie = process /\ Current(kind, rev)
      /\ r.at = "denied" <=> cookie # process
      /\ r.at = "answered" => r.data = review'
  BY SentIs
<1>6. review' \in Reviews => r \in Requests(kind)
  BY <1>2, <1>3, SentTyped DEF Holds
<1> HIDE DEF r, rev
<1>7. /\ IsFlight(flight') /\ flight'[kind] = r
      /\ \A k \in Kinds \ {kind}: flight'[k] = flight[k]
      /\ SoundFlight(flight) /\ SoundRequest(kind, r) => SoundFlight(flight')
  <2>1. /\ IsFlight([flight EXCEPT ![kind] = r]) /\ [flight EXCEPT ![kind] = r][kind] = r
        /\ \A k \in Kinds \ {kind}: [flight EXCEPT ![kind] = r][k] = flight[k]
        /\ SoundFlight(flight) /\ SoundRequest(kind, r) => SoundFlight([flight EXCEPT ![kind] = r])
    BY <1>3, PutIs
  <2> QED BY <1>4, <2>1
<1>8. /\ \A k \in Reads: flight'[k] = flight[k]
      /\ {"session", "diff", "list", "chat", "chat again"} \cup Hooks \subseteq Reads
      /\ Workspace(page) \/ UNCHANGED <<flight["edit"], flight["say"]>>
  BY <1>1, <1>3, <1>7 DEF Kinds, Reads, Commands, Hooks
<1>9. CASE Outcome(kind, rev) = "answered"
  <2>1. Change /\ Does(kind)
    BY <1>9 DEF Command, rev
  <2>2. Spoke \/ Moved
    <3>1. Speak \/ EditDrafts \/ Refresh \/ Submit \/ Reconcile
      BY <2>1 DEF Does
    <3> QED BY <1>3, <2>1, <3>1, ChangeIs
  <2>3. DaemonInv'
    BY <1>1, <1>3, <2>1, <2>2, GrowthIs
  <2>4. \A k \in Kinds: SoundRequest(k, flight[k])'
    <3>1. ASSUME NEW k \in Kinds \ {kind}
          PROVE  SoundRequest(k, flight[k])'
      <4>1. flight'[k] = Idle
        BY <1>1, <1>7 DEF Idling
      <4>2. SoundRequest(k, Idle)'
        BY DEF SoundRequest, Requests, Idle
      <4> QED BY <4>1, <4>2
    <3>2. SoundRequest(kind, flight[kind])'
      <4>1. r.at = "answered" /\ r.data = review' /\ cookie' = process' /\ review' \in Reviews
        BY <1>1, <1>5, <1>9, <2>3 DEF DaemonInv
      <4>2. SoundAnswer(kind, flight[kind])'
        BY <1>3, <1>7, <4>1 DEF SoundAnswer
      <4>3. (flight[kind] \in Requests(kind))'
        BY <1>6, <1>7, <4>1 DEF Requests, Holds
      <4> QED BY <1>3, <1>7, <4>1, <4>2, <4>3 DEF SoundRequest
    <3> QED BY <3>1, <3>2
  <2>5. SoundFlight(flight)'
    BY <1>7, <2>4 DEF SoundFlight, IsFlight
  <2> QED BY <1>1, <1>2, <1>8, <2>1, <2>2, <2>5, ChangeKeeps
<1>10. CASE Outcome(kind, rev) # "answered"
  <2>1. UNCHANGED <<review, log, changes, wire>>
    BY <1>10 DEF Command, rev
  <2>2. SoundRequest(kind, r)
    <3>1. r \in Requests(kind)
      BY <1>3, <1>6, <2>1 DEF DaemonInv
    <3> QED BY <1>3, <1>5, <1>10, <3>1 DEF SoundRequest
  <2>3. SoundFlight(flight')
    BY <1>3, <1>7, <2>2
  <2> USE <1>1, <2>1 DEF daemonVars, linkVars, viewVars
  <2>4. WorkspaceInv'
    BY <1>8 DEF WebInv, WorkspaceInv, Idling, Workspace
  <2>5. FollowInv'
    <3>1. UNCHANGED <<flight["chat"], flight["chat again"]>>
      BY <1>8
    <3> QED BY <3>1, FollowSame DEF WebInv, Workspace
  <2>6. UNCHANGED <<flight["session"], flight["diff"], flight["list"]>>
    BY <1>8
  <2> QED BY <1>2, <2>3, <2>4, <2>5, <2>6, HookKeeps
<1> QED BY <1>9, <1>10

(***************************************************************************)
(* Events.                                                                 *)
(***************************************************************************)
Delivered ==
  /\ socket = "open" /\ wire # <<>> /\ wire' = Tail(wire)
  /\ UNCHANGED <<daemonVars, cookie, socket, drops, fails, route, gate>>

(* What the event says is so; an update without another behind it is the   *)
(* review as it is.                                                        *)
LEMMA EventIs ==
  ASSUME WebInv, Delivered, NEW event, event = Head(wire)
  PROVE  /\ event \in WireEvents
         /\ IsSaid(event) => event.rev \in 1..Len(log) /\ log[event.rev] = event.change
         /\ Fresh' /\ ~IsUpdate(event) => Fresh
         /\ Fresh' /\ IsUpdate(event) => event.review = review
         /\ \A j: Told(j) => Told(j)' \/ (IsSaid(event) /\ event.rev = j)
         /\ SoundFlight(flight') => LinkInv'
         /\ cookie = process /\ gate = "ready" /\ DaemonInv
<1> USE DEF Delivered, daemonVars
<1>1. LinkInv /\ WireInv /\ DaemonInv /\ wire \in Seq(WireEvents)
  BY DEF WebInv, LinkInv, WireInv
<1>2. /\ event \in WireEvents /\ event = wire[1] /\ Len(wire) \in Nat /\ Len(wire) >= 1
      /\ wire' \in Seq(WireEvents) /\ Len(wire') = Len(wire) - 1
      /\ \A i \in 1..Len(wire'): wire'[i] = wire[i + 1]
  <2>1. /\ Head(wire) \in WireEvents /\ Tail(wire) \in Seq(WireEvents)
        /\ Head(wire) = wire[1] /\ Len(Tail(wire)) = Len(wire) - 1
        /\ \A i \in 1..Len(Tail(wire)): Tail(wire)[i] = wire[i + 1]
    BY <1>1, HeadTailProperties
  <2>2. Len(wire) \in Nat /\ Len(wire) # 0
    BY <1>1, EmptySeq
  <2> QED BY <2>1, <2>2
<1>3. IsSaid(event) => event.rev \in 1..Len(log) /\ log[event.rev] = event.change
  BY <1>1, <1>2 DEF WireInv
<1>4. \A i \in 1..Len(wire'): i + 1 \in 1..Len(wire)
  BY <1>2
<1>5. \A i \in 1..Len(wire): i = 1 \/ (i - 1 \in 1..Len(wire') /\ wire'[i - 1] = wire[i])
  BY <1>2
<1>6. Fresh' /\ ~IsUpdate(event) => Fresh
  <2> SUFFICES ASSUME \A i \in 1..Len(wire'): ~IsUpdate(wire'[i]), ~IsUpdate(event),
                      NEW i \in 1..Len(wire), IsUpdate(wire[i])
               PROVE  FALSE
    BY DEF Fresh, NoneUpdated, IsUpdate
  <2> QED BY <1>2, <1>5
<1>7. Fresh' /\ IsUpdate(event) => event.review = review
  <2> SUFFICES ASSUME \A i \in 1..Len(wire'): ~IsUpdate(wire'[i]), IsUpdate(event)
               PROVE  event.review = review
    BY DEF Fresh, NoneUpdated, IsUpdate
  <2>1. 1 \in 1..Len(wire)
    BY <1>2
  <2>2. \A j \in 1..Len(wire): IsUpdate(wire[j]) => j <= 1
    <3>1. \A j \in 1..Len(wire): IsUpdate(wire[j]) => j = 1
      BY <1>5
    <3> QED BY <3>1
  <2> QED BY <1>1, <1>2, <2>1, <2>2 DEF WireInv
<1>8. \A j: Told(j) => Told(j)' \/ (IsSaid(event) /\ event.rev = j)
  <2> SUFFICES ASSUME NEW j, NEW i \in 1..Len(wire), IsSaid(wire[i]), wire[i].rev = j,
                      ~(IsSaid(event) /\ event.rev = j)
               PROVE  \E h \in 1..Len(wire'): IsSaid(wire'[h]) /\ wire'[h].rev = j
    BY DEF Told, IsSaid
  <2> QED BY <1>2, <1>5
<1>9. WireInv'
  <2>1. ASSUME NEW i \in 1..Len(wire'), IsSaid(wire'[i])
        PROVE  wire'[i].rev \in 1..Len(log) /\ log[wire'[i].rev] = wire'[i].change
    BY <1>1, <1>2, <1>4, <2>1 DEF WireInv
  <2>2. ASSUME NEW i \in 1..Len(wire'), IsUpdate(wire'[i]),
               \A j \in 1..Len(wire'): IsUpdate(wire'[j]) => j <= i
        PROVE  wire'[i].review = review
    <3>1. \A j \in 1..Len(wire): IsUpdate(wire[j]) => j <= i + 1
      <4> SUFFICES ASSUME NEW j \in 1..Len(wire), IsUpdate(wire[j]) PROVE j <= i + 1
        OBVIOUS
      <4>1. CASE j = 1
        BY <1>2, <4>1
      <4>2. CASE j # 1
        <5>1. j - 1 \in 1..Len(wire') /\ wire'[j - 1] = wire[j]
          BY <1>5, <4>2
        <5>2. j - 1 <= i
          BY <2>2, <5>1
        <5> QED BY <1>2, <5>2
      <4> QED BY <4>1, <4>2
    <3>2. i + 1 \in 1..Len(wire) /\ wire'[i] = wire[i + 1]
      BY <1>2, <1>4
    <3> DEFINE h == i + 1
    <3>3. h \in 1..Len(wire) /\ IsUpdate(wire[h]) /\ \A j \in 1..Len(wire): IsUpdate(wire[j]) => j <= h
      BY <2>2, <3>1, <3>2
    <3> HIDE DEF h
    <3>4. wire[h].review = review
      BY <1>1, <3>3 DEF WireInv
    <3> QED BY <3>2, <3>4 DEF h
  <2> QED BY <1>2, <2>1, <2>2 DEF WireInv, IsSaid, IsUpdate
<1>10. DaemonInv' /\ SocketInv'
  BY <1>1 DEF LinkInv, DaemonInv, SocketInv, Listening
<1>11. SoundFlight(flight') => SoundFlight(flight)'
  BY SoundFrame
<1>12. cookie = process /\ gate = "ready"
  BY <1>1 DEF LinkInv, SocketInv, Listening
<1> QED BY <1>1, <1>2, <1>3, <1>6, <1>7, <1>8, <1>9, <1>10, <1>11, <1>12 DEF LinkInv

(* A chat that follows, follows still, if it knows what the event says.    *)
LEMMA EventFollows ==
  ASSUME WebInv, Delivered, NEW event, event = Head(wire), NEW m \in Nat, NEW n \in Nat, m <= n,
         Follows(m), IsSaid(event) => event.rev <= n
  PROVE  Follows(n)'
<1>1. /\ \A j: Told(j) => Told(j)' \/ (IsSaid(event) /\ event.rev = j)
      /\ IsSaid(event) => event.rev \in 1..Len(log)
  BY EventIs
<1>2. Len(log) \in Nat
  BY LogFacts, Bounds DEF WebInv, LinkInv, DaemonInv
<1> SUFFICES ASSUME NEW j \in 1..Len(log), j > n PROVE Told(j)'
  BY DEF Follows, Delivered, daemonVars
<1>3. Told(j)
  BY <1>2 DEF Follows
<1> QED BY <1>1, <1>2, <1>3

LEMMA HomeEventKeeps ==
  ASSUME WebInv, Delivered, route = "home", ListEvent(Head(wire)),
         UNCHANGED <<page, pinned, chat, notes>>
  PROVE  WebInv'
<1> DEFINE event == Head(wire)
<1>0. event = Head(wire)
  OBVIOUS
<1> HIDE DEF event
<1>1. /\ Fresh' /\ ~IsUpdate(event) => Fresh
      /\ SoundFlight(flight') => LinkInv'
      /\ cookie = process /\ gate = "ready" /\ DaemonInv
  BY <1>0, EventIs
<1>2. /\ page = Blank /\ pinned = None /\ \A k \in Kinds \ {"list"}: flight[k] = Idle
      /\ SoundFlight(flight) /\ LinkInv
  BY DEF WebInv, LinkInv, ScreenInv, Idling
<1>3. chat = NoChat /\ notes = None /\ ~Workspace(page)
  BY <1>2 DEF WebInv, WorkspaceInv, Workspace, Blank
<1> USE DEF Delivered, daemonVars
<1>4. CASE event.type = "session.updated"
  <2>1. list' = NoList /\ flight' = Refetch(flight)
    BY <1>0, <1>4 DEF ListEvent
  <2>2. /\ SoundFlight(flight') /\ flight'["list"] = Sent("list", 0, review)
        /\ \A k \in Kinds \ {"list"}: flight'[k] = flight[k]
    BY <1>1, <1>2, <2>1, RefetchIs
  <2>3. flight'["list"].at = "answered" /\ flight'["list"].data = review
    <3>1. Current("list", 0)
      BY DEF Current
    <3> DEFINE r == Sent("list", 0, review)
    <3>2. r.at = "answered" /\ r.data = review
      BY <1>2, <3>1, ServedIs
    <3> QED BY <2>2, <3>2
  <2>4. "session" \in Kinds \ {"list"}
    BY DEF Kinds, Reads
  <2>5. LinkInv'
    BY <1>1, <2>2
  <2>6. \A k \in Kinds \ {"list"}: flight'[k] = Idle
    BY <1>2, <2>2
  <2> QED BY <1>1, <1>2, <1>3, <2>1, <2>3, <2>4, <2>5, <2>6, BlankKeeps
<1>5. CASE event.type # "session.updated"
  <2>1. UNCHANGED <<list, flight>>
    BY <1>0, <1>5 DEF ListEvent
  <2>2. Fresh' => Fresh
    BY <1>1, <1>5 DEF IsUpdate
  <2>3. LinkInv'
    BY <1>1, <1>2, <2>1
  <2>4. ScreenInv' /\ WorkspaceInv'
    BY <2>1 DEF WebInv, ScreenInv, WorkspaceInv, Idling, Workspace
  <2>5. OrderInv' /\ LoadingWaits'
    BY <2>1 DEF WebInv, OrderInv, LoadingWaits, Idling
  <2>6. ListInv'
    BY <2>1, <2>2 DEF WebInv, ListInv, Idling
  <2>7. PageInv' /\ FollowInv'
    BY <1>3 DEF PageInv, FollowInv, Workspace
  <2> QED BY <2>3, <2>4, <2>5, <2>6, <2>7 DEF WebInv
<1> QED BY <1>4, <1>5

(* The page takes an event of the session.                                 *)
LEMMA SessionEventKeeps ==
  ASSUME WebInv, Delivered, route = "review", SessionEvent(Head(wire)), UNCHANGED list
  PROVE  WebInv'
<1> DEFINE event == Head(wire)
<1>0. event = Head(wire)
  OBVIOUS
<1> HIDE DEF event
<1>1. /\ event \in WireEvents
      /\ Fresh' /\ ~IsUpdate(event) => Fresh
      /\ Fresh' /\ IsUpdate(event) => event.review = review
      /\ \A j: Told(j) => Told(j)' \/ (IsSaid(event) /\ event.rev = j)
      /\ SoundFlight(flight') => LinkInv'
      /\ cookie = process /\ gate = "ready" /\ DaemonInv
  BY <1>0, EventIs
<1>2. /\ PageEvent(event) /\ DraftsEvent(event) /\ UNCHANGED <<pinned, chat>>
      /\ ~IsSaid(event)
  BY <1>0 DEF SessionEvent, IsSaid
<1>3. IsUpdate(event) => event.review \in Reviews
  BY <1>1 DEF WireEvents, IsUpdate
<1>4. LinkInv /\ SoundFlight(flight) /\ IsFlight(flight) /\ review.rev \in Nat
  BY <1>1, Bounds DEF WebInv, LinkInv, SoundFlight, IsFlight, DaemonInv, Reviews
<1> USE DEF Delivered, daemonVars
<1>5. /\ notes' \in {None} \cup [key: 0..MaxChanges, of: Reviews]
      /\ notes' # None => notes'.of.rev = notes'.key
      /\ ~Workspace(page) => notes' = None
  <2>1. /\ notes \in {None} \cup [key: 0..MaxChanges, of: Reviews]
        /\ notes # None => notes.of.rev = notes.key
        /\ ~Workspace(page) => notes = None
    BY DEF WebInv, WorkspaceInv
  <2>2. CASE notes' = notes
    BY <2>1, <2>2
  <2>3. CASE /\ Workspace(page) /\ IsUpdate(event) /\ event.review.rev = page.s.rev
             /\ notes' = Keep(page.s.rev, event.review)
    <3> DEFINE kept == Keep(page.s.rev, event.review)
    <3>1. page.s.rev \in 0..MaxChanges
      BY <2>3, WorkspaceOpen
    <3>2. kept \in [key: 0..MaxChanges, of: Reviews] /\ kept.of.rev = kept.key
      BY <1>3, <2>3, <3>1 DEF Keep
    <3> HIDE DEF kept
    <3> QED BY <2>3, <3>2 DEF kept
  <2> QED BY <1>2, <2>2, <2>3 DEF DraftsEvent, IsUpdate
<1>6. CASE pinned # None /\ IsUpdate(event) /\ event.review = pinned
  <2>1. /\ page' = IF page.at = "ready" THEN [page EXCEPT !.s = event.review] ELSE page
        /\ flight' = flight
    BY <1>2, <1>6 DEF PageEvent, IsUpdate
  <2>2. page \in [at: {"loading", "ready", "error"}, s: Reviews \cup {None},
                  diff: 0..MaxChanges \cup {None}, warn: BOOLEAN]
    BY DEF WebInv, ScreenInv
  <2>3. pinned \in Reviews /\ event.review \in Reviews
    BY <1>3, <1>6
  <2>4. /\ page' \in [at: {"loading", "ready", "error"}, s: Reviews \cup {None},
                      diff: 0..MaxChanges \cup {None}, warn: BOOLEAN]
        /\ page'.at = page.at /\ page'.diff = page.diff
        /\ page.at = "ready" => page'.s = pinned
        /\ page.at # "ready" => page' = page
    <3>1. CASE page.at = "ready"
      <4> DEFINE s == event.review
      <4>1. page' = [page EXCEPT !.s = s] /\ s \in Reviews /\ s = pinned
        BY <1>6, <2>1, <2>3, <3>1
      <4> HIDE DEF s
      <4> QED BY <2>2, <3>1, <4>1
    <3>2. CASE page.at # "ready"
      BY <2>1, <2>2, <3>2
    <3> QED BY <3>1, <3>2
  <2>5. page.diff # None => page.at = "ready" /\ page.s = pinned
    BY <1>6 DEF WebInv, ScreenInv, WorkspaceInv
  <2>6. page.diff # None => page'.s = page.s
    BY <2>4, <2>5
  <2>7. (Workspace(page)' <=> Workspace(page)) /\ (Workspace(page) => page'.s = page.s)
    BY <2>4, <2>6 DEF Workspace
  <2>8. LinkInv'
    BY <1>1, <1>4, <2>1
  <2>9. ScreenInv'
    BY <1>1, <1>2, <2>1, <2>3, <2>4 DEF WebInv, ScreenInv, Idling
  <2>10. WorkspaceInv'
    BY <1>2, <1>5, <2>1, <2>4, <2>6, <2>7 DEF WebInv, WorkspaceInv, Idling
  <2>11. OrderInv'
    BY <1>2, <1>6, <2>1, <2>4 DEF WebInv, OrderInv, Idling
  <2>12. LoadingWaits' /\ ListInv'
    BY <2>1, <2>4 DEF WebInv, LoadingWaits, ListInv, Idling
  <2>13. PageInv'
    <3> SUFFICES ASSUME Fresh', fails = 0
                 PROVE  /\ flight["session"].at = "answered" =>
                             flight["session"].data.rev = review.rev
                        /\ flight["diff"] # Idle =>
                             flight["diff"].at = "answered" /\ flight["diff"].rev = review.rev
                        /\ page'.at = "ready" => page'.s.rev = review.rev
      BY <2>1 DEF PageInv, Idling
    <3>1. pinned = review
      BY <1>1, <1>6
    <3>2. /\ flight["session"].at = "answered" => review.rev <= flight["session"].data.rev
          /\ flight["diff"] # Idle => review.rev <= flight["diff"].rev
      BY <1>6, <3>1 DEF WebInv, OrderInv
    <3>3. SoundRequest("session", flight["session"]) /\ SoundRequest("diff", flight["diff"])
      BY <1>4, OtherKinds DEF SoundFlight
    <3>4. flight["session"].at = "answered" => flight["session"].data.rev = review.rev
      <4> SUFFICES ASSUME flight["session"].at = "answered"
                   PROVE  flight["session"].data.rev = review.rev
        OBVIOUS
      <4>1. flight["session"].data \in Reviews /\ flight["session"].data.rev <= review.rev
        <5>1. "session" \in Kinds /\ flight["session"].at # "idle"
          BY OtherKinds
        <5>2. flight["session"].data \in Holds("session") /\ SoundAnswer("session", flight["session"])
          BY <5>1, ArrivedIs
        <5> QED BY <5>2 DEF Holds, Talks, SoundAnswer
      <4>2. flight["session"].data.rev \in Nat
        BY <4>1, Bounds DEF Reviews
      <4> QED BY <1>4, <3>2, <4>1, <4>2
    <3>5. flight["diff"] # Idle =>
             flight["diff"].at = "answered" /\ flight["diff"].rev = review.rev
      <4> SUFFICES ASSUME flight["diff"] # Idle
                   PROVE  flight["diff"].at = "answered" /\ flight["diff"].rev = review.rev
        OBVIOUS
      <4>1. /\ flight["diff"].rev \in Nat /\ flight["diff"].rev <= review.rev
            /\ flight["diff"].at \in {"answered", "refused", "denied"}
            /\ flight["diff"].at # "denied"
            /\ flight["diff"].at = "refused" => flight["diff"].rev < review.rev
        BY <1>1, <3>3, Bounds DEF SoundRequest, Requests
      <4> QED BY <1>4, <3>2, <4>1
    <3> QED BY <2>4, <3>1, <3>4, <3>5
  <2>14. FollowInv'
    <3> SUFFICES ASSUME socket = "open", fails = 0, Workspace(page), page.s.rev = review.rev
                 PROVE  \/ ReplicaFollows'
                        \/ AnswerFollows("chat")'
                        \/ AnswerFollows("chat again")' /\ flight["chat again"].rev = page.s.rev
      BY <2>1, <2>7 DEF FollowInv
    <3>1. \A n: Follows(n) => Follows(n)'
      BY <1>1, <1>2 DEF Follows
    <3>2. \/ ReplicaFollows
          \/ AnswerFollows("chat")
          \/ AnswerFollows("chat again") /\ flight["chat again"].rev = page.s.rev
      BY DEF WebInv, FollowInv
    <3> QED BY <1>2, <2>1, <3>1, <3>2 DEF ReplicaFollows, AnswerFollows
  <2> QED BY <2>8, <2>9, <2>10, <2>11, <2>12, <2>13, <2>14 DEF WebInv
<1>7. CASE ~(pinned # None /\ IsUpdate(event) /\ event.review = pinned)
  <2>1. flight' = Load(flight) /\ UNCHANGED page
    BY <1>2, <1>7 DEF PageEvent, IsUpdate
  <2>2. /\ SoundFlight(flight') /\ flight'["session"] = Sent("session", 0, review)
        /\ flight'["diff"] = Idle
        /\ \A k \in Kinds \ {"session", "diff"}: flight'[k] = flight[k]
    BY <1>1, <1>4, <2>1, LoadIs
  <2>3. flight'["session"] # Idle /\ flight'["session"].at = "answered"
        /\ flight'["session"].data = review
    <3>1. Current("session", 0)
      BY DEF Current
    <3> DEFINE r == Sent("session", 0, review)
    <3>2. r.at = "answered" /\ r.data = review
      BY <1>4, <3>1, ServedIs
    <3> HIDE DEF r
    <3>3. flight'["session"].at = "answered" /\ flight'["session"].data = review
      BY <2>2, <3>2 DEF r
    <3> QED BY <3>3 DEF Idle
  <2>4. /\ flight'["list"] = flight["list"] /\ flight'["chat"] = flight["chat"]
        /\ flight'["chat again"] = flight["chat again"]
        /\ \A k \in Hooks \cup {"edit", "say"}: flight'[k] = flight[k]
    BY <2>2 DEF Kinds, Reads, Commands, Hooks
  <2>8. LinkInv'
    BY <1>1, <2>2
  <2>9. ScreenInv'
    BY <1>1, <1>2, <2>1, <2>4 DEF WebInv, ScreenInv, Idling
  <2>10. WorkspaceInv'
    BY <1>2, <1>5, <2>1, <2>4 DEF WebInv, WorkspaceInv, Idling, Workspace
  <2>11. OrderInv'
    BY <1>2, <2>1, <2>2, <2>3 DEF WebInv, OrderInv, Idling
  <2>12. LoadingWaits' /\ ListInv'
    BY <2>3 DEF LoadingWaits, ListInv, Idling
  <2>13. PageInv'
    BY <2>2, <2>3 DEF PageInv, Idling
  <2>14. FollowInv'
    <3> SUFFICES ASSUME socket = "open", fails = 0, Workspace(page), page.s.rev = review.rev
                 PROVE  \/ ReplicaFollows'
                        \/ AnswerFollows("chat")'
                        \/ AnswerFollows("chat again")' /\ flight'["chat again"].rev = page.s.rev
      BY <2>1 DEF FollowInv, Workspace
    <3>1. \A n: Follows(n) => Follows(n)'
      BY <1>1, <1>2 DEF Follows
    <3>2. \/ ReplicaFollows
          \/ AnswerFollows("chat")
          \/ AnswerFollows("chat again") /\ flight["chat again"].rev = page.s.rev
      BY DEF WebInv, FollowInv
    <3> QED BY <1>2, <2>4, <3>1, <3>2 DEF ReplicaFollows, AnswerFollows
  <2> QED BY <2>8, <2>9, <2>10, <2>11, <2>12, <2>13, <2>14 DEF WebInv
<1> QED BY <1>6, <1>7

(* So does an answer that is out, or a chat that knows what the event says. *)
LEMMA EventAnswered ==
  ASSUME WebInv, Delivered, NEW event, event = Head(wire), NEW kind \in Talks,
         AnswerFollows(kind), flight' = flight, NEW n \in Nat, IsSaid(event) => event.rev <= n
  PROVE  Follows(n)' \/ AnswerFollows(kind)'
<1> DEFINE m == Len(flight[kind].data)
<1>1. kind \in Kinds /\ flight[kind].at = "answered" /\ Follows(m)
  BY DEF AnswerFollows, Kinds, Reads, Talks
<1>2. flight[kind].data \in Logs
  <2>1. flight[kind].at # "idle"
    BY <1>1
  <2>2. flight[kind].data \in Holds(kind)
    BY <1>1, <2>1, ArrivedIs
  <2> QED BY <1>1, <2>2 DEF Holds
<1>3. m \in Nat
  <2>1. \A s \in Logs: Len(s) \in Nat
    BY LogFacts, Bounds
  <2> QED BY <1>2, <2>1
<1>4. IsSaid(event) => event.rev \in Nat
  <2>1. IsSaid(event) => event.rev \in 1..Len(log)
    BY EventIs
  <2>2. Len(log) \in Nat
    BY LogFacts, Bounds DEF WebInv, LinkInv, DaemonInv
  <2> QED BY <2>1, <2>2
<1>5. CASE IsSaid(event) => event.rev <= m
  <2>1. \A k \in Nat: k = m => Follows(k)'
    <3> SUFFICES ASSUME NEW k \in Nat, k = m PROVE Follows(k)'
      OBVIOUS
    <3> HIDE DEF m
    <3>1. Follows(k) /\ k <= k /\ (IsSaid(event) => event.rev <= k)
      BY <1>1, <1>5
    <3> QED BY <3>1, EventFollows
  <2> QED BY <1>1, <1>3, <2>1 DEF AnswerFollows
<1>6. CASE IsSaid(event) /\ ~(event.rev <= m)
  <2> HIDE DEF m
  <2>1. m <= n
    BY <1>3, <1>4, <1>6
  <2> QED BY <1>1, <1>3, <2>1, EventFollows
<1> QED BY <1>5, <1>6

(* The chat takes a change: the next one, a known one, or one past a gap.  *)
LEMMA ChatEventKeeps ==
  ASSUME WebInv, Delivered, route = "review", ChatEventTaken(Head(wire)), UNCHANGED list
  PROVE  WebInv'
<1> DEFINE event == Head(wire)
           known == IF Workspace(page) /\ chat.log # None THEN Len(chat.log) ELSE 0
           next == chat.log # None /\ event.rev = known + 1
           gap == Workspace(page) /\ ~next /\ (chat.log = None \/ event.rev > known)
<1>0. event = Head(wire)
  OBVIOUS
<1>1. /\ event.type = "chat.event"
      /\ chat' = IF next THEN [chat EXCEPT !.log = Append(chat.log, event.change)] ELSE chat
      /\ gap => flight["chat again"] = Idle
      /\ flight' = IF gap THEN Send(flight, "chat again", page.s.rev) ELSE flight
      /\ UNCHANGED <<page, pinned, notes>>
  BY DEF ChatEventTaken
<1> HIDE DEF event
<1>2. /\ Fresh' /\ ~IsUpdate(event) => Fresh
      /\ IsSaid(event) => event.rev \in 1..Len(log) /\ log[event.rev] = event.change
      /\ SoundFlight(flight') => LinkInv'
      /\ cookie = process /\ gate = "ready" /\ DaemonInv
  BY <1>0, EventIs
<1>3. (Fresh' => Fresh) /\ IsSaid(event)
      /\ event.rev \in 1..Len(log) /\ log[event.rev] = event.change
  BY <1>1, <1>2 DEF IsUpdate, IsSaid
<1>4. LinkInv /\ SoundFlight(flight) /\ IsFlight(flight)
  BY DEF WebInv, LinkInv, SoundFlight, IsFlight
<1> USE DEF Delivered, daemonVars
<1>5. /\ SoundFlight(flight')
      /\ \A k \in Kinds \ {"chat again"}: flight'[k] = flight[k]
      /\ gap => flight'["chat again"] = Sent("chat again", page.s.rev, log)
  <2>1. CASE gap
    <3> DEFINE rev == page.s.rev
    <3>1. rev \in 0..MaxChanges /\ "chat again" \in Reads \ {"diff"} /\ Content("chat again") = log
      BY <2>1, WorkspaceOpen DEF Reads, Content
    <3>2. flight' = Send(flight, "chat again", rev)
      BY <1>1, <2>1
    <3> HIDE DEF rev, gap, next, known
    <3>3. /\ Send(flight, "chat again", rev)["chat again"] = Sent("chat again", rev, log)
          /\ \A k \in Kinds \ {"chat again"}: Send(flight, "chat again", rev)[k] = flight[k]
          /\ DaemonInv /\ SoundFlight(flight) /\ rev \in 0..MaxChanges
               => SoundFlight(Send(flight, "chat again", rev))
      BY <1>4, <3>1, SendIs
    <3> QED BY <1>2, <1>4, <3>1, <3>2, <3>3 DEF rev
  <2>2. CASE ~gap
    BY <1>1, <1>4, <2>2
  <2> QED BY <2>1, <2>2
<1>6. LinkInv'
  BY <1>2, <1>5
<1>7. {"session", "diff", "list", "chat", "edit", "say"} \subseteq Kinds \ {"chat again"}
      /\ Hooks \cup {"edit", "say"} \subseteq (Kinds \ {"chat again"}) \cup {"chat again"}
  BY DEF Kinds, Reads, Commands, Hooks
<1>8. /\ chat \in [log: Logs \cup {None}, err: BOOLEAN]
      /\ chat.log # None => chat.log \in Logs /\ Len(chat.log) \in Nat /\ IsPrefix(chat.log, log)
      /\ log \in Logs /\ Len(log) \in Nat
  BY <1>2, LogFacts, Bounds DEF WebInv, WorkspaceInv, DaemonInv
<1>9. ~Workspace(page) => chat' = chat /\ flight' = flight /\ chat = NoChat
  <2>1. ~Workspace(page) => chat = NoChat /\ chat.log = None
    BY DEF WebInv, WorkspaceInv, NoChat
  <2> QED BY <1>1, <2>1
<1>10. /\ chat' \in [log: Logs \cup {None}, err: BOOLEAN]
       /\ chat'.log # None => IsPrefix(chat'.log, log)
       /\ chat.log # None /\ Workspace(page) /\ ~gap =>
            /\ chat'.log \in Logs /\ chat'.log # None
            /\ Len(chat.log) <= Len(chat'.log) /\ event.rev <= Len(chat'.log)
       /\ chat.log = None \/ gap => chat' = chat
  <2>1. CASE next
    <3>1. Workspace(page) /\ chat.log # None /\ event.rev = Len(chat.log) + 1 /\ ~gap
      BY <1>9, <2>1 DEF NoChat
    <3> DEFINE s == chat.log  more == Append(s, event.change)
    <3>2. chat' = [chat EXCEPT !.log = more]
      BY <1>1, <2>1
    <3> HIDE DEF s, gap, next, known
    <3>3. /\ Append(s, log[event.rev]) \in Logs /\ Len(Append(s, log[event.rev])) = event.rev
          /\ IsPrefix(Append(s, log[event.rev]), log)
      BY <1>3, <1>8, <3>1, NextPrefix DEF s
    <3>4. more \in Logs /\ Len(more) = event.rev /\ IsPrefix(more, log) /\ more # None
      BY <1>3, <3>3, LogFacts
    <3> HIDE DEF more
    <3>5. chat' \in [log: Logs \cup {None}, err: BOOLEAN] /\ chat'.log = more
      BY <1>8, <3>2, <3>4
    <3>6. event.rev \in Nat
      BY <1>3, <1>8
    <3> QED BY <1>8, <3>1, <3>4, <3>5, <3>6
  <2>2. CASE ~next
    <3>1. chat' = chat
      BY <1>1, <2>2
    <3>2. chat.log # None /\ Workspace(page) /\ ~gap => event.rev <= Len(chat.log)
      BY <1>3, <1>8, <2>2
    <3> HIDE DEF gap, next, known
    <3> QED BY <1>8, <3>1, <3>2
  <2> QED BY <2>1, <2>2
<1>11. gap => chat.log = None \/ ~next
  OBVIOUS
<1>12. chat.log = None /\ Workspace(page) => gap
  OBVIOUS
<1>13. gap => Workspace(page)
  OBVIOUS
<1> HIDE DEF gap, next, known
<1>14. ScreenInv'
  <2>1. flight'["list"] = flight["list"]
    BY <1>5, <1>7
  <2> QED BY <1>1, <1>2, <2>1 DEF WebInv, ScreenInv, Idling
<1>15. WorkspaceInv'
  BY <1>1, <1>2, <1>9, <1>10 DEF WebInv, WorkspaceInv, Idling, Workspace
<1>16. OrderInv'
  BY <1>1, <1>5, <1>7 DEF WebInv, OrderInv, Idling
<1>17. LoadingWaits' /\ ListInv'
  BY <1>1, <1>5, <1>7 DEF WebInv, LoadingWaits, ListInv, Idling
<1>18. PageInv'
  BY <1>1, <1>3, <1>5, <1>7 DEF WebInv, PageInv, Idling
<1>19. socket = "open" => \A rev: rev = review.rev =>
         LET r == Sent("chat again", rev, log) IN r.at = "answered" /\ r.data = log /\ r.rev = rev
  BY <1>4, ChatServed
<1>20. Follows(Len(log))'
  BY <1>2, FollowsAll DEF Follows
<1>21. ASSUME gap PROVE FollowInv'
  <2>1. socket = "open" /\ page.s.rev = review.rev =>
          /\ flight'["chat again"].at = "answered" /\ flight'["chat again"].data = log
          /\ flight'["chat again"].rev = page.s.rev
    BY <1>5, <1>19, <1>21
  <2> QED BY <1>1, <1>20, <2>1 DEF FollowInv, AnswerFollows, Workspace
<1>22. ASSUME ~gap PROVE FollowInv'
  <2> DEFINE n == Len(chat'.log)
  <2>1. Workspace(page) =>
          /\ chat.log # None /\ chat'.log \in Logs /\ chat'.log # None
          /\ Len(chat.log) <= n /\ event.rev <= n
    BY <1>10, <1>12, <1>22
  <2>2. \A s \in Logs: Len(s) \in Nat
    BY LogFacts, Bounds
  <2>3. flight' = flight
    BY <1>1, <1>22
  <2>4. Workspace(page) /\ ReplicaFollows => ReplicaFollows'
    <3> SUFFICES ASSUME Workspace(page), ReplicaFollows PROVE ReplicaFollows'
      OBVIOUS
    <3> DEFINE m == Len(chat.log)
    <3>1. m \in Nat /\ n \in Nat /\ m <= n /\ event.rev <= n /\ Follows(m)
      BY <1>8, <2>1, <2>2 DEF ReplicaFollows
    <3>2. \A k \in Nat: k = n => Follows(k)'
      <4> SUFFICES ASSUME NEW k \in Nat, k = n PROVE Follows(k)'
        OBVIOUS
      <4> HIDE DEF m, n
      <4>1. m <= k /\ event.rev <= k
        BY <3>1
      <4> QED BY <1>0, <3>1, <4>1, EventFollows
    <3> QED BY <2>1, <3>1, <3>2 DEF ReplicaFollows
  <2>5. ASSUME NEW kind \in Talks, Workspace(page), AnswerFollows(kind)
        PROVE  ReplicaFollows' \/ AnswerFollows(kind)'
    <3>1. n \in Nat /\ event.rev <= n
      BY <2>1, <2>2, <2>5
    <3>2. \A k \in Nat: k = n => Follows(k)' \/ AnswerFollows(kind)'
      <4> SUFFICES ASSUME NEW k \in Nat, k = n PROVE Follows(k)' \/ AnswerFollows(kind)'
        OBVIOUS
      <4> HIDE DEF n
      <4>1. event.rev <= k
        BY <3>1
      <4> QED BY <1>0, <2>3, <2>5, <4>1, EventAnswered
    <3> QED BY <2>1, <2>5, <3>1, <3>2 DEF ReplicaFollows
  <2>6. socket = "open" /\ fails = 0 /\ Workspace(page) /\ page.s.rev = review.rev =>
           \/ ReplicaFollows
           \/ AnswerFollows("chat")
           \/ AnswerFollows("chat again") /\ flight["chat again"].rev = page.s.rev
    BY DEF WebInv, FollowInv
  <2> HIDE DEF n
  <2>7. socket = "open" /\ fails = 0 /\ Workspace(page) /\ page.s.rev = review.rev =>
           \/ ReplicaFollows'
           \/ AnswerFollows("chat")'
           \/ AnswerFollows("chat again")' /\ flight'["chat again"].rev = page.s.rev
    BY <2>3, <2>4, <2>5, <2>6 DEF Talks
  <2> QED BY <1>1, <2>7 DEF FollowInv, Workspace
<1>23. FollowInv'
  BY <1>21, <1>22
<1> QED BY <1>6, <1>14, <1>15, <1>16, <1>17, <1>18, <1>23 DEF WebInv

LEMMA DeliverKeeps ==
  ASSUME WebInv, Deliver
  PROVE  WebInv'
<1>1. Delivered
  BY DEF Deliver, Delivered
<1>2. CASE route = "home"
  BY <1>1, <1>2, HomeEventKeeps DEF Deliver
<1>3. CASE route # "home"
  <2>1. route = "review"
    BY <1>3 DEF WebInv, ScreenInv
  <2>2. (SessionEvent(Head(wire)) \/ ChatEventTaken(Head(wire))) /\ UNCHANGED list
    BY <1>3 DEF Deliver
  <2> QED BY <1>1, <2>1, <2>2, SessionEventKeeps, ChatEventKeeps
<1> QED BY <1>2, <1>3

(***************************************************************************)
(* Every step.                                                             *)
(***************************************************************************)
LEMMA InitSatisfies == Init => WebInv
<1> SUFFICES ASSUME Init PROVE WebInv
  OBVIOUS
<1> DEFINE idle == [k \in Kinds |-> Idle]
           r == [at |-> "answered", rev |-> 0, data |-> review]
<1>1. /\ review = [rev |-> 0, status |-> "draft"] /\ log = <<>> /\ changes = 0 /\ process = 0
      /\ cookie = 0 /\ socket = "connecting" /\ wire = <<>> /\ drops = 0 /\ fails = 0
      /\ gate = "ready" /\ route = "home" /\ list = NoList /\ flight = [idle EXCEPT !["list"] = r]
      /\ page = Blank /\ pinned = None /\ chat = NoChat /\ notes = None
  BY DEF Init, LinkInit
<1>2. review \in Reviews /\ review.rev = 0 /\ log \in Logs /\ Len(log) = 0
  <2>1. <<>> \in Seq(ChangeIds) /\ Len(<<>>) = 0
    OBVIOUS
  <2>2. 0 \in 0..MaxChanges
    BY Bounds
  <2>3. [rev |-> 0, status |-> "draft"] \in Reviews
    BY <2>2 DEF Reviews
  <2>4. \A s: s \in Seq(ChangeIds) /\ Len(s) = 0 => s \in Logs
    BY <2>2, LogFacts
  <2> QED BY <1>1, <2>1, <2>3, <2>4
<1>3. DaemonInv
  BY <1>1, <1>2, Bounds DEF DaemonInv
<1>4. SocketInv /\ WireInv
  BY <1>1 DEF SocketInv, WireInv, Listening
<1>5. /\ IsFlight(flight) /\ flight["list"] = r /\ \A k \in Kinds \ {"list"}: flight[k] = Idle
  <2>1. IsFlight(idle) /\ "list" \in Kinds /\ \A k \in Kinds: idle[k] = Idle
    BY DEF IsFlight, Kinds, Reads
  <2> HIDE DEF idle, r
  <2>2. /\ IsFlight([idle EXCEPT !["list"] = r]) /\ [idle EXCEPT !["list"] = r]["list"] = r
        /\ \A k \in Kinds \ {"list"}: [idle EXCEPT !["list"] = r][k] = idle[k]
    BY <2>1, PutIs
  <2> QED BY <1>1, <2>1, <2>2
<1>6. SoundFlight(flight)
  <2>1. SoundRequest("list", r)
    <3>1. r.at = "answered" /\ r \in [at: {"answered"}, rev: 0..MaxChanges, data: Reviews]
      BY <1>2, Bounds
    <3> HIDE DEF r
    <3>2. r \in Requests("list")
      BY <3>1 DEF Requests, Holds, Talks
    <3> QED BY <1>1, <3>1, <3>2 DEF SoundRequest, SoundAnswer, Talks
  <2> HIDE DEF r
  <2> QED BY <1>5, <2>1, IdleSound DEF SoundFlight, IsFlight
<1>7. LinkInv
  BY <1>3, <1>4, <1>6 DEF LinkInv
<1>8. ~Workspace(page) /\ ~Fresh
  BY <1>1 DEF Workspace, Blank, Fresh
<1>9. ScreenInv
  BY <1>1, <1>5 DEF ScreenInv, Idling, Blank, NoList
<1>10. WorkspaceInv
  <2>1. Hooks \cup {"edit", "say"} \subseteq Kinds \ {"list"}
    BY OtherKinds
  <2>2. NoChat \in [log: Logs \cup {None}, err: BOOLEAN] /\ NoChat.log = None /\ Blank.diff = None
    BY DEF NoChat, Blank
  <2> QED BY <1>1, <1>5, <1>8, <2>1, <2>2 DEF WorkspaceInv, Idling
<1>11. OrderInv /\ LoadingWaits
  <2>1. "session" \in Kinds \ {"list"}
    BY DEF Kinds, Reads
  <2> QED BY <1>1, <1>5, <2>1 DEF OrderInv, Idling, Blank, LoadingWaits
<1>12. ListInv /\ PageInv /\ FollowInv
  BY <1>1, <1>8 DEF ListInv, PageInv, FollowInv
<1> QED BY <1>7, <1>9, <1>10, <1>11, <1>12 DEF WebInv

LEMMA StutterKeeps == ASSUME WebInv, UNCHANGED vars PROVE WebInv'
<1> USE DEF vars, daemonVars, linkVars, requestVars, viewVars
<1>1. LinkInv'
  <2>1. fails' \in {fails, fails + 1} /\ SoundFlight(flight')
    BY DEF WebInv, LinkInv
  <2> QED BY <2>1, TabLink DEF WebInv
<1>2. ScreenInv' /\ WorkspaceInv' /\ OrderInv' /\ LoadingWaits'
  BY DEF WebInv, ScreenInv, WorkspaceInv, OrderInv, LoadingWaits, Idling, Workspace
<1>3. ListInv' /\ PageInv'
  BY DEF WebInv, ListInv, PageInv, Fresh, NoneUpdated, Idling
<1>4. FollowInv'
  BY FollowSame DEF WebInv, Workspace
<1> QED BY <1>1, <1>2, <1>3, <1>4 DEF WebInv

LEMMA PageStepKeeps ==
  ASSUME WebInv, PageStep, UNCHANGED <<gate, list>>
  PROVE  WebInv'
<1>1. ASSUME NEW kind \in Kinds,
             \/ LoadFails(kind) \/ ReceiveChat(kind) \/ ChatFails(kind)
             \/ ReceiveDrafts(kind) \/ DraftsFail(kind)
             \/ Command(kind) \/ ReceiveCommand(kind) \/ CommandFails(kind)
      PROVE  WebInv'
  <2>1. CASE LoadFails(kind)
    BY <2>1, LoadFailsKeeps
  <2>2. CASE ReceiveChat(kind)
    BY <2>2, ReceiveChatKeeps
  <2>3. CASE ChatFails(kind)
    BY <2>3, ChatFailsKeeps
  <2>4. CASE ReceiveDrafts(kind)
    BY <2>4, ReceiveDraftsKeeps
  <2>5. CASE DraftsFail(kind) \/ CommandFails(kind)
    BY <2>5, DraftsFailKeeps
  <2>6. CASE Command(kind)
    BY <2>6, CommandKeeps
  <2>7. CASE ReceiveCommand(kind)
    BY <2>7, ReceiveCommandKeeps
  <2> QED BY <1>1, <2>1, <2>2, <2>3, <2>4, <2>5, <2>6, <2>7
<1>2. CASE ReceiveSession
  BY <1>2, ReceiveSessionKeeps
<1>3. CASE ReceiveDiff
  BY <1>3, ReceiveDiffKeeps
<1>4. CASE Retry
  BY <1>4, RetryKeeps
<1>5. CASE ReceiveUpdate
  BY <1>5, ReceiveUpdateKeeps
<1> QED BY <1>1, <1>2, <1>3, <1>4, <1>5 DEF PageStep

LEMMA NextKeeps == WebInv /\ [Next]_vars => WebInv'
<1> SUFFICES ASSUME WebInv, [Next]_vars PROVE WebInv'
  OBVIOUS
<1>1. CASE PageStep /\ UNCHANGED <<gate, list>>
  BY <1>1, PageStepKeeps
<1>2. CASE (DaemonStep \/ SocketStep) /\ UNCHANGED <<viewVars, gate, list>>
  BY <1>2, OthersWorkKeeps, RestartKeeps, SocketStepKeeps DEF DaemonStep
<1>3. CASE ReceiveList \/ ListFails
  BY <1>3, ListKeeps
<1>4. CASE Open
  BY <1>4, OpenKeeps
<1>5. CASE Deliver
  BY <1>5, DeliverKeeps
<1>6. CASE Expire
  BY <1>6, ExpireKeeps
<1>7. CASE Authenticate
  BY <1>7, AuthenticateKeeps
<1>8. ASSUME NEW to \in {"home", "review"}, Navigate(to)
      PROVE  WebInv'
  BY <1>8, NavigateKeeps
<1>9. CASE UNCHANGED vars
  BY <1>9, StutterKeeps
<1> QED BY <1>1, <1>2, <1>3, <1>4, <1>5, <1>6, <1>7, <1>8, <1>9 DEF Next

(***************************************************************************)
(* What the invariant says.                                                *)
(***************************************************************************)
LEMMA InvIsTrue == WebInv => ScreenIsTrue
<1> SUFFICES ASSUME WebInv PROVE ScreenIsTrue
  OBVIOUS
<1>1. DaemonInv /\ SocketInv /\ ScreenInv /\ WorkspaceInv
  BY DEF WebInv, LinkInv
<1>2. Mounted <=> Workspace(page)
  BY WorkspaceOpen DEF Mounted
<1>3. Mounted => /\ page.s \in Reviews /\ page.diff \in Nat /\ page.diff = page.s.rev
  <2>1. Mounted => page.s \in Reviews /\ page.diff = page.s.rev /\ page.s.rev \in 0..MaxChanges
    BY <1>2, WorkspaceOpen
  <2> QED BY <2>1, Bounds
<1>4. TypeOK
  <2>1. {process, cookie} \subseteq 0..MaxTroubles /\ cookie <= process
    BY <1>1, Bounds DEF DaemonInv
  <2>2. \A kind \in Kinds: flight[kind].at \in Outcomes
    <3> SUFFICES ASSUME NEW kind \in Kinds PROVE flight[kind].at \in Outcomes
      OBVIOUS
    <3>1. flight[kind] \in Requests(kind)
      BY DEF WebInv, LinkInv, SoundFlight, SoundRequest
    <3> QED BY <3>1 DEF Requests, Idle, Outcomes
  <2>3. ~Mounted => chat = NoChat /\ notes = None /\ Idling(Hooks)
    BY <1>1, <1>2 DEF WorkspaceInv, Idling
  <2>4. review \in Reviews /\ log \in Logs
    BY <1>1 DEF DaemonInv
  <2>5. /\ socket \in {"none", "connecting", "accepted", "open", "checking"}
        /\ (gate = "disconnected") = (socket = "none")
    BY <1>1 DEF SocketInv
  <2>6. Mounted => page.s \in Reviews /\ page.diff \in Nat
    BY <1>3
  <2> HIDE DEF Mounted
  <2> QED BY <2>1, <2>2, <2>3, <2>4, <2>5, <2>6 DEF TypeOK
<1>5. ChatIsPrefix
  BY <1>1 DEF ChatIsPrefix, WorkspaceInv
<1>6. AnchorsMatchDiff
  <2>1. notes # None => notes.of.rev = notes.key
    BY <1>1 DEF WorkspaceInv
  <2> QED BY <1>3, <2>1 DEF AnchorsMatchDiff, Drafts
<1> QED BY <1>4, <1>5, <1>6 DEF ScreenIsTrue

LEMMA InvCatchesUp == WebInv => CatchesUp
<1> SUFFICES ASSUME WebInv PROVE CatchesUp
  OBVIOUS
<1>1. Quiet => Fresh /\ Idling({"session", "diff"}) /\ Idling({"list"})
  <2>1. Quiet => Fresh
    BY DEF Quiet, Fresh, NoneUpdated
  <2>2. Quiet => Idling({"session", "diff"}) /\ Idling({"list"})
    BY OtherKinds DEF Quiet, Idling
  <2> QED BY <2>1, <2>2
<1>2. PageCatchesUp
  <2>1. page.at = "ready" => route = "review"
    BY DEF WebInv, ScreenInv, Blank
  <2> QED BY <1>1, <2>1 DEF PageCatchesUp, WebInv, PageInv
<1>3. ListCatchesUp
  BY <1>1 DEF ListCatchesUp, WebInv, ListInv
<1>4. ASSUME Quiet, Mounted, fails = 0
      PROVE  chat.log = log
  <2>1. Workspace(page) /\ socket = "open" /\ wire = <<>>
    BY <1>4 DEF Mounted, Quiet
  <2>2. page.s.rev = review.rev
    BY <1>2, <1>4, <2>1 DEF PageCatchesUp, Workspace
  <2>3. ~AnswerFollows("chat") /\ ~AnswerFollows("chat again")
    <3>1. flight["chat"] = Idle /\ flight["chat again"] = Idle
      BY <1>4 DEF Quiet, Idling, Kinds, Reads
    <3>2. Idle.at # "answered"
      BY DEF Idle
    <3> QED BY <3>1, <3>2 DEF AnswerFollows
  <2>4. ReplicaFollows
    BY <1>4, <2>1, <2>2, <2>3 DEF WebInv, FollowInv
  <2>5. /\ chat.log \in Logs /\ log \in Logs /\ IsPrefix(chat.log, log)
    <3>1. cookie = process
      BY <2>1 DEF WebInv, LinkInv, SocketInv, Listening
    <3>2. chat.log # None
      BY <2>4 DEF ReplicaFollows
    <3>3. chat \in [log: Logs \cup {None}, err: BOOLEAN]
      BY DEF WebInv, WorkspaceInv
    <3>4. IsPrefix(chat.log, log) /\ log \in Logs
      BY <3>1, <3>2 DEF WebInv, WorkspaceInv, LinkInv, DaemonInv
    <3> QED BY <3>2, <3>3, <3>4
  <2>6. Len(chat.log) \in Nat /\ Len(log) \in Nat
    BY <2>5, LogFacts, Bounds
  <2>7. \A j \in 1..Len(log): ~(j > Len(chat.log))
    <3>1. \A j: ~Told(j)
      BY <2>1 DEF Told
    <3> QED BY <2>4, <3>1 DEF ReplicaFollows, Follows
  <2>8. Len(log) <= Len(chat.log)
    BY <2>6, <2>7
  <2> QED BY <2>5, <2>8, PrefixFacts
<1>5. ChatCatchesUp
  BY <1>4 DEF ChatCatchesUp
<1> QED BY <1>2, <1>3, <1>5 DEF CatchesUp, WebInv

(* Of all steps only two give the chat a log it had not: an answer that is *)
(* at least as long, and the event of the next change.                     *)
LEMMA ChatOnlyGrows ==
  ASSUME WebInv, [Next]_vars, chat.log # None, chat'.log # None
  PROVE  IsPrefix(chat.log, chat'.log)
<1>1. chat.log \in Logs /\ (cookie = process => IsPrefix(chat.log, log))
      /\ chat \in [log: Logs \cup {None}, err: BOOLEAN]
  <2>1. chat \in [log: Logs \cup {None}, err: BOOLEAN]
    BY DEF WebInv, WorkspaceInv
  <2>2. cookie = process => IsPrefix(chat.log, log)
    BY DEF WebInv, WorkspaceInv
  <2> QED BY <2>1, <2>2
<1>2. IsPrefix(chat.log, chat.log)
  BY <1>1, PrefixFacts
<1>3. NoChat.log = None
  BY DEF NoChat
<1>4. CASE chat' = chat
  BY <1>2, <1>4
<1>5. CASE chat' = NoChat
  BY <1>3, <1>5
<1>6. ASSUME NEW p, NEW f, Render(p, f)
      PROVE  chat' = chat \/ chat' = NoChat
  BY <1>6 DEF Render
<1>7. CASE PageStep
  <2>1. CASE ReceiveSession \/ ReceiveDiff \/ ReceiveUpdate
    <3>1. chat' = chat \/ chat' = NoChat
      BY <1>6, <2>1 DEF ReceiveSession, ReceiveDiff, ReceiveUpdate, Loaded, viewVars
    <3> QED BY <1>4, <1>5, <3>1
  <2>2. ASSUME NEW kind \in Kinds, ReceiveChat(kind)
        PROVE  IsPrefix(chat.log, chat'.log)
    <3> DEFINE loaded == flight[kind].data
    <3>1. /\ kind \in Talks /\ flight[kind].at = "answered"
          /\ chat' = chat \/ TakeChat(loaded)
      BY <2>2 DEF ReceiveChat, Arrives, Talks
    <3>2. loaded \in Logs /\ cookie = process /\ IsPrefix(loaded, log)
      <4>1. flight[kind].at # "idle"
        BY <3>1
      <4>2. flight[kind].data \in Holds(kind) /\ SoundAnswer(kind, flight[kind])
        BY <3>1, <4>1, ArrivedIs
      <4> QED BY <3>1, <4>2 DEF Holds, SoundAnswer
    <3>3. log \in Logs
      BY DEF WebInv, LinkInv, DaemonInv
    <3>4. IsPrefix(chat.log, loaded) \/ Len(loaded) < Len(chat.log)
      BY <1>1, <3>2, <3>3, PrefixFacts
    <3>5. Len(loaded) \in Nat /\ Len(chat.log) \in Nat
      <4>1. \A s \in Logs: Len(s) \in Nat
        BY LogFacts, Bounds
      <4> QED BY <1>1, <3>2, <4>1
    <3> HIDE DEF loaded
    <3>6. CASE TakeChat(loaded)
      <4>1. chat'.log = IF chat.log # None /\ Len(chat.log) > Len(loaded) THEN chat.log ELSE loaded
        BY <3>6 DEF TakeChat
      <4>2. CASE Len(chat.log) > Len(loaded)
        BY <1>2, <4>1, <4>2
      <4>3. CASE ~(Len(chat.log) > Len(loaded))
        <5>1. IsPrefix(chat.log, loaded)
          BY <3>4, <3>5, <4>3
        <5> QED BY <4>1, <4>3, <5>1
      <4> QED BY <4>2, <4>3
    <3> QED BY <1>4, <3>1, <3>6
  <2>3. ASSUME NEW kind \in Kinds, ChatFails(kind)
        PROVE  IsPrefix(chat.log, chat'.log)
    <3>1. chat' = [chat EXCEPT !.err = chat.err \/ ~Overdue(kind)]
      BY <2>3 DEF ChatFails
    <3>2. chat'.log = chat.log
      BY <1>1, <3>1
    <3> QED BY <1>2, <3>2
  <2>4. CASE Retry
    BY <1>4, <2>4 DEF Retry
  <2>5. ASSUME NEW kind \in Kinds,
               \/ LoadFails(kind) \/ ReceiveDrafts(kind) \/ DraftsFail(kind)
               \/ Command(kind) \/ ReceiveCommand(kind) \/ CommandFails(kind)
        PROVE  IsPrefix(chat.log, chat'.log)
    <3>1. chat' = chat
      BY <2>5
      DEF LoadFails, ReceiveDrafts, DraftsFail, Command, ReceiveCommand, CommandFails, viewVars
    <3> QED BY <1>4, <3>1
  <2> QED BY <1>7, <2>1, <2>2, <2>3, <2>4, <2>5 DEF PageStep
<1>8. CASE \/ (DaemonStep \/ SocketStep) /\ UNCHANGED <<viewVars, gate, list>>
           \/ ReceiveList \/ ListFails \/ Open \/ Authenticate \/ UNCHANGED vars
  BY <1>4, <1>8 DEF ReceiveList, ListFails, Open, Authenticate, vars, viewVars
<1>9. CASE Expire \/ \E to \in {"home", "review"}: Navigate(to)
  BY <1>5, <1>9 DEF Expire, Navigate
<1>10. CASE Deliver
  <2> DEFINE event == Head(wire)
  <2>0. event = Head(wire) /\ Delivered
    BY <1>10 DEF Deliver, Delivered
  <2>1. chat' = chat \/ ChatEventTaken(event)
    BY <1>10 DEF Deliver, SessionEvent
  <2>2. CASE chat' # chat /\ ChatEventTaken(event)
    <3>1. /\ event.type = "chat.event"
          /\ event.rev = (IF Workspace(page) THEN Len(chat.log) ELSE 0) + 1
          /\ chat' = [chat EXCEPT !.log = Append(chat.log, event.change)]
      BY <2>2 DEF ChatEventTaken
    <3> HIDE DEF event
    <3>2. /\ IsSaid(event) => event.rev \in 1..Len(log) /\ log[event.rev] = event.change
          /\ cookie = process
      BY <2>0, EventIs
    <3>3. event.rev \in 1..Len(log) /\ log[event.rev] = event.change
      BY <3>1, <3>2 DEF IsSaid
    <3>4. Workspace(page)
      BY DEF WebInv, WorkspaceInv, NoChat
    <3>5. event.rev = Len(chat.log) + 1 /\ IsPrefix(chat.log, log) /\ log \in Logs
      BY <1>1, <3>1, <3>2, <3>4 DEF WebInv, LinkInv, DaemonInv
    <3> DEFINE s == chat.log
    <3>6. s \in Logs /\ event.rev = Len(s) + 1 /\ IsPrefix(s, log)
      BY <1>1, <3>5
    <3> HIDE DEF s
    <3>7. IsPrefix(s, Append(s, log[event.rev]))
      BY <3>3, <3>5, <3>6, NextPrefix
    <3>8. chat'.log = Append(chat.log, event.change)
      <4> DEFINE more == Append(chat.log, event.change)
      <4>1. chat' = [chat EXCEPT !.log = more]
        BY <3>1
      <4> HIDE DEF more
      <4>2. chat'.log = more
        BY <1>1, <4>1
      <4> QED BY <4>2 DEF more
    <3> QED BY <3>3, <3>7, <3>8 DEF s
  <2> QED BY <1>4, <2>1, <2>2
<1> QED BY <1>7, <1>8, <1>9, <1>10 DEF Next

(***************************************************************************)
(* The theorems.                                                           *)
(***************************************************************************)
(* Whatever the order of events, answers, commands, lost sockets, failed   *)
(* requests and restarts: what the tab shows belongs together and was true *)
(* once (use-chat.ts, use-comments.ts, review-page.tsx).                   *)
THEOREM ScreenIsAlwaysTrue == Spec => []ScreenIsTrue
<1>1. Spec => []WebInv
  BY InitSatisfies, NextKeeps, PTL DEF Spec
<1> QED BY <1>1, InvIsTrue, PTL

(* When nothing is on its way to the tab, its page, its chat and its list  *)
(* are as the daemon's are, and a page that says it waits has a request    *)
(* out: no update is missed, however events and answers overtake.          *)
THEOREM TabAlwaysCatchesUp == Spec => []CatchesUp
<1>1. Spec => []WebInv
  BY InitSatisfies, NextKeeps, PTL DEF Spec
<1> QED BY <1>1, InvCatchesUp, PTL

(* The chat on the screen only grows: a late answer takes nothing back     *)
(* that an event has shown (use-chat.ts: the revision of an answer).       *)
THEOREM ShownChatNeverGoesBack == Spec => ChatNeverGoesBack
<1>1. Spec => []WebInv
  BY InitSatisfies, NextKeeps, PTL DEF Spec
<1>2. WebInv /\ [Next]_vars =>
        [chat.log # None /\ chat'.log # None => IsPrefix(chat.log, chat'.log)]_vars
  BY ChatOnlyGrows
<1> QED BY <1>1, <1>2, PTL DEF Spec, ChatNeverGoesBack
=============================================================================
