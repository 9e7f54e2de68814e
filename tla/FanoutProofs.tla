---------------------------- MODULE FanoutProofs ----------------------------
(***************************************************************************)
(* For any connections, settings and numbers of records: what the writer   *)
(* thread numbers for a connection is in commit order behind one           *)
(* handshake, is what its token and its filters let through, and tells it  *)
(* the retained world.                                                     *)
(***************************************************************************)
EXTENDS Fanout, FiniteSetTheorems, TLAPS

-----------------------------------------------------------------------------
(***************************************************************************)
(* The inductive invariant of Fanout: what the control channel, the commit *)
(* ring, the retained set and the connections' streams say of each other.  *)
(* Its parts are what the properties of Fanout need to be kept by every    *)
(* step of the three kinds of thread.                                      *)
(***************************************************************************)

Committed ==
  [what : {"record"}, n : Nat, kind : Kinds \cup {ReplyKind}, to : Connections \cup {NoOne}]

FilterResults == {FilterResult(k) : k \in 1..MaxFilters}

Item == Committed \cup {Handshake, Pong, AuthResult} \cup FilterResults

(* TypeOK, and that every queue is a sequence of what it may hold. *)
TypeInv ==
  /\ setup \in Setups
  /\ channel \in Seq(Message)
  /\ ring \in Seq(Committed) /\ Len(ring) <= CommitCapacity
  /\ committed \in Nat /\ replies \in 0..committed
  /\ evictions \subseteq Committed /\ refusals \subseteq Committed
  /\ reader \in [Connections -> {"none", "open", "answered", "session", "filtering"}]
  /\ grant \in [Connections -> Grants \cup {NoCaps}]
  /\ asked \in [Connections -> Seq(Filters)]
  /\ \A c \in Connections :
       Len(asked[c]) \in (IF reader[c] = "filtering" THEN 1 ELSE 0)..MaxFilters
  /\ pings \in [Connections -> Nat] /\ detached \subseteq Connections
  /\ wPc \in {"control", "batch", "replay"} /\ taken \in Nat
  /\ newcomer \in (IF wPc = "replay" THEN held ELSE {NoOne})
  /\ held \subseteq Connections /\ held \cap closed \subseteq {newcomer}
  /\ caps \in [Connections -> {NoCaps} \cup {Capabilities(g) : g \in Grants}]
  /\ \A c \in Connections : caps[c] \in {NoCaps, Capabilities(grant[c])}
  /\ filter \in [Connections -> Filters \cup {All}]
  /\ retained \in Seq(Committed)
  /\ stream \in [Connections -> Seq(Item)]
  /\ boundaries \in [Connections -> 0..LifecycleCapacity]
  /\ closed \subseteq Connections
  /\ lifecycle_evicted \in Nat /\ unaddressed \in Nat

-----------------------------------------------------------------------------
(* The control channel, one connection at a time.                          *)

IsFor(i, type, c) == i \in DOMAIN channel /\ channel[i].type = type /\ channel[i].id = c
Awaits(type, c)   == \E i \in DOMAIN channel : IsFor(i, type, c)

(* A connection the writer thread has forgotten for good. *)
Gone(c) == c \notin held /\ ~Awaits("Attach", c)

(* A connection is known to nobody before it attaches, its Attach is ahead *)
(* of all else that is sent for it, and the handshake of all it is pushed. *)
AttachInv(c) ==
  /\ reader[c] = "none" =>
       /\ \A i \in DOMAIN channel : channel[i].id # c
       /\ stream[c] = <<>> /\ c \notin held \cup closed /\ asked[c] = <<>>
       /\ pings[c] = 0 /\ caps[c] = NoCaps
  /\ \A i \in DOMAIN channel : IsFor(i, "Attach", c) =>
       /\ c \notin held \cup closed /\ stream[c] = <<>> /\ caps[c] = NoCaps
       /\ \A j \in DOMAIN channel : channel[j].id = c => j >= i
  /\ c \in held => stream[c] # <<>>
  /\ \A i \in DOMAIN stream[c] : stream[c][i] = Handshake <=> i = 1

IsAnswered(c) == \E i \in DOMAIN stream[c] : stream[c][i] = AuthResult
AnsweredBefore(i, c) ==
  \E j \in 1..(i - 1) : j \in DOMAIN channel /\ channel[j] = AnswerMsg(c, AuthResult)

(* A session is reported once, with what its token grants, behind the      *)
(* answer that says so; until it is taken nothing is fanned out to it.     *)
SessionInv(c) ==
  /\ reader[c] \in {"none", "open", "answered"} =>
       ~Awaits("Authenticated", c) /\ caps[c] = NoCaps
  /\ \A i \in DOMAIN channel : IsFor(i, "Authenticated", c) =>
       /\ caps[c] = NoCaps /\ channel[i].caps = Capabilities(grant[c])
       /\ \A j \in DOMAIN channel : IsFor(j, "Authenticated", c) => j = i
       /\ IsAnswered(c) \/ AnsweredBefore(i, c) \/ Gone(c)
  /\ reader[c] = "answered" =>
       IsAnswered(c) \/ AnsweredBefore(Len(channel) + 1, c) \/ Gone(c)
  /\ caps[c] # NoCaps => IsAnswered(c)
  /\ caps[c] = NoCaps => \A i \in DOMAIN stream[c] : ~IsFannedOut(stream[c][i])

(* The filter the writer thread holds, or the one in message j, is what    *)
(* the connection asked for the k-th time or since.                        *)
FilterSince(c, k)  == \E m \in k..Len(asked[c]) : filter[c] = asked[c][m]
SendsSince(j, c, k) == \E m \in k..Len(asked[c]) : channel[j] = FilterMsg(c, asked[c][m])

IsResult(j, c, k) == j \in DOMAIN channel /\ channel[j] = AnswerMsg(c, FilterResult(k))
HasResult(c, k)   == \E i \in DOMAIN stream[c] : stream[c][i] = FilterResult(k)

(* The answer to the k-th, at place i of the channel or to be put there:   *)
(* the last filter before it is the k-th or a later one.                   *)
Answerable(c, k, i) ==
  /\ k <= Len(asked[c])
  /\ \A j \in 1..(i - 1) :
       IsFor(j, "TopicFilter", c) /\ (\A l \in (j + 1)..(i - 1) : ~IsFor(l, "TopicFilter", c))
         => SendsSince(j, c, k)
  /\ (\A j \in 1..(i - 1) : ~IsFor(j, "TopicFilter", c)) => FilterSince(c, k) \/ Gone(c)

(* The filters in the channel are no older than the answers before them.   *)
FilterInv(c) ==
  /\ \A k \in 1..MaxFilters :
       /\ HasResult(c, k) => FilterSince(c, k)
       /\ \A i \in DOMAIN channel : IsResult(i, c, k) => Answerable(c, k, i)
       /\ reader[c] = "filtering" /\ k = Len(asked[c]) => Answerable(c, k, Len(channel) + 1)
       /\ \A j \in DOMAIN channel :
            IsFor(j, "TopicFilter", c) /\ (HasResult(c, k) \/ \E i \in 1..(j - 1) : IsResult(i, c, k))
              => SendsSince(j, c, k)
  /\ \A j \in DOMAIN channel : IsFor(j, "TopicFilter", c) => SendsSince(j, c, 1)

ChannelInv == \A c \in Connections : AttachInv(c) /\ SessionInv(c) /\ FilterInv(c)

-----------------------------------------------------------------------------
(* The records, which are numbered as they are committed. *)

(* Whatever left the ring left it before what is in it now. *)
RingInv ==
  /\ \A i, j \in DOMAIN ring : i < j => ring[i].n < ring[j].n
  /\ \A i \in DOMAIN ring :
       /\ ring[i].n <= committed
       /\ ring[i].to = NoOne => ring[i].kind \in Kinds
       /\ ring[i].to # NoOne => ring[i].kind = ReplyKind
       /\ \A k \in DOMAIN retained : retained[k].n < ring[i].n
       /\ \A r \in evictions : r.n < ring[i].n
       /\ \A r \in refusals : r.n # ring[i].n
       /\ \A c \in Connections : \A j \in DOMAIN stream[c] :
            IsFannedOut(stream[c][j]) => stream[c][j].n < ring[i].n
  /\ \A r \in evictions \cup refusals : r.n <= committed

(* One boundary a slot, oldest first. *)
RetainedInv ==
  /\ \A i, j \in DOMAIN retained :
       /\ i < j => retained[i].n < retained[j].n
       /\ retained[i].kind.slot = retained[j].kind.slot => i = j
  /\ \A i \in DOMAIN retained :
       /\ retained[i].n <= committed /\ retained[i].to = NoOne /\ retained[i].kind \in Kinds
       /\ retained[i].kind.slot \in 0..(RetainedSlots - 1)
  /\ \A c \in Connections : \A j \in DOMAIN stream[c] :
       IsFannedOut(stream[c][j]) => stream[c][j].n <= committed

(* A connection has been told of a boundary that is in the retained set. *)
IsTold(c, k) ==
  Covers(caps[c], retained[k].kind.need) =>
    \E i \in DOMAIN stream[c] :
      /\ stream[c][i] = retained[k]
      /\ \A j \in (i + 1)..Len(stream[c]) :
           IsFannedOut(stream[c][j]) => stream[c][j].kind.slot # retained[k].kind.slot

(* Half way through a replay: the boundaries behind it are told, and those *)
(* to come are newer than what the newcomer has.                           *)
ReplayInv ==
  /\ wPc = "replay" =>
       /\ taken <= Len(retained)
       /\ newcomer \notin closed => \A k \in 1..taken : IsTold(newcomer, k)
       /\ \A k \in (taken + 1)..Len(retained) : \A j \in DOMAIN stream[newcomer] :
            IsFannedOut(stream[newcomer][j]) => stream[newcomer][j].n < retained[k].n
  /\ wPc = "batch" => taken < RecordsPerPass
  /\ wPc = "control" => taken = 0

RecordsInv == RingInv /\ RetainedInv /\ ReplayInv

StreamsInv ==
  InCommitOrder /\ OnlyEntitled /\ NothingEscapesTheFilter /\ SeesTheWorld

-----------------------------------------------------------------------------
(* The accounts: of what was sent to one connection, and of the boundaries *)
(* evicted.                                                                *)

EvictedBoundaries == {r \in evictions : r.kind.slot # NoSlot}

AccountsInv ==
  /\ IsFiniteSet(Sent) /\ IsFiniteSet(Waiting) /\ IsFiniteSet(Numbered)
  /\ IsFiniteSet(EvictedBoundaries)
  /\ AddressedIsAccounted

FanoutInvariant ==
  TypeInv /\ ChannelInv /\ RecordsInv /\ StreamsInv /\ AccountsInv

-----------------------------------------------------------------------------
(* Sequences that grow at their end and shrink at their head. *)

LEMMA AppendFacts ==
  ASSUME NEW S, NEW s \in Seq(S), NEW x \in S
  PROVE  /\ Append(s, x) \in Seq(S) /\ Len(Append(s, x)) = Len(s) + 1
         /\ DOMAIN Append(s, x) = DOMAIN s \cup {Len(s) + 1}
         /\ DOMAIN s = 1..Len(s) /\ Len(s) \in Nat
         /\ \A i \in DOMAIN s : Append(s, x)[i] = s[i]
         /\ Append(s, x)[Len(s) + 1] = x
OBVIOUS

LEMMA TailFacts ==
  ASSUME NEW S, NEW s \in Seq(S), s # <<>>
  PROVE  /\ Tail(s) \in Seq(S) /\ Len(Tail(s)) = Len(s) - 1
         /\ DOMAIN s = 1..Len(s) /\ Len(s) \in Nat \ {0}
         /\ DOMAIN Tail(s) = 1..(Len(s) - 1)
         /\ \A i \in DOMAIN Tail(s) : Tail(s)[i] = s[i + 1] /\ i + 1 \in DOMAIN s
         /\ Head(s) = s[1] /\ 1 \in DOMAIN s
OBVIOUS

LEMMA RemoveAtFacts ==
  ASSUME NEW S, NEW s \in Seq(S), NEW p \in DOMAIN s
  PROVE  /\ RemoveAt(s, p) \in Seq(S) /\ Len(RemoveAt(s, p)) = Len(s) - 1
         /\ \A i \in 1..(Len(s) - 1) :
              RemoveAt(s, p)[i] = IF i < p THEN s[i] ELSE s[i + 1]
<1> DEFINE a == SubSeq(s, 1, p - 1)
           b == SubSeq(s, p + 1, Len(s))
<1>1. a \in Seq(S) /\ Len(a) = p - 1 /\ \A i \in 1..(p - 1) : a[i] = s[i]
  OBVIOUS
<1>2. b \in Seq(S) /\ Len(b) = Len(s) - p /\ \A i \in 1..(Len(s) - p) : b[i] = s[p + i]
  <2>1. p + 1 \in 1..(Len(s) + 1) /\ Len(s) \in Nat
    OBVIOUS
  <2> QED BY <2>1
<1>3. RemoveAt(s, p) = a \o b
  BY DEF RemoveAt
<1>4. Len(a \o b) = Len(s) - 1 /\ a \o b \in Seq(S)
  <2> HIDE DEF a, b
  <2> QED BY <1>1, <1>2
<1>5. \A i \in 1..(Len(s) - 1) : (a \o b)[i] = IF i < p THEN a[i] ELSE b[i - (p - 1)]
  <2> HIDE DEF a, b
  <2> QED BY <1>1, <1>2
<1> HIDE DEF a, b
<1>6. ASSUME NEW i \in 1..(Len(s) - 1)
      PROVE  (a \o b)[i] = IF i < p THEN s[i] ELSE s[i + 1]
  <2>1. CASE i < p
    BY <1>1, <1>5, <2>1
  <2>2. CASE ~(i < p)
    <3>1. i - (p - 1) \in 1..(Len(s) - p) /\ p + (i - (p - 1)) = i + 1
      BY <2>2
    <3> QED BY <1>2, <1>5, <2>2, <3>1
  <2> QED BY <2>1, <2>2
<1> QED BY <1>3, <1>4, <1>6

-----------------------------------------------------------------------------
(* What the setups' assumption gives, and the operators on masks.          *)

LEMMA SetupFacts ==
  ASSUME setup \in Setups
  PROVE  /\ CommitCapacity \in Nat \ {0} /\ LifecycleCapacity \in Nat \ {0}
         /\ RecordsPerPass \in Nat \ {0} /\ RetainedSlots \in Nat /\ MaxFilters \in Nat
         /\ NoCaps \notin Grants /\ \A g \in Grants : g \subseteq Nat
         /\ \A kind \in Kinds :
              /\ kind.need \in Nat /\ kind.slot \in Nat \cup {NoSlot}
              /\ kind.slot # NoSlot => kind.class = "Lifecycle"
BY SetupsAssumption
DEF CommitCapacity, LifecycleCapacity, RecordsPerPass, RetainedSlots, MaxFilters, Grants, Kinds, NoCaps

(* A mask covers no number but those it was made of, none past its bits.   *)
LEMMA CapabilitiesFacts ==
  ASSUME NEW g \in SUBSET Nat, NEW n \in Nat, Covers(Capabilities(g), n)
  PROVE  n \in g /\ n \in 0..(Bits - 1)
BY ConnectionsAssumption DEF Covers, Capabilities, With, NoCaps

LEMMA NoCapsCoverNothing == \A n : ~Covers(NoCaps, n)
BY DEF Covers, NoCaps

(* A record for one connection needs nothing and has no slot. *)
LEMMA ReplyFacts ==
  ReplyKind.slot = NoSlot /\ ReplyKind.class # "Lifecycle" /\ NoOne \notin Connections
BY ConnectionsAssumption DEF ReplyKind
-----------------------------------------------------------------------------
(* The messages and the items, apart by their types. *)

LEMMA MessageFacts ==
  ASSUME NEW c, NEW r, NEW t
  PROVE  /\ AttachMsg(c).type = "Attach" /\ AttachMsg(c).id = c
         /\ DetachMsg(c).type = "Detach" /\ DetachMsg(c).id = c
         /\ AnswerMsg(c, r).type = "Answer" /\ AnswerMsg(c, r).id = c /\ AnswerMsg(c, r).record = r
         /\ AuthedMsg(c, t).type = "Authenticated" /\ AuthedMsg(c, t).id = c /\ AuthedMsg(c, t).caps = t
         /\ FilterMsg(c, t).type = "TopicFilter" /\ FilterMsg(c, t).id = c /\ FilterMsg(c, t).topics = t
BY DEF AttachMsg, DetachMsg, AnswerMsg, AuthedMsg, FilterMsg

LEMMA MessageTypes ==
  ASSUME NEW c \in Connections
  PROVE  /\ AttachMsg(c) \in Message /\ DetachMsg(c) \in Message
         /\ \A r \in {Pong, AuthResult} \cup FilterResults : AnswerMsg(c, r) \in Message
         /\ \A g \in Grants : AuthedMsg(c, Capabilities(g)) \in Message
         /\ \A f \in Filters : FilterMsg(c, f) \in Message
BY DEF Message, AttachMsg, DetachMsg, AnswerMsg, AuthedMsg, FilterMsg, FilterResults

(* A message is one of the five, by its type. *)
LEMMA MessageForms ==
  ASSUME NEW m \in Message
  PROVE  /\ m.type \in {"Attach", "Detach", "Answer", "Authenticated", "TopicFilter"}
         /\ m.id \in Connections
         /\ m.type = "Answer" =>
              m.record \in {Pong, AuthResult} \cup FilterResults /\ m = AnswerMsg(m.id, m.record)
         /\ m.type = "Authenticated" => \E g \in Grants : m.caps = Capabilities(g)
         /\ m.type = "TopicFilter" => m.topics \in Filters /\ m = FilterMsg(m.id, m.topics)
BY DEF Message, AnswerMsg, FilterMsg, FilterResults

LEMMA ItemFacts ==
  /\ ~IsFannedOut(Handshake) /\ ~IsFannedOut(Pong) /\ ~IsFannedOut(AuthResult)
  /\ ~IsBoundary(Handshake) /\ ~IsBoundary(Pong) /\ ~IsBoundary(AuthResult)
  /\ Pong # Handshake /\ AuthResult # Handshake /\ AuthResult # Pong
  /\ \A k : /\ ~IsFannedOut(FilterResult(k)) /\ ~IsBoundary(FilterResult(k))
            /\ FilterResult(k) \notin {Handshake, Pong, AuthResult}
            /\ FilterResult(k).what = "FilterResult" /\ FilterResult(k).ask = k
  /\ \A r \in Committed : r.what = "record" /\ r \notin {Handshake, Pong, AuthResult}
  /\ \A r \in Committed : \A k : r # FilterResult(k)
BY DEF IsFannedOut, IsBoundary, Handshake, Pong, AuthResult, FilterResult, Committed

LEMMA ItemForms ==
  ASSUME NEW r \in Item
  PROVE  /\ r.what = "FilterResult" => \E k \in 1..MaxFilters : r = FilterResult(k)
         /\ IsFannedOut(r) => r \in Committed
BY DEF Item, FilterResults, FilterResult, IsFannedOut, Handshake, Pong, AuthResult, Committed
-----------------------------------------------------------------------------
(* What a push does to the streams, and what keeping a boundary does to    *)
(* the retained set.                                                       *)

LEMMA PushFacts ==
  ASSUME TypeInv, NEW to \in SUBSET Connections, NEW r \in Item, Push(to, r)
  PROVE  /\ stream' \in [Connections -> Seq(Item)]
         /\ boundaries' \in [Connections -> 0..LifecycleCapacity]
         /\ closed' \subseteq closed \cup to /\ closed \subseteq closed'
         /\ \A c \in Connections :
              stream'[c] = stream[c] \/ (c \in to /\ stream'[c] = Append(stream[c], r))
         /\ \A c \in to : c \notin closed' => stream'[c] = Append(stream[c], r)
         /\ ~IsBoundary(r) =>
              closed' = closed /\ \A c \in to : stream'[c] = Append(stream[c], r)
<1> DEFINE full == {c \in to : IsBoundary(r) /\ Room(c) = 0}
<1>1. /\ stream' = [c \in Connections |->
                    IF c \in to \ full THEN Append(stream[c], r) ELSE stream[c]]
      /\ boundaries' = [c \in Connections |->
           boundaries[c] + (IF IsBoundary(r) /\ c \in to \ full THEN 1 ELSE 0)]
      /\ closed' = closed \cup full
  BY DEF Push
<1>2. full \subseteq to /\ (~IsBoundary(r) => full = {})
  OBVIOUS
<1>3. \A c \in Connections : stream[c] \in Seq(Item) /\ Append(stream[c], r) \in Seq(Item)
  BY DEF TypeInv
<1>4. ASSUME NEW c \in Connections
      PROVE  boundaries[c] + (IF IsBoundary(r) /\ c \in to \ full THEN 1 ELSE 0)
               \in 0..LifecycleCapacity
  <2>1. boundaries[c] \in 0..LifecycleCapacity /\ LifecycleCapacity \in Nat
    BY SetupFacts DEF TypeInv
  <2>2. IsBoundary(r) /\ c \in to \ full => boundaries[c] # LifecycleCapacity
    BY <2>1 DEF Room
  <2> HIDE DEF full
  <2> QED BY <2>1, <2>2
<1> HIDE DEF full
<1>5. stream' \in [Connections -> Seq(Item)]
  BY <1>1, <1>3
<1>6. boundaries' \in [Connections -> 0..LifecycleCapacity]
  BY <1>1, <1>4
<1> QED BY <1>1, <1>2, <1>5, <1>6

(* The set without the slot's old record, in its order, and then the new.  *)
(* f finds, for the first n of what is kept, where each was. *)
Keeps(f, n, r) ==
  /\ n \in Nat /\ n <= Len(retained) /\ f \in [1..n -> DOMAIN retained]
  /\ \A i, j \in 1..n : i < j => f[i] < f[j]
  /\ Keep(r) \in Seq(Committed) /\ Len(Keep(r)) = n + 1 /\ Keep(r)[n + 1] = r
  /\ \A i \in 1..n :
       Keep(r)[i] = retained[f[i]] /\ retained[f[i]].kind.slot # r.kind.slot
  /\ \A k \in DOMAIN retained : retained[k].kind.slot # r.kind.slot =>
       \E i \in 1..n : f[i] = k

LEMMA KeepFacts ==
  ASSUME TypeInv, RetainedInv, NEW r \in Committed
  PROVE  \E f, n : Keeps(f, n, r)
<1> DEFINE old == {i \in DOMAIN retained : retained[i].kind.slot = r.kind.slot}
<1>0. retained \in Seq(Committed) /\ DOMAIN retained = 1..Len(retained) /\ Len(retained) \in Nat
  BY DEF TypeInv
<1>1. CASE old = {}
  <2>1. Keep(r) = Append(retained, r)
    BY <1>1 DEF Keep
  <2> DEFINE f == [i \in 1..Len(retained) |-> i]
  <2>2. /\ f \in [1..Len(retained) -> DOMAIN retained]
        /\ \A i, j \in 1..Len(retained) : i < j => f[i] < f[j]
        /\ \A i \in 1..Len(retained) : f[i] = i
    BY <1>0
  <2>3. \A i \in 1..Len(retained) : retained[i].kind.slot # r.kind.slot
    BY <1>0, <1>1
  <2>4. /\ Append(retained, r) \in Seq(Committed) /\ Len(Append(retained, r)) = Len(retained) + 1
        /\ Append(retained, r)[Len(retained) + 1] = r
        /\ \A i \in 1..Len(retained) : Append(retained, r)[i] = retained[i]
    BY <1>0
  <2> HIDE DEF f, old
  <2>5. Keeps(f, Len(retained), r)
    BY <1>0, <2>1, <2>2, <2>3, <2>4 DEF Keeps
  <2> QED BY <2>5
<1>2. CASE old # {}
  <2> DEFINE p == CHOOSE i \in old : TRUE
             rest == RemoveAt(retained, p)
             n == Len(retained) - 1
             f == [i \in 1..n |-> IF i < p THEN i ELSE i + 1]
  <2>1. Keep(r) = Append(rest, r)
    BY <1>2 DEF Keep
  <2>2. p \in DOMAIN retained /\ retained[p].kind.slot = r.kind.slot
    BY <1>2
  <2>3. \A i \in DOMAIN retained : retained[i].kind.slot = r.kind.slot => i = p
    BY <2>2 DEF RetainedInv
  <2> HIDE DEF p, old
  <2>4. /\ rest \in Seq(Committed) /\ Len(rest) = n /\ n \in Nat
        /\ \A i \in 1..n : rest[i] = IF i < p THEN retained[i] ELSE retained[i + 1]
    <3>1. /\ RemoveAt(retained, p) \in Seq(Committed)
          /\ Len(RemoveAt(retained, p)) = Len(retained) - 1
          /\ \A i \in 1..(Len(retained) - 1) :
               RemoveAt(retained, p)[i] = IF i < p THEN retained[i] ELSE retained[i + 1]
      BY <1>0, <2>2, RemoveAtFacts
    <3> QED BY <1>0, <2>2, <3>1
  <2>5. /\ \A i \in 1..n : f[i] \in DOMAIN retained /\ f[i] # p
        /\ \A i, j \in 1..n : i < j => f[i] < f[j]
        /\ f \in [1..n -> DOMAIN retained]
    BY <1>0, <2>2
  <2>6. \A i \in 1..n : rest[i] = retained[f[i]]
    BY <2>4
  <2>7. ASSUME NEW k \in DOMAIN retained, k # p
        PROVE  \E i \in 1..n : f[i] = k
    <3>1. CASE k < p
      <4>1. k \in 1..n /\ f[k] = k
        BY <1>0, <2>2, <3>1
      <4> QED BY <4>1
    <3>2. CASE k > p
      <4>1. k - 1 \in 1..n /\ f[k - 1] = k
        BY <1>0, <2>2, <3>2
      <4> QED BY <4>1
    <3> QED BY <1>0, <2>2, <2>7, <3>1, <3>2
  <2> HIDE DEF rest, n, f
  <2>8. /\ Append(rest, r) \in Seq(Committed) /\ Len(Append(rest, r)) = n + 1
        /\ Append(rest, r)[n + 1] = r /\ \A i \in 1..n : Append(rest, r)[i] = rest[i]
    BY <2>4
  <2>9. n <= Len(retained)
    BY <1>0 DEF n
  <2>10. Keeps(f, n, r)
    BY <2>1, <2>2, <2>3, <2>4, <2>5, <2>6, <2>7, <2>8, <2>9 DEF Keeps
  <2> QED BY <2>10
<1> QED BY <1>1, <1>2
-----------------------------------------------------------------------------
(* The types. *)

(* What a setup decides stays as it is. *)
LEMMA SetupStays ==
  ASSUME setup' = setup
  PROVE  /\ Kinds' = Kinds /\ Grants' = Grants /\ Filters' = Filters /\ All' = All
         /\ RetainedSlots' = RetainedSlots /\ CommitCapacity' = CommitCapacity
         /\ LifecycleCapacity' = LifecycleCapacity /\ RecordsPerPass' = RecordsPerPass
         /\ MaxFilters' = MaxFilters /\ Message' = Message /\ Committed' = Committed
         /\ FilterResults' = FilterResults /\ Item' = Item
<1>1. /\ Kinds' = Kinds /\ Grants' = Grants /\ Filters' = Filters /\ All' = All
      /\ RetainedSlots' = RetainedSlots /\ CommitCapacity' = CommitCapacity
      /\ LifecycleCapacity' = LifecycleCapacity /\ RecordsPerPass' = RecordsPerPass
      /\ MaxFilters' = MaxFilters
  BY DEF Kinds, Grants, Filters, All, Topics, RetainedSlots, CommitCapacity, LifecycleCapacity,
         RecordsPerPass, MaxFilters
<1>2. Message' = Message
  BY <1>1 DEF Message
<1>3. FilterResults' = FilterResults /\ Committed' = Committed
  BY <1>1 DEF FilterResults, Committed
<1>4. Item' = Item
  BY <1>3 DEF Item
<1> QED BY <1>1, <1>2, <1>3, <1>4

LEMMA TypeInit ==
  ASSUME Init
  PROVE  TypeInv
<1>1. /\ CommitCapacity \in Nat \ {0} /\ LifecycleCapacity \in Nat \ {0} /\ MaxFilters \in Nat
  BY SetupFacts DEF Init
<1>2. Len(<<>>) = 0 /\ <<>> \in Seq(Message) /\ <<>> \in Seq(Committed) /\ <<>> \in Seq(Filters)
      /\ <<>> \in Seq(Item)
  OBVIOUS
<1> QED BY <1>1, <1>2 DEF Init, TypeInv

LEMMA TypeOfSends ==
  ASSUME TypeInv, ChannelInv, setup' = setup, NEW c \in Connections,
         \/ Attach(c) \/ Ping(c) \/ Authenticate(c) \/ \E g \in Grants : Report(c, g)
         \/ \E f \in Filters : SetTopicFilter(c, f)
         \/ AnswerFilter(c) \/ Detach(c)
  PROVE  TypeInv'
<1>0. /\ Kinds' = Kinds /\ Grants' = Grants /\ Filters' = Filters /\ All' = All
      /\ CommitCapacity' = CommitCapacity /\ LifecycleCapacity' = LifecycleCapacity
      /\ MaxFilters' = MaxFilters /\ Message' = Message /\ Committed' = Committed
      /\ Item' = Item
  BY SetupStays
<1>1. ASSUME NEW m \in Message, channel' = Append(channel, m),
             reader' \in [Connections -> {"none", "open", "answered", "session", "filtering"}],
             grant' \in [Connections -> Grants \cup {NoCaps}],
             asked' \in [Connections -> Seq(Filters)],
             pings' \in [Connections -> Nat], detached' \subseteq Connections,
             \A d \in Connections :
               /\ caps[d] \in {NoCaps, Capabilities(grant'[d])}
               /\ Len(asked'[d]) \in (IF reader'[d] = "filtering" THEN 1 ELSE 0)..MaxFilters,
             UNCHANGED <<logicVars, writerVars, queueVars>>
      PROVE  TypeInv'
  <2>1. channel' \in Seq(Message)
    BY <1>1 DEF TypeInv
  <2> QED BY <1>0, <1>1, <2>1 DEF TypeInv, logicVars, writerVars, queueVars
<1>2. CASE Attach(c)
  <2>1. channel' = Append(channel, AttachMsg(c)) /\ AttachMsg(c) \in Message
    BY <1>2, MessageTypes DEF Attach, Send
  <2> QED BY <1>1, <1>2, <2>1 DEF Attach, TypeInv
<1>3. CASE Ping(c)
  <2>1. channel' = Append(channel, AnswerMsg(c, Pong)) /\ AnswerMsg(c, Pong) \in Message
    BY <1>3, MessageTypes DEF Ping, Send
  <2>2. pings' \in [Connections -> Nat]
    BY SMTT(30), <1>3 DEF Ping, TypeInv
  <2>3. UNCHANGED <<reader, grant, asked, detached, logicVars, writerVars, queueVars>>
    BY <1>3 DEF Ping
  <2> QED BY <1>1, <2>1, <2>2, <2>3 DEF TypeInv
<1>4. CASE Authenticate(c)
  <2>1. channel' = Append(channel, AnswerMsg(c, AuthResult)) /\ AnswerMsg(c, AuthResult) \in Message
    BY <1>4, MessageTypes DEF Authenticate, Send
  <2> QED BY <1>1, <1>4, <2>1 DEF Authenticate, TypeInv
<1>5. ASSUME NEW g \in Grants, Report(c, g), caps[c] = NoCaps
      PROVE  TypeInv'
  <2>1. channel' = Append(channel, AuthedMsg(c, Capabilities(g))) /\ AuthedMsg(c, Capabilities(g)) \in Message
    BY <1>5, MessageTypes DEF Report, Send
  <2> QED BY <1>1, <1>5, <2>1 DEF Report, TypeInv
<1>6. ASSUME NEW f \in Filters, SetTopicFilter(c, f)
      PROVE  TypeInv'
  <2>1. channel' = Append(channel, FilterMsg(c, f)) /\ FilterMsg(c, f) \in Message
    BY <1>6, MessageTypes DEF SetTopicFilter, Send, FilterSends
  <2>2. asked[c] \in Seq(Filters) /\ MaxFilters \in Nat
    BY SetupFacts DEF TypeInv
  <2>3. asked' = [asked EXCEPT ![c] = Append(@, f)] /\ Len(asked[c]) < MaxFilters
    BY <1>6 DEF SetTopicFilter
  <2>4. asked' \in [Connections -> Seq(Filters)]
    BY <2>2, <2>3 DEF TypeInv
  <2>5. Len(Append(asked[c], f)) = Len(asked[c]) + 1 /\ Len(asked[c]) \in Nat
    BY <2>2
  <2>6. \A d \in Connections :
          Len(asked'[d]) \in (IF reader'[d] = "filtering" THEN 1 ELSE 0)..MaxFilters
    <3> TAKE d \in Connections
    <3>1. CASE d = c
      <4>1. asked'[c] = Append(asked[c], f) /\ reader'[c] = "filtering"
        BY <1>6, <2>3 DEF TypeInv, SetTopicFilter
      <4> QED BY <2>2, <2>3, <2>5, <3>1, <4>1
    <3>2. CASE d # c
      <4>1. asked'[d] = asked[d] /\ reader'[d] = reader[d]
        BY <1>6, <2>3, <3>2 DEF TypeInv, SetTopicFilter
      <4> QED BY <4>1 DEF TypeInv
    <3> QED BY <3>1, <3>2
  <2> QED BY <1>1, <1>6, <2>1, <2>4, <2>6 DEF SetTopicFilter, TypeInv
<1>7. CASE AnswerFilter(c)
  <2>1. FilterResult(Len(asked[c])) \in FilterResults
    BY <1>7 DEF FilterResults, TypeInv, AnswerFilter
  <2>2. channel' = Append(channel, AnswerMsg(c, FilterResult(Len(asked[c]))))
    BY <1>7 DEF AnswerFilter, Send, FilterSends
  <2>3. AnswerMsg(c, FilterResult(Len(asked[c]))) \in Message
    BY <2>1, MessageTypes
  <2>4. MaxFilters \in Nat /\ \A d \in Connections : Len(asked[d]) \in Nat
    BY SetupFacts DEF TypeInv
  <2>5. \A d \in Connections :
          Len(asked'[d]) \in (IF reader'[d] = "filtering" THEN 1 ELSE 0)..MaxFilters
    BY <1>7, <2>4 DEF TypeInv, AnswerFilter
  <2> QED BY <1>1, <1>7, <2>2, <2>3, <2>5 DEF AnswerFilter, TypeInv
<1>8. CASE Detach(c)
  <2>1. channel' = Append(channel, DetachMsg(c)) /\ DetachMsg(c) \in Message
    BY <1>8, MessageTypes DEF Detach, Send
  <2> QED BY <1>1, <1>8, <2>1 DEF Detach, TypeInv
<1>9. ASSUME NEW g \in Grants, Report(c, g)
      PROVE  caps[c] = NoCaps
  BY <1>9 DEF Report, ChannelInv, SessionInv
<1> QED BY <1>2, <1>3, <1>4, <1>5, <1>6, <1>7, <1>8, <1>9

LEMMA TypeOfCommits ==
  ASSUME TypeInv, setup' = setup,
         \/ \E kind \in Kinds : Commit(kind)
         \/ \E c \in Connections : CommitTo(c)
  PROVE  TypeInv'
<1>0. /\ Kinds' = Kinds /\ Grants' = Grants /\ Filters' = Filters /\ All' = All
      /\ CommitCapacity' = CommitCapacity /\ LifecycleCapacity' = LifecycleCapacity
      /\ MaxFilters' = MaxFilters /\ Message' = Message /\ Committed' = Committed
      /\ Item' = Item
  BY SetupStays
<1>1. ASSUME NEW r \in Committed, r.n = committed + 1, PushAddressed(r),
             replies' \in 0..committed'
      PROVE  TypeInv'
  <2>1. /\ ring \in Seq(Committed) /\ Len(ring) <= CommitCapacity /\ CommitCapacity \in Nat \ {0}
        /\ committed \in Nat /\ lifecycle_evicted \in Nat
        /\ evictions \subseteq Committed /\ refusals \subseteq Committed
    BY SetupFacts DEF TypeInv
  <2>2. committed' \in Nat
    BY <1>1, <2>1 DEF PushAddressed
  <2>3. /\ ring' \in Seq(Committed) /\ Len(ring') <= CommitCapacity
        /\ evictions' \subseteq Committed /\ refusals' \subseteq Committed
        /\ lifecycle_evicted' \in Nat
    <3>1. CASE Len(ring) < CommitCapacity /\ ring' = Append(ring, r)
                 /\ UNCHANGED <<lifecycle_evicted, evictions, refusals>>
      BY <1>1, <2>1, <3>1
    <3>2. CASE /\ Len(ring) = CommitCapacity
               /\ ring' = Append(Tail(ring), r)
               /\ evictions' = evictions \cup {Head(ring)}
               /\ lifecycle_evicted' =
                    lifecycle_evicted + (IF Head(ring).kind.slot # NoSlot THEN 1 ELSE 0)
               /\ UNCHANGED refusals
      <4>1. ring # <<>>
        BY <2>1, <3>2
      <4>2. Tail(ring) \in Seq(Committed) /\ Len(Tail(ring)) = Len(ring) - 1
            /\ Head(ring) \in Committed
        BY <2>1, <4>1
      <4> QED BY <1>1, <2>1, <3>2, <4>2
    <3>3. CASE refusals' = refusals \cup {r} /\ UNCHANGED <<ring, lifecycle_evicted, evictions>>
      BY <1>1, <2>1, <3>3
    <3> QED BY <1>1, <3>1, <3>2, <3>3 DEF PushAddressed
  <2> QED BY <1>0, <1>1, <2>2, <2>3 DEF TypeInv, PushAddressed, readerVars, writerVars, queueVars
<1>2. committed \in Nat /\ replies \in 0..committed
  BY DEF TypeInv
<1>3. ASSUME NEW kind \in Kinds, Commit(kind)
      PROVE  TypeInv'
  <2> DEFINE r == Record(committed + 1, kind, NoOne)
  <2>1. r \in Committed /\ r.n = committed + 1
    BY <1>2 DEF Record, Committed
  <2>2. PushAddressed(r) /\ replies' = replies /\ committed' = committed + 1
    BY <1>3, <2>1 DEF Commit, PushAddressed
  <2> HIDE DEF r
  <2> QED BY <1>1, <1>2, <2>1, <2>2
<1>4. ASSUME NEW c \in Connections, CommitTo(c)
      PROVE  TypeInv'
  <2> DEFINE r == Record(committed + 1, ReplyKind, c)
  <2>1. r \in Committed /\ r.n = committed + 1
    BY <1>2 DEF Record, Committed
  <2>2. PushAddressed(r) /\ replies' = replies + 1 /\ committed' = committed + 1
    BY <1>4, <2>1 DEF CommitTo, PushAddressed
  <2> HIDE DEF r
  <2> QED BY <1>1, <1>2, <2>1, <2>2
<1> QED BY <1>3, <1>4

(* The head of the channel, when there is one. *)
LEMMA TakeFacts ==
  ASSUME TypeInv, NEW type, Take(type)
  PROVE  /\ Head(channel) \in Message /\ Head(channel) = channel[1] /\ 1 \in DOMAIN channel
         /\ Head(channel).type = type /\ Head(channel).id \in Connections
         /\ wPc = "control" /\ newcomer = NoOne
         /\ channel' = Tail(channel) /\ channel' \in Seq(Message)
         /\ UNCHANGED <<logicVars, readerVars>>
<1>1. channel \in Seq(Message) /\ channel # <<>>
  BY DEF TypeInv, Take
<1>2. Head(channel) \in Message /\ Head(channel) = channel[1] /\ 1 \in DOMAIN channel
      /\ Tail(channel) \in Seq(Message)
  BY <1>1
<1>3. Head(channel).id \in Connections
  BY <1>2, MessageForms
<1>4. newcomer = NoOne /\ wPc = "control"
  BY DEF TypeInv, Take
<1> QED BY <1>2, <1>3, <1>4 DEF Take

LEMMA DeliverFacts ==
  ASSUME TypeInv, NEW c \in Connections, NEW r \in Item, ~IsBoundary(r), DeliverTo(c, r)
  PROVE  /\ stream' \in [Connections -> Seq(Item)]
         /\ boundaries' \in [Connections -> 0..LifecycleCapacity]
         /\ closed' = closed /\ unaddressed' \in Nat
         /\ c \in held =>
              /\ unaddressed' = unaddressed
              /\ stream'[c] = Append(stream[c], r)
              /\ \A d \in Connections : d # c => stream'[d] = stream[d]
         /\ c \notin held => unaddressed' = unaddressed + 1 /\ stream' = stream
<1>1. CASE c \in held
  <2>1. Push({c}, r) /\ unaddressed' = unaddressed
    BY <1>1 DEF DeliverTo
  <2>2. {c} \in SUBSET Connections
    OBVIOUS
  <2>3. /\ stream' \in [Connections -> Seq(Item)]
        /\ boundaries' \in [Connections -> 0..LifecycleCapacity]
        /\ closed' = closed
        /\ \A d \in Connections :
             stream'[d] = stream[d] \/ (d \in {c} /\ stream'[d] = Append(stream[d], r))
        /\ \A d \in {c} : stream'[d] = Append(stream[d], r)
    BY <2>1, <2>2, PushFacts
  <2>4. unaddressed \in Nat
    BY DEF TypeInv
  <2> QED BY <1>1, <2>1, <2>3, <2>4
<1>2. CASE c \notin held
  <2>1. unaddressed' = unaddressed + 1 /\ stream' = stream /\ boundaries' = boundaries
        /\ closed' = closed
    BY <1>2 DEF DeliverTo, queueVars
  <2>2. /\ stream \in [Connections -> Seq(Item)] /\ unaddressed \in Nat
        /\ boundaries \in [Connections -> 0..LifecycleCapacity]
    BY DEF TypeInv
  <2> QED BY <1>2, <2>1, <2>2
<1> QED BY <1>1, <1>2

LEMMA TypeOfWriter ==
  ASSUME TypeInv, ChannelInv, RecordsInv, setup' = setup,
         WriterThread \/ \E c \in Connections : Drain(c)
  PROVE  TypeInv'
<1>0. /\ Kinds' = Kinds /\ Grants' = Grants /\ Filters' = Filters /\ All' = All
      /\ CommitCapacity' = CommitCapacity /\ LifecycleCapacity' = LifecycleCapacity
      /\ MaxFilters' = MaxFilters /\ Message' = Message /\ Committed' = Committed
      /\ Item' = Item
  BY SetupStays
<1>1. ASSUME channel' \in Seq(Message), UNCHANGED <<logicVars, readerVars>>,
             wPc' \in {"control", "batch", "replay"}, taken' \in Nat,
             newcomer' \in (IF wPc' = "replay" THEN held' ELSE {NoOne}),
             held' \subseteq Connections, held' \cap closed' \subseteq {newcomer'},
             caps' \in [Connections -> {NoCaps} \cup {Capabilities(g) : g \in Grants}],
             \A c \in Connections : caps'[c] \in {NoCaps, Capabilities(grant[c])},
             filter' \in [Connections -> Filters \cup {All}],
             retained' \in Seq(Committed),
             stream' \in [Connections -> Seq(Item)],
             boundaries' \in [Connections -> 0..LifecycleCapacity],
             closed' \subseteq Connections, unaddressed' \in Nat
      PROVE  TypeInv'
  BY <1>0, <1>1 DEF TypeInv, logicVars, readerVars
<1>2. ASSUME NEW c \in Connections, Drain(c)
      PROVE  TypeInv'
  <2>1. boundaries[c] \in 0..LifecycleCapacity /\ LifecycleCapacity \in Nat
    BY SetupFacts DEF TypeInv
  <2>2. boundaries' \in [Connections -> 0..LifecycleCapacity]
    <3>1. boundaries[c] > 0 /\ boundaries' = [boundaries EXCEPT ![c] = @ - 1]
      BY <1>2 DEF Drain
    <3>2. boundaries[c] - 1 \in 0..LifecycleCapacity
      BY <2>1, <3>1
    <3> QED BY <3>1, <3>2 DEF TypeInv
  <2>3. UNCHANGED <<channel, logicVars, readerVars, writerVars, stream, closed>>
    BY <1>2 DEF Drain
  <2> QED BY <1>1, <2>2, <2>3 DEF TypeInv, writerVars
<1>3. CASE TakeAttach
  <2> DEFINE c == Head(channel).id
  <2>1. Take("Attach") /\ held' = held \cup {c} /\ Push({c}, Handshake)
        /\ UNCHANGED <<InBatch, caps, filter, retained, unaddressed>>
    BY <1>3 DEF TakeAttach
  <2>2. /\ Head(channel) = channel[1] /\ 1 \in DOMAIN channel /\ Head(channel).type = "Attach"
        /\ c \in Connections /\ channel' \in Seq(Message)
        /\ UNCHANGED <<logicVars, readerVars>>
    BY <2>1, TakeFacts
  <2>3. c \notin closed
    BY <2>2 DEF ChannelInv, AttachInv, IsFor
  <2>4. Handshake \in Item /\ ~IsBoundary(Handshake)
    BY ItemFacts DEF Item
  <2> HIDE DEF c
  <2>5. {c} \in SUBSET Connections
    BY <2>2
  <2>6. /\ stream' \in [Connections -> Seq(Item)] /\ closed' = closed
        /\ boundaries' \in [Connections -> 0..LifecycleCapacity]
    BY <2>1, <2>4, <2>5, PushFacts
  <2> QED BY <1>1, <2>1, <2>2, <2>3, <2>6 DEF TypeInv, InBatch
<1>4. CASE TakeDetach
  <2>1. /\ Take("Detach") /\ held' = held \ {Head(channel).id}
        /\ UNCHANGED <<InBatch, caps, filter, retained, unaddressed, queueVars>>
    BY <1>4 DEF TakeDetach
  <2>2. channel' \in Seq(Message) /\ UNCHANGED <<logicVars, readerVars>> /\ wPc = "control"
    BY <2>1, TakeFacts
  <2> QED BY <1>1, <2>1, <2>2 DEF TypeInv, InBatch, queueVars
<1>5. CASE TakeAnswer
  <2> DEFINE c == Head(channel).id
             r == Head(channel).record
  <2>1. Take("Answer") /\ DeliverTo(c, r) /\ UNCHANGED <<InBatch, held, caps, filter, retained>>
    BY <1>5 DEF TakeAnswer
  <2>2. /\ Head(channel) \in Message /\ Head(channel).type = "Answer" /\ c \in Connections
        /\ channel' \in Seq(Message) /\ UNCHANGED <<logicVars, readerVars>>
    BY <2>1, TakeFacts
  <2>3. r \in {Pong, AuthResult} \cup FilterResults
    BY <2>2, MessageForms
  <2>4. r \in Item /\ ~IsBoundary(r)
    BY <2>3, ItemFacts DEF Item, FilterResults
  <2> HIDE DEF c, r
  <2>5. /\ stream' \in [Connections -> Seq(Item)] /\ closed' = closed /\ unaddressed' \in Nat
        /\ boundaries' \in [Connections -> 0..LifecycleCapacity]
    BY <2>1, <2>2, <2>4, DeliverFacts
  <2> QED BY <1>1, <2>1, <2>2, <2>5 DEF TypeInv, InBatch
<1>6. CASE TakeAuthenticated
  <2> DEFINE c == Head(channel).id
             g == Head(channel).caps
  <2>1. /\ Take("Authenticated")
        /\ IF c \in held
             THEN caps' = [caps EXCEPT ![c] = g] /\ wPc' = "replay" /\ taken' = 0 /\ newcomer' = c
             ELSE UNCHANGED <<InBatch, caps>>
        /\ UNCHANGED <<held, filter, retained, unaddressed, queueVars>>
    BY <1>6 DEF TakeAuthenticated
  <2>2. /\ Head(channel) \in Message /\ Head(channel).type = "Authenticated" /\ c \in Connections
        /\ channel' \in Seq(Message) /\ UNCHANGED <<logicVars, readerVars>>
        /\ Head(channel) = channel[1] /\ 1 \in DOMAIN channel /\ newcomer = NoOne
    BY <2>1, TakeFacts
  <2>3. g = Capabilities(grant[c])
    BY <2>2 DEF ChannelInv, SessionInv, IsFor
  <2>4. g \in {Capabilities(h) : h \in Grants}
    BY <2>2, MessageForms
  <2> HIDE DEF c, g
  <2>5. caps' \in [Connections -> {NoCaps} \cup {Capabilities(h) : h \in Grants}]
        /\ \A d \in Connections : caps'[d] \in {NoCaps, Capabilities(grant[d])}
    BY <2>1, <2>2, <2>3, <2>4 DEF TypeInv
  <2>6. /\ wPc' \in {"control", "batch", "replay"} /\ taken' \in Nat
        /\ newcomer' \in (IF wPc' = "replay" THEN held ELSE {NoOne})
        /\ held \cap closed = {}
    <3>1. held \cap closed = {}
      BY <2>2, ConnectionsAssumption DEF TypeInv
    <3> QED BY <2>1, <2>2, <3>1 DEF TypeInv, InBatch
  <2> QED BY <1>1, <2>1, <2>2, <2>5, <2>6 DEF TypeInv, queueVars
<1>7. CASE TakeTopicFilter
  <2> DEFINE c == Head(channel).id
  <2>1. /\ Take("TopicFilter")
        /\ filter' = IF c \in held THEN [filter EXCEPT ![c] = Head(channel).topics] ELSE filter
        /\ UNCHANGED <<InBatch, held, caps, retained, unaddressed, queueVars>>
    BY <1>7 DEF TakeTopicFilter
  <2>2. /\ Head(channel) \in Message /\ Head(channel).type = "TopicFilter"
        /\ channel' \in Seq(Message) /\ UNCHANGED <<logicVars, readerVars>>
    BY <2>1, TakeFacts
  <2>3. Head(channel).topics \in Filters
    BY <2>2, MessageForms
  <2>4. filter' \in [Connections -> Filters \cup {All}]
    BY <2>1, <2>3 DEF TypeInv
  <2> QED BY <1>1, <2>1, <2>2, <2>4 DEF TypeInv, InBatch, queueVars
<1>8. CASE Replay
  <2> DEFINE r == retained[taken + 1]
  <2>1. /\ wPc = "replay" /\ taken < Len(retained) /\ taken' = taken + 1
        /\ IF Covers(caps[newcomer], r.kind.need) THEN Push({newcomer}, r) ELSE UNCHANGED queueVars
        /\ UNCHANGED <<channel, logicVars, readerVars, wPc, newcomer, held, caps, filter,
                       retained, unaddressed>>
    BY <1>8 DEF Replay
  <2>2. r \in Item /\ newcomer \in held /\ {newcomer} \in SUBSET Connections
    BY <2>1 DEF TypeInv, Item
  <2> HIDE DEF r
  <2>3. /\ stream' \in [Connections -> Seq(Item)] /\ closed' \subseteq closed \cup {newcomer}
        /\ boundaries' \in [Connections -> 0..LifecycleCapacity]
    <3>1. CASE Push({newcomer}, r)
      BY <2>2, <3>1, PushFacts
    <3>2. CASE UNCHANGED queueVars
      BY <3>2 DEF queueVars, TypeInv
    <3> QED BY <2>1, <3>1, <3>2
  <2>4. held \cap closed \subseteq {newcomer}
    BY DEF TypeInv
  <2>5. taken' \in Nat /\ held' \cap closed' \subseteq {newcomer'} /\ closed' \subseteq Connections
    BY <2>1, <2>2, <2>3, <2>4 DEF TypeInv
  <2> QED BY <1>1, <2>1, <2>3, <2>5 DEF TypeInv
<1>9. CASE ReplayEnds
  <2>1. /\ wPc' = "control" /\ taken' = 0 /\ newcomer' = NoOne /\ held' = held \ closed
        /\ UNCHANGED <<channel, logicVars, readerVars, caps, filter, retained, unaddressed, queueVars>>
    BY <1>9 DEF ReplayEnds
  <2> QED BY <1>1, <2>1 DEF TypeInv, queueVars
<1>10. CASE ControlEmpty \/ BatchEnds
  <2>1. /\ wPc \in {"control", "batch"} /\ wPc' \in {"control", "batch"} /\ taken' \in Nat
        /\ UNCHANGED <<channel, logicVars, readerVars, newcomer, held, caps, filter, retained,
                       unaddressed, queueVars>>
    BY <1>10 DEF ControlEmpty, BatchEnds, TypeInv
  <2> QED BY <1>1, <2>1 DEF TypeInv, queueVars
<1>11. CASE Fan
  <2> DEFINE r == Head(ring)
  <2>1. /\ wPc = "batch" /\ ring # <<>> /\ ring' = Tail(ring)
        /\ retained' = IF r.kind.slot \in 0..(RetainedSlots - 1) THEN Keep(r) ELSE retained
        /\ IF r.to # NoOne THEN DeliverTo(r.to, r)
                           ELSE Push(Receivers(r.kind), r) /\ UNCHANGED unaddressed
        /\ held' = held \ closed'
        /\ wPc' \in {"control", "batch"} /\ taken' \in {0, taken + 1}
        /\ UNCHANGED <<channel, committed, replies, lifecycle_evicted, evictions,
                       refusals, readerVars, newcomer, caps, filter>>
    BY <1>11 DEF Fan
  <2>2. /\ r \in Committed /\ r \in Item /\ ring' \in Seq(Committed) /\ Len(ring') <= CommitCapacity
    <3>1. ring \in Seq(Committed) /\ Len(ring) <= CommitCapacity /\ CommitCapacity \in Nat
      BY SetupFacts DEF TypeInv
    <3> QED BY <2>1, <3>1 DEF Item
  <2>3. Receivers(r.kind) \in SUBSET Connections /\ Receivers(r.kind) \subseteq held
    BY DEF Receivers, TypeInv
  <2>4. r.to # NoOne => r.to \in Connections /\ ~IsBoundary(r)
    <3>1. r.to # NoOne => r.to \in Connections
      BY <2>2 DEF Committed
    <3>2. r.to # NoOne => r.kind = ReplyKind
      <4>1. 1 \in DOMAIN ring /\ r = ring[1]
        BY <2>1 DEF TypeInv
      <4> QED BY <4>1 DEF RecordsInv, RingInv
    <3> QED BY <3>1, <3>2, ReplyFacts DEF IsBoundary
  <2> HIDE DEF r
  <2>5. /\ stream' \in [Connections -> Seq(Item)] /\ closed' \subseteq Connections
        /\ boundaries' \in [Connections -> 0..LifecycleCapacity] /\ unaddressed' \in Nat
    <3>0. closed \subseteq Connections /\ unaddressed \in Nat
      BY DEF TypeInv
    <3>1. CASE r.to # NoOne
      BY <2>1, <2>2, <2>4, <3>0, <3>1, DeliverFacts
    <3>2. CASE r.to = NoOne
      <4>1. Push(Receivers(r.kind), r) /\ unaddressed' = unaddressed
        BY <2>1, <3>2
      <4> QED BY <2>2, <2>3, <3>0, <4>1, PushFacts
    <3> QED BY <3>1, <3>2
  <2>6. retained' \in Seq(Committed)
    <3>1. Keep(r) \in Seq(Committed)
      BY <2>2, KeepFacts DEF Keeps, RecordsInv
    <3> QED BY <2>1, <3>1 DEF TypeInv
  <2>7. newcomer = NoOne
    BY <2>1 DEF TypeInv
  <2> QED BY <1>0, <2>1, <2>2, <2>5, <2>6, <2>7 DEF TypeInv, readerVars
<1> QED BY <1>2, <1>3, <1>4, <1>5, <1>6, <1>7, <1>8, <1>9, <1>10, <1>11 DEF WriterThread
-----------------------------------------------------------------------------
(* The channel stays, and streams grow by records. *)

LEMMA ChannelStays ==
  ASSUME TypeInv, TypeInv', ChannelInv, setup' = setup, UNCHANGED <<channel, readerVars, caps, filter>>,
         held' \subseteq held, closed' \subseteq closed \cup held,
         \A c \in Connections :
           \/ stream'[c] = stream[c]
           \/ \E r \in Committed :
                /\ c \in held /\ stream'[c] = Append(stream[c], r)
                /\ IsFannedOut(r) => caps[c] # NoCaps
  PROVE  ChannelInv'
<1> SUFFICES ASSUME NEW c \in Connections
             PROVE  AttachInv(c)' /\ SessionInv(c)' /\ FilterInv(c)'
  BY DEF ChannelInv
<1>1. AttachInv(c) /\ SessionInv(c) /\ FilterInv(c)
  BY DEF ChannelInv
<1>2. UNCHANGED <<channel, reader, asked, pings, grant>> /\ MaxFilters' = MaxFilters
  BY SetupStays DEF readerVars
<1>3. /\ \A i, t : IsFor(i, t, c)' <=> IsFor(i, t, c)
      /\ \A t : Awaits(t, c)' <=> Awaits(t, c)
      /\ Gone(c) => Gone(c)'
      /\ \A i : AnsweredBefore(i, c)' <=> AnsweredBefore(i, c)
  BY <1>2 DEF IsFor, Awaits, Gone, AnsweredBefore
<1>4. stream[c] \in Seq(Item) /\ stream'[c] \in Seq(Item)
  BY SetupStays DEF TypeInv
<1>5. /\ DOMAIN stream[c] \subseteq DOMAIN stream'[c]
      /\ \A i \in DOMAIN stream[c] : stream'[c][i] = stream[c][i]
      /\ \A i \in DOMAIN stream'[c] \ DOMAIN stream[c] :
           /\ i > 1 \/ stream[c] = <<>>
           /\ c \in held /\ stream'[c][i] \in Committed
           /\ IsFannedOut(stream'[c][i]) => caps[c] # NoCaps
      /\ stream[c] # <<>> => stream'[c] # <<>>
      /\ c \notin held => stream'[c] = stream[c]
  <2>1. CASE stream'[c] = stream[c]
    BY <2>1
  <2>2. CASE stream'[c] # stream[c]
    <3>1. PICK r \in Committed :
            /\ c \in held /\ stream'[c] = Append(stream[c], r)
            /\ IsFannedOut(r) => caps[c] # NoCaps
      BY <2>2
    <3>2. r \in Item
      BY DEF Item
    <3>3. /\ DOMAIN stream'[c] = DOMAIN stream[c] \cup {Len(stream[c]) + 1}
          /\ DOMAIN stream[c] = 1..Len(stream[c]) /\ Len(stream[c]) \in Nat
          /\ \A i \in DOMAIN stream[c] : stream'[c][i] = stream[c][i]
          /\ stream'[c][Len(stream[c]) + 1] = r
      BY <1>4, <3>1, <3>2, AppendFacts
    <3>4. Len(stream[c]) + 1 > 1 \/ stream[c] = <<>>
      BY <1>4
    <3>5. stream'[c] # <<>>
      BY <1>4, <3>3
    <3> QED BY <3>1, <3>3, <3>4, <3>5
  <2> QED BY <2>1, <2>2
<1>6. AttachInv(c)'
  <2>1. c \in held => stream[c] # <<>>
    BY <1>1 DEF AttachInv
  <2>2. \A i \in DOMAIN stream'[c] : stream'[c][i] = Handshake <=> i = 1
    BY <1>1, <1>5, <2>1, ItemFacts DEF AttachInv
  <2>3. c \notin held /\ c \notin closed => c \notin closed'
    OBVIOUS
  <2> QED BY <1>1, <1>2, <1>3, <1>5, <2>1, <2>2, <2>3 DEF AttachInv
<1>7. SessionInv(c)'
  <2>1. IsAnswered(c) => IsAnswered(c)'
    BY <1>5 DEF IsAnswered
  <2> QED BY <1>1, <1>2, <1>3, <1>5, <2>1 DEF SessionInv
<1>8. FilterInv(c)'
  <2>1. \A k : HasResult(c, k)' => HasResult(c, k)
    BY <1>5, ItemFacts DEF HasResult
  <2>2. \A j, k : /\ FilterSince(c, k)' <=> FilterSince(c, k)
                  /\ SendsSince(j, c, k)' <=> SendsSince(j, c, k)
                  /\ IsResult(j, c, k)' <=> IsResult(j, c, k)
    BY <1>2 DEF FilterSince, SendsSince, IsResult
  <2>3. \A i, k : Answerable(c, k, i) => Answerable(c, k, i)'
    BY <1>2, <1>3, <2>2 DEF Answerable
  <2> QED BY <1>1, <1>2, <1>3, <2>1, <2>2, <2>3 DEF FilterInv
<1> QED BY <1>6, <1>7, <1>8
-----------------------------------------------------------------------------
(* A message is taken: the others move up by one. *)

LEMMA ShiftFacts ==
  ASSUME TypeInv, channel # <<>>, channel' = Tail(channel), UNCHANGED readerVars,
         NEW c \in Connections
  PROVE  /\ \A i \in DOMAIN channel' :
              i \in Nat \ {0} /\ i + 1 \in DOMAIN channel /\ channel'[i] = channel[i + 1]
         /\ Len(channel') + 1 = Len(channel) /\ Len(channel) \in Nat \ {0}
         /\ DOMAIN channel = 1..Len(channel)
         /\ \A i \in Int : \A t : IsFor(i, t, c)' <=> i >= 1 /\ IsFor(i + 1, t, c)
         /\ \A t : Awaits(t, c)' => Awaits(t, c)
         /\ \A i \in Int : \A k : IsResult(i, c, k)' <=> i >= 1 /\ IsResult(i + 1, c, k)
         /\ \A i \in DOMAIN channel' : \A k : SendsSince(i, c, k)' <=> SendsSince(i + 1, c, k)
         /\ \A i \in Int : AnsweredBefore(i + 1, c) =>
              AnsweredBefore(i, c)' \/ channel[1] = AnswerMsg(c, AuthResult)
<1>1. /\ channel \in Seq(Message) /\ DOMAIN channel = 1..Len(channel)
      /\ Len(channel) \in Nat \ {0}
      /\ channel' \in Seq(Message) /\ Len(channel') = Len(channel) - 1
      /\ DOMAIN channel' = 1..(Len(channel) - 1)
      /\ \A i \in DOMAIN channel' : channel'[i] = channel[i + 1]
  <2>1. channel \in Seq(Message)
    BY DEF TypeInv
  <2> QED BY <2>1, TailFacts
<1>2. \A i \in Int : i \in DOMAIN channel' <=> i >= 1 /\ i + 1 \in DOMAIN channel
  BY <1>1
<1>3. \A i \in Int : \A t : IsFor(i, t, c)' <=> i >= 1 /\ IsFor(i + 1, t, c)
  BY <1>1, <1>2 DEF IsFor
<1>4. \A t : Awaits(t, c)' => Awaits(t, c)
  BY <1>1, <1>2 DEF Awaits, IsFor
<1>5. \A i \in Int : \A k : IsResult(i, c, k)' <=> i >= 1 /\ IsResult(i + 1, c, k)
  BY <1>1, <1>2 DEF IsResult
<1>6. asked' = asked
  BY DEF readerVars
<1>7. \A i \in DOMAIN channel' : \A k : SendsSince(i, c, k)' <=> SendsSince(i + 1, c, k)
  BY <1>1, <1>6 DEF SendsSince
<1>8. ASSUME NEW i \in Int, AnsweredBefore(i + 1, c), channel[1] # AnswerMsg(c, AuthResult)
      PROVE  AnsweredBefore(i, c)'
  <2>1. PICK j \in 1..((i + 1) - 1) : j \in DOMAIN channel /\ channel[j] = AnswerMsg(c, AuthResult)
    BY <1>8 DEF AnsweredBefore
  <2>2. j - 1 \in 1..(i - 1) /\ j - 1 \in DOMAIN channel' /\ (j - 1) + 1 = j
    BY <1>1, <1>8, <2>1
  <2>3. channel'[j - 1] = AnswerMsg(c, AuthResult)
    BY <1>1, <2>1, <2>2
  <2> QED BY <2>2, <2>3 DEF AnsweredBefore
<1>9. \A i \in DOMAIN channel' :
        i \in Nat \ {0} /\ i + 1 \in DOMAIN channel /\ channel'[i] = channel[i + 1]
  BY <1>1
<1> QED BY <1>1, <1>3, <1>4, <1>5, <1>7, <1>8, <1>9

LEMMA AnswerableShift ==
  ASSUME TypeInv, channel # <<>>, channel' = Tail(channel), UNCHANGED readerVars,
         NEW c \in Connections, NEW k \in Nat, NEW i \in Nat \ {0}, Answerable(c, k, i + 1),
         Gone(c) => Gone(c)',
         IF IsFor(1, "TopicFilter", c)
           THEN channel[1] = FilterMsg(c, filter'[c]) \/ Gone(c)
           ELSE filter'[c] = filter[c]
  PROVE  Answerable(c, k, i)'
<1>0. asked' = asked
  BY DEF readerVars
<1>1. /\ \A j \in Int : IsFor(j, "TopicFilter", c)' <=> j >= 1 /\ IsFor(j + 1, "TopicFilter", c)
      /\ \A j \in DOMAIN channel' : SendsSince(j, c, k)' <=> SendsSince(j + 1, c, k)
  BY ShiftFacts
<1>2. k <= Len(asked[c])
  BY DEF Answerable
<1>3. ASSUME NEW j \in 1..(i - 1), IsFor(j, "TopicFilter", c)',
             \A l \in (j + 1)..(i - 1) : ~IsFor(l, "TopicFilter", c)'
      PROVE  SendsSince(j, c, k)'
  <2>1. j + 1 \in 1..((i + 1) - 1) /\ IsFor(j + 1, "TopicFilter", c) /\ j \in DOMAIN channel'
    BY <1>1, <1>3 DEF IsFor
  <2>2. ASSUME NEW l \in ((j + 1) + 1)..((i + 1) - 1), IsFor(l, "TopicFilter", c)
        PROVE  FALSE
    <3>1. l - 1 \in (j + 1)..(i - 1) /\ l - 1 \in Int /\ l - 1 >= 1 /\ (l - 1) + 1 = l
      OBVIOUS
    <3> QED BY <1>1, <1>3, <2>2, <3>1
  <2>3. SendsSince(j + 1, c, k)
    BY <2>1, <2>2 DEF Answerable
  <2> QED BY <1>1, <2>1, <2>3
<1>4. ASSUME \A j \in 1..(i - 1) : ~IsFor(j, "TopicFilter", c)', ~Gone(c)'
      PROVE  FilterSince(c, k)'
  <2>1. ASSUME NEW l \in 2..((i + 1) - 1), IsFor(l, "TopicFilter", c)
        PROVE  FALSE
    <3>1. l - 1 \in 1..(i - 1) /\ l - 1 \in Int /\ l - 1 >= 1 /\ (l - 1) + 1 = l
      OBVIOUS
    <3> QED BY <1>1, <1>4, <2>1, <3>1
  <2>2. CASE IsFor(1, "TopicFilter", c)
    <3>1. 1 \in 1..((i + 1) - 1) /\ \A l \in (1 + 1)..((i + 1) - 1) : ~IsFor(l, "TopicFilter", c)
      BY <2>1
    <3>2. SendsSince(1, c, k)
      BY <2>2, <3>1 DEF Answerable
    <3>3. PICK m \in k..Len(asked[c]) : channel[1] = FilterMsg(c, asked[c][m])
      BY <3>2 DEF SendsSince
    <3>4. filter'[c] = asked[c][m]
      BY <1>4, <2>2, <3>3 DEF FilterMsg
    <3> QED BY <1>0, <3>4 DEF FilterSince
  <2>3. CASE ~IsFor(1, "TopicFilter", c)
    <3>1. \A j \in 1..((i + 1) - 1) : ~IsFor(j, "TopicFilter", c)
      BY <2>1, <2>3
    <3>2. FilterSince(c, k)
      BY <1>4, <3>1 DEF Answerable
    <3> QED BY <1>0, <2>3, <3>2 DEF FilterSince
  <2> QED BY <2>2, <2>3
<1> QED BY <1>0, <1>2, <1>3, <1>4 DEF Answerable

(* Taking a message keeps the order of filters and the answers to them.    *)
LEMMA FilterTaken ==
  ASSUME TypeInv, setup' = setup, channel # <<>>, channel' = Tail(channel), UNCHANGED readerVars,
         NEW c \in Connections, FilterInv(c), Gone(c) => Gone(c)',
         IF IsFor(1, "TopicFilter", c)
           THEN \/ channel[1] = FilterMsg(c, filter'[c])
                \/ Gone(c) /\ filter'[c] = filter[c]
           ELSE filter'[c] = filter[c],
         \A k \in 1..MaxFilters : HasResult(c, k)' =>
           HasResult(c, k) \/ (IsResult(1, c, k) /\ c \in held)
  PROVE  FilterInv(c)'
<1>1. UNCHANGED <<reader, asked>> /\ MaxFilters' = MaxFilters /\ MaxFilters \in Nat
  BY SetupStays, SetupFacts DEF readerVars, TypeInv
<1>2. /\ \A i \in DOMAIN channel' :
           i \in Nat \ {0} /\ i + 1 \in DOMAIN channel /\ channel'[i] = channel[i + 1]
      /\ Len(channel') + 1 = Len(channel) /\ Len(channel) \in Nat \ {0}
      /\ DOMAIN channel = 1..Len(channel)
      /\ \A i \in Int : \A t : IsFor(i, t, c)' <=> i >= 1 /\ IsFor(i + 1, t, c)
      /\ \A i \in Int : \A k : IsResult(i, c, k)' <=> i >= 1 /\ IsResult(i + 1, c, k)
      /\ \A i \in DOMAIN channel' : \A k : SendsSince(i, c, k)' <=> SendsSince(i + 1, c, k)
  BY ShiftFacts
<1>3. \A k \in Nat : \A i \in Nat \ {0} : Answerable(c, k, i + 1) => Answerable(c, k, i)'
  BY AnswerableShift
<1>4. 1 \in DOMAIN channel
  BY <1>2 DEF TypeInv
<1>5. ASSUME NEW k \in 1..MaxFilters
      PROVE  /\ HasResult(c, k)' => FilterSince(c, k)'
             /\ \A i \in DOMAIN channel' : IsResult(i, c, k)' => Answerable(c, k, i)'
             /\ reader'[c] = "filtering" /\ k = Len(asked'[c]) => Answerable(c, k, Len(channel) + 1)'
             /\ \A j \in DOMAIN channel' :
                  IsFor(j, "TopicFilter", c)'
                      /\ (HasResult(c, k)' \/ \E i \in 1..(j - 1) : IsResult(i, c, k)')
                    => SendsSince(j, c, k)'
  <2>1. /\ HasResult(c, k) => FilterSince(c, k)
        /\ \A i \in DOMAIN channel : IsResult(i, c, k) => Answerable(c, k, i)
        /\ reader[c] = "filtering" /\ k = Len(asked[c]) => Answerable(c, k, Len(channel) + 1)
        /\ \A j \in DOMAIN channel :
             IsFor(j, "TopicFilter", c) /\ (HasResult(c, k) \/ \E i \in 1..(j - 1) : IsResult(i, c, k))
               => SendsSince(j, c, k)
    BY DEF FilterInv
  <2>2. ASSUME HasResult(c, k)'
        PROVE  FilterSince(c, k)'
    <3>1. CASE HasResult(c, k) /\ ~IsFor(1, "TopicFilter", c)
      BY <1>1, <2>1, <3>1 DEF FilterSince
    <3>2. CASE HasResult(c, k) /\ IsFor(1, "TopicFilter", c)
      <4>1. CASE filter'[c] = filter[c]
        BY <1>1, <2>1, <3>2, <4>1 DEF FilterSince
      <4>2. CASE channel[1] = FilterMsg(c, filter'[c])
        <5>1. SendsSince(1, c, k)
          BY <1>4, <2>1, <3>2
        <5> QED BY <1>1, <4>2, <5>1 DEF SendsSince, FilterSince, FilterMsg
      <4> QED BY <3>2, <4>1, <4>2
    <3>3. CASE IsResult(1, c, k) /\ c \in held
      <4>1. Answerable(c, k, 1) /\ \A j : j \notin 1..(1 - 1)
        BY <1>4, <2>1, <3>3
      <4>2. FilterSince(c, k) \/ Gone(c)
        BY <4>1 DEF Answerable
      <4>3. ~IsFor(1, "TopicFilter", c)
        BY <3>3, MessageFacts DEF IsFor, IsResult
      <4> QED BY <1>1, <3>3, <4>2, <4>3 DEF FilterSince, Gone
    <3> QED BY <2>2, <3>1, <3>2, <3>3
  <2>3. ASSUME NEW i \in DOMAIN channel', IsResult(i, c, k)'
        PROVE  Answerable(c, k, i)'
    <3>1. i \in Nat \ {0} /\ i + 1 \in DOMAIN channel /\ IsResult(i + 1, c, k)
      BY <1>2, <2>3
    <3> QED BY <1>3, <2>1, <3>1
  <2>4. ASSUME reader'[c] = "filtering", k = Len(asked'[c])
        PROVE  Answerable(c, k, Len(channel) + 1)'
    <3>1. Answerable(c, k, Len(channel) + 1)
      BY <1>1, <2>1, <2>4
    <3> DEFINE n == Len(channel)
    <3>2. n \in Nat \ {0} /\ Len(channel') + 1 = n
      BY <1>2
    <3>3. PICK i \in Nat \ {0} : i = n
      BY <3>2
    <3>4. Answerable(c, k, i)'
      BY <1>3, <3>1, <3>3
    <3>5. i = Len(channel') + 1
      BY <3>2, <3>3
    <3> QED BY <3>4, <3>5 DEF Answerable
  <2>5. ASSUME NEW j \in DOMAIN channel', IsFor(j, "TopicFilter", c)',
               HasResult(c, k)' \/ \E i \in 1..(j - 1) : IsResult(i, c, k)'
        PROVE  SendsSince(j, c, k)'
    <3>1. j \in Nat \ {0} /\ j + 1 \in DOMAIN channel /\ IsFor(j + 1, "TopicFilter", c)
      BY <1>2, <2>5
    <3>2. HasResult(c, k) \/ \E i \in 1..((j + 1) - 1) : IsResult(i, c, k)
      <4>1. CASE HasResult(c, k)'
        <5>1. 1 \in 1..((j + 1) - 1)
          BY <3>1
        <5> QED BY <4>1, <5>1
      <4>2. ASSUME NEW i \in 1..(j - 1), IsResult(i, c, k)'
            PROVE  IsResult(i + 1, c, k) /\ i + 1 \in 1..((j + 1) - 1)
        BY <1>2, <3>1, <4>2
      <4> QED BY <2>5, <4>1, <4>2
    <3> QED BY <1>2, <2>1, <3>1, <3>2
  <2> QED BY <2>2, <2>3, <2>4, <2>5
<1>6. ASSUME NEW j \in DOMAIN channel', IsFor(j, "TopicFilter", c)'
      PROVE  SendsSince(j, c, 1)'
  BY <1>2, <1>6 DEF FilterInv
<1> QED BY <1>1, <1>5, <1>6 DEF FilterInv

(* What taking a message leaves of a connection's attaching, when that is  *)
(* not what is taken.                                                      *)
LEMMA AttachTaken ==
  ASSUME TypeInv, TypeInv', ChannelInv, setup' = setup,
         channel # <<>>, channel' = Tail(channel), UNCHANGED readerVars,
         NEW c \in Connections, ~IsFor(1, "Attach", c),
         caps'[c] = caps[c] \/ channel[1].id = c,
         c \in held' => c \in held, c \in closed' <=> c \in closed,
         \/ stream'[c] = stream[c]
         \/ \E r \in Item \ {Handshake} : c \in held /\ stream'[c] = Append(stream[c], r)
  PROVE  AttachInv(c)'
<1>1. AttachInv(c)
  BY DEF ChannelInv
<1>2. UNCHANGED <<reader, asked, pings>>
  BY DEF readerVars
<1>3. /\ \A i \in DOMAIN channel' :
           i \in Nat \ {0} /\ i + 1 \in DOMAIN channel /\ channel'[i] = channel[i + 1]
      /\ DOMAIN channel = 1..Len(channel) /\ Len(channel) \in Nat \ {0}
      /\ \A i \in Int : \A t : IsFor(i, t, c)' <=> i >= 1 /\ IsFor(i + 1, t, c)
  BY ShiftFacts
<1>4. stream[c] \in Seq(Item)
  BY DEF TypeInv
<1>5. c \in held => stream[c] # <<>>
  BY <1>1 DEF AttachInv
<1>6. /\ \A i \in DOMAIN stream'[c] : stream'[c][i] = Handshake <=> i = 1
      /\ stream[c] # <<>> => stream'[c] # <<>>
      /\ c \notin held => stream'[c] = stream[c]
  <2>1. CASE stream'[c] = stream[c]
    BY <1>1, <2>1 DEF AttachInv
  <2>2. CASE stream'[c] # stream[c]
    <3>1. PICK r \in Item \ {Handshake} : c \in held /\ stream'[c] = Append(stream[c], r)
      BY <2>2
    <3>2. /\ DOMAIN stream'[c] = DOMAIN stream[c] \cup {Len(stream[c]) + 1}
          /\ DOMAIN stream[c] = 1..Len(stream[c]) /\ Len(stream[c]) \in Nat
          /\ \A i \in DOMAIN stream[c] : stream'[c][i] = stream[c][i]
          /\ stream'[c][Len(stream[c]) + 1] = r
      BY <1>4, <3>1, AppendFacts
    <3>3. Len(stream[c]) # 0
      BY <1>4, <1>5, <3>1
    <3>4. stream'[c] # <<>>
      BY <1>4, <3>2
    <3> QED BY <1>1, <3>1, <3>2, <3>3, <3>4 DEF AttachInv
  <2> QED BY <2>1, <2>2
<1>7. ASSUME NEW i \in DOMAIN channel', IsFor(i, "Attach", c)'
      PROVE  /\ c \notin held' \cup closed' /\ stream'[c] = <<>> /\ caps'[c] = NoCaps
             /\ \A j \in DOMAIN channel' : channel'[j].id = c => j >= i
  <2>1. i \in Nat \ {0} /\ i + 1 \in DOMAIN channel /\ IsFor(i + 1, "Attach", c)
    BY <1>3, <1>7
  <2>2. /\ c \notin held \cup closed /\ stream[c] = <<>> /\ caps[c] = NoCaps
        /\ \A j \in DOMAIN channel : channel[j].id = c => j >= i + 1
    BY <1>1, <2>1 DEF AttachInv
  <2>3. ASSUME NEW j \in DOMAIN channel', channel'[j].id = c
        PROVE  j >= i
    <3>1. j + 1 \in DOMAIN channel /\ channel[j + 1].id = c /\ j \in Nat
      BY <1>3, <2>3
    <3> QED BY <2>1, <2>2, <3>1
  <2>4. channel[1].id # c
    BY <1>3, <2>1, <2>2
  <2> QED BY <1>6, <2>2, <2>3, <2>4
<1>8. reader[c] = "none" => \A i \in DOMAIN channel' : channel'[i].id # c
  BY <1>1, <1>3 DEF AttachInv
<1>9. reader[c] = "none" =>
        stream'[c] = <<>> /\ c \notin held' \cup closed' /\ asked'[c] = <<>>
          /\ pings'[c] = 0 /\ caps'[c] = NoCaps
  <2>1. reader[c] = "none" => channel[1].id # c
    BY <1>1, <1>3 DEF AttachInv
  <2> QED BY <1>1, <1>2, <1>6, <2>1 DEF AttachInv
<1>10. c \in held' => stream'[c] # <<>>
  BY <1>5, <1>6
<1> QED BY <1>2, <1>6, <1>7, <1>8, <1>9, <1>10 DEF AttachInv

(* And of the report of its session, when that is not what is taken. *)
LEMMA SessionTaken ==
  ASSUME TypeInv, TypeInv', ChannelInv, setup' = setup,
         channel # <<>>, channel' = Tail(channel), UNCHANGED readerVars,
         NEW c \in Connections,
         ~IsFor(1, "Attach", c), ~IsFor(1, "Authenticated", c), caps'[c] = caps[c],
         c \in held' => c \in held,
         \/ /\ stream'[c] = stream[c]
            /\ IsFor(1, "Answer", c) => c \notin held
         \/ \E r \in {Pong, AuthResult} \cup FilterResults :
              c \in held /\ channel[1] = AnswerMsg(c, r) /\ stream'[c] = Append(stream[c], r)
  PROVE  SessionInv(c)'
<1>1. AttachInv(c) /\ SessionInv(c) /\ FilterInv(c)
  BY DEF ChannelInv
<1>2. UNCHANGED <<reader, asked, pings, grant>> /\ MaxFilters' = MaxFilters /\ MaxFilters \in Nat
  BY SetupStays, SetupFacts DEF readerVars, TypeInv
<1>3. /\ \A i \in DOMAIN channel' :
           i \in Nat \ {0} /\ i + 1 \in DOMAIN channel /\ channel'[i] = channel[i + 1]
      /\ Len(channel') + 1 = Len(channel) /\ Len(channel) \in Nat \ {0}
      /\ DOMAIN channel = 1..Len(channel)
      /\ \A i \in Int : \A t : IsFor(i, t, c)' <=> i >= 1 /\ IsFor(i + 1, t, c)
      /\ \A t : Awaits(t, c)' => Awaits(t, c)
      /\ \A i \in Int : \A k : IsResult(i, c, k)' <=> i >= 1 /\ IsResult(i + 1, c, k)
      /\ \A i \in DOMAIN channel' : \A k : SendsSince(i, c, k)' <=> SendsSince(i + 1, c, k)
      /\ \A i \in Int : AnsweredBefore(i + 1, c) =>
           AnsweredBefore(i, c)' \/ channel[1] = AnswerMsg(c, AuthResult)
  BY ShiftFacts
<1>4. stream[c] \in Seq(Item) /\ stream'[c] \in Seq(Item)
  BY SetupStays DEF TypeInv
<1>5. Gone(c) => Gone(c)'
  BY <1>3 DEF Gone
<1>6. /\ DOMAIN stream[c] \subseteq DOMAIN stream'[c]
      /\ \A i \in DOMAIN stream[c] : stream'[c][i] = stream[c][i]
      /\ \A i \in DOMAIN stream'[c] \ DOMAIN stream[c] :
           /\ i > 1 \/ stream[c] = <<>>
           /\ c \in held /\ stream'[c][i] \in {Pong, AuthResult} \cup FilterResults
           /\ channel[1] = AnswerMsg(c, stream'[c][i])
      /\ stream[c] # <<>> => stream'[c] # <<>>
      /\ c \notin held => stream'[c] = stream[c]
      /\ \A r : channel[1] = AnswerMsg(c, r) => c \notin held \/ \E i \in DOMAIN stream'[c] : stream'[c][i] = r
  <2>0. 1 \in DOMAIN channel
    BY <1>3 DEF TypeInv
  <2>1. CASE stream'[c] = stream[c] /\ (IsFor(1, "Answer", c) => c \notin held)
    BY <2>0, <2>1, MessageFacts DEF IsFor
  <2>2. CASE \E r \in {Pong, AuthResult} \cup FilterResults :
               c \in held /\ channel[1] = AnswerMsg(c, r) /\ stream'[c] = Append(stream[c], r)
    <3>1. PICK r \in {Pong, AuthResult} \cup FilterResults :
            c \in held /\ channel[1] = AnswerMsg(c, r) /\ stream'[c] = Append(stream[c], r)
      BY <2>2
    <3>2. r \in Item
      BY DEF Item
    <3>3. /\ DOMAIN stream'[c] = DOMAIN stream[c] \cup {Len(stream[c]) + 1}
          /\ DOMAIN stream[c] = 1..Len(stream[c]) /\ Len(stream[c]) \in Nat
          /\ \A i \in DOMAIN stream[c] : stream'[c][i] = stream[c][i]
          /\ stream'[c][Len(stream[c]) + 1] = r
      BY <1>4, <3>1, <3>2, AppendFacts
    <3>4. Len(stream[c]) + 1 > 1 \/ stream[c] = <<>>
      BY <1>4
    <3>5. stream'[c] # <<>>
      BY <1>4, <3>3
    <3>6. \A q : channel[1] = AnswerMsg(c, q) => q = r
      BY <3>1 DEF AnswerMsg
    <3> QED BY <3>1, <3>3, <3>4, <3>5, <3>6
  <2> QED BY <2>1, <2>2
<1>7. IsAnswered(c) => IsAnswered(c)'
  BY <1>6 DEF IsAnswered
<1>8. channel[1] = AnswerMsg(c, AuthResult) => IsAnswered(c)' \/ Gone(c)'
  <2>1. channel[1] = AnswerMsg(c, AuthResult) => c \notin held \/ IsAnswered(c)'
    BY <1>6 DEF IsAnswered
  <2>2. channel[1] = AnswerMsg(c, AuthResult) => ~Awaits("Attach", c)
    <3>1. ASSUME NEW i \in DOMAIN channel, IsFor(i, "Attach", c), channel[1].id = c
          PROVE  FALSE
      <4>1. 1 \in DOMAIN channel /\ i \in Nat /\ i >= 1
        BY <1>3
      <4>2. i = 1
        BY <1>1, <3>1, <4>1 DEF AttachInv
      <4> QED BY <3>1, <4>2
    <3> QED BY <3>1, MessageFacts DEF Awaits
  <2> QED BY <1>3, <2>1, <2>2 DEF Gone
<1>9. ASSUME NEW i \in DOMAIN channel', IsFor(i, "Authenticated", c)'
      PROVE  /\ caps'[c] = NoCaps /\ channel'[i].caps = Capabilities(grant'[c])
             /\ \A j \in DOMAIN channel' : IsFor(j, "Authenticated", c)' => j = i
             /\ IsAnswered(c)' \/ AnsweredBefore(i, c)' \/ Gone(c)'
  <2>1. i \in Nat \ {0} /\ i + 1 \in DOMAIN channel /\ IsFor(i + 1, "Authenticated", c)
        /\ channel'[i] = channel[i + 1]
    BY <1>3, <1>9
  <2>2. /\ caps[c] = NoCaps /\ channel[i + 1].caps = Capabilities(grant[c])
        /\ \A j \in DOMAIN channel : IsFor(j, "Authenticated", c) => j = i + 1
        /\ IsAnswered(c) \/ AnsweredBefore(i + 1, c) \/ Gone(c)
    BY <1>1, <2>1 DEF SessionInv
  <2>3. ASSUME NEW j \in DOMAIN channel', IsFor(j, "Authenticated", c)'
        PROVE  j = i
    <3>1. j \in Nat /\ j + 1 \in DOMAIN channel /\ IsFor(j + 1, "Authenticated", c)
      BY <1>3, <2>3
    <3> QED BY <2>1, <2>2, <3>1
  <2>4. AnsweredBefore(i + 1, c) => AnsweredBefore(i, c)' \/ channel[1] = AnswerMsg(c, AuthResult)
    BY <1>3, <2>1
  <2> QED BY <1>2, <1>5, <1>7, <1>8, <2>1, <2>2, <2>3, <2>4
<1>10. reader[c] = "answered" =>
        IsAnswered(c)' \/ AnsweredBefore(Len(channel) + 1, c)' \/ Gone(c)'
  <2>1. reader[c] = "answered" =>
          IsAnswered(c) \/ AnsweredBefore(Len(channel) + 1, c) \/ Gone(c)
    BY <1>1 DEF SessionInv
  <2>2. PICK n \in Int : n = Len(channel)
    <3>1. Len(channel) \in Int
      BY <1>3
    <3> QED BY <3>1
  <2>3. AnsweredBefore(n + 1, c) => AnsweredBefore(n, c)' \/ channel[1] = AnswerMsg(c, AuthResult)
    BY <1>3
  <2>4. AnsweredBefore(n, c)' => AnsweredBefore(Len(channel) + 1, c)'
    BY <1>3, <2>2 DEF AnsweredBefore
  <2> QED BY <1>5, <1>7, <1>8, <2>1, <2>2, <2>3, <2>4
<1>11. caps[c] # NoCaps => IsAnswered(c)'
  BY <1>1, <1>7 DEF SessionInv
<1>12. caps[c] = NoCaps => \A i \in DOMAIN stream'[c] : ~IsFannedOut(stream'[c][i])
  BY <1>1, <1>6, ItemFacts DEF SessionInv, FilterResults
<1>13. Awaits("Authenticated", c)' => Awaits("Authenticated", c)
  BY <1>3
<1> QED BY <1>1, <1>2, <1>9, <1>10, <1>11, <1>12, <1>13 DEF SessionInv

(* A message taken that is nobody's session, filter or attaching, or not   *)
(* this connection's: only a connection that is held is pushed an answer.  *)
LEMMA TakenUnrelated ==
  ASSUME TypeInv, TypeInv', ChannelInv, setup' = setup,
         channel # <<>>, channel' = Tail(channel), UNCHANGED readerVars,
         NEW c \in Connections,
         ~IsFor(1, "Attach", c), ~IsFor(1, "Authenticated", c), ~IsFor(1, "TopicFilter", c),
         caps'[c] = caps[c], filter'[c] = filter[c],
         c \in held' => c \in held, c \in closed' <=> c \in closed,
         \/ /\ stream'[c] = stream[c]
            /\ IsFor(1, "Answer", c) => c \notin held
         \/ \E r \in {Pong, AuthResult} \cup FilterResults :
              c \in held /\ channel[1] = AnswerMsg(c, r) /\ stream'[c] = Append(stream[c], r)
  PROVE  AttachInv(c)' /\ SessionInv(c)' /\ FilterInv(c)'
<1>1. {Pong, AuthResult} \cup FilterResults \subseteq Item \ {Handshake}
  BY ItemFacts DEF Item, FilterResults
<1>2. AttachInv(c)'
  BY <1>1, AttachTaken
<1>3. SessionInv(c)'
  BY SessionTaken
<1>4. FilterInv(c)'
  <2>1. stream[c] \in Seq(Item) /\ 1 \in DOMAIN channel
    <3>1. DOMAIN channel = 1..Len(channel) /\ Len(channel) \in Nat \ {0}
      BY ShiftFacts
    <3> QED BY <3>1 DEF TypeInv
  <2>2. ASSUME NEW k \in 1..MaxFilters, HasResult(c, k)'
        PROVE  HasResult(c, k) \/ (IsResult(1, c, k) /\ c \in held)
    <3>1. CASE stream'[c] = stream[c]
      BY <2>2, <3>1 DEF HasResult
    <3>2. ASSUME NEW r \in {Pong, AuthResult} \cup FilterResults,
                 c \in held, channel[1] = AnswerMsg(c, r), stream'[c] = Append(stream[c], r)
          PROVE  HasResult(c, k) \/ (IsResult(1, c, k) /\ c \in held)
      <4>1. PICK i \in DOMAIN stream'[c] : stream'[c][i] = FilterResult(k)
        BY <2>2 DEF HasResult
      <4>2. r \in Item
        BY <1>1
      <4>3. (i \in DOMAIN stream[c] /\ stream[c][i] = FilterResult(k)) \/ r = FilterResult(k)
        <5>1. /\ DOMAIN stream'[c] = DOMAIN stream[c] \cup {Len(stream[c]) + 1}
              /\ \A j \in DOMAIN stream[c] : stream'[c][j] = stream[c][j]
              /\ stream'[c][Len(stream[c]) + 1] = r
          BY <2>1, <3>2, <4>2, AppendFacts
        <5> QED BY <4>1, <5>1
      <4> QED BY <2>1, <3>2, <4>3 DEF HasResult, IsResult
    <3> QED BY <3>1, <3>2
  <2>3. Gone(c) => Gone(c)'
    BY ShiftFacts DEF Gone
  <2>4. FilterInv(c)
    BY DEF ChannelInv
  <2> QED BY <2>2, <2>3, <2>4, FilterTaken
<1> QED BY <1>2, <1>3, <1>4

LEMMA TakeAttachInv ==
  ASSUME TypeInv, TypeInv', ChannelInv, setup' = setup, TakeAttach,
         NEW c \in Connections
  PROVE  AttachInv(c)' /\ SessionInv(c)' /\ FilterInv(c)'
<1> DEFINE d == Head(channel).id
<1>1. /\ Take("Attach") /\ held' = held \cup {d} /\ Push({d}, Handshake)
      /\ UNCHANGED <<caps, filter>>
  BY DEF TakeAttach
<1>2. /\ channel' = Tail(channel) /\ channel # <<>> /\ UNCHANGED readerVars
      /\ Head(channel) = channel[1] /\ 1 \in DOMAIN channel
      /\ channel[1].type = "Attach" /\ channel[1].id = d /\ d \in Connections
  BY <1>1, TakeFacts DEF Take
<1> HIDE DEF d
<1>3. /\ Handshake \in Item /\ ~IsBoundary(Handshake) /\ {d} \in SUBSET Connections
  BY <1>2, ItemFacts DEF Item
<1>4. /\ closed' = closed /\ stream'[d] = Append(stream[d], Handshake)
      /\ c # d => stream'[c] = stream[c]
  <2>1. /\ closed' = closed /\ \A e \in {d} : stream'[e] = Append(stream[e], Handshake)
        /\ \A e \in Connections : stream'[e] = stream[e] \/ e \in {d}
    BY <1>1, <1>3, PushFacts
  <2> QED BY <2>1
<1>5. CASE c # d
  <2>1. \A t : ~IsFor(1, t, c)
    BY <1>2, <1>5 DEF IsFor
  <2>2. c \in held' => c \in held
    BY <1>1, <1>5
  <2> QED BY <1>1, <1>2, <1>4, <1>5, <2>1, <2>2, TakenUnrelated
<1>6. CASE c = d
  <2>1. /\ \A i \in DOMAIN channel' :
             i \in Nat \ {0} /\ i + 1 \in DOMAIN channel /\ channel'[i] = channel[i + 1]
        /\ DOMAIN channel = 1..Len(channel)
        /\ \A i \in Int : \A t : IsFor(i, t, c)' <=> i >= 1 /\ IsFor(i + 1, t, c)
        /\ \A i \in Int : AnsweredBefore(i + 1, c) =>
             AnsweredBefore(i, c)' \/ channel[1] = AnswerMsg(c, AuthResult)
        /\ Len(channel) \in Nat \ {0} /\ Len(channel') + 1 = Len(channel)
        /\ \A t : Awaits(t, c)' => Awaits(t, c)
    BY <1>2, ShiftFacts
  <2>2. AttachInv(c) /\ SessionInv(c) /\ FilterInv(c)
    BY DEF ChannelInv
  <2>3. IsFor(1, "Attach", c)
    BY <1>2, <1>6 DEF IsFor
  <2>4. /\ c \notin held \cup closed /\ stream[c] = <<>> /\ caps[c] = NoCaps
        /\ reader[c] # "none"
    BY <1>2, <2>2, <2>3 DEF AttachInv, IsFor
  <2>5. \A i \in DOMAIN channel' : ~IsFor(i, "Attach", c)'
    <3>1. ASSUME NEW i \in DOMAIN channel', IsFor(i, "Attach", c)'
          PROVE  FALSE
      <4>1. i + 1 \in DOMAIN channel /\ IsFor(i + 1, "Attach", c) /\ i \in Nat \ {0}
        BY <2>1, <3>1
      <4>2. 1 >= i + 1
        BY <1>2, <1>6, <2>2, <4>1 DEF AttachInv
      <4> QED BY <4>1, <4>2
    <3> QED BY <3>1
  <2>6. /\ DOMAIN stream'[c] = {1} /\ stream'[c][1] = Handshake /\ stream'[c] # <<>>
    BY <1>4, <1>6, <2>4
  <2>7. UNCHANGED <<reader, asked, pings, grant>>
    BY <1>2 DEF readerVars
  <2>8. ~Gone(c) /\ ~IsAnswered(c) /\ channel[1] # AnswerMsg(c, AuthResult)
    BY <1>2, <2>3, <2>4, MessageFacts DEF Gone, Awaits, IsAnswered
  <2>9. AttachInv(c)'
    BY <2>4, <2>5, <2>6, <2>7 DEF AttachInv
  <2>10. SessionInv(c)'
    <3>1. ASSUME NEW i \in DOMAIN channel', IsFor(i, "Authenticated", c)'
          PROVE  /\ channel'[i].caps = Capabilities(grant'[c])
                 /\ \A j \in DOMAIN channel' : IsFor(j, "Authenticated", c)' => j = i
                 /\ AnsweredBefore(i, c)'
      <4>1. i \in Nat \ {0} /\ i + 1 \in DOMAIN channel /\ IsFor(i + 1, "Authenticated", c)
            /\ channel'[i] = channel[i + 1]
        BY <2>1, <3>1
      <4>2. /\ channel[i + 1].caps = Capabilities(grant[c]) /\ AnsweredBefore(i + 1, c)
            /\ \A j \in DOMAIN channel : IsFor(j, "Authenticated", c) => j = i + 1
        BY <2>2, <2>8, <4>1 DEF SessionInv
      <4>3. ASSUME NEW j \in DOMAIN channel', IsFor(j, "Authenticated", c)'
            PROVE  j = i
        <5>1. j \in Nat /\ j + 1 \in DOMAIN channel /\ IsFor(j + 1, "Authenticated", c)
          BY <2>1, <4>3
        <5> QED BY <4>1, <4>2, <5>1
      <4> QED BY <2>1, <2>7, <2>8, <4>1, <4>2, <4>3
    <3>2. reader[c] = "answered" => AnsweredBefore(Len(channel) + 1, c)'
      <4>1. PICK n \in Int : n = Len(channel)
        <5>1. Len(channel) \in Int
          BY <2>1
        <5> QED BY <5>1
      <4>2. reader[c] = "answered" => AnsweredBefore(n + 1, c)
        BY <2>2, <2>8, <4>1 DEF SessionInv
      <4>3. reader[c] = "answered" => AnsweredBefore(n, c)'
        BY <2>1, <2>8, <4>2
      <4> QED BY <2>1, <4>1, <4>3 DEF AnsweredBefore
    <3>3. caps'[c] = NoCaps /\ \A i \in DOMAIN stream'[c] : ~IsFannedOut(stream'[c][i])
      BY <1>1, <2>4, <2>6, ItemFacts
    <3>4. reader[c] \in {"none", "open", "answered"} => ~Awaits("Authenticated", c)'
      BY <2>1, <2>2 DEF SessionInv
    <3> QED BY <2>7, <3>1, <3>2, <3>3, <3>4 DEF SessionInv
  <2>11. FilterInv(c)'
    <3>1. \A k \in 1..MaxFilters : ~HasResult(c, k)'
      BY <2>6, ItemFacts DEF HasResult
    <3>2. ~IsFor(1, "TopicFilter", c) /\ filter'[c] = filter[c]
      BY <1>1, <1>2 DEF IsFor
    <3> QED BY <1>2, <2>2, <2>8, <3>1, <3>2, FilterTaken
  <2> QED BY <2>9, <2>10, <2>11
<1> QED BY <1>5, <1>6

LEMMA TakeAuthenticatedInv ==
  ASSUME TypeInv, TypeInv', ChannelInv, setup' = setup, TakeAuthenticated,
         NEW c \in Connections
  PROVE  AttachInv(c)' /\ SessionInv(c)' /\ FilterInv(c)'
<1> DEFINE d == Head(channel).id
<1>1. /\ Take("Authenticated") /\ UNCHANGED <<held, filter, stream, closed>>
      /\ caps' = IF d \in held THEN [caps EXCEPT ![d] = Head(channel).caps] ELSE caps
  BY DEF TakeAuthenticated, InBatch, queueVars
<1>2. /\ channel' = Tail(channel) /\ channel # <<>> /\ UNCHANGED readerVars
      /\ Head(channel) = channel[1] /\ 1 \in DOMAIN channel
      /\ channel[1].type = "Authenticated" /\ channel[1].id = d /\ d \in Connections
  BY <1>1, TakeFacts DEF Take
<1> HIDE DEF d
<1>3. caps'[c] = IF c = d /\ c \in held THEN channel[1].caps ELSE caps[c]
  <2>1. DOMAIN caps = Connections
    BY DEF TypeInv
  <2>2. CASE c = d
    BY <1>1, <1>2, <2>1, <2>2
  <2>3. CASE c # d
    BY <1>1, <2>3
  <2> QED BY <2>2, <2>3
<1>4. CASE c # d
  <2>1. \A t : ~IsFor(1, t, c)
    BY <1>2, <1>4 DEF IsFor
  <2> QED BY <1>1, <1>2, <1>3, <1>4, <2>1, TakenUnrelated
<1>5. CASE c = d
  <2>1. /\ \A i \in DOMAIN channel' :
             i \in Nat \ {0} /\ i + 1 \in DOMAIN channel /\ channel'[i] = channel[i + 1]
        /\ \A i \in Int : \A t : IsFor(i, t, c)' <=> i >= 1 /\ IsFor(i + 1, t, c)
    BY <1>2, ShiftFacts
  <2>2. AttachInv(c) /\ SessionInv(c) /\ FilterInv(c)
    BY DEF ChannelInv
  <2>3. IsFor(1, "Authenticated", c) /\ \A t : t # "Authenticated" => ~IsFor(1, t, c)
    BY <1>2, <1>5 DEF IsFor
  <2>4. AttachInv(c)'
    BY <1>1, <1>2, <1>5, <2>3, AttachTaken
  <2>5. FilterInv(c)'
    <3>1. Gone(c) => Gone(c)'
      BY <1>1, <1>2, ShiftFacts DEF Gone
    <3>2. \A k : HasResult(c, k)' <=> HasResult(c, k)
      BY <1>1 DEF HasResult
    <3> QED BY <1>1, <1>2, <2>2, <2>3, <3>1, <3>2, FilterTaken
  <2>6. SessionInv(c)'
    <3>1. /\ caps[c] = NoCaps
          /\ \A j \in DOMAIN channel : IsFor(j, "Authenticated", c) => j = 1
          /\ IsAnswered(c) \/ AnsweredBefore(1, c) \/ Gone(c)
      BY <1>2, <2>2, <2>3 DEF SessionInv
    <3>2. ~AnsweredBefore(1, c)
      BY DEF AnsweredBefore
    <3>3. \A i \in DOMAIN channel' : ~IsFor(i, "Authenticated", c)'
      <4>1. ASSUME NEW i \in DOMAIN channel', IsFor(i, "Authenticated", c)'
            PROVE  FALSE
        <5>1. i \in Nat \ {0} /\ i + 1 \in DOMAIN channel /\ IsFor(i + 1, "Authenticated", c)
          BY <2>1, <4>1
        <5> QED BY <3>1, <5>1
      <4> QED BY <4>1
    <3>4. reader'[c] = reader[c] /\ reader[c] \notin {"none", "open", "answered"}
      BY <1>2, <2>2, <2>3 DEF SessionInv, Awaits, readerVars
    <3>5. caps'[c] # NoCaps => IsAnswered(c)'
      BY <1>1, <1>3, <3>1, <3>2 DEF Gone, IsAnswered
    <3>6. \A i \in DOMAIN stream'[c] : ~IsFannedOut(stream'[c][i])
      BY <1>1, <2>2, <3>1 DEF SessionInv
    <3> QED BY <3>3, <3>4, <3>5, <3>6 DEF SessionInv
  <2> QED BY <2>4, <2>5, <2>6
<1> QED BY <1>4, <1>5

LEMMA TakeFilterInv ==
  ASSUME TypeInv, TypeInv', ChannelInv, setup' = setup, TakeTopicFilter,
         NEW c \in Connections
  PROVE  AttachInv(c)' /\ SessionInv(c)' /\ FilterInv(c)'
<1> DEFINE d == Head(channel).id
<1>1. /\ Take("TopicFilter") /\ UNCHANGED <<held, caps, stream, closed>>
      /\ filter' = IF d \in held THEN [filter EXCEPT ![d] = Head(channel).topics] ELSE filter
  BY DEF TakeTopicFilter, queueVars
<1>2. /\ channel' = Tail(channel) /\ channel # <<>> /\ UNCHANGED readerVars
      /\ Head(channel) = channel[1] /\ 1 \in DOMAIN channel /\ channel[1] \in Message
      /\ channel[1].type = "TopicFilter" /\ channel[1].id = d /\ d \in Connections
  BY <1>1, TakeFacts DEF Take
<1> HIDE DEF d
<1>3. filter'[c] = IF c = d /\ c \in held THEN channel[1].topics ELSE filter[c]
  BY <1>1, <1>2 DEF TypeInv
<1>4. CASE c # d
  <2>1. \A t : ~IsFor(1, t, c)
    BY <1>2, <1>4 DEF IsFor
  <2> QED BY <1>1, <1>2, <1>3, <1>4, <2>1, TakenUnrelated
<1>5. CASE c = d
  <2>1. AttachInv(c) /\ SessionInv(c) /\ FilterInv(c)
    BY DEF ChannelInv
  <2>2. \A t : t # "TopicFilter" => ~IsFor(1, t, c)
    BY <1>2, <1>5 DEF IsFor
  <2>3. AttachInv(c)' /\ SessionInv(c)'
    BY <1>1, <1>2, <1>5, <2>2, AttachTaken, SessionTaken
  <2>4. channel[1] = FilterMsg(c, channel[1].topics)
    BY <1>2, <1>5, MessageForms
  <2>5. c \notin held => Gone(c)
    <3>1. ASSUME NEW i \in DOMAIN channel, IsFor(i, "Attach", c)
          PROVE  FALSE
      <4>1. DOMAIN channel = 1..Len(channel) /\ Len(channel) \in Nat
        BY DEF TypeInv
      <4>2. 1 >= i /\ i >= 1 /\ i \in Nat
        BY <1>2, <1>5, <2>1, <3>1, <4>1 DEF AttachInv
      <4>3. i = 1
        BY <4>2
      <4> QED BY <2>2, <3>1, <4>3
    <3> QED BY <3>1 DEF Gone, Awaits
  <2>6. Gone(c) => Gone(c)'
    BY <1>1, <1>2, ShiftFacts DEF Gone
  <2>7. \A k : HasResult(c, k)' <=> HasResult(c, k)
    BY <1>1 DEF HasResult
  <2>8. channel[1] = FilterMsg(c, filter'[c]) \/ (Gone(c) /\ filter'[c] = filter[c])
    BY <1>3, <1>5, <2>4, <2>5
  <2>9. IsFor(1, "TopicFilter", c)
    BY <1>2, <1>5 DEF IsFor
  <2>10. FilterInv(c)'
    BY <1>2, <2>1, <2>6, <2>7, <2>8, <2>9, FilterTaken
  <2> QED BY <2>3, <2>10
<1> QED BY <1>4, <1>5

LEMMA ChannelTaken ==
  ASSUME TypeInv, TypeInv', ChannelInv, setup' = setup,
         TakeAttach \/ TakeDetach \/ TakeAnswer \/ TakeAuthenticated \/ TakeTopicFilter
  PROVE  ChannelInv'
<1> SUFFICES ASSUME NEW c \in Connections
             PROVE  AttachInv(c)' /\ SessionInv(c)' /\ FilterInv(c)'
  BY DEF ChannelInv
<1>1. CASE TakeDetach
  <2>1. /\ Take("Detach") /\ UNCHANGED <<caps, filter, stream, closed>>
        /\ held' \subseteq held
    BY <1>1 DEF TakeDetach, queueVars
  <2>2. /\ channel' = Tail(channel) /\ channel # <<>> /\ UNCHANGED readerVars
        /\ Head(channel) = channel[1] /\ channel[1].type = "Detach"
    BY <2>1, TakeFacts DEF Take
  <2>3. \A t : t # "Detach" => ~IsFor(1, t, c)
    BY <2>2 DEF IsFor
  <2> QED BY <2>1, <2>2, <2>3, TakenUnrelated
<1>2. CASE TakeAnswer
  <2> DEFINE d == Head(channel).id
             r == Head(channel).record
  <2>1. Take("Answer") /\ DeliverTo(d, r) /\ UNCHANGED <<held, caps, filter>>
    BY <1>2 DEF TakeAnswer
  <2>2. /\ channel' = Tail(channel) /\ channel # <<>> /\ UNCHANGED readerVars
        /\ Head(channel) = channel[1] /\ channel[1].type = "Answer" /\ d \in Connections
        /\ channel[1] \in Message
    BY <2>1, TakeFacts DEF Take
  <2>3. /\ r \in {Pong, AuthResult} \cup FilterResults
        /\ channel[1] = AnswerMsg(d, r) /\ channel[1].id = d
    BY <2>2, MessageForms
  <2>4. r \in Item /\ ~IsBoundary(r)
    BY <2>3, ItemFacts DEF Item, FilterResults
  <2> HIDE DEF d, r
  <2>5. /\ closed' = closed
        /\ d \in held => /\ stream'[d] = Append(stream[d], r)
                         /\ \A e \in Connections : e # d => stream'[e] = stream[e]
        /\ d \notin held => stream' = stream
    BY <2>1, <2>2, <2>4, DeliverFacts
  <2>6. \A t : t # "Answer" => ~IsFor(1, t, c)
    BY <2>2 DEF IsFor
  <2>7. CASE c = d /\ c \in held
    BY <2>1, <2>2, <2>3, <2>5, <2>6, <2>7, TakenUnrelated
  <2>8. CASE ~(c = d /\ c \in held)
    <3>1. stream'[c] = stream[c]
      BY <2>5, <2>8
    <3>2. IsFor(1, "Answer", c) => c \notin held
      BY <2>3, <2>8 DEF IsFor
    <3> QED BY <2>1, <2>2, <2>5, <2>6, <3>1, <3>2, TakenUnrelated
  <2> QED BY <2>7, <2>8
<1> QED BY <1>1, <1>2, TakeAttachInv, TakeAuthenticatedInv, TakeFilterInv
-----------------------------------------------------------------------------
(* A message is sent: it goes behind the others. *)

LEMMA SentFacts ==
  ASSUME TypeInv, NEW m \in Message, channel' = Append(channel, m), NEW c \in Connections
  PROVE  /\ DOMAIN channel = 1..Len(channel) /\ Len(channel) \in Nat
         /\ DOMAIN channel' = DOMAIN channel \cup {Len(channel) + 1}
         /\ Len(channel') = Len(channel) + 1
         /\ \A i \in DOMAIN channel : channel'[i] = channel[i]
         /\ channel'[Len(channel) + 1] = m
         /\ \A i, t : IsFor(i, t, c)' <=>
              IsFor(i, t, c) \/ (i = Len(channel) + 1 /\ m.type = t /\ m.id = c)
         /\ \A t : Awaits(t, c)' => Awaits(t, c) \/ (m.type = t /\ m.id = c)
         /\ \A i, k : IsResult(i, c, k)' <=>
              IsResult(i, c, k) \/ (i = Len(channel) + 1 /\ m = AnswerMsg(c, FilterResult(k)))
         /\ \A i : AnsweredBefore(i, c) => AnsweredBefore(i, c)'
         /\ AnsweredBefore(Len(channel) + 1, c) \/ m = AnswerMsg(c, AuthResult)
              => AnsweredBefore(Len(channel) + 1, c)'
<1>1. /\ DOMAIN channel = 1..Len(channel) /\ Len(channel) \in Nat
      /\ DOMAIN channel' = DOMAIN channel \cup {Len(channel) + 1}
      /\ Len(channel') = Len(channel) + 1
      /\ \A i \in DOMAIN channel : channel'[i] = channel[i]
      /\ channel'[Len(channel) + 1] = m
  <2>1. channel \in Seq(Message)
    BY DEF TypeInv
  <2> QED BY <2>1, AppendFacts
<1>2. Len(channel) + 1 \notin DOMAIN channel
  BY <1>1
<1>3. \A i, t : IsFor(i, t, c)' <=>
        IsFor(i, t, c) \/ (i = Len(channel) + 1 /\ m.type = t /\ m.id = c)
  BY <1>1, <1>2 DEF IsFor
<1>4. \A t : Awaits(t, c)' => Awaits(t, c) \/ (m.type = t /\ m.id = c)
  BY <1>1, <1>3 DEF Awaits, IsFor
<1>5. \A i, k : IsResult(i, c, k)' <=>
        IsResult(i, c, k) \/ (i = Len(channel) + 1 /\ m = AnswerMsg(c, FilterResult(k)))
  BY <1>1, <1>2 DEF IsResult
<1>6. \A i : AnsweredBefore(i, c) => AnsweredBefore(i, c)'
  BY <1>1 DEF AnsweredBefore
<1>7. ASSUME AnsweredBefore(Len(channel) + 1, c) \/ m = AnswerMsg(c, AuthResult)
      PROVE  AnsweredBefore(Len(channel) + 1, c)'
  <2>1. CASE m = AnswerMsg(c, AuthResult)
    <3>1. Len(channel) + 1 \in 1..((Len(channel') + 1) - 1)
      BY <1>1
    <3> QED BY <1>1, <2>1, <3>1 DEF AnsweredBefore
  <2>2. ASSUME NEW j \in 1..((Len(channel) + 1) - 1), j \in DOMAIN channel,
               channel[j] = AnswerMsg(c, AuthResult)
        PROVE  AnsweredBefore(Len(channel) + 1, c)'
    <3>1. j \in 1..((Len(channel') + 1) - 1)
      BY <1>1
    <3> QED BY <1>1, <2>2, <3>1 DEF AnsweredBefore
  <2> QED BY <1>7, <2>1, <2>2 DEF AnsweredBefore
<1> QED BY <1>1, <1>3, <1>4, <1>5, <1>6, <1>7

LEMMA AttachSent ==
  ASSUME TypeInv, ChannelInv, NEW m \in Message, channel' = Append(channel, m),
         UNCHANGED <<held, closed, stream, caps>>, NEW c \in Connections,
         reader'[c] = "none" =>
           reader[c] = "none" /\ m.id # c /\ asked'[c] = asked[c] /\ pings'[c] = pings[c],
         m.type = "Attach" /\ m.id = c => reader[c] = "none"
  PROVE  AttachInv(c)'
<1>1. AttachInv(c)
  BY DEF ChannelInv
<1>2. /\ DOMAIN channel = 1..Len(channel) /\ Len(channel) \in Nat
      /\ DOMAIN channel' = DOMAIN channel \cup {Len(channel) + 1}
      /\ \A i \in DOMAIN channel : channel'[i] = channel[i]
      /\ channel'[Len(channel) + 1] = m
      /\ \A i, t : IsFor(i, t, c)' <=>
           IsFor(i, t, c) \/ (i = Len(channel) + 1 /\ m.type = t /\ m.id = c)
  BY SentFacts
<1>3. ASSUME NEW i \in DOMAIN channel', IsFor(i, "Attach", c)'
      PROVE  /\ c \notin held \cup closed /\ stream[c] = <<>> /\ caps[c] = NoCaps
             /\ \A j \in DOMAIN channel' : channel'[j].id = c => j >= i
  <2>1. CASE IsFor(i, "Attach", c)
    <3>1. i \in DOMAIN channel
      BY <2>1 DEF IsFor
    <3>2. /\ c \notin held \cup closed /\ stream[c] = <<>> /\ caps[c] = NoCaps
          /\ \A j \in DOMAIN channel : channel[j].id = c => j >= i
      BY <1>1, <2>1, <3>1 DEF AttachInv
    <3> QED BY <1>2, <3>1, <3>2
  <2>2. CASE i = Len(channel) + 1 /\ reader[c] = "none"
    <3>1. /\ \A j \in DOMAIN channel : channel[j].id # c
          /\ c \notin held \cup closed /\ stream[c] = <<>> /\ caps[c] = NoCaps
      BY <1>1, <2>2 DEF AttachInv
    <3> QED BY <1>2, <2>2, <3>1
  <2> QED BY <1>2, <1>3, <2>1, <2>2
<1>4. reader'[c] = "none" =>
        /\ \A i \in DOMAIN channel' : channel'[i].id # c
        /\ stream[c] = <<>> /\ c \notin held \cup closed /\ asked'[c] = <<>>
        /\ pings'[c] = 0 /\ caps[c] = NoCaps
  BY <1>1, <1>2 DEF AttachInv
<1>5. /\ c \in held => stream[c] # <<>>
      /\ \A i \in DOMAIN stream[c] : stream[c][i] = Handshake <=> i = 1
  BY <1>1 DEF AttachInv
<1> QED BY <1>3, <1>4, <1>5 DEF AttachInv

LEMMA SessionSent ==
  ASSUME TypeInv, ChannelInv, NEW m \in Message, channel' = Append(channel, m),
         UNCHANGED <<held, stream, caps>>, NEW c \in Connections,
         reader'[c] \in {"none", "open", "answered"} =>
           /\ reader[c] \in {"none", "open", "answered"}
           /\ ~(m.type = "Authenticated" /\ m.id = c),
         reader'[c] = "answered" => reader[c] = "answered" \/ m = AnswerMsg(c, AuthResult),
         m.type = "Authenticated" /\ m.id = c =>
           reader[c] = "answered" /\ m.caps = Capabilities(grant'[c]),
         grant'[c] = grant[c] \/ reader[c] = "answered",
         m.type = "Attach" /\ m.id = c => reader[c] = "none" /\ reader'[c] # "answered"
  PROVE  SessionInv(c)'
<1>1. SessionInv(c)
  BY DEF ChannelInv
<1>2. /\ DOMAIN channel = 1..Len(channel) /\ Len(channel) \in Nat
      /\ DOMAIN channel' = DOMAIN channel \cup {Len(channel) + 1}
      /\ \A i \in DOMAIN channel : channel'[i] = channel[i]
      /\ channel'[Len(channel) + 1] = m
      /\ \A i, t : IsFor(i, t, c)' <=>
           IsFor(i, t, c) \/ (i = Len(channel) + 1 /\ m.type = t /\ m.id = c)
      /\ \A t : Awaits(t, c)' => Awaits(t, c) \/ (m.type = t /\ m.id = c)
      /\ \A i : AnsweredBefore(i, c) => AnsweredBefore(i, c)'
      /\ AnsweredBefore(Len(channel) + 1, c) \/ m = AnswerMsg(c, AuthResult)
           => AnsweredBefore(Len(channel) + 1, c)'
  BY SentFacts
<1>3. IsAnswered(c)' <=> IsAnswered(c)
  BY DEF IsAnswered
<1>4. reader[c] # "none" => (Gone(c) => Gone(c)')
  BY <1>2 DEF Gone
<1>5. reader'[c] \in {"none", "open", "answered"} => ~Awaits("Authenticated", c)' /\ caps[c] = NoCaps
  BY <1>1, <1>2 DEF SessionInv
<1>6. ASSUME NEW i \in DOMAIN channel', IsFor(i, "Authenticated", c)'
      PROVE  /\ caps[c] = NoCaps /\ channel'[i].caps = Capabilities(grant'[c])
             /\ \A j \in DOMAIN channel' : IsFor(j, "Authenticated", c)' => j = i
             /\ IsAnswered(c)' \/ AnsweredBefore(i, c)' \/ Gone(c)'
  <2>1. CASE reader[c] = "answered"
    <3>1. ~Awaits("Authenticated", c) /\ caps[c] = NoCaps
      BY <1>1, <2>1 DEF SessionInv
    <3>2. \A j : IsFor(j, "Authenticated", c)' => j = Len(channel) + 1 /\ m.type = "Authenticated" /\ m.id = c
      BY <1>2, <3>1 DEF Awaits, IsFor
    <3>3. IsAnswered(c) \/ AnsweredBefore(Len(channel) + 1, c) \/ Gone(c)
      BY <1>1, <2>1 DEF SessionInv
    <3>4. i = Len(channel) + 1 /\ channel'[i].caps = Capabilities(grant'[c])
      BY <1>2, <1>6, <3>2
    <3>5. AnsweredBefore(Len(channel) + 1, c) => AnsweredBefore(i, c)'
      <4>1. AnsweredBefore(Len(channel) + 1, c) => AnsweredBefore(i, c)
        BY <3>4
      <4> QED BY <1>2, <4>1
    <3> QED BY <1>3, <1>4, <2>1, <3>1, <3>2, <3>3, <3>4, <3>5
  <2>2. CASE reader[c] # "answered"
    <3>1. \A j : IsFor(j, "Authenticated", c)' => IsFor(j, "Authenticated", c)
      BY <1>2, <2>2
    <3>2. i \in DOMAIN channel /\ IsFor(i, "Authenticated", c)
      BY <1>6, <3>1 DEF IsFor
    <3>3. /\ caps[c] = NoCaps /\ channel[i].caps = Capabilities(grant[c])
          /\ \A j \in DOMAIN channel : IsFor(j, "Authenticated", c) => j = i
          /\ IsAnswered(c) \/ AnsweredBefore(i, c) \/ Gone(c)
      BY <1>1, <3>2 DEF SessionInv
    <3>4. reader[c] # "none"
      BY <1>1, <3>2 DEF SessionInv, Awaits
    <3>5. \A j : IsFor(j, "Authenticated", c)' => j = i
      BY <3>1, <3>3 DEF IsFor
    <3> QED BY <1>2, <1>3, <1>4, <2>2, <3>2, <3>3, <3>4, <3>5
  <2> QED BY <2>1, <2>2
<1>7. reader'[c] = "answered" =>
        IsAnswered(c)' \/ AnsweredBefore(Len(channel) + 1, c)' \/ Gone(c)'
  BY <1>1, <1>2, <1>3, <1>4 DEF SessionInv
<1>8. /\ caps[c] # NoCaps => IsAnswered(c)'
      /\ caps[c] = NoCaps => \A i \in DOMAIN stream[c] : ~IsFannedOut(stream[c][i])
  BY <1>1, <1>3 DEF SessionInv
<1> QED BY <1>5, <1>6, <1>7, <1>8 DEF SessionInv

(* A filter goes behind what was asked before it, and the answer to it     *)
(* behind the filter.                                                      *)
LEMMA FilterSent ==
  ASSUME TypeInv, ChannelInv, setup' = setup,
         NEW m \in Message, channel' = Append(channel, m),
         UNCHANGED <<held, stream, filter>>, NEW c \in Connections,
         NEW isNew, isNew \in BOOLEAN,
         IF isNew
           THEN \E f \in Filters :
                  /\ asked'[c] = Append(asked[c], f) /\ m = FilterMsg(c, f)
                  /\ reader[c] # "none" /\ reader'[c] = "filtering"
           ELSE /\ asked'[c] = asked[c] /\ ~(m.type = "TopicFilter" /\ m.id = c)
                /\ reader'[c] = "filtering" => reader[c] = "filtering",
         \A k : m = AnswerMsg(c, FilterResult(k)) => reader[c] = "filtering" /\ k = Len(asked[c]),
         reader[c] = "none" => reader'[c] # "filtering",
         m.type = "Attach" /\ m.id = c => reader[c] = "none"
  PROVE  FilterInv(c)'
<1>1. AttachInv(c) /\ FilterInv(c)
  BY DEF ChannelInv
<1>0. PICK n \in Nat : n = Len(channel) + 1
  <2>1. Len(channel) \in Nat
    BY DEF TypeInv
  <2> QED BY <2>1
<1>2. /\ DOMAIN channel = 1..Len(channel) /\ Len(channel) \in Nat
      /\ DOMAIN channel' = DOMAIN channel \cup {n} /\ Len(channel') = n
      /\ \A i \in DOMAIN channel : channel'[i] = channel[i]
      /\ channel'[n] = m
      /\ \A i, t : IsFor(i, t, c)' <=> IsFor(i, t, c) \/ (i = n /\ m.type = t /\ m.id = c)
      /\ \A t : Awaits(t, c)' => Awaits(t, c) \/ (m.type = t /\ m.id = c)
      /\ \A i, k : IsResult(i, c, k)' <=>
           IsResult(i, c, k) \/ (i = n /\ m = AnswerMsg(c, FilterResult(k)))
  BY <1>0, SentFacts
<1>3. MaxFilters' = MaxFilters /\ \A k : HasResult(c, k)' <=> HasResult(c, k)
  BY SetupStays DEF HasResult
<1>4. CASE reader[c] = "none"
  <2>1. \A i \in DOMAIN channel : channel[i].id # c
    BY <1>1, <1>4 DEF AttachInv
  <2>2. stream[c] = <<>> /\ ~isNew
    BY <1>1, <1>4 DEF AttachInv
  <2>3. \A j : ~IsFor(j, "TopicFilter", c)'
    BY <1>2, <2>1, <2>2 DEF IsFor
  <2>4. \A i, k : ~IsResult(i, c, k)'
    BY <1>2, <1>4, <2>1, MessageFacts DEF IsResult
  <2>5. \A k : ~HasResult(c, k)'
    BY <2>2 DEF HasResult
  <2>6. reader'[c] # "filtering"
    BY <1>4
  <2> QED BY <2>3, <2>4, <2>5, <2>6 DEF FilterInv
<1>5. CASE reader[c] # "none"
  <2>1. Gone(c) => Gone(c)'
    BY <1>2, <1>5 DEF Gone
  <2>2. /\ asked[c] \in Seq(Filters) /\ Len(asked[c]) \in Nat
        /\ Len(asked[c]) <= Len(asked'[c]) /\ Len(asked'[c]) \in Nat
        /\ \A i \in 1..Len(asked[c]) : asked'[c][i] = asked[c][i]
        /\ isNew => Len(asked'[c]) = Len(asked[c]) + 1
        /\ isNew => m = FilterMsg(c, asked'[c][Len(asked'[c])])
    <3>1. asked[c] \in Seq(Filters) /\ Len(asked[c]) \in Nat
      BY DEF TypeInv
    <3>2. CASE isNew
      <4>1. PICK f \in Filters : asked'[c] = Append(asked[c], f) /\ m = FilterMsg(c, f)
        BY <3>2
      <4>2. /\ Len(Append(asked[c], f)) = Len(asked[c]) + 1
            /\ \A i \in 1..Len(asked[c]) : Append(asked[c], f)[i] = asked[c][i]
            /\ Append(asked[c], f)[Len(asked[c]) + 1] = f
        BY <3>1
      <4> QED BY <3>1, <4>1, <4>2
    <3>3. CASE ~isNew
      BY <3>1, <3>3
    <3> QED BY <3>2, <3>3
  <2>3. ASSUME NEW k \in Nat \ {0}
        PROVE  /\ FilterSince(c, k) => FilterSince(c, k)'
               /\ \A j \in DOMAIN channel : SendsSince(j, c, k) => SendsSince(j, c, k)'
    <3>1. \A i \in k..Len(asked[c]) : i \in k..Len(asked'[c]) /\ asked'[c][i] = asked[c][i]
      BY <2>2
    <3> QED BY <1>2, <3>1 DEF FilterSince, SendsSince
  <2>4. ASSUME NEW k \in Nat, isNew, k <= Len(asked'[c])
        PROVE  SendsSince(n, c, k)'
    <3>1. Len(asked'[c]) \in k..Len(asked'[c])
      BY <2>2, <2>4
    <3> QED BY <1>2, <2>2, <2>4, <3>1 DEF SendsSince
  <2>5. \A i, t : i # n => (IsFor(i, t, c)' <=> IsFor(i, t, c))
    BY <1>2
  <2>6. ASSUME NEW k \in Nat \ {0}, NEW i \in 1..n, Answerable(c, k, i)
        PROVE  Answerable(c, k, i)'
    <3>1. \A j \in 1..(i - 1) : j # n /\ j \in DOMAIN channel
      BY <1>2
    <3>2. k <= Len(asked'[c])
      BY <2>2, <2>6 DEF Answerable
    <3>3. ASSUME NEW j \in 1..(i - 1), IsFor(j, "TopicFilter", c)',
                 \A l \in (j + 1)..(i - 1) : ~IsFor(l, "TopicFilter", c)'
          PROVE  SendsSince(j, c, k)'
      <4>1. IsFor(j, "TopicFilter", c) /\ \A l \in (j + 1)..(i - 1) : ~IsFor(l, "TopicFilter", c)
        BY <1>2, <3>1, <3>3
      <4>2. SendsSince(j, c, k)
        BY <2>6, <4>1 DEF Answerable
      <4> QED BY <2>3, <3>1, <4>2
    <3>4. (\A j \in 1..(i - 1) : ~IsFor(j, "TopicFilter", c)') => FilterSince(c, k)' \/ Gone(c)'
      <4>1. (\A j \in 1..(i - 1) : ~IsFor(j, "TopicFilter", c)')
              => \A j \in 1..(i - 1) : ~IsFor(j, "TopicFilter", c)
        BY <1>2
      <4>2. (\A j \in 1..(i - 1) : ~IsFor(j, "TopicFilter", c)) => FilterSince(c, k) \/ Gone(c)
        BY <2>6 DEF Answerable
      <4> QED BY <2>1, <2>3, <4>1, <4>2
    <3> QED BY <3>2, <3>3, <3>4 DEF Answerable
  <2>7. ASSUME NEW k \in 1..MaxFilters
        PROVE  /\ HasResult(c, k)' => FilterSince(c, k)'
               /\ \A i \in DOMAIN channel' : IsResult(i, c, k)' => Answerable(c, k, i)'
               /\ reader'[c] = "filtering" /\ k = Len(asked'[c]) => Answerable(c, k, Len(channel) + 1)'
               /\ \A j \in DOMAIN channel' :
                    IsFor(j, "TopicFilter", c)'
                        /\ (HasResult(c, k)' \/ \E i \in 1..(j - 1) : IsResult(i, c, k)')
                      => SendsSince(j, c, k)'
    <3>1. /\ HasResult(c, k) => FilterSince(c, k)
          /\ \A i \in DOMAIN channel : IsResult(i, c, k) => Answerable(c, k, i)
          /\ reader[c] = "filtering" /\ k = Len(asked[c]) => Answerable(c, k, n)
          /\ \A j \in DOMAIN channel :
               IsFor(j, "TopicFilter", c) /\ (HasResult(c, k) \/ \E i \in 1..(j - 1) : IsResult(i, c, k))
                 => SendsSince(j, c, k)
      BY <1>0, <1>1 DEF FilterInv
    <3>2. k \in Nat \ {0} /\ n \in 1..n
      BY <1>2, SetupFacts DEF TypeInv
    <3>3. HasResult(c, k)' => FilterSince(c, k)'
      BY <1>3, <2>3, <3>1, <3>2
    <3>4. ASSUME NEW i \in DOMAIN channel', IsResult(i, c, k)'
          PROVE  Answerable(c, k, i)'
      <4>1. CASE IsResult(i, c, k)
        <5>1. i \in DOMAIN channel /\ i \in 1..n
          BY <1>2, <4>1 DEF IsResult
        <5> QED BY <2>6, <3>1, <3>2, <4>1, <5>1
      <4>2. CASE i = n /\ m = AnswerMsg(c, FilterResult(k))
        <5>1. Answerable(c, k, n)
          BY <3>1, <4>2
        <5>2. i \in 1..n /\ Answerable(c, k, i)
          BY <3>2, <4>2, <5>1
        <5> QED BY <2>6, <3>2, <5>2
      <4> QED BY <1>2, <3>4, <4>1, <4>2
    <3>5. ASSUME reader'[c] = "filtering", k = Len(asked'[c])
          PROVE  Answerable(c, k, Len(channel) + 1)'
      <4>1. CASE isNew
        <5>1. /\ IsFor(n, "TopicFilter", c)' /\ n \in 1..((n + 1) - 1)
              /\ SendsSince(n, c, k)' /\ k <= Len(asked'[c])
          <6>1. k <= Len(asked'[c]) /\ k \in Nat /\ n \in 1..((n + 1) - 1)
            BY <1>2, <2>2, <3>2, <3>5
          <6>2. m.type = "TopicFilter" /\ m.id = c
            BY <2>2, <4>1 DEF FilterMsg
          <6>3. IsFor(n, "TopicFilter", c)'
            BY <1>0, <1>2, <6>2
          <6> QED BY <2>4, <4>1, <6>1, <6>3
        <5>2. ASSUME NEW j \in 1..((n + 1) - 1),
                     \A l \in (j + 1)..((n + 1) - 1) : ~IsFor(l, "TopicFilter", c)'
              PROVE  j = n
          <6>1. j # n => n \in (j + 1)..((n + 1) - 1)
            BY <1>2
          <6> QED BY <5>1, <5>2, <6>1
        <5> QED BY <1>2, <5>1, <5>2 DEF Answerable
      <4>2. CASE ~isNew
        <5>1. Answerable(c, k, n)
          BY <3>1, <3>5, <4>2
        <5>2. PICK i \in 1..n : i = n
          BY <3>2
        <5>3. Answerable(c, k, i)'
          BY <2>6, <3>2, <5>1, <5>2
        <5>4. ~IsFor(n, "TopicFilter", c)'
          BY <1>2, <4>2 DEF IsFor
        <5>5. \A j \in 1..((n + 1) - 1) : IsFor(j, "TopicFilter", c)' => j \in 1..(i - 1)
          BY <1>2, <5>2, <5>4
        <5>6. \A j \in 1..(i - 1) : j \in 1..((n + 1) - 1)
                /\ \A l \in (j + 1)..(i - 1) : l \in (j + 1)..((n + 1) - 1)
          BY <1>2, <5>2
        <5>7. /\ k <= Len(asked'[c])
              /\ \A j \in 1..((n + 1) - 1) :
                   IsFor(j, "TopicFilter", c)'
                       /\ (\A l \in (j + 1)..((n + 1) - 1) : ~IsFor(l, "TopicFilter", c)')
                     => SendsSince(j, c, k)'
              /\ (\A j \in 1..((n + 1) - 1) : ~IsFor(j, "TopicFilter", c)')
                   => FilterSince(c, k)' \/ Gone(c)'
          BY <5>3, <5>5, <5>6 DEF Answerable
        <5> QED BY <1>2, <5>7 DEF Answerable
      <4> QED BY <4>1, <4>2
    <3>6. ASSUME NEW j \in DOMAIN channel', IsFor(j, "TopicFilter", c)',
                 HasResult(c, k)' \/ \E i \in 1..(j - 1) : IsResult(i, c, k)'
          PROVE  SendsSince(j, c, k)'
      <4>1. CASE j \in DOMAIN channel
        <5>1. \A i \in 1..(j - 1) : i # n /\ (IsResult(i, c, k)' <=> IsResult(i, c, k))
          BY <1>2, <4>1
        <5>2. IsFor(j, "TopicFilter", c) /\ SendsSince(j, c, k)
          BY <1>2, <1>3, <3>1, <3>6, <4>1, <5>1
        <5> QED BY <2>3, <3>2, <4>1, <5>2
      <4>2. CASE j = n
        <5>1. isNew
          <6>1. n \notin DOMAIN channel
            BY <1>2
          <6> QED BY <1>2, <3>6, <4>2, <6>1 DEF IsFor
        <5>2. k <= Len(asked[c])
          <6>1. CASE HasResult(c, k)'
            BY <1>3, <2>2, <3>1, <3>2, <6>1 DEF FilterSince
          <6>2. ASSUME NEW i \in 1..(j - 1), IsResult(i, c, k)'
                PROVE  k <= Len(asked[c])
            <7>1. i \in DOMAIN channel /\ IsResult(i, c, k)
              BY <1>2, <4>2, <6>2
            <7> QED BY <3>1, <7>1 DEF Answerable
          <6> QED BY <3>6, <6>1, <6>2
        <5>3. SendsSince(n, c, k)'
          BY <2>2, <2>4, <3>2, <5>1, <5>2
        <5> QED BY <4>2, <5>3 DEF SendsSince
      <4> QED BY <1>2, <4>1, <4>2
    <3> QED BY <3>3, <3>4, <3>5, <3>6
  <2>8. ASSUME NEW j \in DOMAIN channel', IsFor(j, "TopicFilter", c)'
        PROVE  SendsSince(j, c, 1)'
    <3>1. CASE j \in DOMAIN channel
      <4>1. IsFor(j, "TopicFilter", c) /\ SendsSince(j, c, 1)
        BY <1>1, <1>2, <2>8, <3>1 DEF FilterInv
      <4> QED BY <2>3, <3>1, <4>1
    <3>2. CASE j = n
      <4>1. n \notin DOMAIN channel
        BY <1>2
      <4>2. isNew
        BY <1>2, <2>8, <3>2, <4>1 DEF IsFor
      <4>3. SendsSince(n, c, 1)'
        BY <2>2, <2>4, <4>2
      <4> QED BY <3>2, <4>3 DEF SendsSince
    <3> QED BY <1>2, <3>1, <3>2
  <2> QED BY <1>3, <2>7, <2>8 DEF FilterInv
<1> QED BY <1>4, <1>5

LEMMA ChannelSent ==
  ASSUME TypeInv, ChannelInv, setup' = setup, NEW d \in Connections,
         \/ Attach(d) \/ Ping(d) \/ Authenticate(d) \/ \E g \in Grants : Report(d, g)
         \/ \E f \in Filters : SetTopicFilter(d, f)
         \/ AnswerFilter(d) \/ Detach(d)
  PROVE  ChannelInv'
<1> SUFFICES ASSUME NEW c \in Connections
             PROVE  AttachInv(c)' /\ SessionInv(c)' /\ FilterInv(c)'
  BY DEF ChannelInv
<1>0. /\ UNCHANGED <<held, caps, filter, stream, closed>>
      /\ DOMAIN reader = Connections /\ DOMAIN asked = Connections
      /\ DOMAIN pings = Connections /\ DOMAIN grant = Connections
  BY DEF TypeInv, Attach, Ping, Authenticate, Report, SetTopicFilter, AnswerFilter, Detach,
         writerVars, queueVars
(* Sent for another connection. *)
<1>1. ASSUME NEW m \in Message, channel' = Append(channel, m), m.id = d, c # d,
             reader'[c] = reader[c], grant'[c] = grant[c], asked'[c] = asked[c], pings'[c] = pings[c]
      PROVE  AttachInv(c)' /\ SessionInv(c)' /\ FilterInv(c)'
  <2>1. AttachInv(c)'
    BY <1>0, <1>1, AttachSent
  <2>2. SessionInv(c)'
    <3>1. m # AnswerMsg(c, AuthResult)
      BY <1>1, MessageFacts
    <3> QED BY <1>0, <1>1, <3>1, SessionSent
  <2>3. FilterInv(c)'
    <3>1. \A k : m # AnswerMsg(c, FilterResult(k))
      BY <1>1, MessageFacts
    <3> QED BY <1>0, <1>1, <3>1, FilterSent
  <2> QED BY <2>1, <2>2, <2>3
(* Sent for this one, and neither a filter nor the answer to one. *)
<1>2. ASSUME NEW m \in Message, channel' = Append(channel, m), m.id = d, c = d,
             m.type # "TopicFilter", \A k : m # AnswerMsg(c, FilterResult(k)),
             asked'[c] = asked[c], reader'[c] # "none",
             reader'[c] = "filtering" => reader[c] = "filtering",
             IF m.type = "Attach" THEN reader[c] = "none" /\ reader'[c] = "open"
                                  ELSE reader[c] # "none"
      PROVE  AttachInv(c)' /\ FilterInv(c)'
  BY <1>0, <1>2, AttachSent, FilterSent
<1>3. CASE Attach(d)
  <2>1. /\ channel' = Append(channel, AttachMsg(d)) /\ AttachMsg(d) \in Message
        /\ AttachMsg(d).id = d /\ AttachMsg(d).type = "Attach"
    BY <1>3, MessageTypes, MessageFacts DEF Attach, Send
  <2>2. /\ reader' = [reader EXCEPT ![d] = "open"] /\ reader[d] = "none"
        /\ UNCHANGED <<grant, asked, pings>>
    BY <1>3 DEF Attach
  <2>3. CASE c # d
    BY <1>0, <1>1, <2>1, <2>2, <2>3
  <2>4. CASE c = d
    <3>1. /\ reader'[c] = "open" /\ reader[c] = "none"
          /\ \A r : AttachMsg(d) # AnswerMsg(c, r)
      BY <1>0, <2>1, <2>2, <2>4, MessageFacts
    <3>2. AttachInv(c)' /\ FilterInv(c)'
      BY <1>2, <2>1, <2>2, <2>4, <3>1
    <3>3. SessionInv(c)'
      BY <1>0, <2>1, <2>2, <3>1, SessionSent
    <3> QED BY <3>2, <3>3
  <2> QED BY <2>3, <2>4
<1>4. CASE Ping(d)
  <2>1. /\ channel' = Append(channel, AnswerMsg(d, Pong)) /\ AnswerMsg(d, Pong) \in Message
        /\ AnswerMsg(d, Pong).id = d /\ AnswerMsg(d, Pong).type = "Answer"
    <3>1. channel' = Append(channel, AnswerMsg(d, Pong))
      BY <1>4 DEF Ping, Send
    <3>2. AnswerMsg(d, Pong) \in Message
      BY MessageTypes
    <3> QED BY <3>1, <3>2, MessageFacts
  <2>2. /\ pings' = [pings EXCEPT ![d] = @ + 1] /\ reader[d] \in {"open", "session"}
        /\ UNCHANGED <<reader, grant, asked>>
    BY <1>4 DEF Ping
  <2>3. CASE c # d
    BY <1>0, <1>1, <2>1, <2>2, <2>3
  <2>4. CASE c = d
    <3>1. \A k : AnswerMsg(d, Pong) # AnswerMsg(c, FilterResult(k))
      BY ItemFacts DEF AnswerMsg
    <3>2. AttachInv(c)' /\ FilterInv(c)'
      BY <1>2, <2>1, <2>2, <2>4, <3>1
    <3>3. SessionInv(c)'
      BY <1>0, <2>1, <2>2, <2>4, SessionSent
    <3> QED BY <3>2, <3>3
  <2> QED BY <2>3, <2>4
<1>5. CASE Authenticate(d)
  <2>1. /\ channel' = Append(channel, AnswerMsg(d, AuthResult)) /\ AnswerMsg(d, AuthResult) \in Message
        /\ AnswerMsg(d, AuthResult).id = d /\ AnswerMsg(d, AuthResult).type = "Answer"
    <3>1. channel' = Append(channel, AnswerMsg(d, AuthResult))
      BY <1>5 DEF Authenticate, Send
    <3>2. AnswerMsg(d, AuthResult) \in Message
      BY MessageTypes
    <3> QED BY <3>1, <3>2, MessageFacts
  <2>2. /\ reader' = [reader EXCEPT ![d] = "answered"] /\ reader[d] = "open"
        /\ UNCHANGED <<grant, asked, pings>>
    BY <1>5 DEF Authenticate
  <2>3. CASE c # d
    BY <1>0, <1>1, <2>1, <2>2, <2>3
  <2>4. CASE c = d
    <3>1. /\ reader'[c] = "answered" /\ reader[c] = "open"
          /\ \A k : AnswerMsg(d, AuthResult) # AnswerMsg(c, FilterResult(k))
      BY <1>0, <2>2, <2>4, ItemFacts DEF AnswerMsg
    <3>2. AttachInv(c)' /\ FilterInv(c)'
      BY <1>2, <2>1, <2>2, <2>4, <3>1
    <3>3. SessionInv(c)'
      BY <1>0, <2>1, <2>2, <2>4, <3>1, SessionSent
    <3> QED BY <3>2, <3>3
  <2> QED BY <2>3, <2>4
<1>6. ASSUME NEW g \in Grants, Report(d, g)
      PROVE  AttachInv(c)' /\ SessionInv(c)' /\ FilterInv(c)'
  <2> DEFINE m == AuthedMsg(d, Capabilities(g))
  <2>1. /\ channel' = Append(channel, m) /\ m \in Message
        /\ m.id = d /\ m.type = "Authenticated" /\ m.caps = Capabilities(g)
    BY <1>6, MessageTypes, MessageFacts DEF Report, Send
  <2> HIDE DEF m
  <2>2. /\ reader' = [reader EXCEPT ![d] = "session"] /\ reader[d] = "answered"
        /\ grant' = [grant EXCEPT ![d] = g]
        /\ UNCHANGED <<asked, pings>>
    BY <1>6 DEF Report
  <2>3. CASE c # d
    BY <1>0, <1>1, <2>1, <2>2, <2>3
  <2>4. CASE c = d
    <3>1. /\ reader'[c] = "session" /\ reader[c] = "answered" /\ grant'[c] = g
          /\ \A r : m # AnswerMsg(c, r)
      BY <1>0, <2>1, <2>2, <2>4, MessageFacts
    <3>2. AttachInv(c)' /\ FilterInv(c)'
      BY <1>2, <2>1, <2>2, <2>4, <3>1
    <3>3. m.caps = Capabilities(grant'[c])
      BY <2>1, <3>1
    <3>4. SessionInv(c)'
      BY <1>0, <2>1, <2>4, <3>1, <3>3, SessionSent
    <3> QED BY <3>2, <3>4
  <2> QED BY <2>3, <2>4
<1>7. ASSUME NEW f \in Filters, SetTopicFilter(d, f)
      PROVE  AttachInv(c)' /\ SessionInv(c)' /\ FilterInv(c)'
  <2> DEFINE m == FilterMsg(d, f)
  <2>1. /\ channel' = Append(channel, m) /\ m \in Message
        /\ m.id = d /\ m.type = "TopicFilter"
    <3>1. channel' = Append(channel, FilterMsg(d, f))
      BY <1>7 DEF SetTopicFilter, Send, FilterSends
    <3>2. FilterMsg(d, f) \in Message
      BY MessageTypes
    <3> QED BY <3>1, <3>2, MessageFacts
  <2>2. /\ reader' = [reader EXCEPT ![d] = "filtering"] /\ reader[d] = "session"
        /\ asked' = [asked EXCEPT ![d] = Append(@, f)]
        /\ UNCHANGED <<grant, pings>>
    BY <1>7 DEF SetTopicFilter
  <2>3. CASE c # d
    <3> HIDE DEF m
    <3> QED BY <1>0, <1>1, <2>1, <2>2, <2>3
  <2>4. CASE c = d
    <3>0. m = FilterMsg(c, f)
      BY <2>4
    <3> HIDE DEF m
    <3>1. /\ reader'[c] = "filtering" /\ reader[c] = "session" /\ asked'[c] = Append(asked[c], f)
          /\ grant'[c] = grant[c]
      BY <1>0, <2>2, <2>4
    <3>2. \A r : m # AnswerMsg(c, r)
      BY <2>1, MessageFacts
    <3>3. AttachInv(c)'
      BY <1>0, <2>1, <3>1, AttachSent
    <3>4. SessionInv(c)'
      BY <1>0, <2>1, <3>1, <3>2, SessionSent
    <3>5. FilterInv(c)'
      BY <1>0, <2>1, <3>0, <3>1, <3>2, FilterSent
    <3> QED BY <3>3, <3>4, <3>5
  <2> QED BY <2>3, <2>4
<1>8. CASE AnswerFilter(d)
  <2> DEFINE m == AnswerMsg(d, FilterResult(Len(asked[d])))
  <2>1. /\ channel' = Append(channel, m) /\ m.id = d /\ m.type = "Answer"
    BY <1>8, MessageFacts DEF AnswerFilter, Send, FilterSends
  <2>2. /\ reader' = [reader EXCEPT ![d] = "session"] /\ reader[d] = "filtering"
        /\ UNCHANGED <<grant, asked, pings>>
    BY <1>8 DEF AnswerFilter
  <2>3. m \in Message
    <3>1. Len(asked[d]) \in 1..MaxFilters
      BY <2>2 DEF TypeInv
    <3> QED BY <3>1, MessageTypes DEF FilterResults
  <2>4. \A k : m = AnswerMsg(d, FilterResult(k)) => k = Len(asked[d])
    BY DEF AnswerMsg, FilterResult
  <2>5. m # AnswerMsg(d, AuthResult)
    BY ItemFacts DEF AnswerMsg
  <2> HIDE DEF m
  <2>6. CASE c # d
    BY <1>0, <1>1, <2>1, <2>2, <2>3, <2>6
  <2>7. CASE c = d
    <3>1. reader'[c] = "session" /\ reader[c] = "filtering"
      BY <1>0, <2>2, <2>7
    <3>2. AttachInv(c)'
      BY <1>0, <2>1, <2>3, <3>1, AttachSent
    <3>3. SessionInv(c)'
      BY <1>0, <2>1, <2>2, <2>3, <3>1, SessionSent
    <3>4. FilterInv(c)'
      BY <1>0, <2>1, <2>2, <2>3, <2>4, <2>7, <3>1, FilterSent
    <3> QED BY <3>2, <3>3, <3>4
  <2> QED BY <2>6, <2>7
<1>9. CASE Detach(d)
  <2>1. /\ channel' = Append(channel, DetachMsg(d)) /\ DetachMsg(d) \in Message
        /\ DetachMsg(d).id = d /\ DetachMsg(d).type = "Detach"
    BY <1>9, MessageTypes, MessageFacts DEF Detach, Send
  <2>2. reader[d] # "none" /\ UNCHANGED <<reader, grant, asked, pings>>
    BY <1>9 DEF Detach
  <2>3. CASE c # d
    BY <1>1, <2>1, <2>2, <2>3
  <2>4. CASE c = d
    <3>1. \A r : DetachMsg(d) # AnswerMsg(c, r)
      BY <2>1, MessageFacts
    <3>2. AttachInv(c)' /\ FilterInv(c)'
      BY <1>2, <2>1, <2>2, <2>4, <3>1
    <3>3. SessionInv(c)'
      BY <1>0, <2>1, <2>2, <3>1, SessionSent
    <3> QED BY <3>2, <3>3
  <2> QED BY <2>3, <2>4
<1> QED BY <1>3, <1>4, <1>5, <1>6, <1>7, <1>8, <1>9
-----------------------------------------------------------------------------
(* A record taken out of the ring, and one replayed. *)

(* What Fan does with r, the oldest of the ring. *)
Fans(r) ==
  /\ r \in Committed /\ 1 \in DOMAIN ring /\ r = ring[1] /\ ring # <<>> /\ ring' = Tail(ring)
  /\ wPc = "batch" /\ newcomer = NoOne
  /\ UNCHANGED <<channel, committed, replies, lifecycle_evicted, evictions, refusals,
                 readerVars, newcomer, caps, filter>>
  /\ retained' = IF r.kind.slot \in 0..(RetainedSlots - 1) THEN Keep(r) ELSE retained
  /\ held' = held \ closed' /\ closed' \subseteq closed \cup held
  /\ IF r.to = NoOne
       THEN /\ r.kind \in Kinds /\ IsFannedOut(r) /\ unaddressed' = unaddressed
            /\ \A c \in Connections :
                 stream'[c] = stream[c] \/ (c \in Receivers(r.kind) /\ stream'[c] = Append(stream[c], r))
            /\ \A c \in Receivers(r.kind) : c \notin closed' => stream'[c] = Append(stream[c], r)
       ELSE /\ r.kind = ReplyKind /\ ~IsFannedOut(r) /\ r.to \in Connections
            /\ r.to \in held =>
                 /\ unaddressed' = unaddressed /\ stream'[r.to] = Append(stream[r.to], r)
                 /\ \A c \in Connections : c # r.to => stream'[c] = stream[c]
            /\ r.to \notin held => unaddressed' = unaddressed + 1 /\ stream' = stream
  /\ \/ wPc' = "control" /\ taken' = 0
     \/ wPc' = "batch" /\ taken' = taken + 1 /\ taken + 1 # RecordsPerPass

LEMMA FanFacts ==
  ASSUME TypeInv, RecordsInv, Fan
  PROVE  \E r : Fans(r)
<1> DEFINE r == Head(ring)
<1>1. /\ wPc = "batch" /\ ring # <<>> /\ ring' = Tail(ring)
      /\ retained' = IF r.kind.slot \in 0..(RetainedSlots - 1) THEN Keep(r) ELSE retained
      /\ IF r.to # NoOne THEN DeliverTo(r.to, r)
                         ELSE Push(Receivers(r.kind), r) /\ UNCHANGED unaddressed
      /\ held' = held \ closed'
      /\ \/ wPc' = "control" /\ taken' = 0
         \/ wPc' = "batch" /\ taken' = taken + 1 /\ taken + 1 # RecordsPerPass
      /\ UNCHANGED <<channel, committed, replies, lifecycle_evicted, evictions, refusals,
                     readerVars, newcomer, caps, filter>>
  BY DEF Fan
<1>2. r \in Committed /\ r \in Item /\ 1 \in DOMAIN ring /\ r = ring[1]
  <2>1. ring \in Seq(Committed)
    BY DEF TypeInv
  <2> QED BY <1>1, <2>1, TailFacts DEF Item
<1>3. newcomer = NoOne /\ held \subseteq Connections
  BY <1>1 DEF TypeInv
<1>4. r.to = NoOne => r.kind \in Kinds
  BY <1>2 DEF RecordsInv, RingInv
<1>5. r.to # NoOne => r.kind = ReplyKind /\ r.to \in Connections
  BY <1>2 DEF RecordsInv, RingInv, Committed
<1>6. /\ IsFannedOut(r) <=> r.to = NoOne
      /\ r.to # NoOne => ~IsBoundary(r)
  BY <1>2, <1>5, ItemFacts, ReplyFacts DEF IsFannedOut, IsBoundary
<1> HIDE DEF r
<1>7. CASE r.to = NoOne
  <2>1. Receivers(r.kind) \in SUBSET Connections /\ Receivers(r.kind) \subseteq held
    BY <1>3 DEF Receivers
  <2>2. Push(Receivers(r.kind), r) /\ unaddressed' = unaddressed
    BY <1>1, <1>7
  <2>3. /\ closed' \subseteq closed \cup Receivers(r.kind)
        /\ \A c \in Connections :
             stream'[c] = stream[c] \/ (c \in Receivers(r.kind) /\ stream'[c] = Append(stream[c], r))
        /\ \A c \in Receivers(r.kind) : c \notin closed' => stream'[c] = Append(stream[c], r)
    <3>1. PICK to \in SUBSET Connections : to = Receivers(r.kind)
      BY <2>1
    <3>2. Push(to, r)
      BY <2>2, <3>1
    <3>3. /\ closed' \subseteq closed \cup to
          /\ \A c \in Connections :
               stream'[c] = stream[c] \/ (c \in to /\ stream'[c] = Append(stream[c], r))
          /\ \A c \in to : c \notin closed' => stream'[c] = Append(stream[c], r)
      BY ZenonT(30), <1>2, <3>2, PushFacts
    <3> QED BY <3>1, <3>3
  <2>4. Fans(r)
    BY <1>1, <1>2, <1>3, <1>4, <1>6, <1>7, <2>1, <2>2, <2>3 DEF Fans
  <2> QED BY <2>4
<1>8. CASE r.to # NoOne
  <2>1. DeliverTo(r.to, r)
    BY <1>1, <1>8
  <2>2. /\ closed' = closed
        /\ r.to \in held =>
             /\ unaddressed' = unaddressed /\ stream'[r.to] = Append(stream[r.to], r)
             /\ \A c \in Connections : c # r.to => stream'[c] = stream[c]
        /\ r.to \notin held => unaddressed' = unaddressed + 1 /\ stream' = stream
    BY <1>2, <1>5, <1>6, <1>8, <2>1, DeliverFacts
  <2>3. Fans(r)
    BY <1>1, <1>2, <1>3, <1>5, <1>6, <1>8, <2>2 DEF Fans
  <2> QED BY <2>3
<1> QED BY <1>7, <1>8

LEMMA ReplayFacts ==
  ASSUME TypeInv, Replay
  PROVE  /\ wPc = "replay" /\ newcomer \in held /\ newcomer \notin closed /\ held \subseteq Connections
         /\ taken \in Nat /\ taken' = taken + 1 /\ taken + 1 \in DOMAIN retained
         /\ retained[taken + 1] \in Committed
         /\ UNCHANGED <<channel, logicVars, readerVars, wPc, newcomer, held, caps, filter,
                        retained, unaddressed>>
         /\ closed' \subseteq closed \cup {newcomer}
         /\ \A c \in Connections : c # newcomer => stream'[c] = stream[c]
         /\ IF Covers(caps[newcomer], retained[taken + 1].kind.need)
              THEN \/ stream'[newcomer] = Append(stream[newcomer], retained[taken + 1])
                   \/ stream'[newcomer] = stream[newcomer] /\ newcomer \in closed'
              ELSE stream' = stream
<1>0. (retained \in Seq(Committed) /\ newcomer \in held) \/ wPc # "replay"
  BY DEF TypeInv
<1>1. /\ wPc = "replay" /\ newcomer \notin closed /\ taken < Len(retained) /\ taken' = taken + 1
      /\ IF Covers(caps[newcomer], retained[taken + 1].kind.need)
           THEN Push({newcomer}, retained[taken + 1]) ELSE UNCHANGED queueVars
      /\ UNCHANGED <<channel, logicVars, readerVars, wPc, newcomer, held, caps, filter,
                     retained, unaddressed>>
  BY DEF Replay
<1>2. /\ newcomer \in held /\ held \subseteq Connections /\ taken \in Nat
      /\ taken + 1 \in DOMAIN retained /\ retained[taken + 1] \in Committed
  <2>1. retained \in Seq(Committed) /\ newcomer \in held /\ taken \in Nat
    BY <1>1 DEF TypeInv
  <2>2. taken + 1 \in 1..Len(retained)
    BY <1>1, <2>1
  <2> QED BY <2>1, <2>2 DEF TypeInv
<1>3. CASE Covers(caps[newcomer], retained[taken + 1].kind.need)
  <2> DEFINE r == retained[taken + 1]
  <2>1. Push({newcomer}, r) /\ {newcomer} \in SUBSET Connections /\ r \in Item
    BY <1>1, <1>2, <1>3 DEF Item
  <2> HIDE DEF r
  <2>2. /\ closed' \subseteq closed \cup {newcomer}
        /\ \A c \in Connections :
             stream'[c] = stream[c] \/ (c \in {newcomer} /\ stream'[c] = Append(stream[c], r))
        /\ \A c \in {newcomer} : c \notin closed' => stream'[c] = Append(stream[c], r)
    BY <2>1, PushFacts
  <2>3. \/ stream'[newcomer] = Append(stream[newcomer], r)
        \/ stream'[newcomer] = stream[newcomer] /\ newcomer \in closed'
    BY <1>2, <2>2
  <2> QED BY <1>1, <1>2, <1>3, <2>2, <2>3 DEF r
<1>4. CASE ~Covers(caps[newcomer], retained[taken + 1].kind.need)
  BY <1>1, <1>2, <1>4 DEF queueVars
<1> QED BY <1>3, <1>4

LEMMA ChannelKept ==
  ASSUME TypeInv, TypeInv', ChannelInv, RecordsInv, setup' = setup,
         \/ \E kind \in Kinds : Commit(kind)
         \/ \E c \in Connections : CommitTo(c)
         \/ \E c \in Connections : Drain(c)
         \/ Replay \/ ReplayEnds \/ ControlEmpty \/ Fan \/ BatchEnds
  PROVE  ChannelInv'
<1>1. CASE Replay
  <2>1. /\ UNCHANGED <<channel, readerVars, caps, filter, held>>
        /\ closed' \subseteq closed \cup {newcomer} /\ newcomer \in held
    BY <1>1, ReplayFacts
  <2>2. ASSUME NEW c \in Connections
        PROVE  \/ stream'[c] = stream[c]
               \/ \E r \in Committed :
                    /\ c \in held /\ stream'[c] = Append(stream[c], r)
                    /\ IsFannedOut(r) => caps[c] # NoCaps
    BY <1>1, ReplayFacts, NoCapsCoverNothing
  <2> QED BY <2>1, <2>2, ChannelStays
<1>2. CASE Fan
  <2>1. PICK r : Fans(r)
    BY <1>2, FanFacts
  <2>2. /\ UNCHANGED <<channel, readerVars, caps, filter>> /\ held' \subseteq held
        /\ closed' \subseteq closed \cup held /\ r \in Committed
    BY <2>1 DEF Fans
  <2>3. ASSUME NEW c \in Connections
        PROVE  \/ stream'[c] = stream[c]
               \/ /\ c \in held /\ stream'[c] = Append(stream[c], r)
                  /\ IsFannedOut(r) => caps[c] # NoCaps
    <3>1. CASE r.to = NoOne
      BY <2>1, <3>1, NoCapsCoverNothing DEF Fans, Receivers
    <3>2. CASE r.to # NoOne
      BY <2>1, <3>2 DEF Fans
    <3> QED BY <3>1, <3>2
  <2> QED BY <2>2, <2>3, ChannelStays
<1>3. CASE \/ \E kind \in Kinds : Commit(kind)
           \/ \E c \in Connections : CommitTo(c)
           \/ \E c \in Connections : Drain(c)
           \/ ReplayEnds \/ ControlEmpty \/ BatchEnds
  <2>1. UNCHANGED <<channel, readerVars, caps, filter, closed, stream>> /\ held' \subseteq held
    BY <1>3 DEF Commit, CommitTo, PushAddressed, Drain, ReplayEnds, ControlEmpty, BatchEnds,
                writerVars, queueVars
  <2> QED BY <2>1, ChannelStays
<1> QED BY <1>1, <1>2, <1>3
-----------------------------------------------------------------------------
(* Steps that fan nothing out. *)

Quiet ==
  \A c \in Connections :
    \/ stream'[c] = stream[c]
    \/ \E x \in Item : ~IsFannedOut(x) /\ stream'[c] = Append(stream[c], x)

LEMMA QuietFacts ==
  ASSUME TypeInv, TypeInv', setup' = setup, Quiet, NEW c \in Connections
  PROVE  /\ DOMAIN stream[c] = 1..Len(stream[c]) /\ Len(stream[c]) \in Nat
         /\ DOMAIN stream'[c] = 1..Len(stream'[c]) /\ Len(stream'[c]) \in Nat
         /\ \A j \in DOMAIN stream[c] : j \in DOMAIN stream'[c] /\ stream'[c][j] = stream[c][j]
         /\ \A j \in DOMAIN stream'[c] :
              IsFannedOut(stream'[c][j]) =>
                j \in DOMAIN stream[c] /\ IsFannedOut(stream[c][j])
<1>1. stream[c] \in Seq(Item) /\ stream'[c] \in Seq(Item)
  BY SetupStays DEF TypeInv
<1>2. CASE stream'[c] = stream[c]
  BY <1>1, <1>2
<1>3. ASSUME NEW x \in Item, ~IsFannedOut(x), stream'[c] = Append(stream[c], x)
      PROVE  /\ \A j \in DOMAIN stream[c] : j \in DOMAIN stream'[c] /\ stream'[c][j] = stream[c][j]
             /\ \A j \in DOMAIN stream'[c] :
                  IsFannedOut(stream'[c][j]) =>
                    j \in DOMAIN stream[c] /\ IsFannedOut(stream[c][j])
  <2>1. /\ DOMAIN stream'[c] = DOMAIN stream[c] \cup {Len(stream[c]) + 1}
        /\ \A i \in DOMAIN stream[c] : stream'[c][i] = stream[c][i]
        /\ stream'[c][Len(stream[c]) + 1] = x
    BY <1>1, <1>3, AppendFacts
  <2> QED BY <1>3, <2>1
<1> QED BY <1>1, <1>2, <1>3 DEF Quiet

LEMMA QuietRecords ==
  ASSUME TypeInv, TypeInv', setup' = setup, Quiet, RingInv, RetainedInv,
         UNCHANGED <<ring, committed, evictions, refusals, retained>>
  PROVE  RingInv' /\ RetainedInv'
<1>1. Kinds' = Kinds /\ RetainedSlots' = RetainedSlots
  BY SetupStays
<1>2. ASSUME NEW c \in Connections, NEW j \in DOMAIN stream'[c], IsFannedOut(stream'[c][j])
      PROVE  /\ stream'[c][j].n <= committed
             /\ \A i \in DOMAIN ring : stream'[c][j].n < ring[i].n
  <2>1. /\ j \in DOMAIN stream[c] /\ IsFannedOut(stream[c][j]) /\ stream'[c][j] = stream[c][j]
    BY <1>2, QuietFacts
  <2> QED BY <2>1 DEF RingInv, RetainedInv
<1>3. RingInv'
  BY <1>1, <1>2 DEF RingInv
<1>4. RetainedInv'
  BY <1>1, <1>2 DEF RetainedInv
<1> QED BY <1>3, <1>4

(* The filters asked for are those asked for before, or one more. *)
AskedGrows ==
  \A c \in Connections :
    /\ Len(asked[c]) <= Len(asked'[c])
    /\ \A i \in 1..Len(asked[c]) : asked'[c][i] = asked[c][i]

LEMMA QuietStreams ==
  ASSUME TypeInv, TypeInv', setup' = setup, Quiet, ChannelInv, ChannelInv',
         InCommitOrder, OnlyEntitled, NothingEscapesTheFilter, AskedGrows,
         \A c \in Connections : grant'[c] = grant[c] \/ caps[c] = NoCaps
  PROVE  InCommitOrder' /\ OnlyEntitled' /\ NothingEscapesTheFilter'
<1>1. InCommitOrder'
  <2>1. \A c \in Connections : \A i \in DOMAIN stream'[c] : stream'[c][i] = Handshake <=> i = 1
    BY DEF ChannelInv, AttachInv
  <2>2. ASSUME NEW c \in Connections, NEW i \in DOMAIN stream'[c], NEW j \in DOMAIN stream'[c],
               i < j, IsFannedOut(stream'[c][i]), IsFannedOut(stream'[c][j])
        PROVE  stream'[c][i].n < stream'[c][j].n
    <3>1. /\ i \in DOMAIN stream[c] /\ IsFannedOut(stream[c][i]) /\ stream'[c][i] = stream[c][i]
          /\ j \in DOMAIN stream[c] /\ IsFannedOut(stream[c][j]) /\ stream'[c][j] = stream[c][j]
      BY <2>2, QuietFacts
    <3> QED BY <2>2, <3>1 DEF InCommitOrder
  <2> QED BY <2>1, <2>2 DEF InCommitOrder
<1>2. OnlyEntitled'
  <2>1. ASSUME NEW c \in Connections, NEW i \in DOMAIN stream'[c], IsFannedOut(stream'[c][i])
        PROVE  /\ stream'[c][i].kind.need \in grant'[c] \cap 0..(Bits - 1)
               /\ \E j \in 1..(i - 1) : stream'[c][j] = AuthResult
    <3>1. i \in DOMAIN stream[c] /\ IsFannedOut(stream[c][i]) /\ stream'[c][i] = stream[c][i]
      BY <2>1, QuietFacts
    <3>2. caps[c] # NoCaps
      BY <3>1 DEF ChannelInv, SessionInv
    <3>3. /\ stream[c][i].kind.need \in grant[c] \cap 0..(Bits - 1)
          /\ \E j \in 1..(i - 1) : stream[c][j] = AuthResult
      BY <3>1 DEF OnlyEntitled
    <3>4. \A j \in 1..(i - 1) : stream'[c][j] = stream[c][j]
      BY <3>1, QuietFacts
    <3> QED BY <3>1, <3>2, <3>3, <3>4
  <2> QED BY <2>1 DEF OnlyEntitled
<1>3. NothingEscapesTheFilter'
  <2>1. ASSUME NEW c \in Connections, NEW i \in DOMAIN stream'[c], NEW j \in DOMAIN stream'[c],
               i < j, stream'[c][i].what = "FilterResult", IsFannedOut(stream'[c][j])
        PROVE  \E k \in stream'[c][i].ask..Len(asked'[c]) : Admits(asked[c][k], stream[c][j].kind)'
    <3>1. j \in DOMAIN stream[c] /\ IsFannedOut(stream[c][j]) /\ stream'[c][j] = stream[c][j]
      BY <2>1, QuietFacts
    <3>2. i \in DOMAIN stream[c] /\ stream'[c][i] = stream[c][i]
      BY <2>1, <3>1, QuietFacts
    <3>3. PICK k \in stream[c][i].ask..Len(asked[c]) : Admits(asked[c][k], stream[c][j].kind)
      BY <2>1, <3>1, <3>2 DEF NothingEscapesTheFilter
    <3>4. \E q \in 1..MaxFilters : stream[c][i] = FilterResult(q)
      <4>1. stream[c] \in Seq(Item)
        BY DEF TypeInv
      <4>2. stream[c][i] \in Item
        BY <3>2, <4>1
      <4> QED BY <2>1, <3>2, <4>2, ItemForms
    <3>5. /\ stream[c][i].ask \in Nat \ {0} /\ Len(asked[c]) \in Nat /\ Len(asked'[c]) \in Nat
      <4>1. stream[c][i].ask \in 1..MaxFilters
        BY <3>4, ItemFacts
      <4>2. MaxFilters \in Nat
        BY SetupFacts DEF TypeInv
      <4>3. asked[c] \in Seq(Filters) /\ asked'[c] \in Seq(Filters)
        BY SetupStays DEF TypeInv
      <4> QED BY <4>1, <4>2, <4>3
    <3>6. k \in 1..Len(asked[c]) /\ k \in stream[c][i].ask..Len(asked'[c])
      BY <3>3, <3>5 DEF AskedGrows
    <3>7. asked'[c][k] = asked[c][k] /\ All' = All
      BY <3>6, SetupStays DEF AskedGrows
    <3> QED BY <3>1, <3>2, <3>3, <3>6, <3>7 DEF Admits
  <2> QED BY <2>1 DEF NothingEscapesTheFilter
<1> QED BY <1>1, <1>2, <1>3

(* What a connection has been told it stays told. *)
LEMMA QuietTold ==
  ASSUME TypeInv, TypeInv', setup' = setup, Quiet, retained' = retained,
         NEW c \in Connections, caps'[c] = caps[c], NEW k, IsTold(c, k)
  PROVE  IsTold(c, k)'
<1> SUFFICES ASSUME Covers(caps[c], retained[k].kind.need)
             PROVE  \E i \in DOMAIN stream'[c] :
                      /\ stream'[c][i] = retained[k]
                      /\ \A j \in (i + 1)..Len(stream'[c]) :
                           IsFannedOut(stream'[c][j]) => stream'[c][j].kind.slot # retained[k].kind.slot
  BY DEF IsTold
<1>1. PICK i \in DOMAIN stream[c] :
        /\ stream[c][i] = retained[k]
        /\ \A j \in (i + 1)..Len(stream[c]) :
             IsFannedOut(stream[c][j]) => stream[c][j].kind.slot # retained[k].kind.slot
  BY DEF IsTold
<1>2. /\ DOMAIN stream[c] = 1..Len(stream[c]) /\ Len(stream[c]) \in Nat
      /\ DOMAIN stream'[c] = 1..Len(stream'[c]) /\ Len(stream'[c]) \in Nat
      /\ \A j \in DOMAIN stream[c] : j \in DOMAIN stream'[c] /\ stream'[c][j] = stream[c][j]
      /\ \A j \in DOMAIN stream'[c] :
           IsFannedOut(stream'[c][j]) => j \in DOMAIN stream[c] /\ IsFannedOut(stream[c][j])
  BY QuietFacts
<1>3. ASSUME NEW j \in (i + 1)..Len(stream'[c]), IsFannedOut(stream'[c][j])
      PROVE  stream'[c][j].kind.slot # retained[k].kind.slot
  <2>1. j \in DOMAIN stream'[c]
    BY <1>2
  <2>2. j \in (i + 1)..Len(stream[c]) /\ IsFannedOut(stream[c][j]) /\ stream'[c][j] = stream[c][j]
    BY <1>2, <1>3, <2>1
  <2> QED BY <1>1, <2>2
<1> QED BY <1>1, <1>2, <1>3

(* What has no session is told of nothing. *)
LEMMA NoCapsToldAll ==
  ASSUME NEW c, caps[c] = NoCaps
  PROVE  \A k : IsTold(c, k)
BY NoCapsCoverNothing DEF IsTold

LEMMA WorldIsTold ==
  SeesTheWorld <=> \A c \in held \ {newcomer} : \A k \in DOMAIN retained : IsTold(c, k)
BY DEF SeesTheWorld, IsTold

Sends(c) ==
  \/ Attach(c) \/ Ping(c) \/ Authenticate(c) \/ \E g \in Grants : Report(c, g)
  \/ \E f \in Filters : SetTopicFilter(c, f)
  \/ AnswerFilter(c) \/ Detach(c)

QuietStep ==
  \/ \E c \in Connections : Sends(c) \/ Drain(c)
  \/ TakeAttach \/ TakeDetach \/ TakeAnswer \/ TakeAuthenticated \/ TakeTopicFilter
  \/ ReplayEnds \/ ControlEmpty \/ BatchEnds

LEMMA QuietSteps ==
  ASSUME TypeInv, ChannelInv, QuietStep
  PROVE  /\ Quiet /\ AskedGrows
         /\ \A c \in Connections : grant'[c] = grant[c] \/ caps[c] = NoCaps
         /\ UNCHANGED <<ring, committed, replies, evictions, refusals, retained>>
<1>0. \A c \in Connections : asked[c] \in Seq(Filters) /\ Len(asked[c]) \in Nat
  BY DEF TypeInv
<1>1. ASSUME UNCHANGED asked
      PROVE  AskedGrows
  BY <1>0, <1>1 DEF AskedGrows
<1>2. ASSUME NEW d \in Connections, Sends(d)
      PROVE  /\ Quiet /\ AskedGrows
             /\ \A c \in Connections : grant'[c] = grant[c] \/ caps[c] = NoCaps
             /\ UNCHANGED <<ring, committed, replies, evictions, refusals, retained>>
  <2>1. UNCHANGED <<stream, ring, committed, replies, evictions, refusals, retained>>
    BY <1>2 DEF Sends, Attach, Ping, Authenticate, Report, SetTopicFilter, AnswerFilter, Detach,
               logicVars, writerVars, queueVars
  <2>2. AskedGrows
    <3>1. CASE \E f \in Filters : SetTopicFilter(d, f)
      <4>1. PICK f \in Filters : asked' = [asked EXCEPT ![d] = Append(@, f)]
        BY <3>1 DEF SetTopicFilter
      <4>2. DOMAIN asked = Connections
        BY DEF TypeInv
      <4>3. ASSUME NEW c \in Connections
            PROVE  asked'[c] = asked[c] \/ asked'[c] = Append(asked[c], f)
        BY <4>1, <4>2
      <4>4. ASSUME NEW c \in Connections
            PROVE  /\ Len(asked[c]) <= Len(Append(asked[c], f))
                   /\ \A i \in 1..Len(asked[c]) : Append(asked[c], f)[i] = asked[c][i]
        <5>1. asked[c] \in Seq(Filters)
          BY <1>0
        <5> QED BY <5>1
      <4>5. ASSUME NEW c \in Connections
            PROVE  /\ Len(asked[c]) <= Len(asked'[c])
                   /\ \A i \in 1..Len(asked[c]) : asked'[c][i] = asked[c][i]
        <5>1. CASE asked'[c] = asked[c]
          BY <1>0, <5>1
        <5>2. CASE asked'[c] = Append(asked[c], f)
          BY <4>4, <5>2
        <5> QED BY <4>3, <5>1, <5>2
      <4> QED BY <4>5 DEF AskedGrows
    <3>2. CASE UNCHANGED asked
      BY <1>1, <3>2
    <3> QED BY <1>2, <3>1, <3>2 DEF Sends, Attach, Ping, Authenticate, Report, AnswerFilter, Detach
  <2>3. \A c \in Connections : grant'[c] = grant[c] \/ caps[c] = NoCaps
    <3>1. CASE \E g \in Grants : Report(d, g)
      <4>1. reader[d] = "answered" /\ \A c \in Connections : c # d => grant'[c] = grant[c]
        BY <3>1 DEF Report, TypeInv
      <4>2. caps[d] = NoCaps
        BY <4>1 DEF ChannelInv, SessionInv
      <4> QED BY <4>1, <4>2
    <3>2. CASE UNCHANGED grant
      BY <3>2
    <3> QED BY <1>2, <3>1, <3>2 DEF Sends, Attach, Ping, Authenticate, SetTopicFilter, AnswerFilter, Detach
  <2> QED BY <2>1, <2>2, <2>3 DEF Quiet
<1>3. CASE \/ \E c \in Connections : Drain(c)
           \/ TakeDetach \/ TakeAuthenticated \/ TakeTopicFilter
           \/ ReplayEnds \/ ControlEmpty \/ BatchEnds
  <2>1. UNCHANGED <<stream, grant, asked, ring, committed, replies, evictions, refusals, retained>>
    BY <1>3 DEF Drain, TakeDetach, TakeAuthenticated, TakeTopicFilter, Take,
                ReplayEnds, ControlEmpty, BatchEnds, logicVars, readerVars, writerVars, queueVars
  <2> QED BY <1>1, <2>1 DEF Quiet
<1>4. CASE TakeAttach
  <2> DEFINE d == Head(channel).id
  <2>1. /\ Take("Attach") /\ Push({d}, Handshake) /\ UNCHANGED retained
    BY <1>4 DEF TakeAttach
  <2>2. d \in Connections /\ UNCHANGED <<logicVars, readerVars>>
    BY <2>1, TakeFacts
  <2>3. Handshake \in Item /\ ~IsFannedOut(Handshake)
    BY ItemFacts DEF Item
  <2> HIDE DEF d
  <2>4. {d} \in SUBSET Connections
    BY <2>2
  <2>5. \A c \in Connections :
          stream'[c] = stream[c] \/ (c \in {d} /\ stream'[c] = Append(stream[c], Handshake))
    BY <2>1, <2>3, <2>4, PushFacts
  <2> QED BY <1>1, <2>1, <2>2, <2>3, <2>5 DEF Quiet, logicVars, readerVars
<1>5. CASE TakeAnswer
  <2> DEFINE d == Head(channel).id
             r == Head(channel).record
  <2>1. Take("Answer") /\ DeliverTo(d, r) /\ UNCHANGED retained
    BY <1>5 DEF TakeAnswer
  <2>2. /\ Head(channel) \in Message /\ Head(channel).type = "Answer" /\ d \in Connections
        /\ UNCHANGED <<logicVars, readerVars>>
    BY <2>1, TakeFacts
  <2>3. r \in {Pong, AuthResult} \cup FilterResults
    BY <2>2, MessageForms
  <2>4. r \in Item /\ ~IsBoundary(r) /\ ~IsFannedOut(r)
    BY <2>3, ItemFacts DEF Item, FilterResults
  <2> HIDE DEF d, r
  <2>5. \A c \in Connections : stream'[c] = stream[c] \/ stream'[c] = Append(stream[c], r)
    BY <2>1, <2>2, <2>4, DeliverFacts
  <2> QED BY <1>1, <2>1, <2>2, <2>4, <2>5 DEF Quiet, logicVars, readerVars
<1> QED BY <1>2, <1>3, <1>4, <1>5 DEF QuietStep

LEMMA QuietWorld ==
  ASSUME TypeInv, TypeInv', setup' = setup, Quiet, SeesTheWorld, ReplayInv,
         UNCHANGED <<wPc, taken, newcomer, closed, caps, retained>>,
         held' \subseteq held \cup {c \in Connections : caps[c] = NoCaps}
  PROVE  SeesTheWorld' /\ ReplayInv'
<1>1. SeesTheWorld'
  <2>1. ASSUME NEW c \in held' \ {newcomer'}, NEW k \in DOMAIN retained'
        PROVE  IsTold(c, k)'
    <3>1. c \in Connections
      BY DEF TypeInv
    <3>2. IsTold(c, k)
      BY <2>1, NoCapsToldAll, WorldIsTold
    <3> QED BY <3>1, <3>2, QuietTold
  <2> QED BY <2>1, WorldIsTold DEF SeesTheWorld, IsTold
<1>2. ReplayInv'
  <2>1. ASSUME wPc = "replay"
        PROVE  /\ newcomer \in Connections
               /\ newcomer \notin closed => \A k \in 1..taken : IsTold(newcomer, k)'
               /\ \A k \in (taken + 1)..Len(retained) : \A j \in DOMAIN stream'[newcomer] :
                    IsFannedOut(stream'[newcomer][j]) => stream'[newcomer][j].n < retained[k].n
    <3>1. newcomer \in Connections
      BY <2>1 DEF TypeInv
    <3>2. PICK c \in Connections : c = newcomer
      BY <3>1
    <3>3. c \notin closed => \A k \in 1..taken : IsTold(c, k)'
      BY <2>1, <3>2, QuietTold DEF ReplayInv
    <3>4. /\ \A j \in DOMAIN stream[c] : j \in DOMAIN stream'[c] /\ stream'[c][j] = stream[c][j]
          /\ \A j \in DOMAIN stream'[c] :
               IsFannedOut(stream'[c][j]) => j \in DOMAIN stream[c] /\ IsFannedOut(stream[c][j])
      BY QuietFacts
    <3>5. \A k \in (taken + 1)..Len(retained) : \A j \in DOMAIN stream'[c] :
            IsFannedOut(stream'[c][j]) => stream'[c][j].n < retained[k].n
      BY <2>1, <3>2, <3>4 DEF ReplayInv
    <3> QED BY <3>1, <3>2, <3>3, <3>5 DEF IsTold
  <2>2. RecordsPerPass' = RecordsPerPass
    BY SetupStays
  <2> QED BY <2>1, <2>2 DEF ReplayInv, IsTold
<1> QED BY <1>1, <1>2

LEMMA QuietInv ==
  ASSUME TypeInv, TypeInv', ChannelInv, ChannelInv', RecordsInv, StreamsInv, setup' = setup,
         QuietStep
  PROVE  RecordsInv' /\ StreamsInv'
<1>1. /\ Quiet /\ AskedGrows
      /\ \A c \in Connections : grant'[c] = grant[c] \/ caps[c] = NoCaps
      /\ UNCHANGED <<ring, committed, evictions, refusals, retained>>
  BY QuietSteps
<1>2. RingInv' /\ RetainedInv'
  BY <1>1, QuietRecords DEF RecordsInv
<1>3. InCommitOrder' /\ OnlyEntitled' /\ NothingEscapesTheFilter'
  BY <1>1, QuietStreams DEF StreamsInv
<1>4. SeesTheWorld /\ ReplayInv
  BY DEF StreamsInv, RecordsInv
<1>5. NoOne \notin Connections /\ RecordsPerPass' = RecordsPerPass /\ RecordsPerPass \in Nat \ {0}
  BY ConnectionsAssumption, SetupStays, SetupFacts DEF TypeInv
<1>6. CASE \/ \E c \in Connections : Sends(c) \/ Drain(c)
           \/ TakeDetach \/ TakeAnswer \/ TakeTopicFilter
  <2>1. UNCHANGED <<wPc, taken, newcomer, closed, caps, retained>> /\ held' \subseteq held
    <3>1. CASE \E c \in Connections : Sends(c) \/ Drain(c)
      BY <3>1 DEF Sends, Attach, Ping, Authenticate, Report, SetTopicFilter, AnswerFilter, Detach,
                  Drain, writerVars, queueVars
    <3>2. CASE TakeDetach \/ TakeTopicFilter
      BY <3>2 DEF TakeDetach, TakeTopicFilter, InBatch, queueVars
    <3>3. CASE TakeAnswer
      <4>1. UNCHANGED <<InBatch, held, caps, filter, retained>>
        BY <3>3 DEF TakeAnswer
      <4>2. closed' = closed
        <5> DEFINE d == Head(channel).id
                   r == Head(channel).record
        <5>1. Take("Answer") /\ DeliverTo(d, r)
          BY <3>3 DEF TakeAnswer
        <5>2. /\ Head(channel) \in Message /\ Head(channel).type = "Answer" /\ d \in Connections
          BY <5>1, TakeFacts
        <5>3. r \in {Pong, AuthResult} \cup FilterResults
          BY <5>2, MessageForms
        <5>4. r \in Item /\ ~IsBoundary(r)
          BY <5>3, ItemFacts DEF Item, FilterResults
        <5> HIDE DEF d, r
        <5> QED BY <5>1, <5>2, <5>4, DeliverFacts
      <4> QED BY <4>1, <4>2 DEF InBatch
    <3> QED BY <1>6, <3>1, <3>2, <3>3
  <2> QED BY <1>1, <1>2, <1>3, <1>4, <2>1, QuietWorld DEF RecordsInv, StreamsInv
<1>7. CASE TakeAttach
  <2> DEFINE d == Head(channel).id
  <2>1. /\ Take("Attach") /\ held' = held \cup {d} /\ Push({d}, Handshake)
        /\ UNCHANGED <<InBatch, caps, filter, retained, unaddressed>>
    BY <1>7 DEF TakeAttach
  <2>2. /\ Head(channel) = channel[1] /\ 1 \in DOMAIN channel /\ Head(channel).type = "Attach"
        /\ d \in Connections
    BY <2>1, TakeFacts
  <2>3. caps[d] = NoCaps
    BY <2>2 DEF ChannelInv, AttachInv, IsFor
  <2>4. Handshake \in Item /\ ~IsBoundary(Handshake)
    BY ItemFacts DEF Item
  <2> HIDE DEF d
  <2>5. {d} \in SUBSET Connections
    BY <2>2
  <2>6. closed' = closed
    BY <2>1, <2>4, <2>5, PushFacts
  <2>7. /\ UNCHANGED <<wPc, taken, newcomer, closed, caps, retained>>
        /\ held' \subseteq held \cup {c \in Connections : caps[c] = NoCaps}
    BY <2>1, <2>2, <2>3, <2>6 DEF InBatch
  <2> QED BY <1>1, <1>2, <1>3, <1>4, <2>7, QuietWorld DEF RecordsInv, StreamsInv
<1>8. CASE TakeAuthenticated
  <2> DEFINE d == Head(channel).id
             g == Head(channel).caps
  <2>1. /\ Take("Authenticated")
        /\ IF d \in held
             THEN caps' = [caps EXCEPT ![d] = g] /\ wPc' = "replay" /\ taken' = 0 /\ newcomer' = d
             ELSE UNCHANGED <<InBatch, caps>>
        /\ UNCHANGED <<held, filter, retained, unaddressed, queueVars>>
    BY <1>8 DEF TakeAuthenticated
  <2>2. /\ Head(channel).type = "Authenticated" /\ d \in Connections
        /\ Head(channel) = channel[1] /\ 1 \in DOMAIN channel /\ newcomer = NoOne
    BY <2>1, TakeFacts
  <2>3. caps[d] = NoCaps
    BY <2>2 DEF ChannelInv, SessionInv, IsFor
  <2> HIDE DEF d, g
  <2>4. CASE d \notin held
    <3>1. UNCHANGED <<wPc, taken, newcomer, closed, caps, retained>> /\ held' \subseteq held
      BY <2>1, <2>4 DEF InBatch, queueVars
    <3> QED BY <1>1, <1>2, <1>3, <1>4, <3>1, QuietWorld DEF RecordsInv, StreamsInv
  <2>5. CASE d \in held
    <3>1. /\ caps' = [caps EXCEPT ![d] = g] /\ wPc' = "replay" /\ taken' = 0 /\ newcomer' = d
          /\ UNCHANGED <<held, retained, stream, closed>>
      BY <2>1, <2>5 DEF queueVars
    <3>2. SeesTheWorld'
      <4>1. ASSUME NEW c \in held' \ {newcomer'}, NEW k \in DOMAIN retained'
            PROVE  IsTold(c, k)'
        <5>1. c \in Connections /\ c \in held \ {newcomer} /\ k \in DOMAIN retained
          BY <1>5, <2>2, <3>1, <4>1 DEF TypeInv
        <5>2. caps'[c] = caps[c]
          BY <3>1, <4>1
        <5>3. IsTold(c, k)
          BY <1>4, <5>1, WorldIsTold
        <5> QED BY <1>1, <5>1, <5>2, <5>3, QuietTold
      <4> QED BY <4>1 DEF SeesTheWorld, IsTold
    <3>3. ReplayInv'
      <4>1. \A j \in DOMAIN stream[d] : ~IsFannedOut(stream[d][j])
        BY <2>2, <2>3 DEF ChannelInv, SessionInv
      <4>2. Len(retained) \in Nat
        BY DEF TypeInv
      <4> QED BY <3>1, <4>1, <4>2 DEF ReplayInv
    <3> QED BY <1>2, <1>3, <3>2, <3>3 DEF RecordsInv, StreamsInv
  <2> QED BY <2>4, <2>5
<1>9. CASE ReplayEnds
  <2>1. /\ wPc = "replay" /\ (newcomer \in closed \/ taken = Len(retained))
        /\ wPc' = "control" /\ taken' = 0 /\ newcomer' = NoOne /\ held' = held \ closed
        /\ UNCHANGED <<caps, retained, stream, closed>>
    BY <1>9 DEF ReplayEnds, queueVars
  <2>2. DOMAIN retained = 1..Len(retained) /\ held \subseteq Connections
    BY DEF TypeInv
  <2>3. ASSUME NEW c \in held' \ {newcomer'}, NEW k \in DOMAIN retained'
        PROVE  IsTold(c, k)'
    <3>1. c \in Connections /\ c \in held /\ c \notin closed /\ k \in DOMAIN retained
      BY <2>1, <2>2, <2>3
    <3>2. IsTold(c, k)
      <4>1. CASE c = newcomer
        BY <1>4, <2>1, <2>2, <3>1, <4>1 DEF ReplayInv
      <4>2. CASE c # newcomer
        BY <1>4, <3>1, <4>2, WorldIsTold
      <4> QED BY <4>1, <4>2
    <3> QED BY <1>1, <2>1, <3>1, <3>2, QuietTold
  <2>4. SeesTheWorld'
    BY <2>3 DEF SeesTheWorld, IsTold
  <2>5. ReplayInv'
    BY <2>1 DEF ReplayInv
  <2> QED BY <1>2, <1>3, <2>4, <2>5 DEF RecordsInv, StreamsInv
<1>10. CASE ControlEmpty \/ BatchEnds
  <2>1. /\ UNCHANGED <<newcomer, held, caps, retained, stream, closed>>
        /\ \/ wPc = "control" /\ wPc' = "batch" /\ taken' = taken
           \/ wPc' = "control" /\ taken' = 0
    BY <1>10 DEF ControlEmpty, BatchEnds, queueVars
  <2>2. ReplayInv'
    <3>1. wPc = "control" => taken = 0
      BY <1>4 DEF ReplayInv
    <3>2. wPc' = "batch" => taken' < RecordsPerPass'
      BY <1>5, <2>1, <3>1
    <3> QED BY <2>1, <3>1, <3>2 DEF ReplayInv
  <2>3. SeesTheWorld'
    BY <1>4, <2>1 DEF SeesTheWorld
  <2> QED BY <1>2, <1>3, <2>2, <2>3 DEF RecordsInv, StreamsInv
<1> QED BY <1>6, <1>7, <1>8, <1>9, <1>10 DEF QuietStep

(* A committed record is newer than every other. *)
LEMMA CommitInv ==
  ASSUME TypeInv, TypeInv', RecordsInv, StreamsInv, setup' = setup,
         \/ \E kind \in Kinds : Commit(kind)
         \/ \E c \in Connections : CommitTo(c)
  PROVE  RecordsInv' /\ StreamsInv'
<1>0. /\ committed \in Nat /\ ring \in Seq(Committed) /\ DOMAIN ring = 1..Len(ring)
      /\ Len(ring) \in Nat /\ CommitCapacity \in Nat \ {0}
      /\ \A i \in DOMAIN ring : ring[i].n \in Nat
      /\ \A x \in evictions \cup refusals : x.n \in Nat
      /\ \A i \in DOMAIN retained : retained[i].n \in Nat
  <2>1. \A x \in Committed : x.n \in Nat
    BY DEF Committed
  <2>2. /\ committed \in Nat /\ ring \in Seq(Committed) /\ CommitCapacity \in Nat \ {0}
        /\ evictions \subseteq Committed /\ refusals \subseteq Committed /\ retained \in Seq(Committed)
    BY SetupFacts DEF TypeInv
  <2>3. /\ DOMAIN ring = 1..Len(ring) /\ Len(ring) \in Nat
        /\ \A i \in DOMAIN ring : ring[i] \in Committed
        /\ \A i \in DOMAIN retained : retained[i] \in Committed
    BY <2>2
  <2> QED BY <2>1, <2>2, <2>3
<1>1. /\ Kinds' = Kinds /\ RetainedSlots' = RetainedSlots /\ RecordsPerPass' = RecordsPerPass
      /\ All' = All
  BY SetupStays
<1>2. PICK r \in Committed :
        /\ r.n = committed + 1 /\ PushAddressed(r)
        /\ r.to = NoOne => r.kind \in Kinds
        /\ r.to # NoOne => r.kind = ReplyKind
  <2>1. ASSUME NEW kind \in Kinds, Commit(kind)
        PROVE  \E r \in Committed :
                 /\ r.n = committed + 1 /\ PushAddressed(r)
                 /\ r.to = NoOne => r.kind \in Kinds
                 /\ r.to # NoOne => r.kind = ReplyKind
    <3> DEFINE r == Record(committed + 1, kind, NoOne)
    <3>1. r \in Committed /\ r.n = committed + 1 /\ r.to = NoOne /\ r.kind = kind
      BY <1>0 DEF Record, Committed
    <3>2. PushAddressed(r)
      BY <2>1 DEF Commit
    <3> HIDE DEF r
    <3> QED BY <3>1, <3>2
  <2>2. ASSUME NEW c \in Connections, CommitTo(c)
        PROVE  \E r \in Committed :
                 /\ r.n = committed + 1 /\ PushAddressed(r)
                 /\ r.to = NoOne => r.kind \in Kinds
                 /\ r.to # NoOne => r.kind = ReplyKind
    <3> DEFINE r == Record(committed + 1, ReplyKind, c)
    <3>1. r \in Committed /\ r.n = committed + 1 /\ r.to # NoOne /\ r.kind = ReplyKind
      BY <1>0, ConnectionsAssumption DEF Record, Committed
    <3>2. PushAddressed(r)
      BY <2>2 DEF CommitTo
    <3> HIDE DEF r
    <3> QED BY <3>1, <3>2
  <2> QED BY <2>1, <2>2
<1>3. /\ committed' = committed + 1
      /\ UNCHANGED <<channel, readerVars, writerVars, queueVars>>
  BY <1>2 DEF PushAddressed
<1>4. UNCHANGED <<retained, stream, closed, held, newcomer, caps, grant, asked, wPc, taken>>
  BY <1>3 DEF readerVars, writerVars, queueVars
<1>5. RetainedInv'
  <2>1. \A i \in DOMAIN retained : retained[i].n <= committed + 1
    BY <1>0 DEF RecordsInv, RetainedInv
  <2>2. \A c \in Connections : \A j \in DOMAIN stream[c] :
          IsFannedOut(stream[c][j]) => stream[c][j].n <= committed + 1
    <3>1. ASSUME NEW c \in Connections, NEW j \in DOMAIN stream[c], IsFannedOut(stream[c][j])
          PROVE  stream[c][j].n <= committed + 1
      <4>1. stream[c][j].n <= committed
        BY <3>1 DEF RecordsInv, RetainedInv
      <4>2. stream[c] \in Seq(Item)
        BY DEF TypeInv
      <4>3. stream[c][j] \in Committed
        BY <3>1, <4>2, ItemForms
      <4>4. stream[c][j].n \in Nat
        BY <4>3 DEF Committed
      <4> QED BY <1>0, <4>1, <4>4
    <3> QED BY <3>1
  <2> QED BY <1>1, <1>3, <1>4, <2>1, <2>2 DEF RecordsInv, RetainedInv
<1>6. ReplayInv' /\ StreamsInv'
  <2>1. ReplayInv'
    BY <1>1, <1>4 DEF RecordsInv, ReplayInv, IsTold
  <2>2. InCommitOrder' /\ OnlyEntitled' /\ SeesTheWorld'
    BY <1>4 DEF StreamsInv, InCommitOrder, OnlyEntitled, SeesTheWorld
  <2>3. NothingEscapesTheFilter'
    BY <1>1, <1>4 DEF StreamsInv, NothingEscapesTheFilter, Admits
  <2> QED BY <2>1, <2>2, <2>3 DEF StreamsInv
<1>7. RingInv'
  <2>1. RingInv /\ RetainedInv
    BY DEF RecordsInv
(* What may be in the ring: r behind everything, or what was there. *)
  <2>2. /\ \A i \in DOMAIN ring : ring[i].n < r.n
        /\ \A k \in DOMAIN retained : retained[k].n < r.n
        /\ \A x \in evictions \cup refusals : x.n < r.n
        /\ \A c \in Connections : \A j \in DOMAIN stream[c] :
             IsFannedOut(stream[c][j]) => stream[c][j].n < r.n
    <3>1. /\ \A i \in DOMAIN ring : ring[i].n < r.n
          /\ \A k \in DOMAIN retained : retained[k].n < r.n
          /\ \A x \in evictions \cup refusals : x.n < r.n
      BY <1>0, <1>2, <2>1 DEF RingInv, RetainedInv
    <3>2. ASSUME NEW c \in Connections, NEW j \in DOMAIN stream[c], IsFannedOut(stream[c][j])
          PROVE  stream[c][j].n < r.n
      <4>1. stream[c][j].n <= committed
        BY <2>1, <3>2 DEF RetainedInv
      <4>2. stream[c] \in Seq(Item)
        BY DEF TypeInv
      <4>3. stream[c][j] \in Committed
        BY <3>2, <4>2, ItemForms
      <4>4. stream[c][j].n \in Nat
        BY <4>3 DEF Committed
      <4> QED BY <1>0, <1>2, <4>1, <4>4
    <3> QED BY <3>1, <3>2
  <2>3. CASE Len(ring) < CommitCapacity /\ ring' = Append(ring, r) /\ UNCHANGED <<evictions, refusals>>
    <3>1. /\ DOMAIN ring' = DOMAIN ring \cup {Len(ring) + 1}
          /\ \A i \in DOMAIN ring : ring'[i] = ring[i]
          /\ ring'[Len(ring) + 1] = r
      BY <1>0, <2>3, AppendFacts
    <3>2. \A i, j \in DOMAIN ring' : i < j => ring'[i].n < ring'[j].n
      BY <1>0, <2>1, <2>2, <3>1 DEF RingInv
    <3>3. ASSUME NEW i \in DOMAIN ring'
          PROVE  /\ ring'[i].n <= committed + 1
                 /\ ring'[i].to = NoOne => ring'[i].kind \in Kinds
                 /\ ring'[i].to # NoOne => ring'[i].kind = ReplyKind
                 /\ \A k \in DOMAIN retained : retained[k].n < ring'[i].n
                 /\ \A x \in evictions : x.n < ring'[i].n
                 /\ \A x \in refusals : x.n # ring'[i].n
                 /\ \A c \in Connections : \A j \in DOMAIN stream[c] :
                      IsFannedOut(stream[c][j]) => stream[c][j].n < ring'[i].n
      <4>1. CASE i \in DOMAIN ring
        BY <1>0, <2>1, <3>1, <4>1 DEF RingInv
      <4>2. CASE i = Len(ring) + 1
        BY <1>0, <1>2, <2>2, <3>1, <4>2
      <4> QED BY <3>1, <4>1, <4>2
    <3>4. \A x \in evictions \cup refusals : x.n <= committed + 1
      BY <1>0, <2>1 DEF RingInv
    <3> QED BY <1>1, <1>3, <1>4, <2>3, <3>2, <3>3, <3>4 DEF RingInv
  <2>4. CASE /\ Len(ring) = CommitCapacity /\ ring' = Append(Tail(ring), r)
             /\ evictions' = evictions \cup {Head(ring)} /\ UNCHANGED refusals
    <3> DEFINE s == Tail(ring)
    <3>1. ring # <<>>
      BY <1>0, <2>4
    <3>2. /\ s \in Seq(Committed) /\ Len(s) = Len(ring) - 1 /\ Len(s) \in Nat
          /\ DOMAIN s = 1..Len(s) /\ Head(ring) = ring[1] /\ 1 \in DOMAIN ring
          /\ \A i \in DOMAIN s : s[i] = ring[i + 1] /\ i + 1 \in DOMAIN ring
      BY <1>0, <3>1, TailFacts
    <3> HIDE DEF s
    <3>3. /\ DOMAIN ring' = DOMAIN s \cup {Len(s) + 1}
          /\ \A i \in DOMAIN s : ring'[i] = s[i]
          /\ ring'[Len(s) + 1] = r
      <4>1. ring' = Append(s, r)
        BY <2>4 DEF s
      <4> QED BY <3>2, <4>1, AppendFacts
    <3>4. \A i, j \in DOMAIN ring' : i < j => ring'[i].n < ring'[j].n
      <4>1. ASSUME NEW i \in DOMAIN ring', NEW j \in DOMAIN ring', i < j
            PROVE  ring'[i].n < ring'[j].n
        <5>1. i \in DOMAIN s /\ ring'[i] = ring[i + 1] /\ i + 1 \in DOMAIN ring
          BY <3>2, <3>3, <4>1
        <5>2. CASE j \in DOMAIN s
          BY <2>1, <3>2, <3>3, <4>1, <5>1, <5>2 DEF RingInv
        <5>3. CASE j = Len(s) + 1
          BY <2>2, <3>3, <5>1, <5>3
        <5> QED BY <3>3, <5>2, <5>3
      <4> QED BY <4>1
    <3>5. ASSUME NEW i \in DOMAIN ring'
          PROVE  /\ ring'[i].n <= committed + 1
                 /\ ring'[i].to = NoOne => ring'[i].kind \in Kinds
                 /\ ring'[i].to # NoOne => ring'[i].kind = ReplyKind
                 /\ \A k \in DOMAIN retained : retained[k].n < ring'[i].n
                 /\ \A x \in evictions' : x.n < ring'[i].n
                 /\ \A x \in refusals : x.n # ring'[i].n
                 /\ \A c \in Connections : \A j \in DOMAIN stream[c] :
                      IsFannedOut(stream[c][j]) => stream[c][j].n < ring'[i].n
      <4>1. CASE i \in DOMAIN s
        <5>1. ring'[i] = ring[i + 1] /\ i + 1 \in DOMAIN ring /\ 1 < i + 1
          BY <3>2, <3>3, <4>1
        <5>2. ring[1].n < ring[i + 1].n
          BY <2>1, <3>2, <5>1 DEF RingInv
        <5> QED BY <1>0, <2>1, <2>4, <3>2, <5>1, <5>2 DEF RingInv
      <4>2. CASE i = Len(s) + 1
        <5>1. /\ \A x \in evictions' : x.n < r.n
              /\ \A x \in refusals : x.n # r.n
          BY <1>0, <1>2, <2>2, <2>4, <3>2
        <5> QED BY <1>0, <1>2, <2>2, <3>3, <4>2, <5>1
      <4> QED BY <3>3, <4>1, <4>2
    <3>6. \A x \in evictions' \cup refusals : x.n <= committed + 1
      BY <1>0, <2>1, <2>4, <3>2 DEF RingInv
    <3> QED BY <1>1, <1>3, <1>4, <2>4, <3>4, <3>5, <3>6 DEF RingInv
  <2>5. CASE refusals' = refusals \cup {r} /\ UNCHANGED <<ring, evictions>>
    <3>1. ASSUME NEW i \in DOMAIN ring
          PROVE  /\ ring[i].n <= committed + 1
                 /\ \A x \in refusals' : x.n # ring[i].n
      BY <1>0, <1>2, <2>1, <2>5, <3>1 DEF RingInv
    <3>2. \A x \in evictions \cup refusals' : x.n <= committed + 1
      BY <1>0, <1>2, <2>1, <2>5 DEF RingInv
    <3> QED BY <1>1, <1>3, <1>4, <2>1, <2>5, <3>1, <3>2 DEF RingInv
  <2> QED BY <1>2, <2>3, <2>4, <2>5 DEF PushAddressed
<1> QED BY <1>5, <1>6, <1>7 DEF RecordsInv
-----------------------------------------------------------------------------
(* A record is fanned out, or replayed: it is newer than what each of its  *)
(* receivers has had, and lets them know of its slot.                      *)

Fanned(r) ==
  \A c \in Connections :
    \/ stream'[c] = stream[c]
    \/ /\ stream'[c] = Append(stream[c], r)
       /\ Covers(caps[c], r.kind.need) /\ Admits(filter[c], r.kind)
       /\ \A j \in DOMAIN stream[c] : IsFannedOut(stream[c][j]) => stream[c][j].n < r.n

LEMMA FannedFacts ==
  ASSUME TypeInv, TypeInv', setup' = setup, NEW r \in Item, NEW c \in Connections,
         stream'[c] = Append(stream[c], r)
  PROVE  /\ DOMAIN stream[c] = 1..Len(stream[c]) /\ Len(stream[c]) \in Nat
         /\ DOMAIN stream'[c] = 1..Len(stream'[c]) /\ Len(stream'[c]) = Len(stream[c]) + 1
         /\ \A j \in DOMAIN stream[c] : j \in DOMAIN stream'[c] /\ stream'[c][j] = stream[c][j]
         /\ stream'[c][Len(stream[c]) + 1] = r
         /\ \A j \in DOMAIN stream'[c] : j \in DOMAIN stream[c] \/ j = Len(stream[c]) + 1
<1>1. stream[c] \in Seq(Item) /\ stream'[c] \in Seq(Item)
  BY SetupStays DEF TypeInv
<1> QED BY <1>1, AppendFacts

LEMMA FannedStreams ==
  ASSUME TypeInv, TypeInv', setup' = setup, ChannelInv, ChannelInv', StreamsInv,
         UNCHANGED <<grant, asked, caps, filter>>,
         NEW r \in Committed, IsFannedOut(r), Fanned(r)
  PROVE  InCommitOrder' /\ OnlyEntitled' /\ NothingEscapesTheFilter'
<1>0. r \in Item /\ r.kind.need \in Nat /\ All' = All
  <2>1. r.kind \in Kinds \cup {ReplyKind}
    BY DEF Committed
  <2>2. \A kind \in Kinds : kind.need \in Nat
    BY SetupFacts DEF TypeInv
  <2>3. ReplyKind.need \in Nat
    BY DEF ReplyKind
  <2> QED BY <2>1, <2>2, <2>3, SetupStays DEF Item
<1>1. InCommitOrder'
  <2>1. \A c \in Connections : \A i \in DOMAIN stream'[c] : stream'[c][i] = Handshake <=> i = 1
    BY DEF ChannelInv, AttachInv
  <2>2. ASSUME NEW c \in Connections, NEW i \in DOMAIN stream'[c], NEW j \in DOMAIN stream'[c],
               i < j, IsFannedOut(stream'[c][i]), IsFannedOut(stream'[c][j])
        PROVE  stream'[c][i].n < stream'[c][j].n
    <3>1. CASE stream'[c] = stream[c]
      BY <2>2, <3>1 DEF StreamsInv, InCommitOrder
    <3>2. CASE stream'[c] # stream[c]
      <4>1. /\ stream'[c] = Append(stream[c], r)
            /\ \A l \in DOMAIN stream[c] : IsFannedOut(stream[c][l]) => stream[c][l].n < r.n
        BY <3>2 DEF Fanned
      <4>2. /\ DOMAIN stream[c] = 1..Len(stream[c]) /\ Len(stream[c]) \in Nat
            /\ \A l \in DOMAIN stream[c] : stream'[c][l] = stream[c][l]
            /\ stream'[c][Len(stream[c]) + 1] = r
            /\ \A l \in DOMAIN stream'[c] : l \in DOMAIN stream[c] \/ l = Len(stream[c]) + 1
        BY <1>0, <4>1, FannedFacts
      <4>3. i \in DOMAIN stream[c]
        BY <2>2, <4>2
      <4>4. CASE j \in DOMAIN stream[c]
        BY <2>2, <4>2, <4>3, <4>4 DEF StreamsInv, InCommitOrder
      <4>5. CASE j = Len(stream[c]) + 1
        BY <2>2, <4>1, <4>2, <4>3, <4>5
      <4> QED BY <4>2, <4>4, <4>5
    <3> QED BY <3>1, <3>2
  <2> QED BY <2>1, <2>2 DEF InCommitOrder
<1>2. OnlyEntitled'
  <2>1. ASSUME NEW c \in Connections, NEW i \in DOMAIN stream'[c], IsFannedOut(stream'[c][i])
        PROVE  /\ stream'[c][i].kind.need \in grant'[c] \cap 0..(Bits - 1)
               /\ \E j \in 1..(i - 1) : stream'[c][j] = AuthResult
    <3>1. CASE stream'[c] = stream[c]
      BY <2>1, <3>1 DEF StreamsInv, OnlyEntitled
    <3>2. CASE stream'[c] # stream[c]
      <4>1. stream'[c] = Append(stream[c], r) /\ Covers(caps[c], r.kind.need)
        BY <3>2 DEF Fanned
      <4>2. /\ DOMAIN stream[c] = 1..Len(stream[c]) /\ Len(stream[c]) \in Nat
            /\ \A l \in DOMAIN stream[c] : stream'[c][l] = stream[c][l]
            /\ stream'[c][Len(stream[c]) + 1] = r
            /\ \A l \in DOMAIN stream'[c] : l \in DOMAIN stream[c] \/ l = Len(stream[c]) + 1
        BY <1>0, <4>1, FannedFacts
      <4>3. CASE i \in DOMAIN stream[c]
        <5>1. \A l \in 1..(i - 1) : stream'[c][l] = stream[c][l]
          BY <4>2, <4>3
        <5> QED BY <2>1, <4>2, <4>3, <5>1 DEF StreamsInv, OnlyEntitled
      <4>4. CASE i = Len(stream[c]) + 1
        <5>1. caps[c] # NoCaps
          BY <4>1, NoCapsCoverNothing
        <5>2. caps[c] = Capabilities(grant[c]) /\ grant[c] \in SUBSET Nat
          <6>1. caps[c] = Capabilities(grant[c]) /\ grant[c] \in Grants \cup {NoCaps}
            BY <5>1 DEF TypeInv
          <6>2. \A g \in Grants : g \subseteq Nat
            BY SetupFacts DEF TypeInv
          <6> QED BY <6>1, <6>2 DEF NoCaps
        <5>3. r.kind.need \in grant[c] /\ r.kind.need \in 0..(Bits - 1)
          BY <1>0, <4>1, <5>2, CapabilitiesFacts
        <5>4. IsAnswered(c)
          BY <5>1 DEF ChannelInv, SessionInv
        <5>5. PICK l \in DOMAIN stream[c] : stream[c][l] = AuthResult
          BY <5>4 DEF IsAnswered
        <5>6. l \in 1..(i - 1) /\ stream'[c][l] = AuthResult
          BY <4>2, <4>4, <5>5
        <5> QED BY <4>2, <4>4, <5>3, <5>6
      <4> QED BY <4>2, <4>3, <4>4
    <3> QED BY <3>1, <3>2
  <2> QED BY <2>1 DEF OnlyEntitled
<1>3. NothingEscapesTheFilter'
  <2>1. ASSUME NEW c \in Connections, NEW i \in DOMAIN stream'[c], NEW j \in DOMAIN stream'[c],
               i < j, stream'[c][i].what = "FilterResult", IsFannedOut(stream'[c][j])
        PROVE  \E k \in stream'[c][i].ask..Len(asked'[c]) : Admits(asked[c][k], stream[c][j].kind)'
    <3>1. CASE stream'[c] = stream[c]
      BY <1>0, <2>1, <3>1 DEF StreamsInv, NothingEscapesTheFilter, Admits
    <3>2. CASE stream'[c] # stream[c]
      <4>1. stream'[c] = Append(stream[c], r) /\ Admits(filter[c], r.kind)
        BY <3>2 DEF Fanned
      <4>2. /\ DOMAIN stream[c] = 1..Len(stream[c]) /\ Len(stream[c]) \in Nat
            /\ \A l \in DOMAIN stream[c] : stream'[c][l] = stream[c][l]
            /\ stream'[c][Len(stream[c]) + 1] = r
            /\ \A l \in DOMAIN stream'[c] : l \in DOMAIN stream[c] \/ l = Len(stream[c]) + 1
        BY <1>0, <4>1, FannedFacts
      <4>3. i \in DOMAIN stream[c] /\ stream'[c][i] = stream[c][i]
        BY <2>1, <4>2
      <4>4. CASE j \in DOMAIN stream[c]
        <5>1. \E k \in stream[c][i].ask..Len(asked[c]) : Admits(asked[c][k], stream[c][j].kind)
          BY <2>1, <4>2, <4>3, <4>4 DEF StreamsInv, NothingEscapesTheFilter
        <5> QED BY <1>0, <4>2, <4>3, <4>4, <5>1 DEF Admits
      <4>5. CASE j = Len(stream[c]) + 1
        <5>1. PICK q \in 1..MaxFilters : stream[c][i] = FilterResult(q)
          <6>1. stream[c] \in Seq(Item)
            BY DEF TypeInv
          <6>2. stream[c][i] \in Item
            BY <4>3, <6>1
          <6> QED BY <2>1, <4>3, <6>2, ItemForms
        <5>2. HasResult(c, q)
          BY <4>3, <5>1 DEF HasResult
        <5>3. PICK m \in q..Len(asked[c]) : filter[c] = asked[c][m]
          BY <5>2 DEF ChannelInv, FilterInv, FilterSince
        <5>4. stream'[c][i].ask = q
          BY <4>3, <5>1, ItemFacts
        <5>5. Admits(asked[c][m], stream[c][j].kind)'
          BY <1>0, <4>1, <4>2, <4>5, <5>3 DEF Admits
        <5> QED BY <5>3, <5>4, <5>5
      <4> QED BY <4>2, <4>4, <4>5
    <3> QED BY <3>1, <3>2
  <2> QED BY <2>1 DEF NothingEscapesTheFilter
<1> QED BY <1>1, <1>2, <1>3

LEMMA StillTold ==
  ASSUME TypeInv, TypeInv', setup' = setup, NEW c \in Connections, caps'[c] = caps[c],
         NEW r \in Item, stream'[c] = stream[c] \/ stream'[c] = Append(stream[c], r),
         NEW k, NEW l, retained'[l] = retained[k], IsTold(c, k),
         IsFannedOut(r) => r.kind.slot # retained[k].kind.slot
  PROVE  IsTold(c, l)'
<1>1. CASE stream'[c] = stream[c]
  BY <1>1 DEF IsTold
<1>2. CASE stream'[c] = Append(stream[c], r) /\ Covers(caps[c], retained[k].kind.need)
  <2>1. PICK i \in DOMAIN stream[c] :
          /\ stream[c][i] = retained[k]
          /\ \A j \in (i + 1)..Len(stream[c]) :
               IsFannedOut(stream[c][j]) => stream[c][j].kind.slot # retained[k].kind.slot
    BY <1>2 DEF IsTold
  <2>2. /\ DOMAIN stream[c] = 1..Len(stream[c]) /\ Len(stream[c]) \in Nat
        /\ Len(stream'[c]) = Len(stream[c]) + 1
        /\ \A j \in DOMAIN stream[c] : j \in DOMAIN stream'[c] /\ stream'[c][j] = stream[c][j]
        /\ stream'[c][Len(stream[c]) + 1] = r
    BY <1>2, FannedFacts
  <2>3. ASSUME NEW j \in (i + 1)..Len(stream'[c]), IsFannedOut(stream'[c][j])
        PROVE  stream'[c][j].kind.slot # retained[k].kind.slot
    <3>1. CASE j = Len(stream[c]) + 1
      BY <2>2, <2>3, <3>1
    <3>2. CASE j # Len(stream[c]) + 1
      <4>1. j \in (i + 1)..Len(stream[c]) /\ stream'[c][j] = stream[c][j]
        BY <2>2, <3>2
      <4> QED BY <2>1, <2>3, <4>1
    <3> QED BY <3>1, <3>2
  <2>4. i \in DOMAIN stream'[c] /\ stream'[c][i] = retained'[l]
    BY <2>1, <2>2
  <2> QED BY <2>3, <2>4 DEF IsTold
<1> QED BY <1>1, <1>2 DEF IsTold

LEMMA NowTold ==
  ASSUME TypeInv, TypeInv', setup' = setup, NEW c \in Connections,
         NEW r \in Item, stream'[c] = Append(stream[c], r), NEW k, retained'[k] = r
  PROVE  IsTold(c, k)'
<1>1. PICK n \in Nat : n = Len(stream[c]) + 1
  <2>1. Len(stream[c]) \in Nat
    BY DEF TypeInv
  <2> QED BY <2>1
<1>2. /\ n \in DOMAIN stream'[c] /\ stream'[c][n] = r /\ Len(stream'[c]) = n
  BY <1>1, FannedFacts
<1>3. \A j : j \notin (n + 1)..Len(stream'[c])
  BY <1>2
<1> QED BY <1>2, <1>3 DEF IsTold

LEMMA ReplayStepInv ==
  ASSUME TypeInv, TypeInv', ChannelInv, ChannelInv', RecordsInv, StreamsInv, setup' = setup,
         Replay
  PROVE  RecordsInv' /\ StreamsInv'
<1> DEFINE r == retained[taken + 1]
<1>1. /\ wPc = "replay" /\ newcomer \in held /\ newcomer \notin closed /\ held \subseteq Connections
      /\ taken \in Nat /\ taken' = taken + 1 /\ taken + 1 \in DOMAIN retained /\ r \in Committed
      /\ UNCHANGED <<channel, logicVars, readerVars, wPc, newcomer, held, caps, filter,
                     retained, unaddressed>>
      /\ closed' \subseteq closed \cup {newcomer}
      /\ \A c \in Connections : c # newcomer => stream'[c] = stream[c]
      /\ IF Covers(caps[newcomer], r.kind.need)
           THEN \/ stream'[newcomer] = Append(stream[newcomer], r)
                \/ stream'[newcomer] = stream[newcomer] /\ newcomer \in closed'
           ELSE stream' = stream
  BY ReplayFacts
<1>2. UNCHANGED <<ring, committed, evictions, refusals, grant, asked>>
  BY <1>1 DEF logicVars, readerVars
<1>3. /\ DOMAIN retained = 1..Len(retained) /\ Len(retained) \in Nat
      /\ \A k \in DOMAIN retained : retained[k].n \in Nat /\ retained[k].kind.slot # NoSlot
      /\ RingInv /\ RetainedInv /\ ReplayInv
  <2>1. retained \in Seq(Committed)
    BY DEF TypeInv
  <2>2. \A k \in DOMAIN retained : retained[k] \in Committed
    BY <2>1
  <2>3. \A k \in DOMAIN retained : retained[k].n \in Nat
    BY <2>2 DEF Committed
  <2>4. \A k \in DOMAIN retained : retained[k].kind.slot \in 0..(RetainedSlots - 1)
    BY DEF RecordsInv, RetainedInv
  <2>5. \A s \in 0..(RetainedSlots - 1) : s # NoSlot
    BY SetupFacts DEF NoSlot, TypeInv
  <2> QED BY <2>1, <2>3, <2>4, <2>5 DEF RecordsInv
<1>4. /\ r.to = NoOne /\ r.kind \in Kinds /\ IsFannedOut(r) /\ r.kind.class = "Lifecycle"
      /\ \A f : Admits(f, r.kind)
  <2>1. r.to = NoOne /\ r.kind \in Kinds /\ r.kind.slot # NoSlot
    BY <1>1, <1>3 DEF RetainedInv
  <2>2. r.kind.class = "Lifecycle"
    BY <2>1, SetupFacts DEF TypeInv
  <2> QED BY <1>1, <2>1, <2>2, ItemFacts DEF IsFannedOut, Admits
<1>5. /\ \A j \in DOMAIN stream[newcomer] :
           IsFannedOut(stream[newcomer][j]) => stream[newcomer][j].n < r.n
      /\ r.n <= committed /\ \A i \in DOMAIN ring : r.n < ring[i].n
  BY <1>1, <1>3 DEF ReplayInv, RetainedInv, RingInv
<1> HIDE DEF r
<1>6. r \in Item
  BY <1>1 DEF Item
<1>7. Fanned(r)
  BY <1>1, <1>4, <1>5 DEF Fanned
<1>8. InCommitOrder' /\ OnlyEntitled' /\ NothingEscapesTheFilter'
  BY <1>1, <1>2, <1>4, <1>7, FannedStreams
(* What was fanned out is r or was there before. *)
<1>9. ASSUME NEW c \in Connections, NEW j \in DOMAIN stream'[c], IsFannedOut(stream'[c][j])
      PROVE  \/ j \in DOMAIN stream[c] /\ stream'[c][j] = stream[c][j]
             \/ stream'[c][j] = r
  <2>1. CASE stream'[c] = stream[c]
    BY <1>9, <2>1
  <2>2. CASE stream'[c] = Append(stream[c], r)
    BY <1>6, <1>9, <2>2, FannedFacts
  <2> QED BY <1>7, <2>1, <2>2 DEF Fanned
<1>10. RingInv'
  <2>1. ASSUME NEW i \in DOMAIN ring, NEW c \in Connections, NEW j \in DOMAIN stream'[c],
               IsFannedOut(stream'[c][j])
        PROVE  stream'[c][j].n < ring[i].n
    BY <1>3, <1>5, <1>9, <2>1 DEF RingInv
  <2>2. Kinds' = Kinds
    BY SetupStays
  <2> QED BY <1>1, <1>2, <1>3, <2>1, <2>2 DEF RingInv
<1>11. RetainedInv'
  <2>1. ASSUME NEW c \in Connections, NEW j \in DOMAIN stream'[c], IsFannedOut(stream'[c][j])
        PROVE  stream'[c][j].n <= committed
    BY <1>3, <1>5, <1>9, <2>1 DEF RetainedInv
  <2>2. Kinds' = Kinds /\ RetainedSlots' = RetainedSlots
    BY SetupStays
  <2> QED BY <1>1, <1>2, <1>3, <2>1, <2>2 DEF RetainedInv
<1>12. PICK c \in Connections : c = newcomer
  BY <1>1
<1>13. ReplayInv'
  <2>1. taken + 1 <= Len(retained) /\ taken + 1 \in Nat
    BY <1>1, <1>3
  <2>2. ASSUME NEW k \in 1..(taken + 1), c \notin closed'
        PROVE  IsTold(c, k)'
    <3>1. CASE k \in 1..taken
      <4>1. IsTold(c, k)
        BY <1>1, <1>3, <1>12, <3>1 DEF ReplayInv
      <4>2. k \in DOMAIN retained /\ k # taken + 1
        BY <1>1, <1>3, <3>1
      <4>3. retained[k].kind.slot # r.kind.slot
        BY <1>1, <1>3, <4>2 DEF RetainedInv, r
      <4>4. /\ caps'[c] = caps[c] /\ retained'[k] = retained[k]
            /\ stream'[c] = stream[c] \/ stream'[c] = Append(stream[c], r)
        BY <1>1, <1>7 DEF Fanned
      <4> QED BY <1>6, <4>1, <4>3, <4>4, StillTold
    <3>2. CASE k = taken + 1
      <4>1. retained'[k] = r /\ retained[k] = r
        BY <1>1, <3>2 DEF r
      <4>2. CASE Covers(caps[c], r.kind.need)
        <5>1. stream'[c] = Append(stream[c], r)
          BY <1>1, <1>12, <2>2, <4>2
        <5> QED BY <1>6, <4>1, <5>1, NowTold
      <4>3. CASE ~Covers(caps[c], r.kind.need)
        BY <1>1, <4>1, <4>3 DEF IsTold
      <4> QED BY <4>2, <4>3
    <3>3. k \in 1..taken \/ k = taken + 1
      BY <1>1, <2>2
    <3> QED BY <3>1, <3>2, <3>3
  <2>3. ASSUME NEW k \in ((taken + 1) + 1)..Len(retained), NEW j \in DOMAIN stream'[c],
               IsFannedOut(stream'[c][j])
        PROVE  stream'[c][j].n < retained[k].n
    <3>1. k \in DOMAIN retained /\ taken + 1 < k /\ k \in (taken + 1)..Len(retained)
      BY <1>1, <1>3
    <3>2. CASE stream'[c][j] = r
      BY <1>1, <1>3, <3>1, <3>2 DEF RetainedInv, r
    <3>3. CASE j \in DOMAIN stream[c] /\ stream'[c][j] = stream[c][j]
      BY <1>1, <1>3, <1>12, <2>3, <3>1, <3>3 DEF ReplayInv
    <3> QED BY <1>9, <2>3, <3>2, <3>3
  <2> QED BY <1>1, <1>12, <2>1, <2>2, <2>3 DEF ReplayInv, IsTold
<1>14. SeesTheWorld'
  <2>1. ASSUME NEW d \in held' \ {newcomer'}, NEW k \in DOMAIN retained'
        PROVE  IsTold(d, k)'
    <3>1. d \in held \ {newcomer} /\ k \in DOMAIN retained /\ d \in Connections
      BY <1>1, <2>1
    <3>2. IsTold(d, k)
      BY <3>1, WorldIsTold DEF StreamsInv
    <3>3. stream'[d] = stream[d] /\ caps'[d] = caps[d] /\ retained' = retained
      BY <1>1, <3>1
    <3> QED BY <3>2, <3>3 DEF IsTold
  <2> QED BY <2>1 DEF SeesTheWorld, IsTold
<1> QED BY <1>8, <1>10, <1>11, <1>13, <1>14 DEF RecordsInv, StreamsInv

LEMMA FanStepInv ==
  ASSUME TypeInv, TypeInv', ChannelInv, ChannelInv', RecordsInv, StreamsInv, setup' = setup,
         Fan
  PROVE  RecordsInv' /\ StreamsInv'
<1>1. PICK r : Fans(r)
  BY FanFacts
<1>2. /\ r \in Committed /\ r \in Item /\ r.n \in Nat /\ 1 \in DOMAIN ring /\ r = ring[1] /\ ring # <<>>
      /\ ring' = Tail(ring) /\ newcomer = NoOne /\ newcomer' = NoOne /\ held' = held \ closed'
      /\ UNCHANGED <<committed, evictions, refusals, grant, asked, caps, filter>>
  BY <1>1 DEF Fans, Committed, Item, readerVars
<1>3. /\ RingInv /\ RetainedInv /\ ReplayInv
      /\ InCommitOrder /\ OnlyEntitled /\ NothingEscapesTheFilter /\ SeesTheWorld
  BY DEF RecordsInv, StreamsInv
<1>4. /\ IsFannedOut(r) <=> r.to = NoOne
      /\ r.to = NoOne => r.kind \in Kinds
      /\ r.to # NoOne => r.kind = ReplyKind
  BY <1>1 DEF Fans
<1>5. /\ ring' \in Seq(Committed) /\ DOMAIN ring' = 1..(Len(ring) - 1) /\ Len(ring) \in Nat \ {0}
      /\ DOMAIN ring = 1..Len(ring)
      /\ \A i \in DOMAIN ring' : ring'[i] = ring[i + 1] /\ i + 1 \in DOMAIN ring
  <2>1. ring \in Seq(Committed)
    BY DEF TypeInv
  <2> QED BY <1>2, <2>1, TailFacts
<1>6. /\ \A k \in DOMAIN retained : retained[k].n < r.n
      /\ \A c \in Connections : \A j \in DOMAIN stream[c] :
           IsFannedOut(stream[c][j]) => stream[c][j].n < r.n
      /\ r.n <= committed
      /\ \A i \in DOMAIN ring' : r.n < ring'[i].n
  <2>1. \A i \in DOMAIN ring' : 1 < i + 1
    BY <1>5
  <2> QED BY <1>2, <1>3, <1>5, <2>1 DEF RingInv
<1>7. \A c \in Connections : stream'[c] = stream[c] \/ stream'[c] = Append(stream[c], r)
  BY <1>1 DEF Fans
<1>8. InCommitOrder' /\ OnlyEntitled' /\ NothingEscapesTheFilter'
  <2>1. CASE r.to = NoOne
    <3>1. Fanned(r)
      BY <1>1, <1>6, <2>1 DEF Fans, Fanned, Receivers
    <3> QED BY <1>2, <1>4, <2>1, <3>1, FannedStreams
  <2>2. CASE r.to # NoOne
    <3>1. Quiet
      BY <1>2, <1>4, <1>7, <2>2 DEF Quiet
    <3>2. AskedGrows
      <4>1. \A c \in Connections : Len(asked[c]) \in Nat
        BY DEF TypeInv
      <4> QED BY <1>2, <4>1 DEF AskedGrows
    <3> QED BY <1>2, <1>3, <3>1, <3>2, QuietStreams
  <2> QED BY <2>1, <2>2
<1>9. ASSUME NEW c \in Connections, NEW j \in DOMAIN stream'[c], IsFannedOut(stream'[c][j])
      PROVE  \/ j \in DOMAIN stream[c] /\ stream'[c][j] = stream[c][j]
             \/ stream'[c][j] = r
  <2>1. CASE stream'[c] = stream[c]
    BY <1>9, <2>1
  <2>2. CASE stream'[c] = Append(stream[c], r)
    BY <1>2, <1>9, <2>2, FannedFacts
  <2> QED BY <1>7, <2>1, <2>2
<1>10. /\ Kinds' = Kinds /\ RetainedSlots' = RetainedSlots /\ RetainedSlots \in Nat
       /\ RecordsPerPass' = RecordsPerPass /\ RecordsPerPass \in Nat \ {0}
  BY SetupStays, SetupFacts DEF TypeInv
(* What is retained is r, or was and is not of its slot. *)
<1>11. \/ /\ r.kind.slot \notin 0..(RetainedSlots - 1) /\ retained' = retained
       \/ /\ r.kind.slot \in 0..(RetainedSlots - 1) /\ \E f, n : Keeps(f, n, r)
          /\ retained' = Keep(r)
  BY <1>1, <1>2, <1>3, KeepFacts DEF Fans
<1>12. r.kind.slot \in 0..(RetainedSlots - 1) =>
         r.to = NoOne /\ r.kind \in Kinds /\ r.kind.class = "Lifecycle"
  <2>1. \A s \in 0..(RetainedSlots - 1) : s # NoSlot
    BY <1>10 DEF NoSlot
  <2> QED BY <1>4, <2>1, ReplyFacts, SetupFacts DEF TypeInv
<1>13. \A l \in DOMAIN retained' :
         \/ /\ retained'[l] = r /\ r.kind.slot \in 0..(RetainedSlots - 1)
         \/ \E k \in DOMAIN retained :
              retained'[l] = retained[k] /\ retained[k].kind.slot # r.kind.slot
  <2>1. CASE r.kind.slot \notin 0..(RetainedSlots - 1) /\ retained' = retained
    BY <1>3, <2>1 DEF RetainedInv
  <2>2. ASSUME NEW f, NEW n, Keeps(f, n, r), retained' = Keep(r), r.kind.slot \in 0..(RetainedSlots - 1)
        PROVE  \A l \in DOMAIN retained' :
                 \/ retained'[l] = r
                 \/ \E k \in DOMAIN retained :
                      retained'[l] = retained[k] /\ retained[k].kind.slot # r.kind.slot
    <3>1. /\ n \in Nat /\ DOMAIN retained' = 1..(n + 1) /\ retained'[n + 1] = r
          /\ \A i \in 1..n : /\ f[i] \in DOMAIN retained /\ retained'[i] = retained[f[i]]
                             /\ retained[f[i]].kind.slot # r.kind.slot
      <4>1. Keep(r) \in Seq(Committed) /\ Len(Keep(r)) = n + 1
        BY <2>2 DEF Keeps
      <4> QED BY <2>2, <4>1 DEF Keeps
    <3> QED BY <3>1
  <2> QED BY <1>11, <2>1, <2>2
<1>14. RetainedInv'
  <2>1. ASSUME NEW i \in DOMAIN retained', NEW j \in DOMAIN retained'
        PROVE  /\ i < j => retained'[i].n < retained'[j].n
               /\ retained'[i].kind.slot = retained'[j].kind.slot => i = j
    <3>1. CASE retained' = retained
      BY <1>3, <2>1, <3>1 DEF RetainedInv
    <3>2. ASSUME NEW f, NEW n, Keeps(f, n, r), retained' = Keep(r)
          PROVE  /\ i < j => retained'[i].n < retained'[j].n
                 /\ retained'[i].kind.slot = retained'[j].kind.slot => i = j
      <4>1. /\ n \in Nat /\ DOMAIN retained' = 1..(n + 1) /\ retained'[n + 1] = r
            /\ \A l \in 1..n : /\ f[l] \in DOMAIN retained /\ retained'[l] = retained[f[l]]
                               /\ retained[f[l]].kind.slot # r.kind.slot
            /\ \A l, m \in 1..n : l < m => f[l] < f[m]
        <5>1. Keep(r) \in Seq(Committed) /\ Len(Keep(r)) = n + 1
          BY <3>2 DEF Keeps
        <5> QED BY <3>2, <5>1 DEF Keeps
      <4>2. CASE i \in 1..n /\ j \in 1..n
        <5>1. i < j => retained[f[i]].n < retained[f[j]].n
          BY <1>3, <4>1, <4>2 DEF RetainedInv
        <5>2. retained[f[i]].kind.slot = retained[f[j]].kind.slot => f[i] = f[j]
          BY <1>3, <4>1, <4>2 DEF RetainedInv
        <5>3. f[i] = f[j] => i = j
          <6>1. f[i] \in 1..Len(retained) /\ Len(retained) \in Nat /\ f[j] \in 1..Len(retained)
            <7>1. DOMAIN retained = 1..Len(retained) /\ Len(retained) \in Nat
              BY DEF TypeInv
            <7> QED BY <4>1, <4>2, <7>1
          <6>2. i < j => f[i] < f[j]
            BY <4>1, <4>2
          <6>3. j < i => f[j] < f[i]
            BY <4>1, <4>2
          <6> QED BY <4>2, <6>1, <6>2, <6>3
        <5> QED BY <4>1, <4>2, <5>1, <5>2, <5>3
      <4>3. CASE i \in 1..n /\ j = n + 1
        BY <1>6, <4>1, <4>3
      <4>4. CASE i = n + 1
        BY <2>1, <4>1, <4>4
      <4>5. i \in 1..n \/ i = n + 1
        BY <2>1, <4>1
      <4>6. j \in 1..n \/ j = n + 1
        BY <2>1, <4>1
      <4> QED BY <4>2, <4>3, <4>4, <4>5, <4>6
    <3> QED BY <1>11, <3>1, <3>2
  <2>2. ASSUME NEW i \in DOMAIN retained'
        PROVE  /\ retained'[i].n <= committed /\ retained'[i].to = NoOne /\ retained'[i].kind \in Kinds
               /\ retained'[i].kind.slot \in 0..(RetainedSlots - 1)
    BY <1>3, <1>6, <1>12, <1>13 DEF RetainedInv
  <2>3. ASSUME NEW c \in Connections, NEW j \in DOMAIN stream'[c], IsFannedOut(stream'[c][j])
        PROVE  stream'[c][j].n <= committed
    BY <1>3, <1>6, <1>9, <2>3 DEF RetainedInv
  <2> QED BY <1>2, <1>10, <2>1, <2>2, <2>3 DEF RetainedInv
<1>15. RingInv'
  <2>1. ASSUME NEW i \in DOMAIN ring', NEW j \in DOMAIN ring', i < j
        PROVE  ring'[i].n < ring'[j].n
    <3>1. i + 1 < j + 1
      BY <1>5, <2>1
    <3> QED BY <1>3, <1>5, <3>1 DEF RingInv
  <2>2. ASSUME NEW i \in DOMAIN ring'
        PROVE  /\ ring'[i].n <= committed
               /\ ring'[i].to = NoOne => ring'[i].kind \in Kinds
               /\ ring'[i].to # NoOne => ring'[i].kind = ReplyKind
               /\ \A x \in evictions : x.n < ring'[i].n
               /\ \A x \in refusals : x.n # ring'[i].n
    BY <1>3, <1>5 DEF RingInv
  <2>3. ASSUME NEW i \in DOMAIN ring', NEW l \in DOMAIN retained'
        PROVE  retained'[l].n < ring'[i].n
    <3>1. CASE retained'[l] = r
      BY <1>6, <3>1
    <3>2. ASSUME NEW k \in DOMAIN retained, retained'[l] = retained[k]
          PROVE  retained'[l].n < ring'[i].n
      BY <1>3, <1>5, <3>2 DEF RingInv
    <3> QED BY <1>13, <3>1, <3>2
  <2>4. ASSUME NEW i \in DOMAIN ring', NEW c \in Connections, NEW j \in DOMAIN stream'[c],
               IsFannedOut(stream'[c][j])
        PROVE  stream'[c][j].n < ring'[i].n
    <3>1. CASE stream'[c][j] = r
      BY <1>6, <3>1
    <3>2. CASE j \in DOMAIN stream[c] /\ stream'[c][j] = stream[c][j]
      BY <1>3, <1>5, <2>4, <3>2 DEF RingInv
    <3> QED BY <1>9, <2>4, <3>1, <3>2
  <2>5. \A x \in evictions \cup refusals : x.n <= committed
    BY <1>3 DEF RingInv
  <2> QED BY <1>2, <1>10, <2>1, <2>2, <2>3, <2>4, <2>5 DEF RingInv
<1>16. ReplayInv'
  <2>1. \/ wPc' = "control" /\ taken' = 0
        \/ wPc' = "batch" /\ taken' = taken + 1 /\ taken + 1 # RecordsPerPass
    BY <1>1 DEF Fans
  <2>2. taken < RecordsPerPass /\ taken \in Nat
    BY <1>1, <1>3 DEF Fans, ReplayInv, TypeInv
  <2> QED BY <1>10, <2>1, <2>2 DEF ReplayInv
<1>17. SeesTheWorld'
  <2>1. ASSUME NEW c \in held' \ {newcomer'}, NEW l \in DOMAIN retained'
        PROVE  IsTold(c, l)'
    <3>1. /\ c \in Connections /\ c \in held \ {newcomer} /\ c \notin closed' /\ c \in held
          /\ caps'[c] = caps[c]
      BY <1>2, <2>1, ConnectionsAssumption DEF TypeInv
    <3>2. CASE retained'[l] = r /\ r.kind.slot \in 0..(RetainedSlots - 1)
      <4>1. CASE Covers(caps[c], r.kind.need)
        <5>1. c \in Receivers(r.kind)
          BY <1>12, <3>1, <3>2, <4>1 DEF Receivers, Admits
        <5>2. stream'[c] = Append(stream[c], r)
          BY <1>1, <1>12, <3>1, <3>2, <5>1 DEF Fans
        <5> QED BY <1>2, <3>1, <3>2, <5>2, NowTold
      <4>2. CASE ~Covers(caps[c], r.kind.need)
        BY <3>1, <3>2, <4>2 DEF IsTold
      <4> QED BY <4>1, <4>2
    <3>3. ASSUME NEW k \in DOMAIN retained, retained'[l] = retained[k],
                 retained[k].kind.slot # r.kind.slot
          PROVE  IsTold(c, l)'
      <4>1. IsTold(c, k)
        BY <1>3, <3>1, WorldIsTold
      <4>2. stream'[c] = stream[c] \/ stream'[c] = Append(stream[c], r)
        BY <1>7, <3>1
      <4> QED BY <1>2, <3>1, <3>3, <4>1, <4>2, StillTold
    <3> QED BY <1>13, <3>2, <3>3
  <2> QED BY <2>1 DEF SeesTheWorld, IsTold
<1> QED BY <1>8, <1>14, <1>15, <1>16, <1>17 DEF RecordsInv, StreamsInv
-----------------------------------------------------------------------------
(* The accounts. *)

LEMMA AnsweredType ==
  ASSUME TypeInv, NEW c \in Connections
  PROVE  Answered(c) \in Nat
<1>1. /\ pings[c] \in Nat /\ Len(asked[c]) \in Nat
      /\ reader[c] = "filtering" => Len(asked[c]) >= 1
  <2>1. asked[c] \in Seq(Filters) /\ MaxFilters \in Nat
    BY SetupFacts DEF TypeInv
  <2>2. Len(asked[c]) \in (IF reader[c] = "filtering" THEN 1 ELSE 0)..MaxFilters
    BY DEF TypeInv
  <2> QED BY <2>1, <2>2 DEF TypeInv
<1>2. CASE reader[c] = "filtering"
  BY <1>1, <1>2 DEF Answered
<1>3. CASE reader[c] # "filtering"
  <2>1. (IF reader[c] \in {"none", "open"} THEN 0 ELSE 1) \in Nat
    OBVIOUS
  <2> QED BY <1>1, <1>3, <2>1 DEF Answered
<1> QED BY <1>2, <1>3

LEMMA SentIs == \A x : x \in Sent <=> \E c \in Connections : \E i \in 1..Answered(c) : x = <<c, i>>
BY DEF Sent

LEMMA NumberedIs ==
  \A x : x \in Numbered <=>
    \E c \in Connections : \E i \in DOMAIN stream[c] :
      stream[c][i] # Handshake /\ ~IsFannedOut(stream[c][i]) /\ x = <<c, i>>
BY DEF Numbered

(* One more answer is sent, or none is. *)
LEMMA SentGrows ==
  ASSUME TypeInv, NEW c \in Connections, IsFiniteSet(Sent),
         Answered(c)' = Answered(c) + 1,
         \A d \in Connections : d # c => Answered(d)' = Answered(d)
  PROVE  IsFiniteSet(Sent') /\ Cardinality(Sent') = Cardinality(Sent) + 1
<1>0. Answered(c) \in Nat
  BY AnsweredType
<1> DEFINE x == <<c, Answered(c) + 1>>
<1>1. x \notin Sent
  BY <1>0, SentIs
<1>2. Sent' = Sent \cup {x}
  <2>1. Sent' = UNION {{d} \X (1..(IF d = c THEN Answered(c) + 1 ELSE Answered(d))) : d \in Connections}
    BY DEF Sent
  <2>2. 1..(Answered(c) + 1) = (1..Answered(c)) \cup {Answered(c) + 1}
    BY <1>0
  <2> QED BY <2>1, <2>2 DEF Sent
<1> HIDE DEF x
<1> QED BY <1>1, <1>2, FS_AddElement

LEMMA SentStays ==
  ASSUME \A d \in Connections : Answered(d)' = Answered(d)
  PROVE  Sent' = Sent
BY DEF Sent

LEMMA NumberedGrows ==
  ASSUME TypeInv, TypeInv', setup' = setup, NEW c \in Connections, IsFiniteSet(Numbered),
         NEW r \in Item, r # Handshake, ~IsFannedOut(r), stream'[c] = Append(stream[c], r),
         \A d \in Connections : d # c => stream'[d] = stream[d]
  PROVE  IsFiniteSet(Numbered') /\ Cardinality(Numbered') = Cardinality(Numbered) + 1
<1>1. PICK n \in Nat : n = Len(stream[c]) + 1
  <2>1. Len(stream[c]) \in Nat
    BY DEF TypeInv
  <2> QED BY <2>1
<1>2. /\ DOMAIN stream[c] = 1..Len(stream[c]) /\ DOMAIN stream'[c] = 1..Len(stream'[c])
      /\ \A j \in DOMAIN stream[c] : j \in DOMAIN stream'[c] /\ stream'[c][j] = stream[c][j]
      /\ stream'[c][n] = r /\ n \notin DOMAIN stream[c] /\ n \in DOMAIN stream'[c]
      /\ \A j \in DOMAIN stream'[c] : j \in DOMAIN stream[c] \/ j = n
  BY <1>1, FannedFacts
<1>3. <<c, n>> \notin Numbered
  BY <1>2, NumberedIs
<1>4. Numbered' = Numbered \cup {<<c, n>>}
  <2>1. ASSUME NEW d \in Connections, NEW i, d # c
        PROVE  i \in DOMAIN stream'[d] <=> i \in DOMAIN stream[d]
    BY <2>1
  <2>2. \A x : x \in Numbered' <=>
          \E d \in Connections : \E i \in DOMAIN stream'[d] :
            stream'[d][i] # Handshake /\ ~IsFannedOut(stream'[d][i]) /\ x = <<d, i>>
    BY DEF Numbered
  <2>3. \A x : x \in Numbered' => x \in Numbered \/ x = <<c, n>>
    BY <1>2, <2>2, NumberedIs
  <2>4. \A x \in Numbered : x \in Numbered'
    BY <1>2, <2>2, NumberedIs
  <2>5. <<c, n>> \in Numbered'
    BY <1>2, <2>2
  <2> QED BY <2>3, <2>4, <2>5
<1> QED BY <1>3, <1>4, FS_AddElement

LEMMA NumberedStays ==
  ASSUME TypeInv, TypeInv', setup' = setup,
         \A c \in Connections :
           \/ stream'[c] = stream[c]
           \/ \E r \in Item : stream'[c] = Append(stream[c], r) /\ (r = Handshake \/ IsFannedOut(r))
  PROVE  Numbered' = Numbered
<1>1. ASSUME NEW c \in Connections
      PROVE  {i \in DOMAIN stream'[c] : stream'[c][i] # Handshake /\ ~IsFannedOut(stream'[c][i])}
               = {i \in DOMAIN stream[c] : stream[c][i] # Handshake /\ ~IsFannedOut(stream[c][i])}
  <2>1. CASE stream'[c] = stream[c]
    BY <2>1
  <2>2. ASSUME NEW r \in Item, stream'[c] = Append(stream[c], r), r = Handshake \/ IsFannedOut(r)
        PROVE  {i \in DOMAIN stream'[c] : stream'[c][i] # Handshake /\ ~IsFannedOut(stream'[c][i])}
                 = {i \in DOMAIN stream[c] : stream[c][i] # Handshake /\ ~IsFannedOut(stream[c][i])}
    <3>1. /\ \A j \in DOMAIN stream[c] : j \in DOMAIN stream'[c] /\ stream'[c][j] = stream[c][j]
          /\ \A j \in DOMAIN stream'[c] :
               j \in DOMAIN stream[c] \/ stream'[c][j] = r
      BY <2>2, FannedFacts
    <3> QED BY <2>2, <3>1
  <2> QED BY <2>1, <2>2
<1> QED BY <1>1 DEF Numbered

LEMMA AnswersAreFinite ==
  ASSUME NEW S, NEW s \in Seq(S)
  PROVE  IsFiniteSet(AnswersIn(s)) /\ Cardinality(AnswersIn(s)) \in Nat
<1>1. IsFiniteSet(1..Len(s))
  BY FS_Interval
<1>2. AnswersIn(s) \in SUBSET (1..Len(s))
  BY DEF AnswersIn
<1> QED BY <1>1, <1>2, FS_Subset, FS_CardinalityType

LEMMA AnswersGrow ==
  ASSUME NEW S, NEW s \in Seq(S), NEW m \in S
  PROVE  Cardinality(AnswersIn(Append(s, m))) =
           Cardinality(AnswersIn(s)) + (IF m.type = "Answer" THEN 1 ELSE 0)
<1>1. /\ DOMAIN Append(s, m) = DOMAIN s \cup {Len(s) + 1}
      /\ DOMAIN s = 1..Len(s) /\ Len(s) \in Nat
      /\ \A i \in DOMAIN s : Append(s, m)[i] = s[i]
      /\ Append(s, m)[Len(s) + 1] = m
  BY AppendFacts
<1>2. AnswersIn(Append(s, m)) =
        IF m.type = "Answer" THEN AnswersIn(s) \cup {Len(s) + 1} ELSE AnswersIn(s)
  BY <1>1 DEF AnswersIn
<1>3. Len(s) + 1 \notin AnswersIn(s)
  BY <1>1 DEF AnswersIn
<1>4. IsFiniteSet(AnswersIn(s)) /\ Cardinality(AnswersIn(s)) \in Nat
  BY AnswersAreFinite
<1>5. Cardinality(AnswersIn(s) \cup {Len(s) + 1}) = Cardinality(AnswersIn(s)) + 1
  BY <1>3, <1>4, FS_AddElement
<1>6. CASE m.type = "Answer"
  BY <1>2, <1>5, <1>6
<1>7. CASE m.type # "Answer"
  BY <1>2, <1>4, <1>7
<1> QED BY <1>6, <1>7

LEMMA AnswersShrink ==
  ASSUME NEW S, NEW s \in Seq(S), s # <<>>
  PROVE  Cardinality(AnswersIn(s)) =
           Cardinality(AnswersIn(Tail(s))) + (IF Head(s).type = "Answer" THEN 1 ELSE 0)
<1>1. /\ Tail(s) \in Seq(S) /\ DOMAIN s = 1..Len(s) /\ Len(s) \in Nat \ {0}
      /\ DOMAIN Tail(s) = 1..(Len(s) - 1)
      /\ \A i \in DOMAIN Tail(s) : Tail(s)[i] = s[i + 1] /\ i + 1 \in DOMAIN s
      /\ Head(s) = s[1] /\ 1 \in DOMAIN s
  BY TailFacts
<1> DEFINE T == AnswersIn(Tail(s))
           U == AnswersIn(s) \ {1}
           f == [i \in T |-> i + 1]
<1>2. f \in Bijection(T, U)
  <2>1. \A i \in T : i + 1 \in U /\ i \in Nat
    BY <1>1 DEF AnswersIn
  <2>2. \A j \in U : j - 1 \in T /\ (j - 1) + 1 = j
    BY <1>1 DEF AnswersIn
  <2>3. f \in [T -> U]
    BY <2>1
  <2>4. \A i, j \in T : f[i] = f[j] => i = j
    BY <2>1
  <2>5. \A j \in U : \E i \in T : f[i] = j
    BY <2>2
  <2> HIDE DEF T, U, f
  <2>6. f \in Injection(T, U)
    <3>1. DOMAIN f = T
      BY <2>3
    <3> QED BY <2>3, <2>4, <3>1 DEF Injection, IsInjective
  <2>7. f \in Surjection(T, U)
    BY <2>3, <2>5 DEF Surjection
  <2> QED BY <2>6, <2>7 DEF Bijection
<1>3. IsFiniteSet(T) /\ Cardinality(T) \in Nat
  BY <1>1, AnswersAreFinite
<1>4. Cardinality(U) = Cardinality(T)
  <2> HIDE DEF T, U, f
  <2> QED BY <1>2, <1>3, FS_Bijection DEF ExistsBijection
<1>5. IsFiniteSet(AnswersIn(s)) /\ Cardinality(AnswersIn(s)) \in Nat
  BY AnswersAreFinite
<1>6. 1 \in AnswersIn(s) <=> Head(s).type = "Answer"
  BY <1>1 DEF AnswersIn
<1>7. Cardinality(U) = IF 1 \in AnswersIn(s) THEN Cardinality(AnswersIn(s)) - 1 ELSE Cardinality(AnswersIn(s))
  BY <1>5, FS_RemoveElement
<1> QED BY <1>3, <1>4, <1>5, <1>6, <1>7

LEMMA AccountsTypes ==
  ASSUME TypeInv, AccountsInv
  PROVE  /\ Cardinality(Sent) \in Nat /\ Cardinality(Waiting) \in Nat /\ Cardinality(Numbered) \in Nat
         /\ Cardinality(EvictedBoundaries) \in Nat /\ Cardinality(AnswersIn(channel)) \in Nat
         /\ replies \in Nat /\ unaddressed \in Nat /\ channel \in Seq(Message)
         /\ Cardinality(Sent) + replies
              = Cardinality(AnswersIn(channel)) + Cardinality(Waiting)
                  + Cardinality(Numbered) + unaddressed
         /\ lifecycle_evicted = Cardinality(EvictedBoundaries)
<1>1. channel \in Seq(Message) /\ replies \in Nat /\ unaddressed \in Nat
  BY DEF TypeInv
<1>2. Cardinality(AnswersIn(channel)) \in Nat
  BY <1>1, AnswersAreFinite
<1> QED BY <1>1, <1>2, FS_CardinalityType DEF AccountsInv, AddressedIsAccounted, EvictedBoundaries

(* An answer is counted as it is sent. *)
LEMMA AccountsOfSends ==
  ASSUME TypeInv, AccountsInv, NEW c \in Connections, Sends(c)
  PROVE  AccountsInv'
<1>0. UNCHANGED <<logicVars, writerVars, queueVars>>
  BY DEF Sends, Attach, Ping, Authenticate, Report, SetTopicFilter, AnswerFilter, Detach
<1>1. /\ UNCHANGED <<replies, unaddressed, lifecycle_evicted>>
      /\ Waiting' = Waiting /\ Numbered' = Numbered /\ EvictedBoundaries' = EvictedBoundaries
  BY <1>0 DEF logicVars, writerVars, queueVars, Waiting, Numbered, EvictedBoundaries
<1>2. /\ DOMAIN reader = Connections /\ DOMAIN pings = Connections /\ DOMAIN asked = Connections
      /\ pings[c] \in Nat /\ asked[c] \in Seq(Filters) /\ Len(asked[c]) \in Nat
  BY DEF TypeInv
<1>3. ASSUME NEW m \in Message, channel' = Append(channel, m),
             Answered(c)' = Answered(c) + (IF m.type = "Answer" THEN 1 ELSE 0),
             \A d \in Connections : d # c => Answered(d)' = Answered(d)
      PROVE  AccountsInv'
  <2>1. Cardinality(AnswersIn(channel')) =
          Cardinality(AnswersIn(channel)) + (IF m.type = "Answer" THEN 1 ELSE 0)
    BY <1>3, AccountsTypes, AnswersGrow
  <2>2. /\ IsFiniteSet(Sent')
        /\ Cardinality(Sent') = Cardinality(Sent) + (IF m.type = "Answer" THEN 1 ELSE 0)
    <3>1. CASE m.type = "Answer"
      BY <1>3, <3>1, SentGrows DEF AccountsInv
    <3>2. CASE m.type # "Answer"
      <4>1. Answered(c) \in Nat
        BY AnsweredType
      <4>2. Sent' = Sent
        BY <1>3, <3>2, <4>1, SentStays
      <4> QED BY <3>2, <4>2, AccountsTypes DEF AccountsInv
    <3> QED BY <3>1, <3>2
  <2>3. Cardinality(Sent') + replies'
          = Cardinality(AnswersIn(channel')) + Cardinality(Waiting')
              + Cardinality(Numbered') + unaddressed'
    <3>0. /\ Cardinality(Sent) \in Nat /\ Cardinality(Waiting) \in Nat /\ Cardinality(Numbered) \in Nat
          /\ Cardinality(AnswersIn(channel)) \in Nat /\ replies \in Nat /\ unaddressed \in Nat
          /\ Cardinality(Sent) + replies
               = Cardinality(AnswersIn(channel)) + Cardinality(Waiting)
                   + Cardinality(Numbered) + unaddressed
      BY AccountsTypes
    <3>1. /\ replies' = replies /\ unaddressed' = unaddressed
          /\ Cardinality(Waiting') = Cardinality(Waiting)
          /\ Cardinality(Numbered') = Cardinality(Numbered)
      BY <1>1
    <3>2. CASE m.type = "Answer"
      <4>1. /\ Cardinality(Sent') = Cardinality(Sent) + 1
            /\ Cardinality(AnswersIn(channel')) = Cardinality(AnswersIn(channel)) + 1
        BY <2>1, <2>2, <3>2
      <4> QED BY <3>0, <3>1, <4>1
    <3>3. CASE m.type # "Answer"
      <4>1. /\ Cardinality(Sent') = Cardinality(Sent)
            /\ Cardinality(AnswersIn(channel')) = Cardinality(AnswersIn(channel))
        BY <2>1, <2>2, <3>0, <3>3
      <4> QED BY <3>0, <3>1, <4>1
    <3> QED BY <3>2, <3>3
  <2>4. lifecycle_evicted' = Cardinality(EvictedBoundaries')
    BY <1>1, AccountsTypes
  <2>5. AddressedIsAccounted'
    BY <2>3, <2>4 DEF AddressedIsAccounted, EvictedBoundaries
  <2> QED BY <1>1, <2>2, <2>5 DEF AccountsInv
<1>4. ASSUME \A d \in Connections : d # c =>
               reader'[d] = reader[d] /\ pings'[d] = pings[d] /\ asked'[d] = asked[d]
      PROVE  \A d \in Connections : d # c => Answered(d)' = Answered(d)
  BY <1>4 DEF Answered
<1>5. CASE Attach(c)
  <2>1. /\ reader[c] = "none" /\ reader' = [reader EXCEPT ![c] = "open"]
        /\ UNCHANGED <<pings, asked>>
        /\ channel' = Append(channel, AttachMsg(c)) /\ AttachMsg(c) \in Message
    BY <1>5, MessageTypes DEF Attach, Send
  <2>2. Answered(c)' = Answered(c)
    BY <1>2, <2>1 DEF Answered
  <2>3. Answered(c) \in Nat /\ AttachMsg(c).type = "Attach"
    BY AnsweredType, MessageFacts
  <2> QED BY <1>2, <1>3, <1>4, <2>1, <2>2, <2>3
<1>6. CASE Ping(c)
  <2>1. /\ pings' = [pings EXCEPT ![c] = @ + 1] /\ UNCHANGED <<reader, asked>>
        /\ channel' = Append(channel, AnswerMsg(c, Pong))
    BY <1>6 DEF Ping, Send
  <2>2. AnswerMsg(c, Pong) \in Message /\ AnswerMsg(c, Pong).type = "Answer"
    BY MessageTypes, MessageFacts
  <2>3. Answered(c)' = Answered(c) + 1
    <3>1. pings'[c] = pings[c] + 1
      BY <1>2, <2>1
    <3>2. PICK x \in {0, 1} : x = IF reader[c] \in {"none", "open"} THEN 0 ELSE 1
      OBVIOUS
    <3>3. PICK y \in {0, 1} : y = IF reader[c] = "filtering" THEN 1 ELSE 0
      OBVIOUS
    <3>4. /\ Answered(c) = pings[c] + x + Len(asked[c]) - y
          /\ Answered(c)' = pings'[c] + x + Len(asked[c]) - y
      BY <2>1, <3>2, <3>3 DEF Answered
    <3> QED BY <1>2, <3>1, <3>4
  <2> QED BY <1>2, <1>3, <1>4, <2>1, <2>2, <2>3
<1>7. CASE Authenticate(c)
  <2>1. /\ reader[c] = "open" /\ reader' = [reader EXCEPT ![c] = "answered"]
        /\ UNCHANGED <<pings, asked>>
        /\ channel' = Append(channel, AnswerMsg(c, AuthResult))
    BY <1>7 DEF Authenticate, Send
  <2>2. AnswerMsg(c, AuthResult) \in Message /\ AnswerMsg(c, AuthResult).type = "Answer"
    BY MessageTypes, MessageFacts
  <2>3. Answered(c)' = Answered(c) + 1
    BY <1>2, <2>1 DEF Answered
  <2> QED BY <1>2, <1>3, <1>4, <2>1, <2>2, <2>3
<1>8. ASSUME NEW g \in Grants, Report(c, g)
      PROVE  AccountsInv'
  <2> DEFINE m == AuthedMsg(c, Capabilities(g))
  <2>1. /\ reader[c] = "answered" /\ reader' = [reader EXCEPT ![c] = "session"]
        /\ UNCHANGED <<pings, asked>>
        /\ channel' = Append(channel, m)
    BY <1>8 DEF Report, Send
  <2>2. m \in Message /\ m.type = "Authenticated"
    BY MessageTypes, MessageFacts
  <2>3. Answered(c)' = Answered(c) /\ Answered(c) \in Nat
    BY <1>2, <2>1, AnsweredType DEF Answered
  <2> HIDE DEF m
  <2> QED BY <1>2, <1>3, <1>4, <2>1, <2>2, <2>3
<1>9. ASSUME NEW f \in Filters, SetTopicFilter(c, f)
      PROVE  AccountsInv'
  <2> DEFINE m == FilterMsg(c, f)
  <2>1. /\ reader[c] = "session" /\ reader' = [reader EXCEPT ![c] = "filtering"]
        /\ asked' = [asked EXCEPT ![c] = Append(@, f)] /\ UNCHANGED pings
        /\ channel' = Append(channel, m)
    BY <1>9 DEF SetTopicFilter, Send, FilterSends
  <2>2. m \in Message /\ m.type = "TopicFilter"
    <3>1. FilterMsg(c, f) \in Message
      BY <1>9, MessageTypes
    <3> QED BY <3>1, MessageFacts
  <2>3. asked'[c] = Append(asked[c], f) /\ Len(Append(asked[c], f)) = Len(asked[c]) + 1
    BY <1>2, <2>1
  <2>4. Answered(c)' = Answered(c) /\ Answered(c) \in Nat
    BY <1>2, <2>1, <2>3, AnsweredType DEF Answered
  <2> HIDE DEF m
  <2>5. \A d \in Connections : d # c => Answered(d)' = Answered(d)
    BY <1>2, <1>4, <2>1
  <2> QED BY <1>3, <2>1, <2>2, <2>4, <2>5
<1>10. CASE AnswerFilter(c)
  <2> DEFINE m == AnswerMsg(c, FilterResult(Len(asked[c])))
  <2>1. /\ reader[c] = "filtering" /\ reader' = [reader EXCEPT ![c] = "session"]
        /\ UNCHANGED <<pings, asked>>
        /\ channel' = Append(channel, m)
    BY <1>10 DEF AnswerFilter, Send, FilterSends
  <2>2. m \in Message /\ m.type = "Answer"
    <3>1. Len(asked[c]) \in 1..MaxFilters
      BY <2>1 DEF TypeInv
    <3> QED BY <3>1, MessageTypes, MessageFacts DEF FilterResults
  <2>3. Answered(c)' = Answered(c) + 1
    BY <1>2, <2>1 DEF Answered
  <2> HIDE DEF m
  <2> QED BY <1>2, <1>3, <1>4, <2>1, <2>2, <2>3
<1>11. CASE Detach(c)
  <2>1. /\ UNCHANGED <<reader, pings, asked>>
        /\ channel' = Append(channel, DetachMsg(c)) /\ DetachMsg(c) \in Message
    BY <1>11, MessageTypes DEF Detach, Send
  <2>2. Answered(c)' = Answered(c)
    BY <2>1 DEF Answered
  <2>3. Answered(c) \in Nat /\ DetachMsg(c).type = "Detach"
    BY AnsweredType, MessageFacts
  <2> QED BY <1>2, <1>3, <1>4, <2>1, <2>2, <2>3
<1> QED BY <1>5, <1>6, <1>7, <1>8, <1>9, <1>10, <1>11 DEF Sends

(* The sum is kept when what one side loses another gains. *)
LEMMA AccountsBalance ==
  ASSUME TypeInv, TypeInv', AccountsInv, UNCHANGED readerVars,
         IsFiniteSet(Waiting'), IsFiniteSet(Numbered'), IsFiniteSet(EvictedBoundaries'),
         lifecycle_evicted' = Cardinality(EvictedBoundaries'),
         replies' + Cardinality(AnswersIn(channel)) + Cardinality(Waiting)
             + Cardinality(Numbered) + unaddressed
           = replies + Cardinality(AnswersIn(channel')) + Cardinality(Waiting')
               + Cardinality(Numbered') + unaddressed'
  PROVE  AccountsInv'
<1>1. Sent' = Sent
  <2>1. \A c \in Connections : Answered(c)' = Answered(c)
    BY DEF Answered, readerVars
  <2> QED BY <2>1, SentStays
<1>2. /\ Cardinality(Sent) \in Nat /\ Cardinality(Waiting) \in Nat /\ Cardinality(Numbered) \in Nat
      /\ Cardinality(AnswersIn(channel)) \in Nat /\ replies \in Nat /\ unaddressed \in Nat
      /\ Cardinality(Sent) + replies
           = Cardinality(AnswersIn(channel)) + Cardinality(Waiting)
               + Cardinality(Numbered) + unaddressed
  BY AccountsTypes
<1>3. channel' \in Seq(Message') /\ replies' \in Nat /\ unaddressed' \in Nat
  BY DEF TypeInv
<1>4. Cardinality(AnswersIn(channel')) \in Nat
  BY <1>3, AnswersAreFinite
<1>5. Cardinality(Waiting') \in Nat /\ Cardinality(Numbered') \in Nat
  BY FS_CardinalityType
<1>6. Cardinality(Sent') = Cardinality(Sent) /\ IsFiniteSet(Sent')
  BY <1>1 DEF AccountsInv
<1>7. Cardinality(Sent') + replies'
        = Cardinality(AnswersIn(channel')) + Cardinality(Waiting')
            + Cardinality(Numbered') + unaddressed'
  <2>1. PICK a \in Nat, w \in Nat, n \in Nat :
          a = Cardinality(AnswersIn(channel)) /\ w = Cardinality(Waiting) /\ n = Cardinality(Numbered)
    BY <1>2
  <2>2. PICK b \in Nat, v \in Nat, m \in Nat :
          b = Cardinality(AnswersIn(channel')) /\ v = Cardinality(Waiting') /\ m = Cardinality(Numbered')
    BY <1>4, <1>5
  <2>3. replies' + a + w + n + unaddressed = replies + b + v + m + unaddressed'
    BY <2>1, <2>2
  <2>4. Cardinality(Sent') \in Nat /\ Cardinality(Sent') + replies = a + w + n + unaddressed
    BY <1>2, <1>6, <2>1
  <2>5. Cardinality(Sent') + replies' = b + v + m + unaddressed'
    <3>1. replies \in Nat /\ replies' \in Nat /\ unaddressed \in Nat /\ unaddressed' \in Nat
      BY <1>2, <1>3
    <3> QED BY <2>3, <2>4, <3>1
  <2> QED BY <2>2, <2>5
<1>8. AddressedIsAccounted'
  BY <1>7 DEF AddressedIsAccounted, EvictedBoundaries
<1> QED BY <1>6, <1>8 DEF AccountsInv

LEMMA AccountsStay ==
  ASSUME TypeInv, TypeInv', AccountsInv,
         UNCHANGED <<readerVars, channel, logicVars, stream, unaddressed>>
  PROVE  AccountsInv'
<1>1. UNCHANGED <<ring, evictions, refusals, replies, lifecycle_evicted>>
  BY DEF logicVars
<1>2. Waiting' = Waiting /\ Numbered' = Numbered /\ EvictedBoundaries' = EvictedBoundaries
  BY <1>1 DEF Waiting, Numbered, EvictedBoundaries
<1>3. IsFiniteSet(Waiting') /\ IsFiniteSet(Numbered') /\ IsFiniteSet(EvictedBoundaries')
  BY <1>2 DEF AccountsInv
<1>4. lifecycle_evicted' = Cardinality(EvictedBoundaries')
  BY <1>1, <1>2, AccountsTypes
<1>5. /\ Cardinality(AnswersIn(channel')) = Cardinality(AnswersIn(channel))
      /\ Cardinality(Waiting') = Cardinality(Waiting)
      /\ Cardinality(Numbered') = Cardinality(Numbered)
      /\ unaddressed' = unaddressed /\ replies' = replies
  BY <1>1, <1>2
<1> QED BY <1>3, <1>4, <1>5, AccountsBalance

(* The records whose place is not a stream: in the ring, or out of it. *)
Unsent == ToSet(ring) \cup evictions \cup refusals

LEMMA UnsentGrows ==
  ASSUME TypeInv, NEW r \in Committed, PushAddressed(r)
  PROVE  Unsent' = Unsent \cup {r}
<1>1. ring \in Seq(Committed)
  BY DEF TypeInv
<1>2. ToSet(Append(ring, r)) = ToSet(ring) \cup {r}
  BY <1>1, AppendFacts DEF ToSet
<1>3. ASSUME ring # <<>>
      PROVE  ToSet(Append(Tail(ring), r)) \cup {Head(ring)} = ToSet(ring) \cup {r}
  <2>1. /\ Tail(ring) \in Seq(Committed) /\ DOMAIN ring = 1..Len(ring) /\ Len(ring) \in Nat \ {0}
        /\ DOMAIN Tail(ring) = 1..(Len(ring) - 1)
        /\ \A i \in DOMAIN Tail(ring) : Tail(ring)[i] = ring[i + 1] /\ i + 1 \in DOMAIN ring
        /\ Head(ring) = ring[1] /\ 1 \in DOMAIN ring
    BY <1>1, <1>3, TailFacts
  <2>2. ToSet(Append(Tail(ring), r)) = ToSet(Tail(ring)) \cup {r}
    BY <2>1, AppendFacts DEF ToSet
  <2>3. ToSet(Tail(ring)) \cup {Head(ring)} = ToSet(ring)
    <3>1. \A i \in DOMAIN ring : i = 1 \/ (i - 1 \in DOMAIN Tail(ring) /\ (i - 1) + 1 = i)
      BY <2>1
    <3>2. \A x \in ToSet(ring) : x \in ToSet(Tail(ring)) \/ x = Head(ring)
      BY <2>1, <3>1 DEF ToSet
    <3>3. \A x \in ToSet(Tail(ring)) : x \in ToSet(ring)
      BY <2>1 DEF ToSet
    <3>4. Head(ring) \in ToSet(ring)
      BY <2>1 DEF ToSet
    <3> QED BY <3>2, <3>3, <3>4
  <2> QED BY <2>2, <2>3
<1>4. CASE ring' = Append(ring, r) /\ UNCHANGED <<evictions, refusals>>
  BY <1>2, <1>4 DEF Unsent
<1>5. CASE /\ Len(ring) = CommitCapacity /\ ring' = Append(Tail(ring), r)
           /\ evictions' = evictions \cup {Head(ring)} /\ UNCHANGED refusals
  <2>1. ring # <<>>
    BY <1>5, SetupFacts DEF TypeInv
  <2> QED BY <1>3, <1>5, <2>1 DEF Unsent
<1>6. CASE refusals' = refusals \cup {r} /\ UNCHANGED <<ring, evictions>>
  BY <1>6 DEF Unsent
<1> QED BY <1>4, <1>5, <1>6 DEF PushAddressed

LEMMA AccountsOfCommits ==
  ASSUME TypeInv, TypeInv', RecordsInv, AccountsInv,
         \/ \E kind \in Kinds : Commit(kind)
         \/ \E c \in Connections : CommitTo(c)
  PROVE  AccountsInv'
<1>1. PICK r \in Committed :
        /\ r.n = committed + 1 /\ PushAddressed(r)
        /\ replies' = replies + (IF r.to # NoOne THEN 1 ELSE 0)
  <2>0. committed \in Nat /\ replies \in Nat
    BY DEF TypeInv
  <2>1. ASSUME NEW kind \in Kinds, Commit(kind)
        PROVE  \E r \in Committed :
                 /\ r.n = committed + 1 /\ PushAddressed(r)
                 /\ replies' = replies + (IF r.to # NoOne THEN 1 ELSE 0)
    <3> DEFINE r == Record(committed + 1, kind, NoOne)
    <3>1. r \in Committed /\ r.n = committed + 1 /\ r.to = NoOne
      BY <2>0 DEF Record, Committed
    <3>2. PushAddressed(r) /\ replies' = replies
      BY <2>1 DEF Commit
    <3> HIDE DEF r
    <3> QED BY <2>0, <3>1, <3>2
  <2>2. ASSUME NEW c \in Connections, CommitTo(c)
        PROVE  \E r \in Committed :
                 /\ r.n = committed + 1 /\ PushAddressed(r)
                 /\ replies' = replies + (IF r.to # NoOne THEN 1 ELSE 0)
    <3> DEFINE r == Record(committed + 1, ReplyKind, c)
    <3>1. r \in Committed /\ r.n = committed + 1 /\ r.to # NoOne
      BY <2>0, ConnectionsAssumption DEF Record, Committed
    <3>2. PushAddressed(r) /\ replies' = replies + 1
      BY <2>2 DEF CommitTo
    <3> HIDE DEF r
    <3> QED BY <2>0, <3>1, <3>2
  <2> QED BY <2>1, <2>2
<1>2. UNCHANGED <<channel, readerVars, stream, unaddressed>>
  BY <1>1 DEF PushAddressed, writerVars, queueVars
<1>3. Unsent' = Unsent \cup {r} /\ r \notin Unsent
  <2>1. \A x \in Unsent : x.n <= committed
    BY DEF Unsent, ToSet, RecordsInv, RingInv
  <2>2. committed \in Nat
    BY DEF TypeInv
  <2> QED BY <1>1, <2>1, <2>2, UnsentGrows
<1>4. Waiting = {x \in Unsent : x.to # NoOne} /\ Waiting' = {x \in Unsent' : x.to # NoOne}
  BY DEF Waiting, Unsent
<1>5. IsFiniteSet(Waiting) /\ Cardinality(Waiting) \in Nat
  BY AccountsTypes DEF AccountsInv
<1>6. /\ IsFiniteSet(Waiting')
      /\ Cardinality(Waiting') = Cardinality(Waiting) + (IF r.to # NoOne THEN 1 ELSE 0)
  <2>1. CASE r.to # NoOne
    <3>1. Waiting' = Waiting \cup {r} /\ r \notin Waiting
      BY <1>3, <1>4, <2>1
    <3> QED BY <1>5, <2>1, <3>1, FS_AddElement
  <2>2. CASE r.to = NoOne
    <3>1. Waiting' = Waiting
      BY <1>3, <1>4, <2>2
    <3> QED BY <1>5, <2>2, <3>1
  <2> QED BY <2>1, <2>2
<1>7. IsFiniteSet(EvictedBoundaries') /\ lifecycle_evicted' = Cardinality(EvictedBoundaries')
  <2>0. IsFiniteSet(EvictedBoundaries) /\ lifecycle_evicted = Cardinality(EvictedBoundaries)
        /\ lifecycle_evicted \in Nat
    BY AccountsTypes DEF AccountsInv
  <2>1. CASE UNCHANGED <<lifecycle_evicted, evictions>>
    BY <2>0, <2>1 DEF EvictedBoundaries
  <2>2. CASE /\ Len(ring) = CommitCapacity /\ evictions' = evictions \cup {Head(ring)}
             /\ lifecycle_evicted' =
                  lifecycle_evicted + (IF Head(ring).kind.slot # NoSlot THEN 1 ELSE 0)
    <3>1. PICK x \in Committed : x = Head(ring) /\ x \notin evictions
      <4>1. ring \in Seq(Committed) /\ ring # <<>>
        BY <2>2, SetupFacts DEF TypeInv
      <4>2. Head(ring) \in Committed /\ Head(ring) = ring[1] /\ 1 \in DOMAIN ring
        BY <4>1, TailFacts
      <4>3. \A y \in evictions : y.n < ring[1].n
        BY <4>2 DEF RecordsInv, RingInv
      <4>4. ring[1].n \in Nat
        BY <4>2 DEF Committed
      <4> QED BY <4>2, <4>3, <4>4
    <3>2. CASE x.kind.slot # NoSlot
      <4>1. EvictedBoundaries' = EvictedBoundaries \cup {x} /\ x \notin EvictedBoundaries
        BY <2>2, <3>1, <3>2 DEF EvictedBoundaries
      <4> QED BY <2>0, <2>2, <3>1, <3>2, <4>1, FS_AddElement
    <3>3. CASE x.kind.slot = NoSlot
      <4>1. EvictedBoundaries' = EvictedBoundaries
        BY <2>2, <3>1, <3>3 DEF EvictedBoundaries
      <4> QED BY <2>0, <2>2, <3>1, <3>3, <4>1
    <3> QED BY <3>2, <3>3
  <2> QED BY <1>1, <2>1, <2>2 DEF PushAddressed
<1>8. Numbered' = Numbered /\ IsFiniteSet(Numbered)
  BY <1>2 DEF Numbered, AccountsInv
<1>9. replies' + Cardinality(AnswersIn(channel)) + Cardinality(Waiting)
          + Cardinality(Numbered) + unaddressed
        = replies + Cardinality(AnswersIn(channel')) + Cardinality(Waiting')
            + Cardinality(Numbered') + unaddressed'
  <2>1. PICK d \in {0, 1} : d = IF r.to # NoOne THEN 1 ELSE 0
    OBVIOUS
  <2>2. /\ replies' = replies + d /\ Cardinality(Waiting') = Cardinality(Waiting) + d
        /\ Cardinality(Numbered') = Cardinality(Numbered) /\ unaddressed' = unaddressed
        /\ Cardinality(AnswersIn(channel')) = Cardinality(AnswersIn(channel))
    BY <1>1, <1>2, <1>6, <1>8, <2>1
  <2>3. /\ Cardinality(Waiting) \in Nat /\ Cardinality(Numbered) \in Nat
        /\ Cardinality(AnswersIn(channel)) \in Nat /\ replies \in Nat /\ unaddressed \in Nat
    BY AccountsTypes
  <2> QED BY <2>2, <2>3
<1> QED BY <1>2, <1>6, <1>7, <1>8, <1>9, AccountsBalance

(* An answer taken is numbered for its connection, or counted. *)
LEMMA AccountsOfTakes ==
  ASSUME TypeInv, TypeInv', AccountsInv, setup' = setup,
         TakeAttach \/ TakeDetach \/ TakeAnswer \/ TakeAuthenticated \/ TakeTopicFilter
  PROVE  AccountsInv'
<1>1. ASSUME NEW type, Take(type), IsFiniteSet(Numbered'),
             Cardinality(Numbered') + unaddressed' =
               Cardinality(Numbered) + unaddressed + (IF type = "Answer" THEN 1 ELSE 0)
      PROVE  AccountsInv'
  <2>1. /\ Head(channel).type = type /\ channel' = Tail(channel)
        /\ UNCHANGED <<logicVars, readerVars>> /\ channel # <<>> /\ channel \in Seq(Message)
    BY <1>1, TakeFacts DEF Take, TypeInv
  <2>2. UNCHANGED <<ring, evictions, refusals, replies, lifecycle_evicted>>
    BY <2>1 DEF logicVars
  <2>3. Waiting' = Waiting /\ EvictedBoundaries' = EvictedBoundaries
    BY <2>2 DEF Waiting, EvictedBoundaries
  <2>4. IsFiniteSet(Waiting') /\ IsFiniteSet(EvictedBoundaries')
    BY <2>3 DEF AccountsInv
  <2>5. lifecycle_evicted' = Cardinality(EvictedBoundaries')
    BY <2>2, <2>3, AccountsTypes
  <2>6. PICK d \in {0, 1} : d = IF type = "Answer" THEN 1 ELSE 0
    OBVIOUS
  <2>7. Cardinality(AnswersIn(channel)) = Cardinality(AnswersIn(channel')) + d
    BY <2>1, <2>6, AnswersShrink
  <2>8. PICK b \in Nat, m \in Nat :
          b = Cardinality(AnswersIn(channel')) /\ m = Cardinality(Numbered')
    <3>1. channel' \in Seq(Message)
      BY <1>1, TakeFacts
    <3> QED BY <1>1, <3>1, AnswersAreFinite, FS_CardinalityType
  <2>9. PICK w \in Nat, n \in Nat : w = Cardinality(Waiting) /\ n = Cardinality(Numbered)
    BY AccountsTypes
  <2>10. replies' + Cardinality(AnswersIn(channel)) + Cardinality(Waiting)
             + Cardinality(Numbered) + unaddressed
           = replies + Cardinality(AnswersIn(channel')) + Cardinality(Waiting')
               + Cardinality(Numbered') + unaddressed'
    <3>1. m + unaddressed' = n + unaddressed + d
      BY <1>1, <2>6, <2>8, <2>9
    <3>2. replies \in Nat /\ unaddressed \in Nat /\ unaddressed' \in Nat
      BY DEF TypeInv
    <3>3. replies' + (b + d) + w + n + unaddressed = replies + b + w + m + unaddressed'
      BY <2>2, <2>6, <2>8, <2>9, <3>1, <3>2
    <3>4. Cardinality(Waiting') = w /\ Cardinality(AnswersIn(channel)) = b + d
      BY <2>3, <2>7, <2>8, <2>9
    <3> QED BY <2>8, <2>9, <3>3, <3>4
  <2> QED BY <1>1, <2>1, <2>4, <2>5, <2>10, AccountsBalance
<1>2. /\ IsFiniteSet(Numbered) /\ Cardinality(Numbered) \in Nat /\ unaddressed \in Nat
  BY AccountsTypes DEF AccountsInv
<1>3. CASE TakeAttach
  <2>1. Take("Attach") /\ unaddressed' = unaddressed
    BY <1>3 DEF TakeAttach
  <2>2. PICK c \in Connections : Push({c}, Handshake)
    BY <1>3, <2>1, TakeFacts DEF TakeAttach
  <2>3. {c} \in SUBSET Connections /\ Handshake \in Item /\ ~IsBoundary(Handshake)
    BY ItemFacts DEF Item
  <2>4. \A d \in Connections :
          stream'[d] = stream[d] \/ stream'[d] = Append(stream[d], Handshake)
    BY <2>2, <2>3, PushFacts
  <2>5. Numbered' = Numbered
    BY <2>3, <2>4, NumberedStays
  <2>6. Cardinality(Numbered') + unaddressed' = Cardinality(Numbered) + unaddressed + 0
    BY <1>2, <2>1, <2>5
  <2> QED BY <1>1, <1>2, <2>1, <2>5, <2>6
<1>4. CASE TakeAnswer
  <2>1. Take("Answer") /\ DeliverTo(Head(channel).id, Head(channel).record)
    BY <1>4 DEF TakeAnswer
  <2>2. Head(channel) \in Message /\ Head(channel).type = "Answer"
    BY <2>1, TakeFacts
  <2>3. PICK c \in Connections, r \in {Pong, AuthResult} \cup FilterResults :
          c = Head(channel).id /\ r = Head(channel).record
    BY <2>2, MessageForms
  <2>4. r \in Item /\ ~IsBoundary(r) /\ ~IsFannedOut(r) /\ r # Handshake
    BY <2>3, ItemFacts DEF Item, FilterResults
  <2>5. DeliverTo(c, r)
    BY <2>1, <2>3
  <2>6. CASE c \in held
    <3>1. /\ unaddressed' = unaddressed /\ stream'[c] = Append(stream[c], r)
          /\ \A d \in Connections : d # c => stream'[d] = stream[d]
      BY <2>4, <2>5, <2>6, DeliverFacts
    <3>2. IsFiniteSet(Numbered') /\ Cardinality(Numbered') = Cardinality(Numbered) + 1
      BY <1>2, <2>4, <3>1, NumberedGrows
    <3>3. Cardinality(Numbered') + unaddressed' = Cardinality(Numbered) + unaddressed + 1
      BY <1>2, <3>1, <3>2
    <3> QED BY <1>1, <2>1, <3>2, <3>3
  <2>7. CASE c \notin held
    <3>1. unaddressed' = unaddressed + 1 /\ stream' = stream
      BY <2>4, <2>5, <2>7, DeliverFacts
    <3>2. Numbered' = Numbered
      BY <3>1 DEF Numbered
    <3>3. Cardinality(Numbered') + unaddressed' = Cardinality(Numbered) + unaddressed + 1
      BY <1>2, <3>1, <3>2
    <3> QED BY <1>1, <1>2, <2>1, <3>2, <3>3
  <2> QED BY <2>6, <2>7
<1>5. CASE TakeDetach \/ TakeAuthenticated \/ TakeTopicFilter
  <2>1. PICK type \in {"Detach", "Authenticated", "TopicFilter"} : Take(type)
    BY <1>5 DEF TakeDetach, TakeAuthenticated, TakeTopicFilter
  <2>2. UNCHANGED <<stream, unaddressed>>
    BY <1>5 DEF TakeDetach, TakeAuthenticated, TakeTopicFilter, queueVars
  <2>3. Numbered' = Numbered
    BY <2>2 DEF Numbered
  <2>4. Cardinality(Numbered') + unaddressed' = Cardinality(Numbered) + unaddressed + 0
    BY <1>2, <2>2, <2>3
  <2> QED BY <1>1, <1>2, <2>1, <2>3, <2>4
<1> QED BY <1>3, <1>4, <1>5

(* So is a reply, when the writer thread has it out of the ring. *)
LEMMA AccountsOfFan ==
  ASSUME TypeInv, TypeInv', RecordsInv, AccountsInv, setup' = setup, Fan
  PROVE  AccountsInv'
<1>1. PICK r : Fans(r)
  BY FanFacts
<1>2. /\ r \in Committed /\ r \in Item /\ ring # <<>> /\ r = ring[1] /\ ring' = Tail(ring)
      /\ UNCHANGED <<channel, replies, lifecycle_evicted, evictions, refusals, readerVars>>
      /\ IsFannedOut(r) <=> r.to = NoOne
  <2>1. /\ r \in Committed /\ ring # <<>> /\ r = ring[1] /\ ring' = Tail(ring)
        /\ UNCHANGED <<channel, replies, lifecycle_evicted, evictions, refusals, readerVars>>
    BY <1>1 DEF Fans
  <2> QED BY <2>1 DEF Committed, IsFannedOut, Item
<1>3. EvictedBoundaries' = EvictedBoundaries /\ IsFiniteSet(EvictedBoundaries')
      /\ lifecycle_evicted' = Cardinality(EvictedBoundaries')
  <2>1. EvictedBoundaries' = EvictedBoundaries
    BY <1>2 DEF EvictedBoundaries
  <2> QED BY <1>2, <2>1, AccountsTypes DEF AccountsInv
<1>4. Waiting' = Waiting \ {r} /\ (r.to # NoOne => r \in Waiting)
  <2>1. /\ Tail(ring) \in Seq(Committed) /\ DOMAIN ring = 1..Len(ring) /\ Len(ring) \in Nat \ {0}
        /\ DOMAIN Tail(ring) = 1..(Len(ring) - 1)
        /\ \A i \in DOMAIN Tail(ring) : Tail(ring)[i] = ring[i + 1] /\ i + 1 \in DOMAIN ring
        /\ 1 \in DOMAIN ring
    <3>1. ring \in Seq(Committed)
      BY DEF TypeInv
    <3> QED BY <1>2, <3>1, TailFacts
  <2>2. ToSet(ring) = ToSet(ring') \cup {r}
    <3>1. \A i \in DOMAIN ring : i = 1 \/ (i - 1 \in DOMAIN Tail(ring) /\ (i - 1) + 1 = i)
      BY <2>1
    <3>2. \A x \in ToSet(ring) : x \in ToSet(ring') \/ x = r
      BY <1>2, <2>1, <3>1 DEF ToSet
    <3>3. \A x \in ToSet(ring') : x \in ToSet(ring)
      BY <1>2, <2>1 DEF ToSet
    <3>4. r \in ToSet(ring)
      BY <1>2, <2>1 DEF ToSet
    <3> QED BY <3>2, <3>3, <3>4
  <2>3. r \notin ToSet(ring') \cup evictions \cup refusals
    <3>1. r.n \in Nat
      BY <1>2 DEF Committed
    <3>2. \A i \in DOMAIN Tail(ring) : r.n < Tail(ring)[i].n
      <4>1. \A i \in DOMAIN Tail(ring) : i + 1 \in DOMAIN ring /\ 1 < i + 1
        BY <2>1
      <4> QED BY <1>2, <2>1, <4>1 DEF RecordsInv, RingInv
    <3>3. \A x \in evictions : x.n < r.n
      BY <1>2, <2>1 DEF RecordsInv, RingInv
    <3>4. \A x \in refusals : x.n # r.n
      BY <1>2, <2>1 DEF RecordsInv, RingInv
    <3>5. r \notin ToSet(ring')
      BY <1>2, <3>1, <3>2 DEF ToSet
    <3> QED BY <3>1, <3>3, <3>4, <3>5
  <2>4. Waiting' = {x \in ToSet(ring') \cup evictions \cup refusals : x.to # NoOne}
    BY <1>2 DEF Waiting
  <2> QED BY <2>2, <2>3, <2>4 DEF Waiting
<1>5. /\ IsFiniteSet(Waiting) /\ IsFiniteSet(Numbered)
      /\ Cardinality(Waiting) \in Nat /\ Cardinality(Numbered) \in Nat
      /\ Cardinality(AnswersIn(channel)) \in Nat /\ replies \in Nat /\ unaddressed \in Nat
  BY AccountsTypes DEF AccountsInv
<1>6. /\ Cardinality(AnswersIn(channel')) = Cardinality(AnswersIn(channel)) /\ replies' = replies
  BY <1>2
<1>7. CASE r.to = NoOne
  <2>1. unaddressed' = unaddressed
        /\ \A c \in Connections : stream'[c] = stream[c] \/ stream'[c] = Append(stream[c], r)
    BY <1>1, <1>7 DEF Fans
  <2>2. Numbered' = Numbered
    BY <1>2, <1>7, <2>1, NumberedStays
  <2>3. Waiting' = Waiting
    BY <1>4, <1>7 DEF Waiting
  <2>4. Cardinality(Waiting') = Cardinality(Waiting) /\ Cardinality(Numbered') = Cardinality(Numbered)
    BY <2>2, <2>3
  <2> QED BY <1>2, <1>3, <1>5, <1>6, <2>1, <2>2, <2>3, <2>4, AccountsBalance
<1>8. CASE r.to # NoOne
  <2>1. IsFiniteSet(Waiting') /\ Cardinality(Waiting') = Cardinality(Waiting) - 1
    BY <1>4, <1>5, <1>8, FS_RemoveElement
  <2>2. /\ IsFiniteSet(Numbered')
        /\ Cardinality(Numbered') + unaddressed' = Cardinality(Numbered) + unaddressed + 1
    <3>1. r.to \in Connections /\ ~IsFannedOut(r) /\ r # Handshake
      BY <1>1, <1>2, <1>8, ItemFacts DEF Fans, Committed, Handshake
    <3>2. PICK c \in Connections : c = r.to
      BY <3>1
    <3>3. CASE c \in held
      <4>1. /\ unaddressed' = unaddressed /\ stream'[c] = Append(stream[c], r)
            /\ \A d \in Connections : d # c => stream'[d] = stream[d]
        BY <1>1, <1>8, <3>2, <3>3 DEF Fans
      <4>2. IsFiniteSet(Numbered') /\ Cardinality(Numbered') = Cardinality(Numbered) + 1
        BY <1>2, <1>5, <3>1, <4>1, NumberedGrows
      <4> QED BY <1>5, <4>1, <4>2
    <3>4. CASE c \notin held
      <4>1. unaddressed' = unaddressed + 1 /\ stream' = stream
        BY <1>1, <1>8, <3>2, <3>4 DEF Fans
      <4>2. Numbered' = Numbered
        BY <4>1 DEF Numbered
      <4> QED BY <1>5, <4>1, <4>2
    <3> QED BY <3>3, <3>4
  <2>3. PICK a \in Nat, w \in Nat, n \in Nat :
          a = Cardinality(AnswersIn(channel)) /\ w = Cardinality(Waiting) /\ n = Cardinality(Numbered)
    BY <1>5
  <2>4. PICK m \in Nat : m = Cardinality(Numbered')
    BY <2>2, FS_CardinalityType
  <2>5. replies' + a + w + n + unaddressed = replies + a + (w - 1) + m + unaddressed'
    <3>1. m + unaddressed' = n + unaddressed + 1 /\ unaddressed' \in Nat
      BY <2>2, <2>3, <2>4 DEF TypeInv
    <3> QED BY <1>5, <1>6, <2>3, <2>4, <3>1
  <2>6. replies' + Cardinality(AnswersIn(channel)) + Cardinality(Waiting)
            + Cardinality(Numbered) + unaddressed
          = replies + Cardinality(AnswersIn(channel')) + Cardinality(Waiting')
              + Cardinality(Numbered') + unaddressed'
    BY <1>6, <2>1, <2>3, <2>4, <2>5
  <2> QED BY <1>2, <1>3, <2>1, <2>2, <2>6, AccountsBalance
<1> QED BY <1>7, <1>8

LEMMA AccountsOfTheRest ==
  ASSUME TypeInv, TypeInv', RecordsInv, AccountsInv, setup' = setup,
         \/ \E c \in Connections : Drain(c)
         \/ Replay \/ ReplayEnds \/ ControlEmpty \/ BatchEnds
  PROVE  AccountsInv'
<1>1. CASE Replay
  <2>1. /\ UNCHANGED <<channel, logicVars, readerVars, unaddressed>>
        /\ retained[taken + 1] \in Committed
        /\ \A c \in Connections :
             stream'[c] = stream[c] \/ stream'[c] = Append(stream[c], retained[taken + 1])
    BY <1>1, ReplayFacts
  <2>2. PICK r \in Item : r = retained[taken + 1] /\ IsFannedOut(r)
    <3>1. taken + 1 \in DOMAIN retained
      BY <1>1, ReplayFacts
    <3>2. retained[taken + 1].to = NoOne
      BY <3>1 DEF RecordsInv, RetainedInv
    <3> QED BY <2>1, <3>2 DEF Item, Committed, IsFannedOut
  <2>3. Numbered' = Numbered
    BY <2>1, <2>2, NumberedStays
  <2>4. UNCHANGED <<ring, evictions, refusals, replies, lifecycle_evicted>>
    BY <2>1 DEF logicVars
  <2>5. Waiting' = Waiting /\ EvictedBoundaries' = EvictedBoundaries
    BY <2>4 DEF Waiting, EvictedBoundaries
  <2>6. IsFiniteSet(Waiting') /\ IsFiniteSet(Numbered') /\ IsFiniteSet(EvictedBoundaries')
    BY <2>3, <2>5 DEF AccountsInv
  <2>7. lifecycle_evicted' = Cardinality(EvictedBoundaries')
    BY <2>4, <2>5, AccountsTypes
  <2>8. /\ Cardinality(AnswersIn(channel')) = Cardinality(AnswersIn(channel))
        /\ Cardinality(Waiting') = Cardinality(Waiting)
        /\ Cardinality(Numbered') = Cardinality(Numbered)
        /\ unaddressed' = unaddressed /\ replies' = replies
    BY <2>1, <2>3, <2>4, <2>5
  <2> QED BY <2>1, <2>6, <2>7, <2>8, AccountsBalance
<1>2. CASE (\E c \in Connections : Drain(c)) \/ ReplayEnds \/ ControlEmpty \/ BatchEnds
  <2>1. UNCHANGED <<readerVars, channel, logicVars, stream, unaddressed>>
    BY <1>2 DEF Drain, ReplayEnds, ControlEmpty, BatchEnds, writerVars, queueVars
  <2> QED BY <2>1, AccountsStay
<1> QED BY <1>1, <1>2
-----------------------------------------------------------------------------
(* The invariant, and the properties it gives. *)

LEMMA FanoutInit ==
  ASSUME Init
  PROVE  FanoutInvariant
<1>1. TypeInv
  BY TypeInit
<1>2. /\ setup \in Setups /\ channel = <<>> /\ ring = <<>> /\ retained = <<>> /\ committed = 0
      /\ evictions = {} /\ refusals = {} /\ wPc = "control" /\ taken = 0 /\ held = {} /\ closed = {}
      /\ \A c \in Connections :
           /\ reader[c] = "none" /\ asked[c] = <<>> /\ pings[c] = 0 /\ caps[c] = NoCaps
           /\ stream[c] = <<>>
  BY DEF Init
<1>3. DOMAIN channel = {} /\ DOMAIN ring = {} /\ DOMAIN retained = {}
      /\ \A c \in Connections : DOMAIN stream[c] = {}
  BY <1>2
<1>4. ASSUME NEW c \in Connections
      PROVE  AttachInv(c) /\ SessionInv(c) /\ FilterInv(c)
  <2>1. \A i, t : ~IsFor(i, t, c)
    BY <1>3 DEF IsFor
  <2>2. AttachInv(c)
    BY <1>2, <1>3, <2>1 DEF AttachInv
  <2>3. SessionInv(c)
    BY <1>2, <1>3, <2>1 DEF SessionInv, Awaits
  <2>4. FilterInv(c)
    BY <1>2, <1>3, <2>1 DEF FilterInv, HasResult
  <2> QED BY <2>2, <2>3, <2>4
<1>5. RecordsInv
  BY <1>2, <1>3 DEF RecordsInv, RingInv, RetainedInv, ReplayInv
<1>6. StreamsInv
  BY <1>2, <1>3 DEF StreamsInv, InCommitOrder, OnlyEntitled, NothingEscapesTheFilter, SeesTheWorld
<1>7. AccountsInv
  <2>1. Sent = {}
    <3>1. \A c \in Connections : Answered(c) = 0
      <4>1. \A c \in Connections : pings[c] = 0 /\ reader[c] = "none" /\ Len(asked[c]) = 0
        BY <1>2
      <4>2. \A c \in Connections :
              /\ (IF reader[c] \in {"none", "open"} THEN 0 ELSE 1) = 0
              /\ (IF reader[c] = "filtering" THEN 1 ELSE 0) = 0
        BY <4>1
      <4>3. \A c \in Connections : Answered(c) = 0 + 0 + 0 - 0
        BY <4>1, <4>2 DEF Answered
      <4> QED BY <4>3
    <3>2. \A x : x \notin Sent
      <4>1. 1..0 = {}
        OBVIOUS
      <4> QED BY <3>1, <4>1, SentIs
    <3> QED BY <3>2
  <2>2. Waiting = {}
    BY <1>2, <1>3 DEF Waiting, ToSet
  <2>3. Numbered = {}
    <3>1. \A x : x \notin Numbered
      BY <1>3, NumberedIs
    <3> QED BY <3>1
  <2>4. EvictedBoundaries = {}
    BY <1>2 DEF EvictedBoundaries
  <2>5. AnswersIn(channel) = {}
    BY <1>3 DEF AnswersIn
  <2>6. replies = 0 /\ unaddressed = 0 /\ lifecycle_evicted = 0
    BY DEF Init
  <2>7. IsFiniteSet({}) /\ Cardinality({}) = 0
    BY FS_EmptySet
  <2>8. AddressedIsAccounted
    <3>1. Cardinality(Sent) + replies
            = Cardinality(AnswersIn(channel)) + Cardinality(Waiting)
                + Cardinality(Numbered) + unaddressed
      BY <2>1, <2>2, <2>3, <2>5, <2>6, <2>7
    <3>2. lifecycle_evicted = Cardinality({r \in evictions : r.kind.slot # NoSlot})
      BY <2>4, <2>6, <2>7 DEF EvictedBoundaries
    <3> QED BY <3>1, <3>2 DEF AddressedIsAccounted
  <2> QED BY <2>1, <2>2, <2>3, <2>4, <2>7, <2>8 DEF AccountsInv
<1> QED BY <1>1, <1>4, <1>5, <1>6, <1>7 DEF FanoutInvariant, ChannelInv

LEMMA FanoutStep ==
  ASSUME FanoutInvariant, [Next]_vars
  PROVE  FanoutInvariant'
<1>1. TypeInv /\ ChannelInv /\ RecordsInv /\ StreamsInv /\ AccountsInv
  BY DEF FanoutInvariant
<1>2. CASE UNCHANGED vars
  <2>1. /\ UNCHANGED <<setup, channel, ring, committed, replies, lifecycle_evicted, evictions, refusals>>
        /\ UNCHANGED <<reader, grant, asked, pings, detached>>
        /\ UNCHANGED <<wPc, taken, newcomer, held, caps, filter, retained, unaddressed>>
        /\ UNCHANGED <<stream, boundaries, closed>>
    BY <1>2 DEF vars, logicVars, readerVars, writerVars, queueVars
  <2>2. /\ Kinds' = Kinds /\ Grants' = Grants /\ Filters' = Filters /\ All' = All
        /\ RetainedSlots' = RetainedSlots /\ CommitCapacity' = CommitCapacity
        /\ LifecycleCapacity' = LifecycleCapacity /\ RecordsPerPass' = RecordsPerPass
        /\ MaxFilters' = MaxFilters /\ Message' = Message /\ Committed' = Committed
        /\ Item' = Item
    BY <2>1, SetupStays
  <2>3. TypeInv'
    BY <1>1, <2>1, <2>2 DEF TypeInv
  <2>4. ChannelInv'
    BY <1>1, <2>1, <2>3, ChannelStays DEF readerVars
  <2>5. RecordsInv'
    BY <1>1, <2>1, <2>2 DEF RecordsInv, RingInv, RetainedInv, ReplayInv, IsTold
  <2>6. StreamsInv'
    BY <1>1, <2>1, <2>2 DEF StreamsInv, InCommitOrder, OnlyEntitled, NothingEscapesTheFilter,
                            SeesTheWorld, Admits
  <2>7. AccountsInv'
    BY <1>1, <2>1, <2>3, AccountsStay DEF readerVars, logicVars
  <2> QED BY <2>3, <2>4, <2>5, <2>6, <2>7 DEF FanoutInvariant
<1>3. CASE Next
  <2>1. setup' = setup
    BY <1>3 DEF Next
  <2>2. CASE \E c \in Connections : Sends(c)
    <3>1. TypeInv'
      BY <1>1, <2>1, <2>2, TypeOfSends DEF Sends
    <3>2. ChannelInv'
      BY <1>1, <2>1, <2>2, ChannelSent DEF Sends
    <3>3. RecordsInv' /\ StreamsInv'
      BY <1>1, <2>1, <2>2, <3>1, <3>2, QuietInv DEF QuietStep
    <3>4. AccountsInv'
      BY <1>1, <2>2, AccountsOfSends
    <3> QED BY <3>1, <3>2, <3>3, <3>4 DEF FanoutInvariant
  <2>3. CASE \E kind \in Kinds : Commit(kind)
    <3>1. TypeInv'
      BY <1>1, <2>1, <2>3, TypeOfCommits
    <3>2. ChannelInv'
      BY <1>1, <2>1, <2>3, <3>1, ChannelKept
    <3>3. RecordsInv' /\ StreamsInv'
      BY <1>1, <2>1, <2>3, <3>1, CommitInv
    <3>4. AccountsInv'
      BY <1>1, <2>3, <3>1, AccountsOfCommits
    <3> QED BY <3>1, <3>2, <3>3, <3>4 DEF FanoutInvariant
  <2>4. CASE \E c \in Connections : CommitTo(c)
    <3>1. TypeInv'
      BY <1>1, <2>1, <2>4, TypeOfCommits
    <3>2. ChannelInv'
      BY <1>1, <2>1, <2>4, <3>1, ChannelKept
    <3>3. RecordsInv' /\ StreamsInv'
      BY <1>1, <2>1, <2>4, <3>1, CommitInv
    <3>4. AccountsInv'
      BY <1>1, <2>4, <3>1, AccountsOfCommits
    <3> QED BY <3>1, <3>2, <3>3, <3>4 DEF FanoutInvariant
  <2>5. CASE \E c \in Connections : Drain(c)
    <3>1. TypeInv'
      BY <1>1, <2>1, <2>5, TypeOfWriter
    <3>2. ChannelInv'
      BY <1>1, <2>1, <2>5, <3>1, ChannelKept
    <3>3. RecordsInv' /\ StreamsInv'
      BY <1>1, <2>1, <2>5, <3>1, <3>2, QuietInv DEF QuietStep
    <3>4. AccountsInv'
      BY <1>1, <2>1, <2>5, <3>1, AccountsOfTheRest
    <3> QED BY <3>1, <3>2, <3>3, <3>4 DEF FanoutInvariant
  <2>6. CASE WriterThread
    <3>1. TypeInv'
      BY <1>1, <2>1, <2>6, TypeOfWriter
    <3>2. ChannelInv'
      BY <1>1, <2>1, <2>6, <3>1, ChannelKept, ChannelTaken DEF WriterThread
    <3>3. RecordsInv' /\ StreamsInv'
      <4>1. CASE Replay
        BY <1>1, <2>1, <3>1, <3>2, <4>1, ReplayStepInv
      <4>2. CASE Fan
        BY <1>1, <2>1, <3>1, <3>2, <4>2, FanStepInv
      <4>3. CASE QuietStep
        BY <1>1, <2>1, <3>1, <3>2, <4>3, QuietInv
      <4> QED BY <2>6, <4>1, <4>2, <4>3 DEF WriterThread, QuietStep
    <3>4. AccountsInv'
      BY <1>1, <2>1, <2>6, <3>1, AccountsOfTakes, AccountsOfFan, AccountsOfTheRest
         DEF WriterThread
    <3> QED BY <3>1, <3>2, <3>3, <3>4 DEF FanoutInvariant
  <2> QED BY <1>3, <2>2, <2>3, <2>4, <2>5, <2>6 DEF Next, Sends
<1> QED BY <1>2, <1>3

(* Every reachable state is as the invariant has it. *)
THEOREM FanoutIsSafe == Spec => []FanoutInvariant
BY FanoutInit, FanoutStep, PTL DEF Spec

(* One boundary a slot, and so no more of them than slots. *)
LEMMA RetainedFits ==
  ASSUME TypeInv, RetainedInv
  PROVE  Len(retained) <= RetainedSlots
<1>1. RetainedSlots \in Nat /\ retained \in Seq(Committed)
  BY SetupFacts DEF TypeInv
<1>2. Len(retained) \in Nat /\ DOMAIN retained = 1..Len(retained)
  BY <1>1
<1> DEFINE S == 1..Len(retained)
           T == 0..(RetainedSlots - 1)
           f == [i \in S |-> retained[i].kind.slot]
<1>3. f \in [S -> T]
  BY <1>2 DEF RetainedInv
<1>4. \A i, j \in S : f[i] = f[j] => i = j
  BY <1>2 DEF RetainedInv
<1>5. /\ IsFiniteSet(S) /\ Cardinality(S) = Len(retained)
      /\ IsFiniteSet(T) /\ Cardinality(T) = RetainedSlots
  <2>1. \A a, b \in Int :
          IsFiniteSet(a..b) /\ Cardinality(a..b) = IF a > b THEN 0 ELSE b - a + 1
    BY FS_Interval
  <2>2. PICK n \in Nat, m \in Nat : n = Len(retained) /\ m = RetainedSlots
    BY <1>1, <1>2
  <2>3. IsFiniteSet(1..n) /\ Cardinality(1..n) = n
    <3>1. IsFiniteSet(1..n) /\ Cardinality(1..n) = IF 1 > n THEN 0 ELSE n - 1 + 1
      BY <2>1
    <3>2. (IF 1 > n THEN 0 ELSE n - 1 + 1) = n
      OBVIOUS
    <3> QED BY <3>1, <3>2
  <2>4. IsFiniteSet(0..(m - 1)) /\ Cardinality(0..(m - 1)) = m
    <3>1. IsFiniteSet(0..(m - 1)) /\ Cardinality(0..(m - 1)) = IF 0 > m - 1 THEN 0 ELSE (m - 1) - 0 + 1
      BY <2>1
    <3>2. (IF 0 > m - 1 THEN 0 ELSE (m - 1) - 0 + 1) = m
      OBVIOUS
    <3> QED BY <3>1, <3>2
  <2> QED BY <2>2, <2>3, <2>4
<1>6. ASSUME Cardinality(S) > Cardinality(T)
      PROVE  FALSE
  <2> HIDE DEF S, T, f
  <2>1. \A g \in [S -> T] : \E x, y \in S : x # y /\ g[x] = g[y]
    BY <1>5, <1>6, FS_PigeonHole
  <2> QED BY <1>3, <1>4, <2>1
<1> HIDE DEF S, T, f
<1> QED BY <1>1, <1>2, <1>5, <1>6

LEMMA TypeFromInvariant ==
  ASSUME FanoutInvariant
  PROVE  TypeOK
<1>1. TypeInv /\ RetainedInv
  BY DEF FanoutInvariant, RecordsInv
<1>2. Len(retained) <= RetainedSlots
  BY <1>1, RetainedFits
<1>3. \A i \in DOMAIN channel : channel[i] \in Message
  BY <1>1 DEF TypeInv
<1>4. \A c \in Connections : \A i \in DOMAIN asked[c] : asked[c][i] \in Filters
  BY <1>1 DEF TypeInv
<1>5. \A i, j \in DOMAIN retained : retained[i].kind.slot = retained[j].kind.slot => i = j
  BY <1>1 DEF RetainedInv
<1> QED BY <1>1, <1>2, <1>3, <1>4, <1>5 DEF TypeInv, TypeOK

(* The handshake comes first and once, and whatever a connection is sent   *)
(* after it by fan-out or replay comes in commit order, each record once.  *)
THEOREM FanoutInCommitOrder == Spec => []InCommitOrder
<1>1. FanoutInvariant => InCommitOrder
  BY DEF FanoutInvariant, StreamsInv
<1> QED BY <1>1, FanoutIsSafe, PTL

(* A held connection with a session has last been told, of every slot its  *)
(* token covers, the boundary that Retained::keep holds.                   *)
THEOREM FanoutSeesTheWorld == Spec => []SeesTheWorld
<1>1. FanoutInvariant => SeesTheWorld
  BY DEF FanoutInvariant, StreamsInv
<1> QED BY <1>1, FanoutIsSafe, PTL

(* No record behind the answer to a SetTopicFilter is one that neither     *)
(* that filter nor a later one admits.                                     *)
THEOREM FanoutNothingEscapesTheFilter == Spec => []NothingEscapesTheFilter
<1>1. FanoutInvariant => NothingEscapesTheFilter
  BY DEF FanoutInvariant, StreamsInv
<1> QED BY <1>1, FanoutIsSafe, PTL

(* Records go only to those whose token covers them, after their           *)
(* AuthResult; and every answer sent and reply committed is waiting,       *)
(* numbered for its connection, or counted as having had nowhere to go.    *)
THEOREM FanoutReachesWhoItIsFor == Spec => []ReachesWhoItIsFor
<1>1. FanoutInvariant => ReachesWhoItIsFor
  BY TypeFromInvariant DEF FanoutInvariant, StreamsInv, AccountsInv, ReachesWhoItIsFor
<1> QED BY <1>1, FanoutIsSafe, PTL
=============================================================================
