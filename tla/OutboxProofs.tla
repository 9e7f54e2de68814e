---------------------------- MODULE OutboxProofs ----------------------------
(***************************************************************************)
(* For rings of any sizes and any number of records: a connection's queue  *)
(* hands its records on in the order of their numbers, what it skips it    *)
(* has lost and counted, a pop is over in four passes, and the queue is    *)
(* the stream its connection is promised.                                  *)
(***************************************************************************)
EXTENDS Outbox, FiniteSetTheorems, TLAPS

LEMMA QueuedIsFinite ==
  ASSUME TypeOK, NEW c \in Rings
  PROVE  /\ IsFiniteSet(queued[c]) /\ Cardinality(queued[c]) \in Nat
         /\ queued[c] = {} <=> Cardinality(queued[c]) = 0
         /\ InRing(c) \in Nat
<1>1. queued[c] \in SUBSET (1..(seq - 1)) /\ seq - 1 \in Int
  BY DEF TypeOK
<1>2. IsFiniteSet(queued[c])
  BY <1>1, FS_Interval, FS_Subset
<1>. QED
  BY <1>2, FS_CardinalityType, FS_EmptySet DEF InRing

LEMMA LiveIs ==
  ASSUME NEW r
  PROVE  r \in Live <=> \/ \E c \in Rings : r \in queued[c] \/ (r = held[c] /\ r # Nothing)
                        \/ owing # Nothing /\ r = seq - 1
  BY DEF Live, HeldNow

LEMMA LiveNext ==
  ASSUME NEW r
  PROVE  r \in Live' <=> \/ \E c \in Rings : r \in queued'[c] \/ (r = held'[c] /\ r # Nothing)
                         \/ owing' # Nothing /\ r = seq' - 1
  BY DEF Live, HeldNow

(* What is lost is a set of numbers taken, so it can be counted. *)
LEMMA LostIsFinite ==
  ASSUME TypeOK, NEW S \in SUBSET lost
  PROVE  IsFiniteSet(S) /\ Cardinality(S) \in Nat
<1>1. S \in SUBSET (1..(seq - 1)) /\ seq - 1 \in Int
  BY DEF TypeOK
<1>2. IsFiniteSet(1..(seq - 1))
  BY <1>1, FS_Interval
<1>3. IsFiniteSet(S)
  BY <1>1, <1>2, FS_Subset
<1>. QED
  BY <1>3, FS_CardinalityType

LEMMA HandsAreThree ==
  /\ IsFiniteSet(Hands) /\ Cardinality(Hands) \in Nat /\ Cardinality(Hands) <= 3
  /\ Hands \subseteq Rings
<1>1. IsFiniteSet(1..3) /\ Cardinality(1..3) = 3
  <2>1. 1 \in Int /\ 3 \in Int
    OBVIOUS
  <2>2. /\ IsFiniteSet(1..3)
        /\ Cardinality(1..3) = IF 1 > 3 THEN 0 ELSE 3 - 1 + 1
    BY <2>1, FS_Interval, Zenon
  <2>. QED
    BY <2>2
<1>2. Hands \in SUBSET (1..3)
  BY DEF Rings, Hands
<1>3. IsFiniteSet(Hands) /\ Cardinality(Hands) <= 3
  BY <1>1, <1>2, FS_Subset
<1>. QED
  BY <1>2, <1>3, FS_CardinalityType DEF Rings

(* The initial queue: nothing numbered, nothing held. *)
LEMMA OutboxInit == Init => OutboxInv
<1> SUFFICES ASSUME Init PROVE OutboxInv
  OBVIOUS
<1> USE CapacityAssumption DEF Init, Nothing, NoDrops
<1>1. \A c \in Rings : queued[c] = {} /\ held[c] = 0 /\ InRing(c) = 0
  BY FS_EmptySet DEF InRing, Rings
<1>2. TypeOK
  <2>1. queued \in [Rings -> SUBSET (1..(seq - 1))]
    OBVIOUS
  <2>2. held \in [Rings -> 0..(seq - 1)]
    OBVIOUS
  <2>3. \A c \in Rings : InRing(c) <= Capacity[c]
    BY <1>1
  <2>4. dropped \in [{"lossy", "durable", "broker_answer"} -> Nat]
    OBVIOUS
  <2>5. before \in 1..seq /\ at \in 1..4
    OBVIOUS
  <2>6. closed \in BOOLEAN /\ popped \in BOOLEAN
    BY Zenon
  <2>. QED
    BY <2>1, <2>2, <2>3, <2>4, <2>5, <2>6 DEF TypeOK
<1>3. Live = {}
  BY <1>1 DEF Live, HeldNow
<1>4. Placed
  <2>1. ringOf \in [1..(seq - 1) -> Rings]
    <3>1. 1..(seq - 1) = {} /\ DOMAIN <<>> = {}
      OBVIOUS
    <3>. QED
      BY <3>1
  <2>. QED
    BY <1>1, <1>3, <2>1 DEF Placed, ClosedBy
<1>5. GapsAreLosses
  BY FS_EmptySet DEF GapsAreLosses
<1>6. PutHasRoom /\ PassInv /\ FourPassesAtMost
  BY DEF PutHasRoom, PassInv, FourPassesAtMost
<1>. QED
  BY <1>2, <1>4, <1>5, <1>6 DEF OutboxInv

-----------------------------------------------------------------------------
(* A push. *)

(* The number a record takes is its own, and no other number changes ring. *)
LEMMA NumberIsNew ==
  ASSUME OutboxInv, NEW c \in Rings, NEW a \in BOOLEAN, a => c = Durable, Number(c, a)
  PROVE  /\ seq' = seq + 1 /\ seq' - 1 = seq /\ seq \in Nat \ {0}
         /\ seq \notin Live /\ seq \notin handed /\ seq \notin lost
         /\ \A d \in Rings : held[d] < seq /\ \A r \in queued[d] : r < seq
         /\ ringOf' \in [1..(seq' - 1) -> Rings] /\ ringOf'[seq] = c
         /\ \A n \in 1..(seq - 1) : ringOf'[n] = ringOf[n]
         /\ \A n : n \in answers' <=> n \in answers \/ (a /\ n = seq)
         /\ \A n \in answers' : n \in Nat /\ n < seq' /\ n > 0 /\ ringOf'[n] = Durable
         /\ ~closed /\ owing = Nothing
<1> USE DEF OutboxInv, Number
<1>1. seq' = seq + 1 /\ seq' - 1 = seq /\ seq \in Nat \ {0} /\ owing = Nothing /\ ~closed
  BY DEF TypeOK
<1>2. \A d \in Rings : held[d] < seq /\ \A r \in queued[d] : r < seq
  BY <1>1 DEF TypeOK
<1>3. seq \notin Live
  BY <1>1, <1>2, LiveIs
<1>4. seq \notin handed /\ seq \notin lost
  BY <1>1 DEF TypeOK
<1>5. /\ ringOf' = [n \in 1..seq |-> IF n = seq THEN c ELSE ringOf[n]]
      /\ ringOf \in [1..(seq - 1) -> Rings]
  BY DEF Placed
<1>6. \A n \in 1..seq : n # seq => n \in 1..(seq - 1)
  BY <1>1
<1>7. /\ ringOf' \in [1..(seq' - 1) -> Rings] /\ ringOf'[seq] = c
      /\ \A n \in 1..(seq - 1) : ringOf'[n] = ringOf[n]
  BY <1>1, <1>5, <1>6
<1>8. \A n : n \in answers' <=> n \in answers \/ (a /\ n = seq)
  <2>1. CASE a
    BY <2>1
  <2>2. CASE ~a
    BY <2>2
  <2>. QED
    BY <2>1, <2>2
<1>9. \A n \in answers : n \in Nat /\ n < seq /\ n > 0 /\ ringOf[n] = Durable
  BY DEF Placed, TypeOK
<1>10. \A n \in answers' : n \in Nat /\ n < seq' /\ n > 0 /\ ringOf'[n] = Durable
  BY <1>1, <1>7, <1>8, <1>9
<1>. QED
  BY <1>1, <1>2, <1>3, <1>4, <1>7, <1>8, <1>10

(* While nothing more is lost the counts of what was lost stand. *)
LEMMA NothingMoreLost ==
  ASSUME OutboxInv, NEW c \in Rings, NEW a \in BOOLEAN, a => c = Durable, Number(c, a),
         UNCHANGED <<lost, dropped>>
  PROVE  GapsAreLosses'
<1> USE NumberIsNew
<1>1. \A n \in lost : n \in 1..(seq - 1) /\ n # seq
  BY DEF OutboxInv, TypeOK
<1>2. {r \in lost' : ringOf'[r] = Lossy} = {r \in lost : ringOf[r] = Lossy}
  BY <1>1
<1>3. lost' \cap answers' = lost \cap answers
  BY <1>1
<1>4. {r \in lost' \ answers' : ringOf'[r] = Durable} = {r \in lost \ answers : ringOf[r] = Durable}
  BY <1>1
<1>5. handed' = handed
  BY DEF Number, drainVars
<1>. QED
  BY <1>2, <1>3, <1>4, <1>5 DEF OutboxInv, GapsAreLosses

LEMMA CountUp ==
  ASSUME NEW d \in [{"lossy", "durable", "broker_answer"} -> Nat],
         NEW k \in {"lossy", "durable", "broker_answer"}
  PROVE  LET e == [d EXCEPT ![k] = @ + 1]
         IN  /\ e \in [{"lossy", "durable", "broker_answer"} -> Nat]
             /\ e.lossy = IF k = "lossy" THEN d.lossy + 1 ELSE d.lossy
             /\ e.durable = IF k = "durable" THEN d.durable + 1 ELSE d.durable
             /\ e.broker_answer = IF k = "broker_answer" THEN d.broker_answer + 1
                                                       ELSE d.broker_answer
  OBVIOUS

(* What a push loses is counted once, under the label of what it was. *)
LEMMA LossIsCounted ==
  ASSUME OutboxInv, NEW c \in Rings \ {Lifecycle}, NEW a \in BOOLEAN, a => c = Durable,
         Number(c, a), NEW r \in 1..seq, r \notin lost, ringOf'[r] = c, Lose(r)
  PROVE  /\ GapsAreLosses'
         /\ lost' = lost \cup {r} /\ lost' \subseteq 1..(seq' - 1)
         /\ dropped' \in [{"lossy", "durable", "broker_answer"} -> Nat]
<1> DEFINE L  == {n \in lost : ringOf[n] = Lossy}
           A  == lost \cap answers
           D  == {n \in lost \ answers : ringOf[n] = Durable}
           Lp == {n \in lost' : ringOf'[n] = Lossy}
           Ap == lost' \cap answers'
           Dp == {n \in lost' \ answers' : ringOf'[n] = Durable}
<1> USE NumberIsNew
<1>1. \A n \in lost : n \in 1..(seq - 1) /\ n # seq
  BY DEF OutboxInv, TypeOK
<1>2. lost' = lost \cup {r} /\ lost' \subseteq 1..(seq' - 1)
  BY <1>1 DEF Lose
<1>3. /\ IsFiniteSet(L) /\ IsFiniteSet(A) /\ IsFiniteSet(D)
      /\ Cardinality(L) \in Nat /\ Cardinality(A) \in Nat /\ Cardinality(D) \in Nat
  BY LostIsFinite DEF OutboxInv
<1>4. /\ dropped.lossy = Cardinality(L) /\ dropped.broker_answer = Cardinality(A)
      /\ dropped.durable = Cardinality(D)
      /\ dropped \in [{"lossy", "durable", "broker_answer"} -> Nat]
  BY DEF OutboxInv, GapsAreLosses, TypeOK
<1>5. \A n \in handed' : \A m \in 1..n : m \in handed' \cup lost'
  BY <1>2 DEF OutboxInv, GapsAreLosses, Number, drainVars
<1>6. c \in {Lossy, Durable} /\ Lossy # Durable
  BY DEF Rings, Lossy, Durable, Lifecycle
<1>7. CASE c = Lossy
  <2>1. r \notin answers'
    BY <1>6, <1>7
  <2>2. dropped' = [dropped EXCEPT !["lossy"] = @ + 1]
    BY <1>7 DEF Lose
  <2>3. Lp = L \cup {r} /\ r \notin L
    BY <1>1, <1>2, <1>7
  <2>4. Ap = A /\ Dp = D
    BY <1>1, <1>2, <1>6, <1>7, <2>1
  <2>5. Cardinality(Lp) = Cardinality(L) + 1
    BY <1>3, <2>3, FS_AddElement
  <2>. HIDE NumberIsNew DEF L, A, D, Lp, Ap, Dp
  <2>6. /\ dropped'.lossy = Cardinality(Lp) /\ dropped'.broker_answer = Cardinality(Ap)
        /\ dropped'.durable = Cardinality(Dp)
        /\ dropped' \in [{"lossy", "durable", "broker_answer"} -> Nat]
    BY <1>4, <2>2, <2>4, <2>5, CountUp
  <2>. USE DEF Lp, Ap, Dp
  <2>. QED
    BY <1>2, <1>5, <2>6 DEF GapsAreLosses
<1>8. CASE c = Durable /\ r \in answers'
  <2>2. dropped' = [dropped EXCEPT !["broker_answer"] = @ + 1]
    BY <1>6, <1>8 DEF Lose
  <2>3. Ap = A \cup {r} /\ r \notin A
    BY <1>1, <1>2, <1>8
  <2>4. Lp = L /\ Dp = D
    BY <1>1, <1>2, <1>6, <1>8
  <2>5. Cardinality(Ap) = Cardinality(A) + 1
    BY <1>3, <2>3, FS_AddElement
  <2>. HIDE NumberIsNew DEF L, A, D, Lp, Ap, Dp
  <2>6. /\ dropped'.lossy = Cardinality(Lp) /\ dropped'.broker_answer = Cardinality(Ap)
        /\ dropped'.durable = Cardinality(Dp)
        /\ dropped' \in [{"lossy", "durable", "broker_answer"} -> Nat]
    BY <1>4, <2>2, <2>4, <2>5, CountUp
  <2>. USE DEF Lp, Ap, Dp
  <2>. QED
    BY <1>2, <1>5, <2>6 DEF GapsAreLosses
<1>9. CASE c = Durable /\ r \notin answers'
  <2>2. dropped' = [dropped EXCEPT !["durable"] = @ + 1]
    BY <1>6, <1>9 DEF Lose
  <2>3. Dp = D \cup {r} /\ r \notin D
    BY <1>1, <1>2, <1>9
  <2>4. Lp = L /\ Ap = A
    BY <1>1, <1>2, <1>6, <1>9
  <2>5. Cardinality(Dp) = Cardinality(D) + 1
    BY ZenonT(30), <1>3, <2>3, FS_AddElement
  <2>. HIDE NumberIsNew DEF L, A, D, Lp, Ap, Dp
  <2>6. /\ dropped'.lossy = Cardinality(Lp) /\ dropped'.broker_answer = Cardinality(Ap)
        /\ dropped'.durable = Cardinality(Dp)
        /\ dropped' \in [{"lossy", "durable", "broker_answer"} -> Nat]
    BY <1>4, <2>2, <2>4, <2>5, CountUp
  <2>. USE DEF Lp, Ap, Dp
  <2>. QED
    BY <1>2, <1>5, <2>6 DEF GapsAreLosses
<1>. QED
  BY <1>6, <1>7, <1>8, <1>9

(* A push adds the newest number to one ring or to none, so what a pass    *)
(* has left behind it stays younger than the pass.                         *)
LEMMA PushKeepsOrder ==
  ASSUME OutboxInv, NEW c \in Rings, NEW a \in BOOLEAN, a => c = Durable, Number(c, a),
         queued' \in [Rings -> SUBSET (1..seq)],
         \A d \in Rings : \A r \in queued'[d] : r \in queued[d] \/ (d = c /\ r = seq)
  PROVE  /\ PassInv' /\ FourPassesAtMost'
         /\ \A d \in Rings : \A r \in queued'[d] : ringOf'[r] = d /\ held'[d] < r
         /\ \A d \in Rings : held'[d] # Nothing => ringOf'[held'[d]] = d
         /\ held' \in [Rings -> 0..(seq' - 1)] /\ before' \in 1..seq'
         /\ handed' \subseteq 1..(seq' - 1)
<1>1. /\ UNCHANGED <<held, leaving, dPc, at, popped, passes, before, handed>>
  BY DEF Number, drainVars
<1>2. /\ seq \in Nat \ {0} /\ seq' = seq + 1 /\ before \in 1..seq
      /\ held \in [Rings -> 0..(seq - 1)] /\ handed \subseteq 1..(seq - 1)
  BY DEF OutboxInv, TypeOK, Number
<1>3. Cardinality(Hands)' = Cardinality(Hands)
  BY <1>1 DEF Hands
<1>4. PassInv'
  <2>1. leaving' = (IF dPc' = "leave" THEN at' ELSE Nothing) /\ (dPc' = "leave" => at' \in Rings /\ popped')
    BY <1>1 DEF OutboxInv, PassInv
  <2>2. dPc' # "idle" => passes' + (IF popped' THEN 1 ELSE 0) <= Cardinality(Hands)' + 1
    BY <1>1, <1>3 DEF OutboxInv, PassInv
  <2>3. ASSUME dPc' # "idle", ~popped', NEW d \in Rings, d < at', held'[d] = Nothing, NEW r \in queued'[d]
        PROVE  before' <= r
    <3>1. CASE r \in queued[d]
      BY <1>1, <2>3, <3>1 DEF OutboxInv, PassInv
    <3>2. CASE r = seq
      BY <1>1, <1>2, <3>2
    <3>. QED
      BY <3>1, <3>2
  <2>4. dPc' # "idle" /\ ~popped' => \A d \in Rings : held'[d] < before'
    BY <1>1 DEF OutboxInv, PassInv
  <2>. QED
    BY <2>1, <2>2, <2>3, <2>4 DEF PassInv
<1>5. FourPassesAtMost'
  BY <1>1 DEF OutboxInv, FourPassesAtMost
<1>6. ASSUME NEW d \in Rings, NEW r \in queued'[d] PROVE ringOf'[r] = d /\ held'[d] < r
  <2>1. CASE r \in queued[d]
    <3>1. r \in 1..(seq - 1)
      BY <2>1 DEF OutboxInv, TypeOK
    <3>. QED
      BY <1>1, <2>1, <3>1, NumberIsNew DEF OutboxInv, Placed
  <2>2. CASE d = c /\ r = seq
    BY <1>1, <2>2, NumberIsNew
  <2>. QED
    BY <2>1, <2>2
<1>7. ASSUME NEW d \in Rings, held'[d] # Nothing PROVE ringOf'[held'[d]] = d
  <2>1. held[d] \in 1..(seq - 1)
    BY <1>1, <1>2, <1>7 DEF Nothing
  <2>. QED
    BY <1>1, <1>7, <2>1, NumberIsNew DEF OutboxInv, Placed
<1>8. /\ held' \in [Rings -> 0..(seq' - 1)] /\ before' \in 1..seq' /\ handed' \subseteq 1..(seq' - 1)
  BY <1>1, <1>2
<1>. QED
  BY <1>4, <1>5, <1>6, <1>7, <1>8

LEMMA StoreKeeps ==
  ASSUME OutboxInv, NEW c \in Rings, NEW a \in BOOLEAN, a => c = Durable, Store(c, a)
  PROVE  OutboxInv'
<1> USE DEF Store
<1>1. /\ Number(c, a) /\ seq' = seq + 1 /\ seq \in Nat \ {0} /\ owing = Nothing
      /\ UNCHANGED <<owing, closed, lost, dropped>> /\ UNCHANGED drainVars
  BY DEF Number, OutboxInv, TypeOK
<1>2. /\ queued' \in [Rings -> SUBSET (1..seq)]
      /\ queued'[c] = queued[c] \cup {seq}
      /\ \A d \in Rings : d # c => queued'[d] = queued[d]
  BY <1>1 DEF OutboxInv, TypeOK
<1>3. \A d \in Rings : InRing(d)' <= Capacity[d]
  <2>1. Cardinality(queued'[c]) = Cardinality(queued[c]) + 1 /\ Cardinality(queued[c]) \in Nat
    <3>1. seq \notin queued[c]
      BY NumberIsNew
    <3>. QED
      BY <1>2, <3>1, QueuedIsFinite, FS_AddElement DEF OutboxInv
  <2>2. InRing(c) <= Capacity[c] /\ InRing(c) # Capacity[c] /\ Capacity[c] \in Nat
    BY CapacityAssumption DEF OutboxInv, TypeOK, Full
  <2>3. InRing(c)' <= Capacity[c]
    BY <1>1, <2>1, <2>2 DEF InRing, drainVars
  <2>4. \A d \in Rings : d # c => InRing(d)' = InRing(d)
    BY <1>1, <1>2 DEF InRing, drainVars
  <2>. QED
    BY <2>3, <2>4 DEF OutboxInv, TypeOK
<1>4. TypeOK'
  <2>1. owing' \in {Nothing, Lossy, Durable} /\ answers' \subseteq Nat
    BY <1>1, NumberIsNew
  <2>2. /\ leaving' \in Rings \cup {Nothing} /\ at' \in 1..4
        /\ dPc' \in {"idle", "look", "leave"} /\ passes' \in Nat
        /\ dropped' \in [{"lossy", "durable", "broker_answer"} -> Nat]
        /\ lost' \subseteq 1..(seq' - 1)
    BY <1>1 DEF OutboxInv, TypeOK, drainVars
  <2>3. popped' \in BOOLEAN /\ closed' \in BOOLEAN
    BY <1>1, Zenon DEF OutboxInv, TypeOK, drainVars
  <2>4. queued' \in [Rings -> SUBSET (1..(seq' - 1))] /\ seq' \in Nat \ {0}
    BY <1>1, <1>2
  <2>. QED
    BY <1>1, <1>2, <1>3, <2>1, <2>2, <2>3, <2>4, PushKeepsOrder DEF TypeOK
<1>5. Placed'
  <2>1. \A r : r \in Live' <=> r \in Live \/ r = seq
    BY <1>1, <1>2, LiveIs, LiveNext DEF drainVars
  <2>2. (1..(seq' - 1)) \subseteq Live' \cup handed' \cup lost' \cup ClosedBy'
    BY <1>1, <2>1, NumberIsNew DEF OutboxInv, Placed, ClosedBy, drainVars
  <2>3. Live' \cap (handed' \cup lost' \cup ClosedBy') = {}
    BY <1>1, <2>1, NumberIsNew DEF OutboxInv, Placed, ClosedBy, drainVars
  <2>. QED
    BY <1>1, <1>2, <2>2, <2>3, NumberIsNew, PushKeepsOrder DEF Placed
<1>6. PutHasRoom'
  BY <1>1 DEF PutHasRoom
<1>. QED
  BY <1>1, <1>2, <1>4, <1>5, <1>6, PushKeepsOrder, NothingMoreLost DEF OutboxInv

LEMMA EvictKeeps ==
  ASSUME OutboxInv, NEW c \in Rings, NEW a \in BOOLEAN, a => c = Durable, Evict(c, a)
  PROVE  OutboxInv'
<1> USE DEF Evict
<1>1. /\ Number(c, a) /\ seq' = seq + 1 /\ seq \in Nat \ {0} /\ owing = Nothing /\ owing' = c
      /\ UNCHANGED closed /\ UNCHANGED drainVars /\ leaving # c /\ ~closed
  BY DEF Number, OutboxInv, TypeOK
<1>2. PICK r \in queued[c] : /\ IsOldest(r, c) /\ Lose(r)
                             /\ queued' = [queued EXCEPT ![c] = @ \ {r}]
  OBVIOUS
<1>3. /\ queued' \in [Rings -> SUBSET (1..(seq - 1))]
      /\ queued'[c] = queued[c] \ {r}
      /\ \A d \in Rings : d # c => queued'[d] = queued[d]
  BY <1>2 DEF OutboxInv, TypeOK
<1>4. /\ queued' \in [Rings -> SUBSET (1..seq)]
      /\ \A d \in Rings : \A n \in queued'[d] : n \in queued[d] \/ (d = c /\ n = seq)
  BY <1>1, <1>3
<1>5. /\ r \in 1..(seq - 1) /\ r \in Live /\ r \notin lost /\ r \notin handed
      /\ ringOf'[r] = c
  <2>1. r \in 1..(seq - 1) /\ ringOf[r] = c
    BY DEF OutboxInv, TypeOK, Placed
  <2>2. r \in Live
    BY LiveIs
  <2>. QED
    BY <1>1, <2>1, <2>2, NumberIsNew DEF OutboxInv, Placed
<1>6. /\ GapsAreLosses' /\ lost' = lost \cup {r} /\ lost' \subseteq 1..(seq' - 1)
      /\ dropped' \in [{"lossy", "durable", "broker_answer"} -> Nat]
  <2>1. r \in 1..seq /\ c \in Rings \ {Lifecycle}
    BY <1>1, <1>5
  <2>. QED
    BY <1>1, <1>2, <1>5, <2>1, LossIsCounted
<1>7. InRing(c)' < Capacity[c] /\ \A d \in Rings : InRing(d)' <= Capacity[d]
  <2>1. Cardinality(queued'[c]) = Cardinality(queued[c]) - 1 /\ Cardinality(queued[c]) \in Nat
    BY <1>3, QueuedIsFinite, FS_RemoveElement DEF OutboxInv
  <2>2. InRing(c) = Capacity[c] /\ Capacity[c] \in Nat
    BY CapacityAssumption DEF Full
  <2>3. InRing(c)' < Capacity[c] /\ InRing(c)' <= Capacity[c]
    BY <1>1, <2>1, <2>2 DEF InRing, drainVars
  <2>4. \A d \in Rings : d # c => InRing(d)' = InRing(d)
    BY <1>1, <1>3 DEF InRing, drainVars
  <2>. QED
    BY <2>2, <2>3, <2>4 DEF OutboxInv, TypeOK
<1>8. TypeOK'
  <2>1. owing' \in {Nothing, Lossy, Durable} /\ answers' \subseteq Nat
    BY <1>1, NumberIsNew DEF Rings, Lossy, Durable, Lifecycle
  <2>2. /\ leaving' \in Rings \cup {Nothing} /\ at' \in 1..4
        /\ dPc' \in {"idle", "look", "leave"} /\ passes' \in Nat
    BY <1>1 DEF OutboxInv, TypeOK, drainVars
  <2>3. popped' \in BOOLEAN /\ closed' \in BOOLEAN
    BY <1>1, Zenon DEF OutboxInv, TypeOK, drainVars
  <2>4. queued' \in [Rings -> SUBSET (1..(seq' - 1))] /\ seq' \in Nat \ {0}
    BY <1>1, <1>4
  <2>. QED
    BY <1>1, <1>4, <1>6, <1>7, <2>1, <2>2, <2>3, <2>4, PushKeepsOrder DEF TypeOK
<1>9. \A n : n \in Live' <=> (n \in Live /\ n # r) \/ n = seq
  <2>1. \A d \in Rings : held[d] # r
    BY <1>5 DEF OutboxInv, Placed, Nothing
  <2>2. \A d \in Rings : d # c => r \notin queued[d]
    BY DEF OutboxInv, Placed
  <2>. QED
    BY <1>1, <1>3, <1>5, <2>1, <2>2, LiveIs, LiveNext DEF drainVars, Nothing, Rings
<1>10. Placed'
  <2>1. handed' = handed /\ ClosedBy' = {} /\ ClosedBy = {}
    BY <1>1 DEF drainVars, ClosedBy
  <2>2. (1..(seq' - 1)) \subseteq Live' \cup handed' \cup lost' \cup ClosedBy'
    BY <1>1, <1>6, <1>9, <2>1 DEF OutboxInv, Placed
  <2>3. Live' \cap (handed' \cup lost' \cup ClosedBy') = {}
    BY <1>1, <1>6, <1>9, <2>1, NumberIsNew DEF OutboxInv, Placed
  <2>. QED
    BY <1>1, <1>4, <2>2, <2>3, NumberIsNew, PushKeepsOrder DEF Placed
<1>11. PutHasRoom'
  <2>1. \A d \in Rings : seq \notin queued'[d] /\ held'[d] # seq
    BY <1>1, <1>3, NumberIsNew DEF drainVars
  <2>2. before' < seq'
    BY <1>1 DEF OutboxInv, TypeOK, drainVars
  <2>3. ~closed' /\ seq' > 1 /\ seq' - 1 = seq
    BY <1>1
  <2>4. ringOf'[seq' - 1] = owing'
    BY <1>1, <2>3, NumberIsNew
  <2>. QED
    BY <1>1, <1>7, <2>1, <2>2, <2>3, <2>4 DEF PutHasRoom
<1>. QED
  BY <1>1, <1>4, <1>6, <1>8, <1>10, <1>11, PushKeepsOrder DEF OutboxInv

LEMMA RefuseKeeps ==
  ASSUME OutboxInv, NEW c \in Rings, NEW a \in BOOLEAN, a => c = Durable, Refuse(c, a)
  PROVE  OutboxInv'
<1> USE DEF Refuse
<1>1. /\ Number(c, a) /\ seq' = seq + 1 /\ seq \in Nat \ {0} /\ owing = Nothing
      /\ UNCHANGED <<queued, owing, closed>> /\ UNCHANGED drainVars /\ Lose(seq)
  BY DEF Number, OutboxInv, TypeOK
<1>2. /\ queued' \in [Rings -> SUBSET (1..seq)]
      /\ \A d \in Rings : \A n \in queued'[d] : n \in queued[d] \/ (d = c /\ n = seq)
  BY <1>1 DEF OutboxInv, TypeOK
<1>3. /\ GapsAreLosses' /\ lost' = lost \cup {seq} /\ lost' \subseteq 1..(seq' - 1)
      /\ dropped' \in [{"lossy", "durable", "broker_answer"} -> Nat]
  <2>1. seq \in 1..seq /\ c \in Rings \ {Lifecycle}
    BY <1>1
  <2>. QED
    BY <1>1, <2>1, NumberIsNew, LossIsCounted
<1>4. TypeOK'
  <2>1. owing' \in {Nothing, Lossy, Durable} /\ answers' \subseteq Nat
    BY <1>1, NumberIsNew
  <2>2. /\ leaving' \in Rings \cup {Nothing} /\ at' \in 1..4
        /\ dPc' \in {"idle", "look", "leave"} /\ passes' \in Nat
    BY <1>1 DEF OutboxInv, TypeOK, drainVars
  <2>3. popped' \in BOOLEAN /\ closed' \in BOOLEAN
    BY <1>1, Zenon DEF OutboxInv, TypeOK, drainVars
  <2>4. queued' \in [Rings -> SUBSET (1..(seq' - 1))] /\ seq' \in Nat \ {0}
    BY <1>1, <1>2
  <2>5. \A d \in Rings : InRing(d)' <= Capacity[d]
    BY <1>1 DEF InRing, OutboxInv, TypeOK, drainVars
  <2>. QED
    BY <1>1, <1>2, <1>3, <2>1, <2>2, <2>3, <2>4, <2>5, PushKeepsOrder DEF TypeOK
<1>5. Placed'
  <2>1. \A r : r \in Live' <=> r \in Live
    BY <1>1, LiveIs, LiveNext DEF drainVars
  <2>2. handed' = handed /\ ClosedBy' = {} /\ ClosedBy = {}
    BY <1>1 DEF drainVars, ClosedBy, Number
  <2>3. (1..(seq' - 1)) \subseteq Live' \cup handed' \cup lost' \cup ClosedBy'
    BY <1>1, <1>3, <2>1, <2>2 DEF OutboxInv, Placed
  <2>4. Live' \cap (handed' \cup lost' \cup ClosedBy') = {}
    BY <1>1, <1>3, <2>1, <2>2, NumberIsNew DEF OutboxInv, Placed
  <2>. QED
    BY <1>1, <1>2, <2>3, <2>4, NumberIsNew, PushKeepsOrder DEF Placed
<1>6. PutHasRoom'
  BY <1>1 DEF PutHasRoom
<1>. QED
  BY <1>1, <1>2, <1>3, <1>4, <1>5, <1>6, PushKeepsOrder DEF OutboxInv

LEMMA CloseKeeps ==
  ASSUME OutboxInv, NEW c \in Rings, NEW a \in BOOLEAN, a => c = Durable, Close(c, a)
  PROVE  OutboxInv'
<1> USE DEF Close
<1>1. /\ Number(c, a) /\ seq' = seq + 1 /\ seq \in Nat \ {0} /\ owing = Nothing
      /\ UNCHANGED <<queued, owing, lost, dropped>> /\ UNCHANGED drainVars /\ closed' = TRUE
  BY DEF Number, OutboxInv, TypeOK
<1>2. /\ queued' \in [Rings -> SUBSET (1..seq)]
      /\ \A d \in Rings : \A n \in queued'[d] : n \in queued[d] \/ (d = c /\ n = seq)
  BY <1>1 DEF OutboxInv, TypeOK
<1>3. TypeOK'
  <2>1. owing' \in {Nothing, Lossy, Durable} /\ answers' \subseteq Nat
    BY <1>1, NumberIsNew
  <2>2. /\ leaving' \in Rings \cup {Nothing} /\ at' \in 1..4
        /\ dPc' \in {"idle", "look", "leave"} /\ passes' \in Nat
        /\ dropped' \in [{"lossy", "durable", "broker_answer"} -> Nat]
        /\ lost' \subseteq 1..(seq' - 1)
    BY <1>1 DEF OutboxInv, TypeOK, drainVars
  <2>3. popped' \in BOOLEAN /\ closed' \in BOOLEAN
    BY <1>1, Zenon DEF OutboxInv, TypeOK, drainVars
  <2>4. queued' \in [Rings -> SUBSET (1..(seq' - 1))] /\ seq' \in Nat \ {0}
    BY <1>1, <1>2
  <2>5. \A d \in Rings : InRing(d)' <= Capacity[d]
    BY <1>1 DEF InRing, OutboxInv, TypeOK, drainVars
  <2>. QED
    BY <1>1, <1>2, <2>1, <2>2, <2>3, <2>4, <2>5, PushKeepsOrder DEF TypeOK
<1>4. Placed'
  <2>1. \A r : r \in Live' <=> r \in Live
    BY <1>1, LiveIs, LiveNext DEF drainVars
  <2>2. handed' = handed /\ ClosedBy' = {seq} /\ ClosedBy = {}
    BY <1>1, NumberIsNew DEF drainVars, ClosedBy
  <2>3. (1..(seq' - 1)) \subseteq Live' \cup handed' \cup lost' \cup ClosedBy'
    BY <1>1, <2>1, <2>2 DEF OutboxInv, Placed
  <2>4. Live' \cap (handed' \cup lost' \cup ClosedBy') = {}
    BY <1>1, <2>1, <2>2, NumberIsNew DEF OutboxInv, Placed
  <2>. QED
    BY <1>1, <1>2, <2>3, <2>4, NumberIsNew, PushKeepsOrder DEF Placed
<1>5. PutHasRoom'
  BY <1>1 DEF PutHasRoom
<1>. QED
  BY <1>1, <1>2, <1>3, <1>4, <1>5, PushKeepsOrder, NothingMoreLost DEF OutboxInv

LEMMA PutKeeps ==
  ASSUME OutboxInv, Put
  PROVE  OutboxInv'
<1> USE DEF Put
<1>1. /\ UNCHANGED <<seq, answers, dropped, closed, ringOf, lost>> /\ UNCHANGED drainVars
      /\ owing \in Rings /\ owing # Nothing /\ owing' = Nothing /\ ~closed
      /\ seq \in Nat /\ seq > 1 /\ seq - 1 \in 1..(seq - 1) /\ ringOf[seq - 1] = owing
      /\ before < seq /\ before \in 1..seq
      /\ InRing(owing) < Capacity[owing]
      /\ \A c \in Rings : seq - 1 \notin queued[c] /\ held[c] # seq - 1
  BY DEF OutboxInv, TypeOK, PutHasRoom, Rings, Lossy, Durable
<1>2. /\ queued' \in [Rings -> SUBSET (1..(seq - 1))]
      /\ queued'[owing] = queued[owing] \cup {seq - 1}
      /\ \A d \in Rings : d # owing => queued'[d] = queued[d]
  BY <1>1 DEF OutboxInv, TypeOK
<1>3. ASSUME NEW d \in Rings PROVE InRing(d)' <= Capacity[d]
  <2>1. CASE d = owing
    <3>1. Cardinality(queued'[d]) = Cardinality(queued[d]) + 1 /\ Cardinality(queued[d]) \in Nat
      BY <1>1, <1>2, <2>1, QueuedIsFinite, FS_AddElement DEF OutboxInv
    <3>2. Capacity[d] \in Nat /\ InRing(d) < Capacity[d] /\ leaving' = leaving
      BY <1>1, <2>1, CapacityAssumption DEF drainVars
    <3>. QED
      BY <3>1, <3>2 DEF InRing
  <2>2. CASE d # owing
    BY <1>1, <1>2, <2>2 DEF InRing, drainVars, OutboxInv, TypeOK
  <2>. QED
    BY <2>1, <2>2
<1>4. TypeOK'
  <2>1. popped' \in BOOLEAN /\ closed' \in BOOLEAN
    BY <1>1, Zenon DEF OutboxInv, TypeOK, drainVars
  <2>2. owing' \in {Nothing, Lossy, Durable}
    BY <1>1
  <2>. QED
    BY <1>1, <1>2, <1>3, <2>1, <2>2 DEF OutboxInv, TypeOK, drainVars
<1>5. \A r : r \in Live' <=> r \in Live
  BY <1>1, <1>2, LiveIs, LiveNext DEF drainVars
<1>6. \A c \in Rings : held[c] < seq - 1
  <2>1. \A c \in Rings : held[c] \in 0..(seq - 1)
    BY DEF OutboxInv, TypeOK
  <2>. QED
    BY <1>1, <2>1
<1>7. Placed'
  <2>1. \A c \in Rings : \A r \in queued'[c] : ringOf'[r] = c /\ held'[c] < r
    BY <1>1, <1>2, <1>6 DEF OutboxInv, Placed, drainVars
  <2>2. \A c \in Rings : held'[c] # Nothing => ringOf'[held'[c]] = c
    BY <1>1 DEF OutboxInv, Placed, drainVars
  <2>3. (1..(seq' - 1)) \subseteq Live' \cup handed' \cup lost' \cup ClosedBy'
    BY <1>1, <1>5 DEF OutboxInv, Placed, ClosedBy, drainVars
  <2>4. Live' \cap (handed' \cup lost' \cup ClosedBy') = {}
    BY <1>1, <1>5 DEF OutboxInv, Placed, ClosedBy, drainVars
  <2>. QED
    BY <1>1, <2>1, <2>2, <2>3, <2>4 DEF OutboxInv, Placed
<1>8. PassInv'
  <2>1. /\ leaving' = (IF dPc' = "leave" THEN at' ELSE Nothing)
        /\ dPc' = "leave" => at' \in Rings /\ popped'
    BY <1>1 DEF OutboxInv, PassInv, drainVars
  <2>2. dPc' # "idle" => passes' + (IF popped' THEN 1 ELSE 0) <= Cardinality(Hands)' + 1
    BY <1>1 DEF OutboxInv, PassInv, drainVars, Hands
  <2>3. dPc' # "idle" /\ ~popped' => \A c \in Rings : held'[c] < before'
    BY <1>1 DEF OutboxInv, PassInv, drainVars
  <2>4. ASSUME dPc' # "idle", ~popped', NEW d \in Rings, d < at', held'[d] = Nothing, NEW r \in queued'[d]
        PROVE  before' <= r
    <3>1. CASE r \in queued[d]
      BY <1>1, <2>4, <3>1 DEF OutboxInv, PassInv, drainVars
    <3>2. CASE r = seq - 1
      BY <1>1, <3>2 DEF drainVars
    <3>. QED
      BY <1>2, <2>4, <3>1, <3>2
  <2>. QED
    BY <2>1, <2>2, <2>3, <2>4 DEF PassInv
<1>9. GapsAreLosses' /\ FourPassesAtMost'
  BY <1>1 DEF OutboxInv, GapsAreLosses, FourPassesAtMost, drainVars
<1>10. PutHasRoom'
  BY <1>1 DEF PutHasRoom
<1>. QED
  BY <1>4, <1>7, <1>8, <1>9, <1>10 DEF OutboxInv

-----------------------------------------------------------------------------
(* The drainer's pop. *)

(* A step of the drainer that moves no record changes nothing but where it *)
(* stands.                                                                 *)
LEMMA MovesNoRecord ==
  ASSUME OutboxInv, UNCHANGED <<queued, held, handed>>, UNCHANGED writerVars,
         leaving' = leaving \/ leaving' = Nothing,
         at' \in 1..4, dPc' \in {"idle", "look", "leave"}, popped' \in BOOLEAN, passes' \in Nat,
         before' \in 1..seq, owing # Nothing => before' < seq,
         PassInv', passes' <= 4
  PROVE  OutboxInv'
<1>1. \A c \in Rings : InRing(c)' \in Nat /\ InRing(c)' <= InRing(c) /\ InRing(c) \in Nat
  <2> SUFFICES ASSUME NEW c \in Rings
               PROVE  InRing(c)' \in Nat /\ InRing(c)' <= InRing(c) /\ InRing(c) \in Nat
    OBVIOUS
  <2>1. Cardinality(queued[c]) \in Nat
    BY QueuedIsFinite DEF OutboxInv
  <2>. QED
    BY <2>1 DEF InRing, Nothing, Rings
<1>2. \A c \in Rings : InRing(c)' <= Capacity[c] /\ Capacity[c] \in Nat
  BY <1>1, CapacityAssumption DEF OutboxInv, TypeOK
<1>3. TypeOK'
  BY <1>2 DEF OutboxInv, TypeOK, writerVars
<1>4. Live' = Live /\ ClosedBy' = ClosedBy
  BY DEF Live, HeldNow, ClosedBy, writerVars
<1>5. Placed'
  BY <1>4 DEF OutboxInv, Placed, writerVars
<1>6. PutHasRoom'
  <2>1. ASSUME NEW c \in Rings, owing = c, owing # Nothing PROVE InRing(c)' < Capacity[c]
    BY <1>1, <1>2, <2>1 DEF OutboxInv, PutHasRoom
  <2>2. owing # Nothing => owing \in Rings
    BY DEF OutboxInv, TypeOK, Rings, Lossy, Durable
  <2>. QED
    BY <2>1, <2>2 DEF OutboxInv, PutHasRoom, writerVars
<1>7. GapsAreLosses' /\ FourPassesAtMost'
  BY DEF OutboxInv, GapsAreLosses, FourPassesAtMost, writerVars
<1>. QED
  BY <1>3, <1>5, <1>6, <1>7 DEF OutboxInv

(* When a pass begins, whatever is held is older than it, and so is not    *)
(* the number on its way in after an eviction.                             *)
LEMMA PassBegins ==
  ASSUME OutboxInv
  PROVE  /\ Numbered \in 1..seq /\ (owing # Nothing => Numbered < seq)
         /\ \A c \in Rings : held[c] < Numbered
<1>1. seq \in Nat \ {0} /\ \A c \in Rings : held[c] \in 0..(seq - 1)
  BY DEF OutboxInv, TypeOK
<1>. QED
  BY <1>1 DEF OutboxInv, PutHasRoom, Numbered

LEMMA DrainMovesKeep ==
  ASSUME OutboxInv, PopCall \/ LookNext \/ Leave \/ NextPass \/ PopNone
  PROVE  OutboxInv'
<1>1. Cardinality(Hands) \in Nat /\ Cardinality(Hands) <= 3
  BY HandsAreThree
<1>2. /\ at \in 1..4 /\ passes \in Nat /\ popped \in BOOLEAN
      /\ before \in 1..seq /\ seq \in Nat /\ passes <= 4
      /\ owing # Nothing => before < seq
  BY DEF OutboxInv, TypeOK, FourPassesAtMost, PutHasRoom
<1>3. CASE PopCall
  <2>1. Cardinality(Hands)' = Cardinality(Hands)
    BY <1>3 DEF PopCall, Hands
  <2>2. popped' \in BOOLEAN
    BY <1>3, Zenon DEF PopCall
  <2>3. leaving = Nothing
    BY <1>3 DEF PopCall, OutboxInv, PassInv
  <2>4. PassInv'
    BY <1>1, <1>3, <2>1, <2>3, PassBegins DEF PopCall, PassInv, Rings
  <2>. QED
    BY <1>1, <1>3, <2>2, <2>4, PassBegins, MovesNoRecord DEF PopCall
<1>4. CASE LookNext
  <2>1. Cardinality(Hands)' = Cardinality(Hands)
    BY <1>4 DEF LookNext, Hands
  <2>2. at' \in 1..4 /\ at' = at + 1
    BY <1>2, <1>4 DEF LookNext, Rings
  <2>3. ASSUME ~popped', NEW d \in Rings, d < at', held'[d] = Nothing, NEW r \in queued'[d]
        PROVE  before' <= r
    <3>1. d # at
      BY <1>4, <2>3 DEF LookNext
    <3>2. d < at
      BY <1>2, <2>2, <2>3, <3>1 DEF Rings
    <3>. QED
      BY <1>4, <2>3, <3>2 DEF LookNext, OutboxInv, PassInv
  <2>4. PassInv'
    BY <1>4, <2>1, <2>3 DEF LookNext, OutboxInv, PassInv
  <2>. QED
    BY <1>2, <1>4, <2>2, <2>4, MovesNoRecord DEF LookNext
<1>5. CASE Leave
  <2>1. Cardinality(Hands)' = Cardinality(Hands)
    BY <1>5 DEF Leave, Hands
  <2>2. at' \in 1..4 /\ popped /\ popped' = popped
    BY <1>5 DEF Leave, OutboxInv, PassInv, Rings
  <2>3. PassInv'
    BY <1>5, <2>1, <2>2 DEF Leave, OutboxInv, PassInv
  <2>. QED
    BY <1>2, <1>5, <2>2, <2>3, MovesNoRecord DEF Leave
<1>6. CASE NextPass
  <2>1. Cardinality(Hands)' = Cardinality(Hands)
    BY <1>6 DEF NextPass, Hands
  <2>2. popped' \in BOOLEAN
    BY <1>6, Zenon DEF NextPass
  <2>3. passes' \in Nat /\ passes' <= 4 /\ passes' <= Cardinality(Hands) + 1
    BY <1>1, <1>2, <1>6 DEF NextPass, PassOver, OutboxInv, PassInv
  <2>4. leaving = Nothing /\ dPc = "look"
    BY <1>6 DEF NextPass, PassOver, OutboxInv, PassInv
  <2>5. PassInv'
    BY <1>6, <2>1, <2>3, <2>4, PassBegins DEF NextPass, PassInv, Rings
  <2>. QED
    BY <1>6, <2>2, <2>3, <2>4, <2>5, PassBegins, MovesNoRecord DEF NextPass
<1>7. CASE PopNone
  <2>1. PassInv'
    BY <1>7 DEF PopNone, PassOver, OutboxInv, PassInv
  <2>. QED
    BY <1>2, <1>7, <2>1, MovesNoRecord DEF PopNone
<1>. QED
  BY <1>3, <1>4, <1>5, <1>6, <1>7

LEMMA LookTakeKeeps ==
  ASSUME OutboxInv, LookTake
  PROVE  OutboxInv'
<1> USE DEF LookTake
<1>1. /\ UNCHANGED writerVars /\ UNCHANGED <<at, passes, before, handed>>
      /\ dPc = "look" /\ dPc' = "leave" /\ leaving = Nothing /\ leaving' = at /\ popped' = TRUE
      /\ at \in Rings /\ held[at] = Nothing
  BY DEF OutboxInv, PassInv
<1>2. PICK r \in queued[at] : /\ IsOldest(r, at)
                             /\ queued' = [queued EXCEPT ![at] = @ \ {r}]
                             /\ held' = [held EXCEPT ![at] = r]
  OBVIOUS
<1>3. /\ r \in 1..(seq - 1) /\ ringOf[r] = at /\ seq \in Nat
      /\ \A q \in queued[at] : q \in Nat /\ r <= q
      /\ queued' \in [Rings -> SUBSET (1..(seq - 1))] /\ held' \in [Rings -> 0..(seq - 1)]
      /\ queued'[at] = queued[at] \ {r} /\ held'[at] = r
      /\ \A d \in Rings : d # at => queued'[d] = queued[d] /\ held'[d] = held[d]
  BY <1>1, <1>2 DEF OutboxInv, TypeOK, Placed, IsOldest
<1>4. ASSUME NEW d \in Rings PROVE InRing(d)' = InRing(d)
  <2>1. CASE d = at
    <3>1. IsFiniteSet(queued[d]) /\ Cardinality(queued[d]) \in Nat
      BY QueuedIsFinite DEF OutboxInv
    <3>2. r \in queued[d] /\ queued'[d] = queued[d] \ {r}
      BY <1>2, <1>3, <2>1
    <3>3. Cardinality(queued'[d]) = Cardinality(queued[d]) - 1
      BY <3>1, <3>2, FS_RemoveElement
    <3>4. leaving' = d /\ leaving # d
      BY <1>1, <2>1 DEF Nothing, Rings
    <3>. QED
      BY <3>1, <3>3, <3>4 DEF InRing
  <2>2. CASE d # at
    <3>1. queued'[d] = queued[d] /\ leaving' # d /\ leaving # d
      BY <1>1, <1>3, <2>2 DEF Nothing, Rings
    <3>. QED
      BY <3>1 DEF InRing
  <2>. QED
    BY <2>1, <2>2
<1>5. TypeOK'
  <2>1. popped' \in BOOLEAN /\ closed' \in BOOLEAN
    BY <1>1, Zenon DEF OutboxInv, TypeOK, writerVars
  <2>. QED
    BY <1>1, <1>3, <1>4, <2>1 DEF OutboxInv, TypeOK, writerVars
<1>6. \A n : n \in Live' <=> n \in Live
  BY <1>1, <1>3, LiveIs, LiveNext DEF writerVars, Nothing
<1>7. Placed'
  <2>1. ASSUME NEW c \in Rings, NEW q \in queued'[c] PROVE ringOf'[q] = c /\ held'[c] < q
    BY <1>1, <1>3, <2>1 DEF OutboxInv, Placed, writerVars
  <2>2. \A c \in Rings : held'[c] # Nothing => ringOf'[held'[c]] = c
    BY <1>1, <1>3 DEF OutboxInv, Placed, writerVars
  <2>3. (1..(seq' - 1)) \subseteq Live' \cup handed' \cup lost' \cup ClosedBy'
    BY <1>1, <1>6 DEF OutboxInv, Placed, ClosedBy, writerVars
  <2>4. Live' \cap (handed' \cup lost' \cup ClosedBy') = {}
    BY <1>1, <1>6 DEF OutboxInv, Placed, ClosedBy, writerVars
  <2>. QED
    BY <1>1, <2>1, <2>2, <2>3, <2>4 DEF OutboxInv, Placed, writerVars
<1>8. PutHasRoom'
  <2>1. ASSUME NEW c \in Rings, owing = c, owing # Nothing PROVE InRing(c)' < Capacity[c]
    BY <1>4, <2>1 DEF OutboxInv, PutHasRoom
  <2>2. owing # Nothing => owing \in Rings
    BY DEF OutboxInv, TypeOK, Rings, Lossy, Durable
  <2>3. owing # Nothing => \A c \in Rings : seq - 1 \notin queued'[c] /\ held'[c] # seq - 1
    BY <1>1, <1>3 DEF OutboxInv, PutHasRoom
  <2>. QED
    BY <1>1, <2>1, <2>2, <2>3 DEF OutboxInv, PutHasRoom, writerVars
<1>9. PassInv'
  <2>1. Hands' = Hands \cup {at} /\ at \notin Hands
    BY <1>1, <1>3 DEF Hands, Nothing
  <2>2. Cardinality(Hands') = Cardinality(Hands) + 1 /\ Cardinality(Hands) \in Nat
    BY <2>1, HandsAreThree, FS_AddElement
  <2>3. passes \in Nat /\ passes <= Cardinality(Hands) + 1
    BY <1>1, <2>2 DEF OutboxInv, TypeOK, PassInv
  <2>. QED
    BY <1>1, <2>2, <2>3 DEF PassInv
<1>10. GapsAreLosses' /\ FourPassesAtMost'
  BY <1>1 DEF OutboxInv, GapsAreLosses, FourPassesAtMost, writerVars
<1>. QED
  BY <1>5, <1>7, <1>8, <1>9, <1>10 DEF OutboxInv

(* After a pass that popped nothing, the lowest record held is the lowest  *)
(* there is: what is behind a held record in its ring is younger than it,  *)
(* and a ring nothing is held from has only what came after the pass.      *)
LEMMA LowestIsNext ==
  ASSUME OutboxInv, PassOver, ~popped, NEW c \in Rings, IsLowest(c)
  PROVE  /\ held[c] \in Live /\ held[c] \in 1..(seq - 1)
         /\ \A s \in Live : held[c] <= s
<1>1. /\ held[c] \in 1..(seq - 1) /\ seq \in Nat /\ before \in 1..seq
      /\ \A d \in Rings : d < at /\ held[d] \in Nat /\ \A r \in queued[d] : r \in Nat
  BY DEF OutboxInv, TypeOK, IsLowest, PassOver, Nothing, Rings
<1>2. held[c] < before
  BY DEF OutboxInv, PassInv, PassOver
<1>3. ASSUME NEW d \in Rings, NEW r \in queued[d] PROVE held[c] <= r
  <2>1. CASE held[d] = Nothing
    <3>1. before <= r
      BY <1>1, <2>1 DEF OutboxInv, PassInv, PassOver
    <3>. QED
      BY <1>1, <1>2, <3>1
  <2>2. CASE held[d] # Nothing
    <3>1. held[d] < r /\ held[c] <= held[d]
      BY <2>2 DEF OutboxInv, Placed, IsLowest
    <3>. QED
      BY <1>1, <3>1
  <2>. QED
    BY <2>1, <2>2
<1>4. \A d \in Rings : held[d] # Nothing => held[c] <= held[d]
  BY DEF IsLowest
<1>5. owing # Nothing => held[c] <= seq - 1
  BY <1>1
<1>6. held[c] \in Live
  BY LiveIs DEF IsLowest
<1>. QED
  BY <1>1, <1>3, <1>4, <1>5, <1>6, LiveIs

LEMMA HandOnKeeps ==
  ASSUME OutboxInv, HandOn
  PROVE  OutboxInv'
<1> USE DEF HandOn
<1>1. /\ UNCHANGED writerVars /\ UNCHANGED <<leaving, at, popped, passes, before, queued>>
      /\ PassOver /\ ~popped /\ dPc' = "idle" /\ leaving = Nothing
  BY DEF OutboxInv, PassInv, PassOver
<1>2. PICK c \in Rings : /\ IsLowest(c) /\ held' = [held EXCEPT ![c] = Nothing]
                        /\ handed' = handed \cup {held[c]}
  OBVIOUS
<1>3. /\ held[c] \in Live /\ held[c] \in 1..(seq - 1) /\ seq \in Nat
      /\ \A s \in Live : held[c] <= s
      /\ held' \in [Rings -> 0..(seq - 1)] /\ held'[c] = Nothing
      /\ \A d \in Rings : d # c => held'[d] = held[d]
      /\ handed \subseteq 1..(seq - 1)
  BY <1>1, <1>2, LowestIsNext DEF OutboxInv, TypeOK, Nothing
<1>4. \A n : n \in Live' <=> n \in Live /\ n # held[c]
  <2>1. \A d \in Rings : held[c] \notin queued[d] /\ (d # c => held[d] # held[c])
    BY <1>2, <1>3 DEF OutboxInv, Placed, IsLowest, Nothing
  <2>2. owing # Nothing => held[c] # seq - 1
    BY DEF OutboxInv, PutHasRoom
  <2>. QED
    BY <1>1, <1>2, <1>3, <2>1, <2>2, LiveIs, LiveNext DEF writerVars, IsLowest
<1>5. TypeOK'
  <2>1. popped' \in BOOLEAN /\ closed' \in BOOLEAN
    BY <1>1, Zenon DEF OutboxInv, TypeOK, writerVars
  <2>2. \A d \in Rings : InRing(d)' = InRing(d)
    BY <1>1 DEF InRing
  <2>. QED
    BY <1>1, <1>2, <1>3, <2>1, <2>2 DEF OutboxInv, TypeOK, writerVars
<1>6. Placed'
  <2>1. ASSUME NEW d \in Rings, NEW q \in queued'[d] PROVE ringOf'[q] = d /\ held'[d] < q
    <3>1. q \in Nat /\ q > 0
      BY <1>1, <2>1 DEF OutboxInv, TypeOK
    <3>. QED
      BY <1>1, <1>3, <2>1, <3>1 DEF OutboxInv, Placed, writerVars, Nothing
  <2>2. \A d \in Rings : held'[d] # Nothing => ringOf'[held'[d]] = d
    BY <1>1, <1>3 DEF OutboxInv, Placed, writerVars
  <2>3. (1..(seq' - 1)) \subseteq Live' \cup handed' \cup lost' \cup ClosedBy'
    BY <1>1, <1>2, <1>4 DEF OutboxInv, Placed, ClosedBy, writerVars
  <2>4. Live' \cap (handed' \cup lost' \cup ClosedBy') = {}
    BY <1>1, <1>2, <1>4 DEF OutboxInv, Placed, ClosedBy, writerVars
  <2>. QED
    BY <1>1, <2>1, <2>2, <2>3, <2>4 DEF OutboxInv, Placed, writerVars
<1>7. PutHasRoom'
  <2>1. ASSUME NEW d \in Rings, owing = d, owing # Nothing PROVE InRing(d)' < Capacity[d]
    BY <1>1, <2>1 DEF OutboxInv, PutHasRoom, InRing
  <2>2. owing # Nothing => owing \in Rings
    BY DEF OutboxInv, TypeOK, Rings, Lossy, Durable
  <2>3. owing # Nothing => \A d \in Rings : seq - 1 \notin queued'[d] /\ held'[d] # seq - 1
    BY <1>1, <1>3 DEF OutboxInv, PutHasRoom, Nothing
  <2>. QED
    BY <1>1, <2>1, <2>2, <2>3 DEF OutboxInv, PutHasRoom, writerVars
<1>8. PassInv'
  BY <1>1 DEF PassInv
<1>9. GapsAreLosses'
  <2>1. ASSUME NEW n \in 1..held[c] PROVE n \in handed' \cup lost
    <3>1. n \in 1..(seq - 1) /\ (n = held[c] \/ n \notin Live)
      BY <1>3
    <3>2. n # held[c] => n \notin ClosedBy
      BY <1>3 DEF ClosedBy
    <3>. QED
      BY <1>2, <3>1, <3>2 DEF OutboxInv, Placed
  <2>. QED
    BY <1>1, <1>2, <2>1 DEF OutboxInv, GapsAreLosses, writerVars
<1>10. FourPassesAtMost'
  BY <1>1 DEF OutboxInv, FourPassesAtMost
<1>. QED
  BY <1>5, <1>6, <1>7, <1>8, <1>9, <1>10 DEF OutboxInv

-----------------------------------------------------------------------------
LEMMA OutboxStep == OutboxInv /\ [Next]_vars => OutboxInv'
<1> SUFFICES ASSUME OutboxInv, [Next]_vars PROVE OutboxInv'
  OBVIOUS
<1>1. ASSUME NEW c \in Rings, NEW a \in BOOLEAN, a => c = Durable, Push(c, a) PROVE OutboxInv'
  BY <1>1, StoreKeeps, EvictKeeps, RefuseKeeps, CloseKeeps DEF Push
<1>2. CASE \E c \in Rings : Push(c, FALSE)
  BY <1>1, <1>2
<1>3. CASE Push(Durable, TRUE)
  <2>1. Durable \in Rings
    BY DEF Rings, Durable
  <2>. QED
    BY <1>1, <1>3, <2>1, Zenon
<1>4. CASE Put
  BY <1>4, PutKeeps
<1>5. CASE PopCall \/ DrainStep
  BY <1>5, DrainMovesKeep, LookTakeKeeps, HandOnKeeps DEF DrainStep
<1>6. CASE UNCHANGED vars
  <2>1. UNCHANGED <<queued, held, handed>> /\ UNCHANGED writerVars /\ UNCHANGED drainVars
    BY <1>6 DEF vars, drainVars
  <2>2. PassInv'
    BY <2>1 DEF OutboxInv, PassInv, Hands, drainVars
  <2>3. owing # Nothing => before < seq
    BY DEF OutboxInv, PutHasRoom
  <2>4. /\ at \in 1..4 /\ dPc \in {"idle", "look", "leave"} /\ popped \in BOOLEAN
        /\ passes \in Nat /\ before \in 1..seq /\ passes <= 4
    BY DEF OutboxInv, TypeOK, FourPassesAtMost
  <2>. QED
    BY <2>1, <2>2, <2>3, <2>4, MovesNoRecord DEF drainVars
<1>. QED
  BY <1>2, <1>3, <1>4, <1>5, <1>6 DEF Next

(* At every step of every behaviour: the rings hold no more than they may, *)
(* every number is in one place, a gap in what was handed on is a loss     *)
(* that was counted once, and a pop makes four passes at most.             *)
THEOREM OutboxCorrect == Spec => []OutboxInv
<1>. QED
  BY OutboxInit, OutboxStep, PTL DEF Spec

(* Outbox and Drain together are the one queue in order of numbers that a  *)
(* connection is promised.                                                 *)
THEOREM OutboxImplementsStream == Spec => ImplementsStream
<1>1. Init => Promise!Init
  <2> SUFFICES ASSUME Init PROVE Promise!Init
    OBVIOUS
  <2>1. Live = {} /\ lost \cup ClosedBy = {}
    BY DEF Init, NoDrops, Live, HeldNow, ClosedBy, Nothing
  <2>. QED
    BY <2>1 DEF Init, NoDrops, Promise!Init
<1>2. OutboxInv /\ [Next]_vars => [Promise!Next]_(Promise!vars)
  <2> SUFFICES ASSUME OutboxInv, [Next]_vars PROVE [Promise!Next]_(Promise!vars)
    OBVIOUS
  <2> USE DEF Promise!Next, Promise!vars
  <2>2. ASSUME NEW c \in Rings, NEW a \in BOOLEAN, a => c = Durable, Push(c, a)
        PROVE  Promise!Next
    <3>1. /\ Number(c, a) /\ seq' = seq + 1 /\ seq' - 1 = seq /\ handed' = handed /\ held' = held
          /\ owing = Nothing /\ ~closed /\ ClosedBy = {}
      BY <2>2, NumberIsNew DEF Push, Store, Evict, Refuse, Close, Number, drainVars, ClosedBy
    <3>2. CASE Store(c, a)
      <4>1. \A n : n \in Live' <=> n \in Live \/ n = seq
        <5>1. /\ queued'[c] = queued[c] \cup {seq} /\ owing' = Nothing
              /\ \A d \in Rings : d # c => queued'[d] = queued[d]
          BY <3>1, <3>2 DEF Store, OutboxInv, TypeOK
        <5>. QED
          BY <3>1, <5>1, LiveIs, LiveNext
      <4>2. Live' = Live \cup {seq} /\ lost' \cup ClosedBy' = lost \cup ClosedBy
        BY <3>1, <3>2, <4>1 DEF Store, ClosedBy
      <4>. QED
        BY <3>1, <4>2 DEF Promise!Number
    <3>3. CASE Evict(c, a)
      <4>1. PICK r \in queued[c] : /\ queued' = [queued EXCEPT ![c] = @ \ {r}]
                                  /\ lost' = lost \cup {r} /\ owing' = c /\ closed' = closed
        BY <3>3 DEF Evict, Lose
      <4>2. /\ queued'[c] = queued[c] \ {r} /\ c # Nothing
            /\ \A d \in Rings : d # c => queued'[d] = queued[d]
        BY <4>1 DEF OutboxInv, TypeOK, Nothing, Rings
      <4>3. r \in Live /\ \A d \in Rings : held[d] # r /\ (d # c => r \notin queued[d])
        <5>1. r \in 1..(seq - 1) /\ ringOf[r] = c
          BY <4>1 DEF OutboxInv, TypeOK, Placed
        <5>2. r \in Live
          BY <4>1, LiveIs
        <5>. QED
          BY <5>1, <5>2 DEF OutboxInv, Placed, Nothing
      <4>4. \A n : n \in Live' <=> (n \in Live /\ n # r) \/ n = seq
        BY <3>1, <4>1, <4>2, <4>3, LiveIs, LiveNext, NumberIsNew
      <4>5. Live' = (Live \ {r}) \cup {seq} /\ lost' \cup ClosedBy' = (lost \cup ClosedBy) \cup {r}
        BY <3>1, <4>1, <4>4 DEF ClosedBy
      <4>. QED
        BY <3>1, <4>3, <4>5 DEF Promise!Replace
    <3>4. CASE Refuse(c, a)
      <4>1. lost' \cup ClosedBy' = (lost \cup ClosedBy) \cup {seq} /\ Live' = Live
        BY <3>1, <3>4 DEF Refuse, Lose, ClosedBy, Live, HeldNow
      <4>. QED
        BY <3>1, <4>1 DEF Promise!Number
    <3>5. CASE Close(c, a)
      <4>1. lost' \cup ClosedBy' = (lost \cup ClosedBy) \cup {seq} /\ Live' = Live
        BY <3>1, <3>5 DEF Close, ClosedBy, Live, HeldNow
      <4>. QED
        BY <3>1, <4>1 DEF Promise!Number
    <3>. QED
      BY <2>2, <3>2, <3>3, <3>4, <3>5 DEF Push
  <2>3. CASE Put
    <3>1. /\ queued'[owing] = queued[owing] \cup {seq - 1} /\ owing \in Rings /\ owing # Nothing
          /\ owing' = Nothing /\ UNCHANGED <<seq, lost, handed, held, closed>>
          /\ \A d \in Rings : d # owing => queued'[d] = queued[d]
          /\ seq - 1 # Nothing
      BY <2>3 DEF Put, OutboxInv, TypeOK, PutHasRoom, drainVars, Nothing, Rings, Lossy, Durable
    <3>2. \A n : n \in Live' <=> n \in Live
      BY <3>1, LiveIs, LiveNext
    <3>3. Live' = Live /\ ClosedBy' = ClosedBy
      BY <3>1, <3>2 DEF ClosedBy
    <3>. QED
      BY <3>1, <3>3
  <2>4. CASE LookTake
    <3>1. PICK r \in queued[at] : /\ queued' = [queued EXCEPT ![at] = @ \ {r}]
                                 /\ held' = [held EXCEPT ![at] = r]
      BY <2>4 DEF LookTake
    <3>2. /\ at \in Rings /\ held[at] = Nothing /\ UNCHANGED <<handed, writerVars>>
          /\ queued'[at] = queued[at] \ {r} /\ held'[at] = r /\ r # Nothing
          /\ \A d \in Rings : d # at => queued'[d] = queued[d] /\ held'[d] = held[d]
      BY <2>4, <3>1 DEF LookTake, OutboxInv, TypeOK, Nothing
    <3>3. \A n : n \in Live' <=> n \in Live
      BY <3>1, <3>2, LiveIs, LiveNext DEF writerVars
    <3>4. Live' = Live /\ ClosedBy' = ClosedBy
      BY <3>2, <3>3 DEF ClosedBy, writerVars
    <3>. QED
      BY <3>2, <3>4 DEF writerVars
  <2>5. CASE HandOn
    <3>1. PICK c \in Rings : /\ IsLowest(c) /\ held' = [held EXCEPT ![c] = Nothing]
                            /\ handed' = handed \cup {held[c]}
      BY <2>5 DEF HandOn
    <3>2. PassOver /\ ~popped /\ UNCHANGED <<queued, writerVars>>
      BY <2>5 DEF HandOn
    <3>3. held[c] \in Live /\ held[c] \in 1..(seq - 1) /\ \A s \in Live : held[c] <= s
      BY <3>1, <3>2, LowestIsNext
    <3>4. \A n : n \in Live' <=> n \in Live /\ n # held[c]
      <4>1. \A d \in Rings : held[c] \notin queued[d] /\ (d # c => held[d] # held[c])
        BY <3>1, <3>3 DEF OutboxInv, Placed, IsLowest, Nothing
      <4>2. owing # Nothing => held[c] # seq - 1
        BY DEF OutboxInv, PutHasRoom
      <4>3. held'[c] = Nothing /\ \A d \in Rings : d # c => held'[d] = held[d]
        BY <3>1 DEF OutboxInv, TypeOK
      <4>. QED
        BY <3>1, <3>2, <4>1, <4>2, <4>3, LiveIs, LiveNext DEF writerVars, IsLowest
    <3>5. Live' = Live \ {held[c]} /\ ClosedBy' = ClosedBy
      BY <3>2, <3>4 DEF ClosedBy, writerVars
    <3>. QED
      BY <3>1, <3>2, <3>3, <3>5 DEF Promise!HandOn, writerVars
  <2>6. CASE PopCall \/ LookNext \/ Leave \/ NextPass \/ PopNone \/ UNCHANGED vars
    <3>1. UNCHANGED <<held, handed, queued, writerVars>>
      BY <2>6 DEF PopCall, LookNext, Leave, NextPass, PopNone, vars, drainVars
    <3>2. Live' = Live /\ ClosedBy' = ClosedBy
      BY <3>1 DEF Live, HeldNow, ClosedBy, writerVars
    <3>. QED
      BY <3>1, <3>2 DEF writerVars
  <2>7. CASE Push(Durable, TRUE)
    <3>1. Durable \in Rings
      BY DEF Rings, Durable
    <3>. QED
      BY <2>2, <2>7, <3>1, Zenon
  <2>. QED
    BY <2>2, <2>3, <2>4, <2>5, <2>6, <2>7 DEF Next, DrainStep
<1>. QED
  BY <1>1, <1>2, OutboxCorrect, PTL DEF Spec, ImplementsStream, Promise!Spec

=============================================================================
