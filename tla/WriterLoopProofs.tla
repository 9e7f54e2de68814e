-------------------------- MODULE WriterLoopProofs --------------------------
(***************************************************************************)
(* Proofs about Ring, for every capacity and every number of records, and  *)
(* about the loop on top of it, for any ring, any batch and any number of  *)
(* pushes and sends: the ring is a lossy queue, the writer thread never    *)
(* sleeps over a record or a control message, and a control message waits  *)
(* out one batch at most.                                                  *)
(***************************************************************************)
EXTENDS WriterLoop, FiniteSetTheorems, TLAPS

-----------------------------------------------------------------------------
(* Facts about a % N and a \div N for a divisor that is a parameter, which *)
(* is where the cursors of the ring come from.  The provers know only that *)
(* a = N * (a \div N) + a % N with a % N in 0..(N - 1); the rest is here.  *)

LEMMA MulAtLeast ==
  ASSUME NEW N \in Nat \ {0}, NEW k \in Int, k >= 1
  PROVE  N * k >= N
  OBVIOUS

LEMMA DivMod ==
  ASSUME NEW N \in Nat \ {0}, NEW a \in Nat
  PROVE  /\ a = N * (a \div N) + (a % N)
         /\ a \div N \in Nat
         /\ a % N \in 0..(N - 1)
  OBVIOUS

(* Quotient and remainder are determined by the number they make up. *)
LEMMA SameQuotient ==
  ASSUME NEW N \in Nat \ {0}, NEW p \in Int, NEW q \in Int,
         NEW r \in 0..(N - 1), NEW s \in 0..(N - 1),
         N * p + r = N * q + s
  PROVE  p = q /\ r = s
<1>1. N * (q - p) = r - s /\ N * (p - q) = s - r
  OBVIOUS
<1>2. ASSUME q - p >= 1 PROVE FALSE
  BY <1>1, <1>2, MulAtLeast
<1>3. ASSUME p - q >= 1 PROVE FALSE
  BY <1>1, <1>3, MulAtLeast
<1>4. p = q
  BY <1>2, <1>3
<1> QED BY <1>4

LEMMA RemainderIs ==
  ASSUME NEW N \in Nat \ {0}, NEW q \in Nat, NEW r \in 0..(N - 1),
         NEW a \in Nat, a = N * q + r
  PROVE  a % N = r
  BY DivMod, SameQuotient

(* A lap on, the remainder is the same. *)
LEMMA ModAdd ==
  ASSUME NEW N \in Nat \ {0}, NEW a \in Nat
  PROVE  (a + N) % N = a % N
<1> DEFINE q == a \div N
           r == a % N
<1>1. q \in Nat /\ r \in 0..(N - 1) /\ a = N * q + r
  BY DivMod
<1> HIDE DEF q, r
<1>2. N * (q + 1) = N * q + N
  BY <1>1
<1>3. a + N = N * (q + 1) + r
  BY <1>1, <1>2
<1>4. (a + N) % N = r
  BY <1>1, <1>3, RemainderIs
<1> QED BY <1>4 DEF r

(* One step on, the remainder is the next one, wrapping at N. *)
LEMMA ModSucc ==
  ASSUME NEW N \in Nat \ {0}, NEW a \in Nat
  PROVE  (a + 1) % N = IF (a % N) + 1 = N THEN 0 ELSE (a % N) + 1
<1> DEFINE q == a \div N
           r == a % N
           b == a + 1
<1>1. q \in Nat /\ r \in 0..(N - 1) /\ a = N * q + r
  BY DivMod
<1>2. b \in Nat /\ b = a + 1
  OBVIOUS
<1> HIDE DEF q, r, b
<1>3. CASE r + 1 = N
  <2>1. N * (q + 1) = N * q + N
    BY <1>1
  <2>2. b = N * (q + 1) + 0
    BY <2>1, <1>1, <1>2, <1>3
  <2>3. b % N = 0
    BY <2>2, <1>1, <1>2, RemainderIs
  <2> QED BY <2>3, <1>3 DEF r, b
<1>4. CASE r + 1 # N
  <2>1. b = N * q + (r + 1) /\ r + 1 \in 0..(N - 1)
    BY <1>1, <1>2, <1>4
  <2>2. b % N = r + 1
    BY <2>1, <1>1, <1>2, RemainderIs
  <2> QED BY <2>2, <1>4 DEF r, b
<1> QED BY <1>3, <1>4

(* Two numbers with one remainder are the same or a lap apart. *)
LEMMA ModGap ==
  ASSUME NEW N \in Nat \ {0}, NEW a \in Nat, NEW b \in Nat,
         a % N = b % N, a < b
  PROVE  a + N <= b
<1> DEFINE q == a \div N
           p == b \div N
           r == a % N
<1>1. /\ q \in Nat /\ p \in Nat /\ r \in 0..(N - 1)
      /\ a = N * q + r /\ b = N * p + r
  BY DivMod
<1> HIDE DEF p, q, r
<1>2. b - a = N * (p - q) /\ a - b = N * (q - p)
  BY <1>1
<1>3. p # q
  BY <1>1
<1>4. ASSUME q - p >= 1 PROVE FALSE
  BY <1>1, <1>2, <1>4, MulAtLeast
<1>5. p - q >= 1
  BY <1>1, <1>3, <1>4
<1>6. N * (p - q) >= N
  BY <1>1, <1>5, MulAtLeast
<1> QED BY <1>2, <1>6

-----------------------------------------------------------------------------
(* Every variable stays in its range. *)

LEMMA CursorStep ==
  ASSUME NEW c \in Slots
  PROVE  NextCursor(c) \in Slots
  BY CapacityAssumption DEF NextCursor, Slots

(* The steps of either end keep every variable in its range. *)
LEMMA TypeStep == TypeOK /\ [Next]_vars => TypeOK'
<1> SUFFICES ASSUME TypeOK, [Next]_vars PROVE TypeOK'
  OBVIOUS
<1> USE CapacityAssumption DEF TypeOK, NoRecord, Stamp, States, At,
        consumerVars, producerVars, sharedVars, dropVars
<1>1. ASSUME NEW o \in {"push", "offer"}, Call(o) PROVE TypeOK'
  <2>1. /\ UNCHANGED <<consumerVars, sharedVars, dropVars>>
        /\ UNCHANGED <<pIndex, pCursor, pOut, result, returned>>
        /\ pPc' \in {"load", "offer"} /\ op' = o
        /\ pHand' = next /\ next' = next + 1
    BY <1>1 DEF Call
  <2>2. reloaded' \in BOOLEAN
    BY <1>1 DEF Call
  <2> QED BY <2>1, <2>2
<1>2. CASE PushLoad
  <2>1. reloaded' \in BOOLEAN
    BY <1>2, Zenon DEF PushLoad
  <2>2. /\ UNCHANGED <<consumerVars, sharedVars, dropVars>>
        /\ UNCHANGED <<pIndex, pCursor, op, pHand, pOut, next, result, returned>>
        /\ pPc' \in {"fill", "claim", "panic", "count", "load"}
    BY <1>2 DEF PushLoad
  <2> QED BY <2>1, <2>2
<1>3. CASE OfferLoad
  BY <1>3 DEF OfferLoad
<1>4. CASE PushClaim
  <2>1. CASE stamp[pCursor] = At(pIndex - Capacity, "FULL")
    <3>1. pIndex - Capacity \in Nat
      BY <2>1
    <3> QED BY <1>4, <2>1, <3>1 DEF PushClaim
  <2>2. CASE stamp[pCursor] # At(pIndex - Capacity, "FULL")
    BY <1>4, <2>2 DEF PushClaim
  <2> QED BY <2>1, <2>2
<1>5. CASE PushTake
  BY <1>5 DEF PushTake
<1>6. CASE Fill
  BY <1>6 DEF Fill
<1>7. CASE Publish
  BY <1>7 DEF Publish
<1>8. CASE Count
  <2>1. CASE pHand = NoRecord
    <3>1. /\ pPc' = "advance" /\ dropped' = dropped + 1
          /\ UNCHANGED <<pHand, result, returned>>
          /\ UNCHANGED <<pIndex, pCursor, op, reloaded, pOut, next>>
          /\ UNCHANGED <<stamp, value, write, read, consumerVars, dropVars>>
      BY <1>8, <2>1 DEF Count
    <3> QED BY <3>1
  <2>2. CASE pHand # NoRecord
    <3>1. returned' \subseteq Nat
      BY <1>8, <2>2 DEF Count
    <3> QED BY <1>8, <2>2, <3>1 DEF Count
  <2> QED BY <2>1, <2>2
<1>9. CASE ProducerAdvance
  BY <1>9, CursorStep DEF ProducerAdvance
<1>10. CASE PopCall
  BY <1>10 DEF PopCall
<1>11. CASE PopLook
  BY <1>11 DEF PopLook
<1>12. CASE PopClaim
  BY <1>12 DEF PopClaim
<1>13. CASE PopTake
  BY <1>13 DEF PopTake
<1>14. CASE PopRelease
  BY <1>14 DEF PopRelease
<1>15. CASE ConsumerAdvance
  BY <1>15, CursorStep DEF ConsumerAdvance
<1>16. CASE DropProducer
  BY <1>16 DEF DropProducer
<1>17. CASE DropConsumer
  BY <1>17 DEF DropConsumer
<1>18. CASE DropRing
  BY <1>18 DEF DropRing
<1>19. CASE UNCHANGED vars
  BY <1>19 DEF vars
<1> QED
  BY <1>1, <1>2, <1>3, <1>4, <1>5, <1>6, <1>7, <1>8, <1>9, <1>10, <1>11, <1>12,
     <1>13, <1>14, <1>15, <1>16, <1>17, <1>18, <1>19
     DEF Next, ProducerStep, ConsumerStep

LEMMA InitTypes == Init => TypeOK
<1> SUFFICES ASSUME Init PROVE TypeOK
  OBVIOUS
<1>1. reloaded \in BOOLEAN /\ gone \in BOOLEAN
  BY DEF Init
<1>2. 0 \in Slots /\ Slots \subseteq Nat
  BY CapacityAssumption DEF Slots
<1>3. stamp \in [Slots -> Stamp]
  BY <1>2 DEF Init, Stamp, States, At
<1>4. value \in [Slots -> Nat \cup {NoRecord}]
  BY DEF Init
<1> QED BY <1>1, <1>2, <1>3, <1>4 DEF Init, TypeOK, NoRecord

(* Every variable stays in its range. *)
THEOREM RingTypes == Spec => []TypeOK
BY InitTypes, TypeStep, PTL DEF Spec

-----------------------------------------------------------------------------
(* Who owns a slot. *)

(* Outside the slot it is at, the producer finds it free for its index or  *)
(* still in use one lap back.                                              *)
LEMMA AtProducerCursor ==
  ASSUME OwnershipInv, pPc \in {"load", "offer", "claim"}
  PROVE  /\ stamp[pCursor].state # "HELD_BY_PRODUCER"
         /\ stamp[pCursor].state = "EMPTY" => stamp[pCursor].index = pIndex
         /\ stamp[pCursor].state \in {"FULL", "HELD_BY_CONSUMER"}
              => stamp[pCursor].index = pIndex - Capacity
<1> DEFINE i == stamp[pCursor].index
           st == stamp[pCursor].state
<1>1. /\ pCursor \in Slots /\ i \in Nat /\ pIndex \in Nat /\ cIndex \in Nat
      /\ i % Capacity = pIndex % Capacity
  BY DEF OwnershipInv, TypeOK, Stamp, Alignment
<1>2. /\ i < pIndex => i + Capacity <= pIndex
      /\ pIndex < i => pIndex + Capacity <= i
  BY <1>1, CapacityAssumption, ModGap
<1>3. Stored = pIndex /\ ~ProducerInside
  BY DEF Stored, ProducerInside
<1>4. /\ st = "EMPTY" => EmptySlot(pCursor)
      /\ st = "FULL" => FullSlot(pCursor)
      /\ st = "HELD_BY_PRODUCER" => ProducerSlot(pCursor)
      /\ st = "HELD_BY_CONSUMER" => ConsumerSlot(pCursor)
  BY <1>1 DEF OwnershipInv, SlotInv, SlotOk
<1>5. st # "HELD_BY_PRODUCER"
  BY <1>3, <1>4 DEF ProducerSlot
<1>6. ASSUME st = "EMPTY" PROVE i = pIndex
  <2>1. pIndex <= i /\ i < pIndex + Capacity
    BY <1>3, <1>4, <1>6 DEF EmptySlot
  <2> QED BY <1>1, <1>2, <2>1, CapacityAssumption
<1>7. ASSUME st = "FULL" PROVE i = pIndex - Capacity
  <2>1. pIndex <= i + Capacity /\ i < pIndex
    BY <1>3, <1>4, <1>7 DEF FullSlot
  <2> QED BY <1>1, <1>2, <2>1, CapacityAssumption
<1>8. ASSUME st = "HELD_BY_CONSUMER" PROVE i = pIndex - Capacity
  <2>1. pIndex <= i + Capacity /\ i < pIndex
    BY <1>3, <1>4, <1>8 DEF ConsumerSlot, ConsumerInside, OwnershipInv, ConsumerInv
  <2> QED BY <1>1, <1>2, <2>1, CapacityAssumption
<1> QED
  BY <1>5, <1>6, <1>7, <1>8

(* Looking for its next record, the consumer finds the slot free for that  *)
(* index, or full of it, or refilled a lap or more ahead, or held by the   *)
(* producer.                                                               *)
LEMMA AtConsumerCursor ==
  ASSUME OwnershipInv, cPc \in {"look", "claim"}
  PROVE  /\ stamp[cCursor].state # "HELD_BY_CONSUMER"
         /\ stamp[cCursor].state = "EMPTY" => stamp[cCursor].index = cIndex
         /\ stamp[cCursor].state = "FULL"
              => \/ stamp[cCursor].index = cIndex
                 \/ stamp[cCursor].index >= cIndex + Capacity
<1> DEFINE i == stamp[cCursor].index
           st == stamp[cCursor].state
<1>1. /\ cCursor \in Slots /\ i \in Nat /\ cIndex \in Nat /\ pIndex \in Nat
      /\ i % Capacity = cIndex % Capacity
  BY DEF OwnershipInv, TypeOK, Stamp, Alignment
<1>2. /\ i < cIndex => i + Capacity <= cIndex
      /\ cIndex < i => cIndex + Capacity <= i
  BY <1>1, CapacityAssumption, ModGap
<1>3. Stored \in Nat /\ cIndex <= Stored /\ ~ConsumerInside
  BY <1>1 DEF Stored, ConsumerInside, ConsumerInv, OwnershipInv
<1>4. /\ st = "EMPTY" => EmptySlot(cCursor)
      /\ st = "FULL" => FullSlot(cCursor)
      /\ st = "HELD_BY_CONSUMER" => ConsumerSlot(cCursor)
  BY <1>1 DEF OwnershipInv, SlotInv, SlotOk
<1>5. st # "HELD_BY_CONSUMER"
  BY <1>3, <1>4 DEF ConsumerSlot
<1>6. ASSUME st = "EMPTY" PROVE i = cIndex
  <2>1. Stored <= i /\ i < cIndex + Capacity
    BY <1>4, <1>6 DEF EmptySlot
  <2> QED BY <1>1, <1>2, <1>3, <2>1, CapacityAssumption
<1>7. ASSUME st = "FULL" PROVE i = cIndex \/ i >= cIndex + Capacity
  <2>1. cIndex <= i
    BY <1>4, <1>7 DEF FullSlot
  <2> QED BY <1>1, <1>2, <2>1, CapacityAssumption
<1> QED
  BY <1>5, <1>6, <1>7

LEMMA OwnershipStep == OwnershipInv /\ [Next]_vars => OwnershipInv'
<1> SUFFICES ASSUME OwnershipInv, [Next]_vars PROVE OwnershipInv'
  OBVIOUS
<1>t. TypeOK /\ TypeOK'
  BY TypeStep DEF OwnershipInv
<1> USE CapacityAssumption, <1>t DEF NoRecord
<1> DEFINE Rest == Alignment' /\ SlotInv' /\ ProducerInv' /\ ConsumerInv'
<1>1. ASSUME NEW o \in {"push", "offer"}, Call(o) PROVE Rest
  <2> USE <1>1 DEF Call, OwnershipInv, consumerVars, sharedVars, dropVars
  <2>1. Alignment'
    BY DEF Alignment
  <2>2. SlotInv'
    BY DEF SlotInv, SlotOk, EmptySlot, FullSlot, ProducerSlot, ConsumerSlot, Stored,
           ProducerInside, ConsumerInside, ProducerInv
  <2>3. ProducerInv'
    BY DEF ProducerInv, ConsumerInv, TypeOK
  <2>4. ConsumerInv'
    BY DEF ConsumerInv, ConsumerInside, Stored, ProducerInv
  <2> QED BY <2>1, <2>2, <2>3, <2>4
<1>2. CASE PushLoad
  <2> USE <1>2 DEF PushLoad, OwnershipInv, consumerVars, sharedVars, dropVars
  <2>0. /\ pPc' \in {"load", "fill", "claim", "count"}
        /\ pPc' = "fill" => stamp[pCursor] = At(pIndex, "EMPTY")
        /\ pPc' = "claim" => pIndex >= Capacity
    <3>1. /\ stamp[pCursor] = At(stamp[pCursor].index, stamp[pCursor].state)
          /\ stamp[pCursor].state \in States /\ stamp[pCursor].index \in Nat /\ pIndex \in Nat
      BY DEF TypeOK, Stamp, At
    <3>2. CASE stamp[pCursor].state = "EMPTY"
      <4>1. stamp[pCursor] = At(pIndex, "EMPTY")
        BY <3>1, <3>2, AtProducerCursor
      <4> QED BY <4>1 DEF At
    <3>3. CASE stamp[pCursor].state = "FULL"
      <4>1. stamp[pCursor] = At(pIndex - Capacity, "FULL") /\ pIndex >= Capacity
        BY <3>1, <3>3, AtProducerCursor
      <4>2. stamp[pCursor] # At(pIndex, "EMPTY")
        BY <3>3 DEF At
      <4>3. stamp[pCursor].state # "HELD_BY_CONSUMER"
        BY <3>3
      <4>4. pPc' = "claim"
        BY <4>1, <4>2, <4>3
      <4> QED BY <4>1, <4>4
    <3>4. CASE stamp[pCursor].state = "HELD_BY_CONSUMER"
      <4>1. stamp[pCursor] # At(pIndex, "EMPTY") /\ stamp[pCursor] # At(pIndex - Capacity, "FULL")
        BY <3>4 DEF At
      <4> QED BY <3>4, <4>1
    <3> QED BY <3>1, <3>2, <3>3, <3>4, AtProducerCursor DEF States
  <2>1. Alignment'
    BY DEF Alignment
  <2>2. SlotInv'
    BY <2>0 DEF SlotInv, SlotOk, EmptySlot, FullSlot, ProducerSlot, ConsumerSlot, Stored,
           ProducerInside, ConsumerInside, ProducerInv
  <2>3. ProducerInv'
    BY <2>0 DEF ProducerInv, ConsumerInv, TypeOK
  <2>4. ConsumerInv'
    BY <2>0 DEF ConsumerInv, ConsumerInside, Stored, ProducerInv
  <2> QED BY <2>1, <2>2, <2>3, <2>4
<1>3. CASE OfferLoad
  <2> USE <1>3 DEF OfferLoad, OwnershipInv, consumerVars, producerVars, sharedVars, dropVars
  <2>1. Alignment'
    BY DEF Alignment
  <2>2. SlotInv'
    BY DEF SlotInv, SlotOk, EmptySlot, FullSlot, ProducerSlot, ConsumerSlot, Stored,
           ProducerInside, ConsumerInside, ProducerInv, ConsumerInv
  <2>3. ProducerInv'
    BY DEF ProducerInv, ConsumerInv, TypeOK
  <2>4. ConsumerInv'
    BY DEF ConsumerInv, ConsumerInside, Stored, ProducerInv
  <2> QED BY <2>1, <2>2, <2>3, <2>4
<1>4. CASE PushClaim
  <2> USE <1>4 DEF PushClaim, consumerVars, dropVars
  <2>1. CASE stamp[pCursor] # At(pIndex - Capacity, "FULL")
    <3> USE <2>1 DEF OwnershipInv
    <3>1. Alignment'
      BY DEF Alignment
    <3>2. SlotInv'
      BY DEF SlotInv, SlotOk, EmptySlot, FullSlot, ProducerSlot, ConsumerSlot, Stored,
             ProducerInside, ConsumerInside, ProducerInv
    <3>3. ProducerInv'
      BY DEF ProducerInv
    <3>4. ConsumerInv'
      BY DEF ConsumerInv, ConsumerInside, Stored
    <3> QED BY <3>1, <3>2, <3>3, <3>4
  <2>2. CASE stamp[pCursor] = At(pIndex - Capacity, "FULL")
    <3>1. /\ pPc = "claim" /\ pPc' = "take" /\ pHand # NoRecord /\ pOut = NoRecord
          /\ pIndex \in Nat /\ pIndex - Capacity \in Nat /\ pCursor \in Slots
          /\ stamp' = [stamp EXCEPT ![pCursor] = At(pIndex - Capacity, "HELD_BY_PRODUCER")]
          /\ stamp \in [Slots -> Stamp]
      BY <2>2 DEF OwnershipInv, ProducerInv, TypeOK
    <3>2. /\ stamp'[pCursor] = At(pIndex - Capacity, "HELD_BY_PRODUCER")
          /\ \A s \in Slots : s # pCursor => stamp'[s] = stamp[s]
      BY <3>1
    <3>3. stamp[pCursor].index = pIndex - Capacity /\ stamp[pCursor].state = "FULL"
      BY <2>2, <3>1 DEF At
    <3>4. FullSlot(pCursor) /\ ~gone
      BY <3>1, <3>3 DEF OwnershipInv, SlotInv, SlotOk, ConsumerInv
    <3>5. Alignment'
      BY <3>1, <3>2, <3>3 DEF OwnershipInv, Alignment, At
    <3>6. SlotInv'
      <4> SUFFICES ASSUME NEW s \in Slots PROVE SlotOk(s)'
        BY DEF SlotInv
      <4>1. CASE s = pCursor
        BY <3>1, <3>2, <3>4, <4>1 DEF At, SlotOk, ProducerSlot, FullSlot, ProducerInside
      <4>2. CASE s # pCursor
        <5>1. SlotOk(s) /\ stamp'[s] = stamp[s] /\ value' = value
          BY <3>2, <4>2 DEF OwnershipInv, SlotInv
        <5> QED BY <3>1, <4>2, <5>1
              DEF SlotOk, EmptySlot, FullSlot, ProducerSlot, ConsumerSlot, Stored,
                  ProducerInside, ConsumerInside
      <4> QED BY <4>1, <4>2
    <3>7. ProducerInv'
      BY <3>1, <3>2 DEF OwnershipInv, ProducerInv, At
    <3>8. ConsumerInv'
      <4>1. ConsumerInside => cCursor # pCursor /\ cCursor \in Slots
        BY <3>3 DEF OwnershipInv, ConsumerInv, At, TypeOK
      <4> QED BY <3>1, <3>2, <4>1 DEF OwnershipInv, ConsumerInv, ConsumerInside, Stored
    <3> QED BY <3>5, <3>6, <3>7, <3>8 DEF OwnershipInv
  <2> QED BY <2>1, <2>2
<1>5. CASE PushTake
  <2> USE <1>5 DEF PushTake, OwnershipInv, consumerVars, dropVars
  <2>1. /\ pCursor \in Slots /\ stamp[pCursor].state = "HELD_BY_PRODUCER"
        /\ value[pCursor] # NoRecord
    BY DEF ProducerInv, SlotInv, SlotOk, ProducerSlot, TypeOK
  <2>2. /\ value'[pCursor] = NoRecord
        /\ \A s \in Slots : s # pCursor => value'[s] = value[s]
    BY <2>1 DEF TypeOK
  <2>3. Alignment'
    BY DEF Alignment
  <2>4. SlotInv'
    <3> SUFFICES ASSUME NEW s \in Slots PROVE SlotOk(s)'
      BY DEF SlotInv
    <3>1. SlotOk(s) /\ stamp'[s] = stamp[s]
      BY DEF SlotInv
    <3> QED BY <2>1, <2>2, <3>1
          DEF SlotOk, EmptySlot, FullSlot, ProducerSlot, ConsumerSlot, Stored,
              ProducerInside, ConsumerInside
  <2>5. ProducerInv'
    BY <2>1, <2>2 DEF ProducerInv
  <2>6. ConsumerInv'
    BY DEF ConsumerInv, ConsumerInside, Stored
  <2> QED BY <2>3, <2>4, <2>5, <2>6
<1>6. CASE Fill
  <2> USE <1>6 DEF Fill, OwnershipInv, consumerVars, dropVars
  <2>1. pCursor \in Slots /\ pHand # NoRecord
    BY DEF ProducerInv, TypeOK
  <2>2. /\ value'[pCursor] = pHand
        /\ \A s \in Slots : s # pCursor => value'[s] = value[s]
    BY <2>1 DEF TypeOK
  <2>3. Alignment'
    BY DEF Alignment
  <2>4. SlotInv'
    <3> SUFFICES ASSUME NEW s \in Slots PROVE SlotOk(s)'
      BY DEF SlotInv
    <3>1. SlotOk(s) /\ stamp'[s] = stamp[s]
      BY DEF SlotInv
    <3>2. s = pCursor => stamp[s].state \in {"EMPTY", "HELD_BY_PRODUCER"}
      BY DEF ProducerInv, At
    <3> QED BY <2>1, <2>2, <3>1, <3>2
          DEF SlotOk, EmptySlot, FullSlot, ProducerSlot, ConsumerSlot, Stored,
              ProducerInside, ConsumerInside
  <2>5. ProducerInv'
    BY <2>1 DEF ProducerInv
  <2>6. ConsumerInv'
    BY DEF ConsumerInv, ConsumerInside, Stored
  <2> QED BY <2>3, <2>4, <2>5, <2>6
<1>7. CASE Publish
  <2> USE <1>7 DEF Publish, consumerVars, dropVars
  <2>1. /\ pPc = "publish" /\ pPc' \in {"advance", "count"} /\ pHand = NoRecord
        /\ pIndex \in Nat /\ cIndex \in Nat /\ pCursor \in Slots /\ ~gone
        /\ pCursor = pIndex % Capacity /\ value[pCursor] # NoRecord
        /\ Stored = pIndex /\ Stored' = pIndex + 1
        /\ cIndex <= pIndex
    <3>1. pPc = "publish" /\ pPc' \in {"advance", "count"} /\ pHand = NoRecord
      BY DEF OwnershipInv, ProducerInv
    <3>2. pIndex \in Nat /\ cIndex \in Nat /\ pCursor \in Slots /\ pCursor = pIndex % Capacity
      BY DEF TypeOK, Alignment, OwnershipInv
    <3>3. Stored = pIndex /\ Stored' = pIndex + 1 /\ cIndex <= pIndex /\ ~gone
      BY <3>1 DEF Stored, OwnershipInv, ConsumerInv
    <3>4. value[pCursor] # NoRecord
      BY <3>1, <3>2 DEF OwnershipInv, ProducerInv, SlotInv, SlotOk, EmptySlot, ProducerSlot, At
    <3> QED BY <3>1, <3>2, <3>3, <3>4
  <2>2. /\ stamp'[pCursor] = At(pIndex, "FULL")
        /\ \A s \in Slots : s # pCursor => stamp'[s] = stamp[s]
    BY <2>1 DEF TypeOK
  <2>3. stamp[pCursor].state \in {"EMPTY", "HELD_BY_PRODUCER"}
    BY <2>1 DEF OwnershipInv, ProducerInv, At
  <2>4. Alignment'
    BY <2>1, <2>2 DEF OwnershipInv, Alignment, At
  <2>5. SlotInv'
    <3> SUFFICES ASSUME NEW s \in Slots PROVE SlotOk(s)'
      BY DEF SlotInv
    <3>1. CASE s = pCursor
      <4>1. cIndex = pIndex => cPc \in {"idle", "look", "gone"}
        BY <2>1 DEF OwnershipInv, ConsumerInv, TypeOK
      <4>2. stamp'[s].state = "FULL" /\ stamp'[s].index = pIndex
        BY <2>2, <3>1 DEF At
      <4> QED BY <2>1, <3>1, <4>1, <4>2 DEF SlotOk, FullSlot
    <3>2. CASE s # pCursor
      <4>1. SlotOk(s) /\ stamp'[s] = stamp[s] /\ value' = value
        BY <2>2, <3>2 DEF OwnershipInv, SlotInv
      <4>2. stamp[s].index \in Nat /\ stamp[s].index % Capacity = s
        BY DEF OwnershipInv, TypeOK, Stamp, Alignment
      <4>3. stamp[s].index # pIndex /\ stamp[s].index + Capacity # pIndex
        BY <2>1, <3>2, <4>2, ModAdd
      <4> HIDE <1>7
      <4>4. stamp[s].state = "EMPTY" => EmptySlot(s)'
        BY <1>7, <2>1, <3>2, <4>1, <4>2, <4>3 DEF SlotOk, EmptySlot
      <4>5. stamp[s].state = "FULL" => FullSlot(s)'
        BY <1>7, <2>1, <4>1, <4>2, <4>3 DEF SlotOk, FullSlot
      <4>6. stamp[s].state # "HELD_BY_PRODUCER"
        BY <3>2, <4>1 DEF SlotOk, ProducerSlot
      <4>7. stamp[s].state = "HELD_BY_CONSUMER" => ConsumerSlot(s)'
        BY <1>7, <2>1, <4>1, <4>2, <4>3 DEF SlotOk, ConsumerSlot, ConsumerInside
      <4> QED BY <4>1, <4>4, <4>5, <4>6, <4>7 DEF SlotOk
    <3> QED BY <3>1, <3>2
  <2>6. ProducerInv'
    BY <2>1 DEF OwnershipInv, ProducerInv
  <2>7. ConsumerInv'
    <3>1. ConsumerInside => cCursor # pCursor /\ cCursor \in Slots
      BY <2>3 DEF OwnershipInv, ConsumerInv, At, TypeOK
    <3> QED BY <2>1, <2>2, <3>1 DEF OwnershipInv, ConsumerInv, ConsumerInside
  <2> QED BY <2>4, <2>5, <2>6, <2>7 DEF OwnershipInv
<1>8. CASE Count
  <2> USE <1>8 DEF Count, OwnershipInv, consumerVars, producerVars, sharedVars, dropVars
  <2>1. Alignment'
    BY DEF Alignment
  <2>2. SlotInv'
    BY DEF SlotInv, SlotOk, EmptySlot, FullSlot, ProducerSlot, ConsumerSlot, Stored,
           ProducerInside, ConsumerInside, ProducerInv, ConsumerInv
  <2>3. ProducerInv'
    BY DEF ProducerInv, ConsumerInv, TypeOK
  <2>4. ConsumerInv'
    BY DEF ConsumerInv, ConsumerInside, Stored, ProducerInv
  <2> QED BY <2>1, <2>2, <2>3, <2>4
<1>9. CASE ProducerAdvance
  <2> USE <1>9 DEF ProducerAdvance, OwnershipInv, consumerVars, producerVars, sharedVars, dropVars
  <2>1. Alignment'
    <3>1. pCursor = pIndex % Capacity /\ pIndex \in Nat
      BY DEF Alignment, TypeOK
    <3>2. (pIndex + 1) % Capacity = NextCursor(pCursor)
      BY <3>1, ModSucc DEF NextCursor
    <3> QED BY <3>2 DEF Alignment
  <2>2. SlotInv'
    BY DEF SlotInv, SlotOk, EmptySlot, FullSlot, ProducerSlot, ConsumerSlot, Stored,
           ProducerInside, ConsumerInside, ProducerInv, ConsumerInv
  <2>3. ProducerInv'
    BY DEF ProducerInv, ConsumerInv, TypeOK
  <2>4. ConsumerInv'
    BY DEF ConsumerInv, ConsumerInside, Stored, ProducerInv
  <2> QED BY <2>1, <2>2, <2>3, <2>4
<1>10. CASE PopCall
  <2> USE <1>10 DEF PopCall, OwnershipInv, consumerVars, producerVars, sharedVars, dropVars
  <2>1. Alignment'
    BY DEF Alignment
  <2>2. SlotInv'
    BY DEF SlotInv, SlotOk, EmptySlot, FullSlot, ProducerSlot, ConsumerSlot, Stored,
           ProducerInside, ConsumerInside, ProducerInv, ConsumerInv
  <2>3. ProducerInv'
    BY DEF ProducerInv, ConsumerInv, TypeOK
  <2>4. ConsumerInv'
    BY DEF ConsumerInv, ConsumerInside, Stored, ProducerInv
  <2> QED BY <2>1, <2>2, <2>3, <2>4
<1>11. CASE PopLook
  <2> USE <1>11 DEF PopLook, producerVars, sharedVars, dropVars
  <2>0. /\ cCursor \in Slots /\ stamp[cCursor] \in Stamp /\ cHand = NoRecord
        /\ stamp[cCursor] = At(stamp[cCursor].index, stamp[cCursor].state)
        /\ cIndex \in Nat /\ Stored \in Nat /\ Stored' = Stored /\ ~gone
        /\ cPc' \in {"idle", "claim", "advance"}
    BY DEF OwnershipInv, TypeOK, Stamp, At, ConsumerInv, Stored
  <2>1. cPc' \in {"claim", "advance"} => cIndex < Stored
    <3>1. CASE stamp[cCursor].state = "EMPTY"
      BY <2>0, <3>1, AtConsumerCursor DEF At
    <3>2. CASE stamp[cCursor].state = "FULL"
      <4>1. FullSlot(cCursor)
        BY <2>0, <3>2 DEF OwnershipInv, SlotInv, SlotOk
      <4> QED BY <2>0, <4>1 DEF FullSlot, Stamp
    <3>3. CASE stamp[cCursor].state = "HELD_BY_PRODUCER"
      <4>1. stamp[cCursor].index < pIndex /\ pIndex <= Stored
        BY <2>0, <3>3 DEF OwnershipInv, SlotInv, SlotOk, ProducerSlot, Stamp, Stored, TypeOK
      <4> QED BY <2>0, <4>1 DEF OwnershipInv, TypeOK, Stamp
    <3> QED BY <2>0, <3>1, <3>2, <3>3, AtConsumerCursor DEF Stamp, States
  <2>2. cPc' = "advance" =>
          \A s \in Slots : stamp[s].state = "FULL" => stamp[s].index # cIndex
    BY <2>0 DEF OwnershipInv, Alignment, At
  <2> USE DEF OwnershipInv
  <2>3. Alignment'
    BY DEF Alignment
  <2>4. SlotInv'
    <3> SUFFICES ASSUME NEW s \in Slots PROVE SlotOk(s)'
      BY DEF SlotInv
    <3>1. SlotOk(s) /\ stamp'[s] = stamp[s] /\ value'[s] = value[s]
      BY DEF SlotInv
    <3> QED BY <2>0, <2>2, <3>1
          DEF SlotOk, EmptySlot, FullSlot, ProducerSlot, ConsumerSlot,
              ProducerInside, ConsumerInside
  <2>5. ProducerInv'
    BY DEF ProducerInv
  <2>6. ConsumerInv'
    BY <2>0, <2>1 DEF ConsumerInv, ConsumerInside
  <2> QED BY <2>3, <2>4, <2>5, <2>6
<1>12. CASE PopClaim
  <2> USE <1>12 DEF PopClaim, producerVars, dropVars
  <2>0. /\ cCursor \in Slots /\ stamp \in [Slots -> Stamp] /\ cHand = NoRecord
        /\ cCursor = cIndex % Capacity
        /\ cIndex \in Nat /\ cIndex < Stored /\ Stored' = Stored /\ ~gone
    BY DEF OwnershipInv, TypeOK, ConsumerInv, Stored, Alignment
  <2>1. CASE stamp[cCursor] # At(cIndex, "FULL")
    <3>1. stamp' = stamp /\ cPc' = "advance"
      BY <2>1
    <3>2. \A s \in Slots : stamp[s].state = "FULL" => stamp[s].index # cIndex
      BY <2>0, <2>1 DEF OwnershipInv, Alignment, At, Stamp
    <3> USE DEF OwnershipInv
    <3>3. Alignment'
      BY <3>1 DEF Alignment
    <3>4. SlotInv'
      <4> SUFFICES ASSUME NEW s \in Slots PROVE SlotOk(s)'
        BY DEF SlotInv
      <4>1. SlotOk(s) /\ stamp'[s] = stamp[s] /\ value'[s] = value[s]
        BY <3>1 DEF SlotInv
      <4> QED BY <2>0, <3>1, <3>2, <4>1
            DEF SlotOk, EmptySlot, FullSlot, ProducerSlot, ConsumerSlot,
                ProducerInside, ConsumerInside
    <3>5. ProducerInv'
      BY <3>1 DEF ProducerInv
    <3>6. ConsumerInv'
      BY <2>0, <3>1 DEF ConsumerInv, ConsumerInside
    <3> QED BY <3>3, <3>4, <3>5, <3>6
  <2>2. CASE stamp[cCursor] = At(cIndex, "FULL")
    <3>1. /\ cPc = "claim" /\ cPc' = "take"
          /\ stamp'[cCursor] = At(cIndex, "HELD_BY_CONSUMER")
          /\ \A s \in Slots : s # cCursor => stamp'[s] = stamp[s]
      BY <2>0, <2>2
    <3>2. stamp[cCursor].index = cIndex /\ stamp[cCursor].state = "FULL"
      BY <2>2 DEF At
    <3>3. FullSlot(cCursor)
      BY <2>0, <3>2 DEF OwnershipInv, SlotInv, SlotOk
    <3>4. Alignment'
      BY <2>0, <3>1, <3>2 DEF OwnershipInv, Alignment, At
    <3>5. SlotInv'
      <4> SUFFICES ASSUME NEW s \in Slots PROVE SlotOk(s)'
        BY DEF SlotInv
      <4>1. CASE s = cCursor
        BY <2>0, <3>1, <3>2, <3>3, <4>1 DEF At, SlotOk, ConsumerSlot, FullSlot, ConsumerInside
      <4>2. CASE s # cCursor
        <5>1. SlotOk(s) /\ stamp'[s] = stamp[s] /\ value' = value
          BY <3>1, <4>2 DEF OwnershipInv, SlotInv
        <5>2. stamp[s].index # cIndex
          BY <2>0, <4>2 DEF OwnershipInv, Alignment
        <5> QED BY <2>0, <3>1, <4>2, <5>1, <5>2
              DEF SlotOk, EmptySlot, FullSlot, ProducerSlot, ConsumerSlot,
                  ProducerInside, ConsumerInside
      <4> QED BY <4>1, <4>2
    <3>6. ProducerInv'
      <4>1. pPc = "take" \/ pPc \in {"fill", "publish"} => pCursor # cCursor /\ pCursor \in Slots
        BY <3>2 DEF OwnershipInv, ProducerInv, At, TypeOK
      <4> QED BY <3>1, <4>1 DEF OwnershipInv, ProducerInv
    <3>7. ConsumerInv'
      BY <2>0, <3>1 DEF OwnershipInv, ConsumerInv, ConsumerInside
    <3> QED BY <3>4, <3>5, <3>6, <3>7 DEF OwnershipInv
  <2> QED BY <2>1, <2>2
<1>13. CASE PopTake
  <2> USE <1>13 DEF PopTake, OwnershipInv, producerVars, dropVars
  <2>1. /\ cCursor \in Slots /\ stamp[cCursor] = At(cIndex, "HELD_BY_CONSUMER")
        /\ stamp[cCursor].state = "HELD_BY_CONSUMER"
        /\ value[cCursor] # NoRecord
    BY DEF ConsumerInv, SlotInv, SlotOk, ConsumerSlot, TypeOK, ConsumerInside, At
  <2>2. /\ value'[cCursor] = NoRecord
        /\ \A s \in Slots : s # cCursor => value'[s] = value[s]
    BY <2>1 DEF TypeOK
  <2>3. Alignment'
    BY DEF Alignment
  <2>4. SlotInv'
    <3> SUFFICES ASSUME NEW s \in Slots PROVE SlotOk(s)'
      BY DEF SlotInv
    <3>1. SlotOk(s) /\ stamp'[s] = stamp[s]
      BY DEF SlotInv
    <3>2. Stored' = Stored
      BY DEF Stored
    <3> QED BY <2>1, <2>2, <3>1, <3>2
          DEF SlotOk, EmptySlot, FullSlot, ProducerSlot, ConsumerSlot,
              ProducerInside, ConsumerInside, ConsumerInv
  <2>5. ProducerInv'
    BY DEF ProducerInv
  <2>6. ConsumerInv'
    BY <2>1 DEF ConsumerInv, ConsumerInside, Stored
  <2> QED BY <2>3, <2>4, <2>5, <2>6
<1>14. CASE PopRelease
  <2> USE <1>14 DEF PopRelease, producerVars, dropVars
  <2>1. /\ cPc = "release" /\ cPc' = "advance" /\ cHand # NoRecord
        /\ cCursor \in Slots /\ cIndex \in Nat /\ pIndex \in Nat
        /\ Stored \in Nat /\ Stored' = Stored
        /\ cIndex < Stored /\ cCursor = cIndex % Capacity
        /\ stamp[cCursor].state = "HELD_BY_CONSUMER" /\ stamp[cCursor].index = cIndex
    BY DEF OwnershipInv, TypeOK, Alignment, ConsumerInv, ConsumerInside, Stored, At
  <2>2. /\ stamp'[cCursor] = At(cIndex + Capacity, "EMPTY")
        /\ \A s \in Slots : s # cCursor => stamp'[s] = stamp[s]
    BY <2>1 DEF OwnershipInv, TypeOK
  <2>3. ProducerInside => pCursor # cCursor
    BY <2>1 DEF OwnershipInv, ProducerInv, ProducerInside, At
  <2>4. Alignment'
    <3>1. (cIndex + Capacity) % Capacity = cCursor
      BY <2>1, ModAdd
    <3> QED BY <2>1, <2>2, <3>1 DEF OwnershipInv, Alignment, At
  <2>5. SlotInv'
    <3> SUFFICES ASSUME NEW s \in Slots PROVE SlotOk(s)'
      BY DEF SlotInv
    <3>1. CASE s = cCursor
      <4>1. ConsumerSlot(s)
        BY <2>1, <3>1 DEF OwnershipInv, SlotInv, SlotOk
      <4>2. stamp'[s].state = "EMPTY" /\ stamp'[s].index = cIndex + Capacity
        BY <2>2, <3>1 DEF At
      <4>3. EmptySlot(s)'
        BY <2>1, <2>3, <3>1, <4>1, <4>2 DEF EmptySlot, ConsumerSlot, ProducerInside
      <4> QED BY <4>2, <4>3 DEF SlotOk
    <3>2. CASE s # cCursor
      <4>1. SlotOk(s) /\ stamp'[s] = stamp[s] /\ value' = value
        BY <2>2, <3>2 DEF OwnershipInv, SlotInv
      <4>2. stamp[s].index # cIndex
        BY <2>1, <3>2 DEF OwnershipInv, Alignment
      <4> QED BY <2>1, <3>2, <4>1, <4>2
            DEF SlotOk, EmptySlot, FullSlot, ProducerSlot, ConsumerSlot,
                ProducerInside, ConsumerInside
    <3> QED BY <3>1, <3>2
  <2>6. ProducerInv'
    <3>1. pCursor \in Slots
      BY DEF TypeOK
    <3> QED BY <2>2, <2>3, <3>1 DEF OwnershipInv, ProducerInv, ProducerInside
  <2>7. ConsumerInv'
    BY <2>1 DEF OwnershipInv, ConsumerInv, ConsumerInside
  <2> QED BY <2>4, <2>5, <2>6, <2>7 DEF OwnershipInv
<1>15. CASE ConsumerAdvance
  <2> USE <1>15 DEF ConsumerAdvance, OwnershipInv, producerVars, dropVars
  <2>1. /\ cIndex \in Nat /\ Stored \in Nat /\ Stored' = Stored /\ cIndex < Stored
        /\ ~ConsumerInside /\ ~ConsumerInside' /\ ~gone
        /\ cCursor = cIndex % Capacity
    BY DEF TypeOK, Stored, ConsumerInv, ConsumerInside, Alignment
  <2>2. Alignment'
    <3>1. (cIndex + 1) % Capacity = NextCursor(cCursor)
      BY <2>1, ModSucc DEF NextCursor
    <3> QED BY <3>1 DEF Alignment
  <2>3. SlotInv'
    <3> SUFFICES ASSUME NEW s \in Slots PROVE SlotOk(s)'
      BY DEF SlotInv
    <3>1. /\ SlotOk(s) /\ stamp'[s] = stamp[s] /\ value'[s] = value[s]
          /\ stamp[s].index \in Nat
      BY DEF SlotInv, TypeOK, Stamp
    <3>2. stamp[s].state = "EMPTY" => EmptySlot(s)'
      BY <2>1, <3>1 DEF SlotOk, EmptySlot
    <3>3. stamp[s].state = "FULL" => FullSlot(s)'
      BY <2>1, <3>1 DEF SlotOk, FullSlot
    <3>4. stamp[s].state = "HELD_BY_PRODUCER" => ProducerSlot(s)'
      BY <3>1 DEF SlotOk, ProducerSlot, ProducerInside
    <3>5. stamp[s].state # "HELD_BY_CONSUMER"
      BY <2>1, <3>1 DEF SlotOk, ConsumerSlot
    <3> QED BY <3>1, <3>2, <3>3, <3>4, <3>5 DEF SlotOk
  <2>4. ProducerInv'
    BY DEF ProducerInv
  <2>5. ConsumerInv'
    BY <2>1 DEF ConsumerInv
  <2> QED BY <2>2, <2>3, <2>4, <2>5
<1>16. CASE DropProducer
  <2> USE <1>16 DEF DropProducer, OwnershipInv, consumerVars, producerVars, sharedVars, dropVars
  <2>1. Alignment'
    BY DEF Alignment
  <2>2. SlotInv'
    BY DEF SlotInv, SlotOk, EmptySlot, FullSlot, ProducerSlot, ConsumerSlot, Stored,
           ProducerInside, ConsumerInside, ProducerInv, ConsumerInv
  <2>3. ProducerInv'
    BY DEF ProducerInv, ConsumerInv, TypeOK
  <2>4. ConsumerInv'
    BY DEF ConsumerInv, ConsumerInside, Stored, ProducerInv
  <2> QED BY <2>1, <2>2, <2>3, <2>4
<1>17. CASE DropConsumer
  <2> USE <1>17 DEF DropConsumer, OwnershipInv, consumerVars, producerVars, sharedVars, dropVars
  <2>1. Alignment'
    BY DEF Alignment
  <2>2. SlotInv'
    BY DEF SlotInv, SlotOk, EmptySlot, FullSlot, ProducerSlot, ConsumerSlot, Stored,
           ProducerInside, ConsumerInside, ProducerInv, ConsumerInv
  <2>3. ProducerInv'
    BY DEF ProducerInv, ConsumerInv, TypeOK
  <2>4. ConsumerInv'
    BY DEF ConsumerInv, ConsumerInside, Stored, ProducerInv
  <2> QED BY <2>1, <2>2, <2>3, <2>4
<1>18. CASE DropRing
  <2> USE <1>18 DEF DropRing, OwnershipInv, consumerVars, producerVars, sharedVars, dropVars
  <2>1. Alignment'
    BY DEF Alignment
  <2>2. SlotInv'
    BY DEF SlotInv, SlotOk, EmptySlot, FullSlot, ProducerSlot, ConsumerSlot, Stored,
           ProducerInside, ConsumerInside, ProducerInv, ConsumerInv
  <2>3. ProducerInv'
    BY DEF ProducerInv, ConsumerInv, TypeOK
  <2>4. ConsumerInv'
    BY DEF ConsumerInv, ConsumerInside, Stored, ProducerInv
  <2> QED BY <2>1, <2>2, <2>3, <2>4
<1>19. CASE UNCHANGED vars
  <2> USE <1>19 DEF vars, OwnershipInv, consumerVars, producerVars, sharedVars, dropVars
  <2>1. Alignment' /\ SlotInv'
    BY DEF Alignment, SlotInv, SlotOk, EmptySlot, FullSlot, ProducerSlot, ConsumerSlot, Stored,
           ProducerInside, ConsumerInside
  <2>2. ProducerInv' /\ ConsumerInv'
    BY DEF ProducerInv, ConsumerInv, ConsumerInside, Stored
  <2> QED BY <2>1, <2>2
<1> QED
  BY <1>1, <1>2, <1>3, <1>4, <1>5, <1>6, <1>7, <1>8, <1>9, <1>10, <1>11, <1>12,
     <1>13, <1>14, <1>15, <1>16, <1>17, <1>18, <1>19
     DEF Next, ProducerStep, ConsumerStep, OwnershipInv

(* The empty ring: every slot waits for its first index. *)
LEMMA InitOwns == Init => OwnershipInv
<1> SUFFICES ASSUME Init PROVE OwnershipInv
  OBVIOUS
<1>1. TypeOK
  BY InitTypes
<1>2. \A s \in Slots : s \in Nat /\ s < Capacity /\ s % Capacity = s
  BY CapacityAssumption, RemainderIs DEF Slots
<1>3. 0 \in Slots
  BY CapacityAssumption DEF Slots
<1>4. \A s \in Slots : /\ stamp[s].index = s /\ stamp[s].state = "EMPTY"
                       /\ value[s] = NoRecord /\ stamp[s] = At(s, "EMPTY")
  BY DEF Init, At
<1>5. Alignment
  BY <1>2, <1>3, <1>4 DEF Init, Alignment
<1>6. SlotInv
  BY <1>2, <1>4, CapacityAssumption DEF Init, SlotInv, SlotOk, EmptySlot, Stored
<1>7. ProducerInv /\ ConsumerInv
  BY DEF Init, ProducerInv, ConsumerInv, ConsumerInside, Stored, NoRecord
<1> QED BY <1>1, <1>5, <1>6, <1>7 DEF OwnershipInv

(* OwnershipInv holds at every step of every behavior. *)
THEOREM RingOwnership == Spec => []OwnershipInv
BY InitOwns, OwnershipStep, PTL DEF Spec

(* The two ends are never inside one slot, and neither reads a value that  *)
(* is not there or writes over one that is.                                *)
THEOREM RingExclusion == Spec => []SlotsAreExclusive
<1>1. OwnershipInv => SlotsAreExclusive
  <2> SUFFICES ASSUME OwnershipInv PROVE SlotsAreExclusive
    OBVIOUS
  <2> USE DEF OwnershipInv
  <2>1. pCursor \in Slots /\ cCursor \in Slots
    BY DEF TypeOK
  <2>2. SlotOk(pCursor) /\ SlotOk(cCursor)
    BY <2>1 DEF SlotInv
  <2>3. ProducerInside => stamp[pCursor].state \in {"EMPTY", "HELD_BY_PRODUCER"}
    BY DEF ProducerInside, ProducerInv, At
  <2>4. ConsumerInside => stamp[cCursor].state = "HELD_BY_CONSUMER"
    BY DEF ConsumerInv, At
  <2>5. pPc = "take" => value[pCursor] # NoRecord
    BY <2>2 DEF ProducerInv, SlotOk, ProducerSlot
  <2>6. pPc = "fill" => value[pCursor] = NoRecord
    BY <2>2, <2>3 DEF SlotOk, EmptySlot, ProducerSlot, ProducerInside
  <2>7. cPc = "take" => value[cCursor] # NoRecord
    BY <2>2, <2>4 DEF SlotOk, ConsumerSlot, ConsumerInside
  <2> QED BY <2>3, <2>4, <2>5, <2>6, <2>7 DEF SlotsAreExclusive
<1> QED BY <1>1, RingOwnership, PTL

(* push never reaches its unreachable! arm or fails its debug_assert. *)
THEOREM RingNeverPanics == Spec => []PushNeverPanics
<1>1. OwnershipInv => PushNeverPanics
  BY DEF OwnershipInv, ProducerInv, PushNeverPanics
<1> QED BY <1>1, RingOwnership, PTL

(* A pop that answers None leaves no record behind it in any slot. *)
THEOREM RingNoneMeansEmpty == Spec => NoneMeansEmpty
<1> DEFINE A == cPc = "look" /\ cPc' = "idle" => FullSlots = {}
<1>1. OwnershipInv /\ [Next]_vars => [A]_vars
  <2> SUFFICES ASSUME OwnershipInv, Next, cPc = "look", cPc' = "idle"
               PROVE  FullSlots = {}
    OBVIOUS
  <2>1. PopLook
    BY DEF Next, ProducerStep, ConsumerStep, Call, PushLoad, OfferLoad, PushClaim, PushTake,
           Fill, Publish, Count, ProducerAdvance, PopCall, PopClaim, PopTake, PopRelease,
           ConsumerAdvance, DropProducer, DropConsumer, DropRing, consumerVars
  <2>2. stamp[cCursor] = At(cIndex, "EMPTY") \/ stamp[cCursor].index < cIndex
    BY <2>1 DEF PopLook
  <2>3. /\ cCursor \in Slots /\ stamp[cCursor] \in Stamp /\ cIndex \in Nat /\ pIndex \in Nat
        /\ stamp[cCursor].index \in Nat /\ Stored \in Nat
        /\ stamp[cCursor].index % Capacity = cIndex % Capacity
        /\ SlotOk(cCursor)
    BY DEF OwnershipInv, TypeOK, Stamp, Alignment, SlotInv, Stored
  <2>4. Stored <= cIndex
    <3>1. CASE stamp[cCursor].state = "EMPTY"
      BY <2>3, <3>1, AtConsumerCursor DEF SlotOk, EmptySlot
    <3>2. CASE stamp[cCursor].state # "EMPTY"
      <4>1. stamp[cCursor].index < cIndex
        BY <2>2, <3>2 DEF At
      <4>2. stamp[cCursor].state = "HELD_BY_PRODUCER"
        BY <2>3, <3>2, <4>1, AtConsumerCursor, CapacityAssumption DEF Stamp, States
      <4>3. /\ pIndex = stamp[cCursor].index + Capacity /\ Stored = pIndex
        BY <2>3, <4>2 DEF SlotOk, ProducerSlot, ProducerInside, Stored
      <4>4. stamp[cCursor].index + Capacity <= cIndex
        BY <2>3, <4>1, ModGap, CapacityAssumption
      <4> QED BY <4>3, <4>4
    <3> QED BY <3>1, <3>2
  <2>5. ASSUME NEW s \in Slots, stamp[s].state = "FULL" PROVE FALSE
    <3>1. FullSlot(s) /\ stamp[s].index \in Nat
      BY <2>5 DEF OwnershipInv, SlotInv, SlotOk, TypeOK, Stamp
    <3> QED BY <2>3, <2>4, <3>1 DEF FullSlot
  <2> QED BY <2>5 DEF FullSlots
<1> QED BY <1>1, RingOwnership, PTL DEF Spec, NoneMeansEmpty
-----------------------------------------------------------------------------
(* In what order the records wait. *)

(* The slot an end is inside of is not full, and the two are apart. *)
LEMMA InsideIsNotFull ==
  ASSUME OwnershipInv
  PROVE  /\ ProducerInside => pCursor \in Slots \ FullSlots
         /\ ConsumerInside => cCursor \in Slots \ FullSlots
         /\ ProducerInside /\ ConsumerInside => pCursor # cCursor
<1>1. pCursor \in Slots /\ cCursor \in Slots
  BY DEF OwnershipInv, TypeOK
<1>2. ProducerInside => stamp[pCursor].state \in {"EMPTY", "HELD_BY_PRODUCER"}
  BY DEF OwnershipInv, ProducerInside, ProducerInv, At
<1>3. ConsumerInside => stamp[cCursor].state = "HELD_BY_CONSUMER"
  BY DEF OwnershipInv, ConsumerInv, At
<1>. QED
  BY <1>1, <1>2, <1>3 DEF FullSlots

LEMMA OrderInit == Init => OrderInv
<1> SUFFICES ASSUME Init PROVE OrderInv
  OBVIOUS
<1>1. FullSlots = {}
  BY DEF Init, FullSlots, At
<1>. QED
  BY <1>1 DEF Init, OrderInv

(* A step that publishes no record and hands none in keeps the order. *)
LEMMA OrderStands ==
  ASSUME OwnershipInv, OrderInv,
         FullSlots' \subseteq FullSlots, UNCHANGED <<next, gone>>,
         \A s \in FullSlots' : value'[s] = value[s] /\ stamp'[s] = stamp[s],
         pPc' \in {"load", "offer", "claim", "take", "fill"} =>
           /\ pPc \in {"load", "offer", "claim", "take", "fill"}
           /\ op' = op /\ pHand' = pHand
           /\ pPc' = "offer" => pPc = "offer"
           /\ pPc' \in {"load", "claim", "take"} => pPc \in {"load", "claim", "take"},
         pHand' # NoRecord => pHand' = pHand,
         pPc' = "publish" => pPc \in {"fill", "publish"} /\ value'[pCursor'] = next - 1
  PROVE  OrderInv'
  BY DEF OrderInv

LEMMA OrderStep == OwnershipInv /\ OrderInv /\ [Next]_vars => OrderInv'
<1> SUFFICES ASSUME OwnershipInv, OrderInv, [Next]_vars PROVE OrderInv'
  OBVIOUS
<1>0. /\ next \in Nat /\ pHand \in Nat \cup {NoRecord} /\ pCursor \in Slots /\ cCursor \in Slots
      /\ value \in [Slots -> Nat \cup {NoRecord}] /\ stamp \in [Slots -> Stamp]
      /\ NoRecord = -1
  BY DEF OwnershipInv, TypeOK, NoRecord
<1>1. ASSUME NEW o \in {"push", "offer"}, Call(o) PROVE OrderInv'
  <2>1. /\ UNCHANGED <<stamp, value, gone>> /\ next' = next + 1 /\ pHand' = next /\ op' = o
        /\ pPc' = IF o = "push" THEN "load" ELSE "offer"
    BY <1>1 DEF Call, sharedVars, dropVars
  <2>2. FullSlots' = FullSlots
    BY <2>1 DEF FullSlots
  <2>3. \A s \in FullSlots' : value'[s] < next' - 1 /\ value'[s] < next'
    <3>1. \A s \in FullSlots : value[s] < next /\ value[s] \in Nat \cup {NoRecord}
      BY <1>0 DEF OrderInv, FullSlots
    <3>. QED
      BY <1>0, <2>1, <2>2, <3>1
  <2>. QED
    BY <1>0, <2>1, <2>2, <2>3 DEF OrderInv
<1>2. CASE PushLoad \/ OfferLoad
  <2>1. /\ UNCHANGED <<stamp, value, next, gone, op, pHand, pCursor>>
        /\ PushLoad => pPc = "load" /\ pPc' \in {"fill", "claim", "count", "load", "panic"}
        /\ OfferLoad => pPc = "offer" /\ pPc' \in {"fill", "count"}
    BY <1>2 DEF PushLoad, OfferLoad, sharedVars, dropVars
  <2>2. FullSlots' = FullSlots
    BY <2>1 DEF FullSlots
  <2>. QED
    BY <1>2, <2>1, <2>2, OrderStands
<1>3. CASE PushClaim
  <2>1. /\ UNCHANGED <<value, next, gone, op, pHand, pCursor>>
        /\ pPc = "claim" /\ pPc' \in {"take", "load"}
    BY <1>3 DEF PushClaim, dropVars
  <2>2. FullSlots' \subseteq FullSlots /\ \A s \in FullSlots' : stamp'[s] = stamp[s]
    BY <1>0, <1>3 DEF PushClaim, FullSlots, At
  <2>. QED
    BY <2>1, <2>2, OrderStands
<1>4. CASE PushTake
  <2>1. /\ UNCHANGED <<stamp, next, gone, op, pHand, pCursor>> /\ pPc = "take" /\ pPc' = "fill"
        /\ \A s \in Slots : s # pCursor => value'[s] = value[s]
    BY <1>0, <1>4 DEF PushTake, dropVars
  <2>2. FullSlots' = FullSlots /\ pCursor \notin FullSlots
    BY <2>1, InsideIsNotFull DEF FullSlots, ProducerInside
  <2>. QED
    BY <2>1, <2>2, OrderStands DEF FullSlots
<1>5. CASE Fill
  <2>1. /\ UNCHANGED <<stamp, next, gone, op, pCursor>> /\ pPc = "fill" /\ pPc' = "publish"
        /\ \A s \in Slots : s # pCursor => value'[s] = value[s]
        /\ value'[pCursor] = pHand /\ pHand' = NoRecord
    BY <1>0, <1>5 DEF Fill, dropVars
  <2>2. FullSlots' = FullSlots /\ pCursor \notin FullSlots
    BY <2>1, InsideIsNotFull DEF FullSlots, ProducerInside
  <2>3. pHand = next - 1
    BY <2>1 DEF OwnershipInv, ProducerInv, OrderInv
  <2>. QED
    BY <2>1, <2>2, <2>3, OrderStands DEF FullSlots
<1>6. CASE Publish
  <2>1. /\ UNCHANGED <<value, next, gone, op, pHand, pCursor>> /\ pPc = "publish"
        /\ pPc' \in {"advance", "count"}
        /\ stamp'[pCursor] = At(pIndex, "FULL") /\ \A s \in Slots : s # pCursor => stamp'[s] = stamp[s]
    BY <1>0, <1>6 DEF Publish, dropVars
  <2>2. FullSlots' = FullSlots \cup {pCursor} /\ pCursor \notin FullSlots
    BY <1>0, <2>1, InsideIsNotFull DEF FullSlots, ProducerInside, At
  <2>3. /\ value[pCursor] = next - 1
        /\ \A s \in FullSlots : value[s] < next - 1 /\ value[s] < next
    BY <2>1 DEF OrderInv
  <2>4. ASSUME NEW s \in FullSlots PROVE stamp[s].index < pIndex /\ stamp[s].index \in Nat
    <3>1. FullSlot(s) /\ Stored = pIndex
      BY <2>1, <2>4 DEF FullSlots, OwnershipInv, SlotInv, SlotOk, Stored
    <3>. QED
      BY <1>0, <2>4, <3>1 DEF FullSlot, FullSlots, Stamp
  <2>5. ASSUME ~gone, NEW s \in FullSlots', NEW t \in FullSlots', stamp'[s].index < stamp'[t].index
        PROVE  value'[s] < value'[t]
    <3>1. pIndex \in Nat /\ stamp'[pCursor].index = pIndex
      BY <2>1 DEF OwnershipInv, TypeOK, At
    <3>2. s # pCursor
      BY <1>0, <2>1, <2>2, <2>4, <2>5, <3>1 DEF FullSlots
    <3>3. CASE t = pCursor
      BY <2>1, <2>2, <2>3, <3>2, <3>3
    <3>4. CASE t # pCursor
      BY <2>1, <2>2, <2>5, <3>2, <3>4 DEF OrderInv, FullSlots
    <3>. QED
      BY <3>3, <3>4
  <2>. QED
    BY <1>0, <2>1, <2>2, <2>3, <2>5 DEF OrderInv
<1>7. CASE Count \/ ProducerAdvance \/ DropProducer
  <2>1. /\ UNCHANGED <<stamp, value, next, gone, op>> /\ pPc' \in {"advance", "idle", "gone"}
        /\ pHand' = pHand \/ pHand' = NoRecord
    BY <1>7 DEF Count, ProducerAdvance, DropProducer, sharedVars, dropVars
  <2>2. FullSlots' = FullSlots
    BY <2>1 DEF FullSlots
  <2>. QED
    BY <2>1, <2>2, OrderStands
<1>8. CASE PopCall \/ PopLook \/ ConsumerAdvance \/ DropConsumer
  <2>1. UNCHANGED <<stamp, value, next, gone, op, pHand, pPc, pCursor>>
    BY <1>8 DEF PopCall, PopLook, ConsumerAdvance, DropConsumer, producerVars, sharedVars, dropVars
  <2>2. FullSlots' = FullSlots
    BY <2>1 DEF FullSlots
  <2>. QED
    BY <2>1, <2>2, OrderStands DEF OrderInv
<1>9. CASE PopClaim
  <2>1. UNCHANGED <<value, next, gone, op, pHand, pPc, pCursor>>
    BY <1>9 DEF PopClaim, producerVars, dropVars
  <2>2. FullSlots' \subseteq FullSlots /\ \A s \in FullSlots' : stamp'[s] = stamp[s]
    BY <1>0, <1>9 DEF PopClaim, FullSlots, At
  <2>. QED
    BY <2>1, <2>2, OrderStands DEF OrderInv
<1>10. CASE PopTake
  <2>1. /\ UNCHANGED <<stamp, next, gone, op, pHand, pPc, pCursor>> /\ cPc = "take"
        /\ \A s \in Slots : s # cCursor => value'[s] = value[s]
    BY <1>0, <1>10 DEF PopTake, producerVars, dropVars
  <2>2. FullSlots' = FullSlots /\ cCursor \notin FullSlots /\ (pPc = "publish" => cCursor # pCursor)
    BY <2>1, InsideIsNotFull DEF FullSlots, ProducerInside, ConsumerInside
  <2>. QED
    BY <1>0, <2>1, <2>2, OrderStands DEF OrderInv, FullSlots
<1>11. CASE PopRelease
  <2>1. /\ UNCHANGED <<value, next, gone, op, pHand, pPc, pCursor>>
        /\ stamp'[cCursor].state = "EMPTY" /\ \A s \in Slots : s # cCursor => stamp'[s] = stamp[s]
    BY <1>0, <1>11 DEF PopRelease, producerVars, dropVars, At
  <2>2. FullSlots' \subseteq FullSlots /\ \A s \in FullSlots' : stamp'[s] = stamp[s]
    BY <2>1 DEF FullSlots
  <2>. QED
    BY <2>1, <2>2, OrderStands DEF OrderInv
<1>12. CASE DropRing
  <2>1. /\ UNCHANGED <<stamp, next, op, pHand, pPc>> /\ gone' /\ pPc = "gone"
        /\ \A s \in FullSlots : value'[s] = NoRecord
    BY <1>12 DEF DropRing, producerVars, FullSlots
  <2>2. FullSlots' = FullSlots
    BY <2>1 DEF FullSlots
  <2>. QED
    BY <1>0, <2>1, <2>2 DEF OrderInv
<1>13. CASE UNCHANGED vars
  <2>1. UNCHANGED <<stamp, value, next, gone, op, pHand, pPc, pCursor>>
    BY <1>13 DEF vars, producerVars, sharedVars, dropVars
  <2>2. FullSlots' = FullSlots
    BY <2>1 DEF FullSlots
  <2>. QED
    BY <2>1, <2>2 DEF OrderInv
<1>. QED
  BY <1>1, <1>2, <1>3, <1>4, <1>5, <1>6, <1>7, <1>8, <1>9, <1>10, <1>11, <1>12, <1>13
     DEF Next, ProducerStep, ConsumerStep

(* The records in the slots are the newest ones accepted, each younger     *)
(* than those before it, at every step of every behavior.                  *)
THEOREM RingOrder == Spec => []RingInvariant
<1>1. Init => OwnershipInv /\ OrderInv
  BY InitOwns, OrderInit
<1>2. OwnershipInv /\ OrderInv /\ [Next]_vars => OwnershipInv' /\ OrderInv'
  BY OwnershipStep, OrderStep
<1>. QED
  BY <1>1, <1>2, PTL DEF Spec, RingInvariant
-----------------------------------------------------------------------------
(* How many records the ring holds. *)

LEMMA SlotsAreCapacity ==
  /\ IsFiniteSet(Slots) /\ Cardinality(Slots) = Capacity /\ Capacity \in Nat \ {0}
<1>1. 0 \in Int /\ Capacity - 1 \in Int /\ Capacity \in Nat \ {0}
  BY CapacityAssumption
<1>2. /\ IsFiniteSet(0..(Capacity - 1))
      /\ Cardinality(0..(Capacity - 1)) = IF 0 > Capacity - 1 THEN 0 ELSE Capacity - 1 - 0 + 1
  BY <1>1, FS_Interval, Zenon
<1>. QED
  BY <1>1, <1>2 DEF Slots

(* Full slots hold different records, and as many of them. *)
LEMMA HeldIsFullSlots ==
  ASSUME RingInvariant, ~gone
  PROVE  /\ Held = {value[s] : s \in FullSlots}
         /\ \A s \in FullSlots : value[s] \in Nat
         /\ \A s, t \in FullSlots : value[s] = value[t] => s = t
         /\ IsFiniteSet(FullSlots) /\ IsFiniteSet(Held)
         /\ Cardinality(Held) = Cardinality(FullSlots) /\ Cardinality(Held) \in Nat
<1>1. \A s \in FullSlots : s \in Slots /\ value[s] \in Nat
  BY DEF RingInvariant, OwnershipInv, TypeOK, SlotInv, SlotOk, FullSlot, FullSlots
<1>2. Held = {value[s] : s \in FullSlots}
  BY <1>1 DEF Held, NoRecord
<1>3. ASSUME NEW s \in FullSlots, NEW t \in FullSlots, value[s] = value[t] PROVE s = t
  <2>1. /\ stamp[s].index \in Nat /\ stamp[t].index \in Nat
        /\ stamp[s].index % Capacity = s /\ stamp[t].index % Capacity = t
    BY <1>1 DEF RingInvariant, OwnershipInv, TypeOK, Stamp, Alignment
  <2>2. ~(stamp[s].index < stamp[t].index) /\ ~(stamp[t].index < stamp[s].index)
    BY <1>1, <1>3 DEF RingInvariant, OrderInv
  <2>. QED
    BY <2>1, <2>2
<1>4. IsFiniteSet(FullSlots)
  BY SlotsAreCapacity, FS_Subset DEF FullSlots
<1>5. ExistsBijection(FullSlots, Held)
  <2> DEFINE f == [s \in FullSlots |-> value[s]]
  <2>1. f \in [FullSlots -> Held]
    BY <1>2
  <2>2. f \in Bijection(FullSlots, Held)
    BY <1>2, <1>3, <2>1 DEF Bijection, Injection, Surjection, IsInjective
  <2>. QED
    BY <2>2 DEF ExistsBijection
<1>. QED
  BY <1>1, <1>2, <1>3, <1>4, <1>5, FS_Bijection, FS_CardinalityType

(* Before it has claimed a slot that is not free for it, the producer is   *)
(* one lap ahead, and every slot but the consumer's is full.               *)
LEMMA FullButForConsumer ==
  ASSUME OwnershipInv, pPc \in {"load", "offer", "claim"},
         stamp[pCursor].state # "EMPTY"
  PROVE  FullSlots = Slots \ {s \in Slots : stamp[s].state = "HELD_BY_CONSUMER"}
<1>1. /\ stamp[pCursor].state \in {"FULL", "HELD_BY_CONSUMER"}
      /\ stamp[pCursor].index = pIndex - Capacity
      /\ pCursor \in Slots /\ cCursor \in Slots
      /\ pIndex \in Nat /\ cIndex \in Nat /\ Capacity \in Nat \ {0}
  BY AtProducerCursor, CapacityAssumption DEF OwnershipInv, TypeOK, Stamp, States
<1>2. Stored = pIndex /\ ~ProducerInside
  BY DEF Stored, ProducerInside
<1>3. cIndex + Capacity <= pIndex
  <2>1. CASE stamp[pCursor].state = "FULL"
    BY <1>1, <2>1 DEF OwnershipInv, SlotInv, SlotOk, FullSlot
  <2>2. CASE stamp[pCursor].state = "HELD_BY_CONSUMER"
    BY <1>1, <2>2 DEF OwnershipInv, SlotInv, SlotOk, ConsumerSlot
  <2>. QED
    BY <1>1, <2>1, <2>2
<1>4. ASSUME NEW s \in Slots PROVE stamp[s].state \in {"FULL", "HELD_BY_CONSUMER"}
  <2>1. stamp[s].index \in Nat /\ SlotOk(s) /\ stamp[s].state \in States
        /\ stamp[s].index % Capacity = s /\ pIndex % Capacity = pCursor
    BY DEF OwnershipInv, TypeOK, Stamp, SlotInv, Alignment
  <2>2. stamp[s].state # "HELD_BY_PRODUCER"
    BY <1>2, <2>1 DEF SlotOk, ProducerSlot
  <2>3. ASSUME stamp[s].state = "EMPTY" PROVE FALSE
    <3>1. pIndex <= stamp[s].index /\ stamp[s].index <= cIndex + Capacity
      BY <1>1, <1>2, <2>1, <2>3 DEF SlotOk, EmptySlot
    <3>2. \A i \in Nat : pIndex <= i /\ i <= cIndex + Capacity => i = pIndex
      BY <1>1, <1>3
    <3>3. stamp[s].index = pIndex
      BY <2>1, <3>1, <3>2, Zenon
    <3>. QED
      BY <1>1, <2>1, <2>3, <3>3
  <2>. QED
    BY <2>1, <2>2, <2>3 DEF States
<1>. QED
  BY <1>4 DEF FullSlots

LEMMA ConsumersSlot ==
  ASSUME OwnershipInv
  PROVE  /\ \A s \in Slots : stamp[s].state = "HELD_BY_CONSUMER" <=> ConsumerInside /\ s = cCursor
         /\ \A s \in Slots : stamp[s].state = "HELD_BY_PRODUCER" => ProducerInside /\ s = pCursor
         /\ cCursor \in Slots /\ pCursor \in Slots
  BY DEF OwnershipInv, TypeOK, SlotInv, SlotOk, ConsumerSlot, ProducerSlot, ConsumerInv, At

LEMMA LeavingIs ==
  ASSUME OwnershipInv
  PROVE  (\E s \in Slots : stamp[s].state = "HELD_BY_CONSUMER") <=> ConsumerInside
  BY ConsumersSlot

(* So a push or an offer that meets no free slot meets a full queue.       *)
LEMMA NoRoomBeforeClaim ==
  ASSUME RingInvariant, pPc \in {"load", "offer", "claim"}, stamp[pCursor].state # "EMPTY"
  PROVE  /\ ~gone
         /\ ConsumerInside => Cardinality(Held) = Capacity - 1
         /\ ~ConsumerInside => Cardinality(Held) = Capacity
<1>1. ~gone
  BY DEF RingInvariant, OwnershipInv, ConsumerInv
<1>2. Cardinality(Held) = Cardinality(FullSlots)
  BY <1>1, HeldIsFullSlots
<1>3. CASE ConsumerInside
  <2>1. FullSlots = Slots \ {cCursor} /\ cCursor \in Slots
    BY <1>3, FullButForConsumer, ConsumersSlot DEF RingInvariant
  <2>2. Cardinality(FullSlots) = Capacity - 1
    BY <2>1, SlotsAreCapacity, FS_RemoveElement
  <2>. QED
    BY <1>1, <1>2, <1>3, <2>2
<1>4. CASE ~ConsumerInside
  <2>1. FullSlots = Slots
    BY <1>4, FullButForConsumer, ConsumersSlot DEF RingInvariant
  <2>. QED
    BY <1>1, <1>2, <1>4, <2>1, SlotsAreCapacity
<1>. QED
  BY <1>3, <1>4

(* The slot a record is about to be published in is room for it.           *)
LEMMA RoomAtPublish ==
  ASSUME RingInvariant, pPc = "publish"
  PROVE  /\ ~gone
         /\ Cardinality(Held) + (IF ConsumerInside THEN 1 ELSE 0) < Capacity
<1>1. ~gone
  BY DEF RingInvariant, OwnershipInv, ConsumerInv
<1>2. Cardinality(Held) = Cardinality(FullSlots) /\ Cardinality(Held) \in Nat
  BY <1>1, HeldIsFullSlots
<1>3. pCursor \in Slots \ FullSlots /\ (ConsumerInside => cCursor \in Slots \ FullSlots /\ cCursor # pCursor)
  BY InsideIsNotFull DEF RingInvariant, ProducerInside
<1>4. IsFiniteSet(Slots \ {pCursor}) /\ Cardinality(Slots \ {pCursor}) = Capacity - 1
  BY <1>3, SlotsAreCapacity, FS_RemoveElement
<1>5. CASE ConsumerInside
  <2>1. /\ IsFiniteSet((Slots \ {pCursor}) \ {cCursor})
        /\ Cardinality((Slots \ {pCursor}) \ {cCursor}) = Capacity - 1 - 1
    BY <1>3, <1>4, <1>5, FS_RemoveElement
  <2>2. FullSlots \in SUBSET ((Slots \ {pCursor}) \ {cCursor})
    BY <1>3, <1>5 DEF FullSlots
  <2>3. Cardinality(FullSlots) <= Capacity - 1 - 1
    BY <2>1, <2>2, FS_Subset
  <2>. QED
    BY <1>1, <1>2, <1>5, <2>3, SlotsAreCapacity
<1>6. CASE ~ConsumerInside
  <2>1. FullSlots \in SUBSET (Slots \ {pCursor})
    BY <1>3 DEF FullSlots
  <2>2. Cardinality(FullSlots) <= Capacity - 1
    BY <1>4, <2>1, FS_Subset
  <2>. QED
    BY <1>1, <1>2, <1>6, <2>2, SlotsAreCapacity
<1>. QED
  BY <1>5, <1>6
-----------------------------------------------------------------------------
(* The ring is the queue its callers are promised. *)

(* The queue counts its records as the ring does.                          *)
LEMMA QueueCounts ==
  ASSUME NEW S
  PROVE  Queue!Cardinality(S) = Cardinality(S)
  BY DEF Queue!Cardinality, Cardinality, Queue!IsFiniteSet, IsFiniteSet

LEMMA QueueInit == Init => Queue!Init
<1> SUFFICES ASSUME Init PROVE Queue!Init
  OBVIOUS
<1>1. FullSlots = {} /\ Held = {} /\ ~Leaving /\ ~Replacing
  BY DEF Init, FullSlots, Held, Leaving, Replacing, At
<1>2. Undecided = "none" /\ Popped = {} /\ GivenBack = {}
  BY DEF Init, Undecided, Popped, GivenBack, Hand
<1>. QED
  BY <1>1, <1>2 DEF Init, Queue!Init

(* What the queue sees of the slots is their stamps and the full ones' values. *)
LEMMA SlotsStand ==
  ASSUME UNCHANGED stamp, \A s \in FullSlots : value'[s] = value[s]
  PROVE  FullSlots' = FullSlots /\ Held' = Held /\ Leaving' = Leaving /\ Replacing' = Replacing
<1>1. FullSlots' = FullSlots
  BY DEF FullSlots
<1>. QED
  BY <1>1 DEF Held, Leaving, Replacing

LEMMA PushRefines ==
  ASSUME RingInvariant, RingInvariant',
         PushLoad \/ OfferLoad \/ PushClaim \/ PushTake \/ \E o \in {"push", "offer"} : Call(o)
  PROVE  [Queue!Next]_(Queue!vars)
<1> USE DEF Queue!Next, Queue!vars
<1>0. /\ next \in Nat /\ pHand \in Nat \cup {NoRecord} /\ pCursor \in Slots /\ cCursor \in Slots
      /\ value \in [Slots -> Nat \cup {NoRecord}] /\ stamp \in [Slots -> Stamp] /\ op \in {"push", "offer"}
      /\ NoRecord = -1 /\ Capacity \in Nat \ {0}
  BY CapacityAssumption DEF RingInvariant, OwnershipInv, TypeOK, NoRecord
<1>1. ASSUME NEW o \in {"push", "offer"}, Call(o) PROVE Queue!Next
  <2>1. /\ UNCHANGED <<stamp, value, arrived, cHand, cPc, cCursor, pCursor, returned, pOut, discarded>>
        /\ pPc = "idle" /\ pPc' \in {"load", "offer"} /\ op' = o /\ next' = next + 1
    BY <1>1 DEF Call, consumerVars, sharedVars, dropVars
  <2>2. Undecided = "none" /\ Undecided' = o /\ Popped' = Popped /\ GivenBack' = GivenBack
    BY <2>1 DEF Undecided, Popped, GivenBack
  <2>3. Held' = Held /\ Leaving' = Leaving /\ Replacing' = Replacing
    BY <2>1, SlotsStand
  <2>. QED
    BY <2>1, <2>2, <2>3 DEF Queue!HandIn
<1>2. CASE PushLoad \/ OfferLoad
  <2>1. /\ UNCHANGED <<stamp, value, arrived, cHand, cPc, cCursor, pCursor, returned, pOut, discarded,
                       next, op, pHand>>
        /\ pPc \in {"load", "offer"}
    BY <1>2 DEF PushLoad, OfferLoad, consumerVars, sharedVars, dropVars
  <2>2. Held' = Held /\ Leaving' = Leaving /\ Replacing' = Replacing /\ Popped' = Popped
    BY <2>1, SlotsStand DEF Popped
  <2>3. CASE pPc' # "count"
    <3>1. pPc' \in {"fill", "claim", "load"}
      <4>1. pPc' # "panic"
        BY DEF RingInvariant, OwnershipInv, ProducerInv
      <4>. QED
        BY <1>2, <2>3, <4>1 DEF PushLoad, OfferLoad
    <3>2. Undecided' = Undecided /\ GivenBack' = GivenBack
      BY <2>1, <3>1 DEF Undecided, GivenBack
    <3>. QED
      BY <2>1, <2>2, <3>2
  <2>4. CASE pPc' = "count"
    <3>1. stamp[pCursor].state # "EMPTY"
      <4>1. stamp[pCursor] = At(stamp[pCursor].index, stamp[pCursor].state)
        BY <1>0 DEF Stamp, At
      <4>. QED
        BY <1>2, <2>1, <2>4, <4>1, AtProducerCursor DEF PushLoad, OfferLoad, RingInvariant, At
    <3>2. /\ Undecided # "none" /\ Undecided' = "none" /\ (Undecided = "push" => PushLoad)
      BY <1>0, <1>2, <2>1, <2>4 DEF Undecided, PushLoad, OfferLoad, RingInvariant, OrderInv
    <3>3. GivenBack' = GivenBack \cup {next - 1}
      <4>1. pHand = next - 1 /\ pHand # NoRecord
        BY <2>1 DEF RingInvariant, OwnershipInv, ProducerInv, OrderInv
      <4>. QED
        BY <2>1, <2>4, <4>1 DEF GivenBack, Hand
    <3>4. ~Replacing
      BY <2>1, ConsumersSlot DEF RingInvariant, Replacing, ProducerInside
    <3>5. PushLoad => Leaving
      BY <1>0, <1>2, <2>4 DEF PushLoad, Leaving
    <3>6. ~(Cardinality(Held) + (IF Leaving THEN 1 ELSE 0) < Capacity)
      <4>1. Leaving <=> ConsumerInside
        BY LeavingIs DEF RingInvariant, Leaving
      <4>. QED
        BY <1>0, <2>1, <3>1, <4>1, NoRoomBeforeClaim
    <3>7. Queue!Refuse
      <4>1. ~Queue!Room /\ Queue!Newest = next - 1
        BY <3>6, QueueCounts DEF Queue!Room, Queue!Newest
      <4>. QED
        BY <1>2, <2>1, <2>2, <3>2, <3>3, <3>4, <3>5, <4>1 DEF Queue!Refuse
    <3>. QED
      BY <3>7
  <2>. QED
    BY <2>3, <2>4
<1>3. CASE PushClaim
  <2>1. /\ UNCHANGED <<value, arrived, cHand, cPc, cCursor, pCursor, returned, pOut, discarded,
                       next, op, pHand>>
        /\ pPc = "claim" /\ op = "push" /\ pOut = NoRecord
    BY <1>3 DEF PushClaim, consumerVars, dropVars, RingInvariant, OrderInv, OwnershipInv, ProducerInv
  <2>2. CASE stamp[pCursor] # At(pIndex - Capacity, "FULL")
    <3>1. UNCHANGED stamp /\ pPc' = "load"
      BY <1>3, <2>2 DEF PushClaim
    <3>2. Held' = Held /\ Leaving' = Leaving /\ Replacing' = Replacing
      BY <2>1, <3>1, SlotsStand
    <3>3. Undecided' = Undecided /\ Popped' = Popped /\ GivenBack' = GivenBack
      BY <2>1, <3>1 DEF Undecided, Popped, GivenBack
    <3>. QED
      BY <2>1, <3>2, <3>3
  <2>3. CASE stamp[pCursor] = At(pIndex - Capacity, "FULL")
    <3>1. /\ pPc' = "take" /\ stamp'[pCursor].state = "HELD_BY_PRODUCER"
          /\ \A s \in Slots : s # pCursor => stamp'[s] = stamp[s]
          /\ stamp[pCursor].state = "FULL" /\ stamp[pCursor].index = pIndex - Capacity
      BY <1>0, <1>3, <2>3 DEF PushClaim, At
    <3>2. /\ ~gone /\ ~ConsumerInside /\ Cardinality(Held) = Capacity
      <4>1. stamp[pCursor].state # "EMPTY"
        BY <3>1
      <4>2. ~ConsumerInside
        <5>1. ConsumerInside => /\ stamp[cCursor].state = "HELD_BY_CONSUMER" /\ stamp[cCursor].index = cIndex
                                /\ ConsumerSlot(cCursor) /\ cIndex \in Nat /\ pIndex \in Nat
          BY <1>0 DEF RingInvariant, OwnershipInv, ConsumerInv, SlotInv, SlotOk, At, TypeOK
        <5>2. FullSlot(pCursor) /\ Stored = pIndex
          BY <1>0, <2>1, <3>1 DEF RingInvariant, OwnershipInv, SlotInv, SlotOk, Stored
        <5>3. ConsumerInside => cIndex = pIndex - Capacity
          BY <1>0, <3>1, <5>1, <5>2 DEF ConsumerSlot, FullSlot
        <5>4. ConsumerInside => cCursor = pCursor
          BY <1>0, <3>1, <5>1, <5>3 DEF RingInvariant, OwnershipInv, Alignment
        <5>. QED
          BY <3>1, <5>1, <5>4
      <4>. QED
        BY <2>1, <4>1, <4>2, NoRoomBeforeClaim
    <3>3. FullSlots' = FullSlots \ {pCursor} /\ pCursor \in FullSlots
      BY <1>0, <3>1 DEF FullSlots
    <3>4. /\ Held = {value[s] : s \in FullSlots} /\ Held' = {value[s] : s \in FullSlots'}
          /\ \A s, t \in FullSlots : value[s] = value[t] => s = t
          /\ \A s \in FullSlots : value[s] \in Nat
      <4>1. \A s \in FullSlots : value[s] \in Nat
        BY <3>2, HeldIsFullSlots
      <4>2. Held' = {value[s] : s \in FullSlots'}
        BY <1>0, <2>1, <3>3, <4>1 DEF Held
      <4>. QED
        BY <3>2, <4>1, <4>2, HeldIsFullSlots
    <3>5. Held' = Held \ {value[pCursor]} /\ value[pCursor] \in Held
      BY <3>3, <3>4
    <3>6. ASSUME NEW s \in FullSlots PROVE value[pCursor] <= value[s]
      <4>1. /\ FullSlot(s) /\ Stored = pIndex /\ stamp[s].index \in Nat /\ pIndex \in Nat
            /\ stamp[s].index % Capacity = s /\ stamp[pCursor].index % Capacity = pCursor
        BY <1>0, <2>1, <3>6 DEF FullSlots, RingInvariant, OwnershipInv, SlotInv, SlotOk, Stored,
                                TypeOK, Stamp, Alignment
      <4>2. stamp[pCursor].index <= stamp[s].index
        BY <1>0, <3>1, <4>1 DEF FullSlot
      <4>3. CASE stamp[pCursor].index < stamp[s].index
        BY <1>0, <3>2, <3>3, <3>4, <3>6, <4>3 DEF RingInvariant, OrderInv
      <4>4. CASE stamp[pCursor].index = stamp[s].index
        BY <3>4, <4>1, <4>4
      <4>. QED
        BY <1>0, <3>1, <4>1, <4>2, <4>3, <4>4
    <3>7. ~Replacing /\ Replacing' /\ Leaving' = Leaving
      <4>1. ~Replacing
        BY <2>1, ConsumersSlot DEF RingInvariant, Replacing, ProducerInside
      <4>. QED
        BY <1>0, <3>1, <4>1 DEF Replacing, Leaving
    <3>8. Undecided = "push" /\ Undecided' = "push" /\ Popped' = Popped
      BY <2>1, <3>1 DEF Undecided, Popped
    <3>9. GivenBack' = GivenBack \cup {value[pCursor]}
      BY <2>1, <3>1 DEF GivenBack, Hand
    <3>10. \A r \in Held : value[pCursor] <= r
      BY <3>4, <3>6
    <3>11. Queue!Evict
      <4>1. Queue!IsOldest(value[pCursor])
        BY <3>5, <3>10 DEF Queue!IsOldest
      <4>. QED
        BY <2>1, <3>2, <3>5, <3>7, <3>8, <3>9, <4>1, QueueCounts DEF Queue!Evict
    <3>. QED
      BY <3>11
  <2>. QED
    BY <2>2, <2>3
<1>4. CASE PushTake
  <2>1. /\ UNCHANGED <<stamp, arrived, cHand, cPc, cCursor, pCursor, returned, discarded, next, op>>
        /\ pPc = "take" /\ pPc' = "fill" /\ pOut' = value[pCursor] /\ pOut = NoRecord
        /\ \A s \in Slots : s # pCursor => value'[s] = value[s]
    BY <1>0, <1>4 DEF PushTake, consumerVars, dropVars, RingInvariant, OwnershipInv, ProducerInv
  <2>2. pCursor \notin FullSlots /\ (cPc = "take" => cCursor # pCursor)
    BY <2>1, InsideIsNotFull DEF RingInvariant, ProducerInside, ConsumerInside
  <2>3. Held' = Held /\ Leaving' = Leaving /\ Replacing' = Replacing
    BY <2>1, <2>2, SlotsStand DEF FullSlots
  <2>4. value[pCursor] # NoRecord
    BY <1>0, <2>1 DEF RingInvariant, OwnershipInv, ProducerInv, SlotInv, SlotOk, ProducerSlot
  <2>5. Undecided' = Undecided /\ Popped' = Popped /\ GivenBack' = GivenBack
    BY <1>0, <2>1, <2>2, <2>4 DEF Undecided, Popped, GivenBack, Hand
  <2>. QED
    BY <2>1, <2>3, <2>5
<1>. QED
  BY <1>1, <1>2, <1>3, <1>4
LEMMA StoreRefines ==
  ASSUME RingInvariant, RingInvariant', Fill \/ Publish \/ Count \/ ProducerAdvance
  PROVE  [Queue!Next]_(Queue!vars)
<1> USE DEF Queue!Next, Queue!vars
<1>0. /\ next \in Nat /\ pHand \in Nat \cup {NoRecord} /\ pCursor \in Slots /\ cCursor \in Slots
      /\ value \in [Slots -> Nat \cup {NoRecord}] /\ stamp \in [Slots -> Stamp] /\ op \in {"push", "offer"}
      /\ NoRecord = -1 /\ Capacity \in Nat \ {0}
  BY CapacityAssumption DEF RingInvariant, OwnershipInv, TypeOK, NoRecord
<1>1. CASE Fill
  <2>1. /\ UNCHANGED <<stamp, arrived, cHand, cPc, cCursor, pCursor, returned, pOut, discarded, next, op>>
        /\ pPc = "fill" /\ pPc' = "publish"
        /\ \A s \in Slots : s # pCursor => value'[s] = value[s]
    BY <1>0, <1>1 DEF Fill, consumerVars, dropVars
  <2>2. pCursor \notin FullSlots /\ (cPc = "take" => cCursor # pCursor)
    BY <2>1, InsideIsNotFull DEF RingInvariant, ProducerInside, ConsumerInside
  <2>3. Held' = Held /\ Leaving' = Leaving /\ Replacing' = Replacing
    BY <2>1, <2>2, SlotsStand DEF FullSlots
  <2>4. Undecided' = Undecided /\ Popped' = Popped /\ GivenBack' = GivenBack
    BY <1>0, <2>1, <2>2 DEF Undecided, Popped, GivenBack
  <2>. QED
    BY <2>1, <2>3, <2>4
<1>2. CASE Publish
  <2>1. /\ UNCHANGED <<value, arrived, cHand, cPc, cCursor, pCursor, returned, pOut, pHand, discarded, next, op>>
        /\ pPc = "publish" /\ pPc' \in {"advance", "count"} /\ pHand = NoRecord
        /\ stamp'[pCursor] = At(pIndex, "FULL") /\ \A s \in Slots : s # pCursor => stamp'[s] = stamp[s]
    BY <1>0, <1>2 DEF Publish, consumerVars, dropVars, RingInvariant, OwnershipInv, ProducerInv
  <2>2. /\ ~gone /\ Cardinality(Held) + (IF ConsumerInside THEN 1 ELSE 0) < Capacity
        /\ pCursor \in Slots \ FullSlots /\ (Leaving <=> ConsumerInside)
    BY <2>1, RoomAtPublish, InsideIsNotFull, LeavingIs DEF RingInvariant, ProducerInside, Leaving
  <2>3. value[pCursor] = next - 1 /\ value[pCursor] # NoRecord
    BY <1>0, <2>1 DEF RingInvariant, OrderInv, OwnershipInv, ProducerInv, SlotInv, SlotOk, EmptySlot,
                      ProducerSlot, At, Stamp, States
  <2>4. Held' = Held \cup {next - 1}
    <3>1. FullSlots' = FullSlots \cup {pCursor}
      BY <1>0, <2>1 DEF FullSlots, At
    <3>. QED
      BY <1>0, <2>1, <2>3, <3>1 DEF Held
  <2>5. ~Replacing' /\ Leaving' = Leaving
    <3>1. stamp'[pCursor].state = "FULL"
      BY <2>1 DEF At
    <3>2. \A s \in Slots : stamp[s].state = "HELD_BY_PRODUCER" => s = pCursor
      BY ConsumersSlot DEF RingInvariant
    <3>3. stamp[pCursor].state # "HELD_BY_CONSUMER"
      BY <1>0, <2>1, InsideIsNotFull, ConsumersSlot DEF RingInvariant, ProducerInside
    <3>. QED
      BY <1>0, <2>1, <3>1, <3>2, <3>3 DEF Replacing, Leaving
  <2>6. Undecided # "none" /\ Undecided' = "none" /\ Popped' = Popped /\ GivenBack' = GivenBack
    BY <1>0, <2>1 DEF Undecided, Popped, GivenBack, Hand
  <2>7. Queue!Put
    <3>1. Queue!Room /\ Queue!Newest = next - 1
      BY <2>2, QueueCounts DEF Queue!Room, Queue!Newest
    <3>. QED
      BY <2>1, <2>4, <2>5, <2>6, <3>1 DEF Queue!Put
  <2>. QED
    BY <2>7
<1>3. CASE Count
  <2>1. /\ UNCHANGED <<stamp, value, arrived, cHand, cPc, cCursor, pCursor, pOut, discarded, next, op>>
        /\ pPc = "count" /\ (pOut # NoRecord <=> pHand = NoRecord)
        /\ pHand = NoRecord => pPc' = "advance" /\ returned' = returned
        /\ pHand # NoRecord => pPc' = "idle" /\ returned' = returned \cup {pHand}
    BY <1>3 DEF Count, consumerVars, dropVars, RingInvariant, OwnershipInv, ProducerInv
  <2>2. Held' = Held /\ Leaving' = Leaving /\ Replacing' = Replacing
    BY <2>1, SlotsStand
  <2>3. Undecided' = Undecided /\ Popped' = Popped
    BY <2>1 DEF Undecided, Popped
  <2>4. GivenBack' = GivenBack
    BY <2>1 DEF GivenBack, Hand
  <2>. QED
    BY <2>1, <2>2, <2>3, <2>4
<1>4. CASE ProducerAdvance
  <2>1. /\ UNCHANGED <<stamp, value, arrived, cHand, cPc, cCursor, discarded, next, op>>
        /\ pPc = "advance" /\ pPc' = "idle" /\ pOut' = NoRecord
        /\ returned' = returned \cup ({pOut} \ {NoRecord})
    BY <1>4 DEF ProducerAdvance, consumerVars, dropVars
  <2>2. Held' = Held /\ Leaving' = Leaving /\ Replacing' = Replacing
    BY <2>1, SlotsStand
  <2>3. Undecided' = Undecided /\ Popped' = Popped
    BY <2>1 DEF Undecided, Popped
  <2>4. GivenBack' = GivenBack
    BY <2>1 DEF GivenBack, Hand
  <2>. QED
    BY <2>1, <2>2, <2>3, <2>4
<1>. QED
  BY <1>1, <1>2, <1>3, <1>4

LEMMA PopRefines ==
  ASSUME RingInvariant, RingInvariant', PopCall \/ ConsumerStep
  PROVE  [Queue!Next]_(Queue!vars)
<1> USE DEF Queue!Next, Queue!vars
<1>0. /\ pCursor \in Slots /\ cCursor \in Slots /\ NoRecord = -1
      /\ value \in [Slots -> Nat \cup {NoRecord}] /\ stamp \in [Slots -> Stamp]
      /\ cIndex \in Nat
  BY DEF RingInvariant, OwnershipInv, TypeOK, NoRecord
<1>1. /\ UNCHANGED <<producerVars, dropVars, next, discarded>>
      /\ UNCHANGED <<pPc, op, pHand, pOut, pCursor, returned, gone>>
  BY DEF ConsumerStep, PopCall, PopLook, PopClaim, PopTake, PopRelease, ConsumerAdvance, producerVars, dropVars
<1>2. Undecided' = Undecided
  BY <1>1 DEF Undecided
<1>3. CASE PopCall \/ PopLook
  <2>1. UNCHANGED <<stamp, value, arrived, cHand, cCursor>> /\ cPc # "take" /\ cPc' # "take"
    BY <1>3 DEF PopCall, PopLook, sharedVars
  <2>2. Held' = Held /\ Leaving' = Leaving /\ Replacing' = Replacing
    BY <2>1, SlotsStand
  <2>3. Popped' = Popped /\ GivenBack' = GivenBack
    BY <1>1, <2>1 DEF Popped, GivenBack
  <2>. QED
    BY <1>1, <1>2, <2>2, <2>3
<1>4. CASE PopClaim
  <2>1. /\ UNCHANGED <<value, arrived, cHand, cCursor>> /\ cPc = "claim" /\ ~gone /\ cHand = NoRecord
    BY <1>4 DEF PopClaim, RingInvariant, OwnershipInv, ConsumerInv
  <2>2. GivenBack' = GivenBack
    BY <1>1, <2>1 DEF GivenBack
  <2>3. CASE stamp[cCursor] # At(cIndex, "FULL")
    <3>1. UNCHANGED stamp /\ cPc' = "advance"
      BY <1>4, <2>3 DEF PopClaim
    <3>2. Held' = Held /\ Leaving' = Leaving /\ Replacing' = Replacing
      BY <2>1, <3>1, SlotsStand
    <3>3. Popped' = Popped
      BY <2>1, <3>1 DEF Popped
    <3>. QED
      BY <1>1, <1>2, <2>2, <3>2, <3>3
  <2>4. CASE stamp[cCursor] = At(cIndex, "FULL")
    <3>1. /\ cPc' = "take" /\ stamp'[cCursor].state = "HELD_BY_CONSUMER"
          /\ \A s \in Slots : s # cCursor => stamp'[s] = stamp[s]
          /\ stamp[cCursor].state = "FULL" /\ stamp[cCursor].index = cIndex
      BY <1>0, <1>4, <2>4 DEF PopClaim, At
    <3>2. FullSlots' = FullSlots \ {cCursor} /\ cCursor \in FullSlots
      BY <1>0, <3>1 DEF FullSlots
    <3>3. /\ Held = {value[s] : s \in FullSlots} /\ Held' = {value[s] : s \in FullSlots'}
          /\ \A s, t \in FullSlots : value[s] = value[t] => s = t
          /\ \A s \in FullSlots : value[s] \in Nat
      <4>1. \A s \in FullSlots : value[s] \in Nat
        BY <2>1, HeldIsFullSlots
      <4>2. Held' = {value[s] : s \in FullSlots'}
        BY <1>0, <2>1, <3>2, <4>1 DEF Held
      <4>. QED
        BY <2>1, <4>1, <4>2, HeldIsFullSlots
    <3>4. Held' = Held \ {value[cCursor]} /\ value[cCursor] \in Held
      BY <3>2, <3>3
    <3>5. ASSUME NEW s \in FullSlots PROVE value[cCursor] <= value[s]
      <4>1. /\ FullSlot(s) /\ stamp[s].index \in Nat
            /\ stamp[s].index % Capacity = s /\ stamp[cCursor].index % Capacity = cCursor
        BY <1>0, <3>5 DEF FullSlots, RingInvariant, OwnershipInv, SlotInv, SlotOk,
                          TypeOK, Stamp, Alignment
      <4>2. stamp[cCursor].index <= stamp[s].index
        BY <3>1, <4>1 DEF FullSlot
      <4>3. CASE stamp[cCursor].index < stamp[s].index
        BY <2>1, <3>2, <3>3, <3>5, <4>3 DEF RingInvariant, OrderInv
      <4>4. CASE stamp[cCursor].index = stamp[s].index
        BY <3>2, <3>3, <4>1, <4>4
      <4>. QED
        BY <1>0, <3>1, <4>1, <4>2, <4>3, <4>4
    <3>6. ~Leaving /\ Leaving' /\ Replacing' = Replacing
      <4>1. ~Leaving
        BY <2>1, LeavingIs DEF RingInvariant, Leaving, ConsumerInside
      <4>. QED
        BY <1>0, <3>1, <4>1 DEF Replacing, Leaving
    <3>7. Popped' = Popped \cup {value[cCursor]}
      BY <2>1, <3>1 DEF Popped, Hand
    <3>8. Queue!Take
      <4>1. Queue!IsOldest(value[cCursor])
        BY <3>3, <3>4, <3>5 DEF Queue!IsOldest
      <4>. QED
        BY <1>1, <1>2, <2>2, <3>4, <3>6, <3>7, <4>1 DEF Queue!Take
    <3>. QED
      BY <3>8
  <2>. QED
    BY <2>3, <2>4
<1>5. CASE PopTake
  <2>1. /\ UNCHANGED <<stamp, arrived, cCursor>> /\ cPc = "take" /\ cPc' = "release"
        /\ cHand' = value[cCursor] /\ cHand = NoRecord
        /\ \A s \in Slots : s # cCursor => value'[s] = value[s]
    BY <1>0, <1>5 DEF PopTake, RingInvariant, OwnershipInv, ConsumerInv
  <2>2. cCursor \notin FullSlots /\ (pPc = "take" => cCursor # pCursor)
    BY <2>1, InsideIsNotFull DEF RingInvariant, ProducerInside, ConsumerInside
  <2>3. Held' = Held /\ Leaving' = Leaving /\ Replacing' = Replacing
    BY <2>1, <2>2, SlotsStand DEF FullSlots
  <2>4. value[cCursor] # NoRecord
    BY <1>0, <2>1, ConsumersSlot DEF RingInvariant, OwnershipInv, SlotInv, SlotOk, ConsumerSlot, ConsumerInside
  <2>5. Popped' = Popped /\ GivenBack' = GivenBack
    BY <1>0, <1>1, <2>1, <2>2, <2>4 DEF Popped, GivenBack, Hand
  <2>. QED
    BY <1>1, <1>2, <2>3, <2>5
<1>6. CASE PopRelease
  <2>1. /\ UNCHANGED <<value, arrived, cCursor, cHand>> /\ cPc = "release" /\ cPc' = "advance"
        /\ stamp'[cCursor].state = "EMPTY" /\ \A s \in Slots : s # cCursor => stamp'[s] = stamp[s]
        /\ stamp[cCursor].state = "HELD_BY_CONSUMER"
    BY <1>0, <1>6, ConsumersSlot DEF PopRelease, RingInvariant, At, ConsumerInside
  <2>2. Leaving /\ ~Leaving'
    BY <1>0, <2>1, ConsumersSlot DEF Leaving, RingInvariant
  <2>3. Replacing' = Replacing
    BY <1>0, <2>1 DEF Replacing
  <2>4. Held' = Held
    <3>1. FullSlots' = FullSlots
      BY <1>0, <2>1 DEF FullSlots
    <3>. QED
      BY <2>1, <3>1 DEF Held
  <2>5. Popped' = Popped /\ GivenBack' = GivenBack
    BY <1>1, <2>1 DEF Popped, GivenBack
  <2>6. Queue!Leave
    BY <1>1, <1>2, <2>2, <2>3, <2>4, <2>5 DEF Queue!Leave
  <2>. QED
    BY <2>6
<1>7. CASE ConsumerAdvance
  <2>1. /\ UNCHANGED <<stamp, value>> /\ cPc = "advance" /\ cPc' \in {"look", "idle"}
        /\ arrived' = arrived \cup ({cHand} \ {NoRecord}) /\ cHand' = NoRecord
    BY <1>7 DEF ConsumerAdvance
  <2>2. Held' = Held /\ Leaving' = Leaving /\ Replacing' = Replacing
    BY <2>1, SlotsStand
  <2>3. Popped' = Popped /\ GivenBack' = GivenBack
    BY <1>1, <2>1 DEF Popped, GivenBack, Hand
  <2>. QED
    BY <1>1, <1>2, <2>2, <2>3
<1>. QED
  BY <1>3, <1>4, <1>5, <1>6, <1>7 DEF ConsumerStep

LEMMA DropRefines ==
  ASSUME RingInvariant, RingInvariant', DropProducer \/ DropConsumer \/ DropRing \/ UNCHANGED vars
  PROVE  [Queue!Next]_(Queue!vars)
<1> USE DEF Queue!Next, Queue!vars
<1>1. CASE DropProducer \/ DropConsumer \/ UNCHANGED vars
  <2>1. /\ UNCHANGED <<stamp, value, arrived, cHand, cCursor, pHand, pCursor, pOut, returned, discarded, next, op>>
        /\ pPc' = pPc \/ (pPc = "idle" /\ pPc' = "gone")
        /\ cPc' = cPc \/ (cPc = "idle" /\ cPc' = "gone")
    BY <1>1 DEF DropProducer, DropConsumer, vars, producerVars, consumerVars, sharedVars, dropVars
  <2>2. Held' = Held /\ Leaving' = Leaving /\ Replacing' = Replacing
    BY <2>1, SlotsStand
  <2>3. Undecided' = Undecided /\ Popped' = Popped /\ GivenBack' = GivenBack
    BY <2>1 DEF Undecided, Popped, GivenBack
  <2>. QED
    BY <2>1, <2>2, <2>3
<1>2. CASE DropRing
  <2>1. /\ UNCHANGED <<stamp, producerVars, consumerVars>> /\ pPc = "gone" /\ cPc = "gone" /\ ~gone
        /\ discarded' = {value[s] : s \in FullSlots}
        /\ \A s \in FullSlots : value'[s] = NoRecord
    BY <1>2 DEF DropRing, FullSlots
  <2>2. discarded' = Held
    BY <2>1, HeldIsFullSlots
  <2>3. Held' = {}
    <3>1. FullSlots' = FullSlots
      BY <2>1 DEF FullSlots
    <3>. QED
      BY <2>1, <3>1 DEF Held
  <2>4. ~Leaving /\ Leaving' = Leaving /\ Replacing' = Replacing
    BY <2>1, LeavingIs DEF RingInvariant, Leaving, Replacing, ConsumerInside
  <2>5. Undecided = "none" /\ Undecided' = "none" /\ Popped' = Popped /\ GivenBack' = GivenBack
    BY <2>1 DEF Undecided, Popped, GivenBack, producerVars, consumerVars
  <2>6. next' = next
    BY <2>1 DEF producerVars
  <2>7. Queue!Discard
    BY <2>2, <2>3, <2>4, <2>5, <2>6 DEF Queue!Discard
  <2>. QED
    BY <2>7
<1>. QED
  BY <1>1, <1>2

(* Whatever the two threads are in the middle of, the ring is a lossy      *)
(* queue: a push replaces the oldest record of a full one, is refused only *)
(* over a record on its way out, and pop takes the oldest.                 *)
THEOREM RingImplementsQueue == Spec => ImplementsQueue
<1>1. RingInvariant /\ RingInvariant' /\ [Next]_vars => [Queue!Next]_(Queue!vars)
  BY PushRefines, StoreRefines, PopRefines, DropRefines DEF Next, ProducerStep
<1>. QED
  BY <1>1, QueueInit, RingOrder, PTL DEF Spec, ImplementsQueue, Queue!Spec

-----------------------------------------------------------------------------
(* The loop: what the threads do around the ring.                          *)

LEMMA LoopInitInductive == LoopInit => LoopInductive
<1> SUFFICES ASSUME LoopInit PROVE LoopInductive
  OBVIOUS
<1> USE LoopAssumption DEF LoopInit
<1>1. OwnershipInv /\ TypeOK
  BY InitOwns DEF OwnershipInv
<1>2. LoopTypeOK
  <2>1. parked \in BOOLEAN /\ token \in BOOLEAN
    BY Zenon
  <2>2. channel \in Seq({"change", "Stop"})
    OBVIOUS
  <2>. QED
    BY <1>1, <2>1, <2>2 DEF LoopTypeOK
<1>3. PopIsInBatch /\ SendsAreSeen /\ PushesAreSeen /\ WaitsInBatch
  BY DEF Init, PopIsInBatch, SendsAreSeen, PushesAreSeen, WaitsInBatch
<1>4. ControlWaitsOneBatch
  BY DEF ControlWaitsOneBatch
<1>. QED
  BY <1>1, <1>2, <1>3, <1>4 DEF LoopInductive

(* What the threads do to the ring are the ring's own steps. *)
LEMMA LoopStepsTheRing == [LoopNext]_allVars => [Next]_vars
<1> SUFFICES ASSUME [LoopNext]_allVars PROVE [Next]_vars
  OBVIOUS
<1>1. CASE CommitStep
  BY <1>1 DEF CommitStep, Next
<1>2. CASE WakeLoad \/ WakeUnpark \/ SendWake \/ SpuriousWake
  BY <1>2 DEF WakeLoad, WakeUnpark, SendWake, SpuriousWake
<1>3. CASE \E m \in {"change", "Stop"} : Send(m)
  BY <1>3 DEF Send
<1>4. CASE TakeStop
  BY <1>4 DEF TakeStop, Next
<1>5. CASE PopStep \/ PopRecord \/ PopNothing
  BY <1>5 DEF PopStep, PopRecord, PopNothing, Next, ConsumerStep
<1>6. CASE TakeControl \/ ControlEmpty \/ RaiseFlag \/ LookAtWrite \/ LookAtRead \/ Unparked \/ LowerFlag
  BY <1>6 DEF TakeControl, ControlEmpty, RaiseFlag, LookAtWrite, LookAtRead, Unparked, LowerFlag
<1>7. CASE UNCHANGED allVars
  BY <1>7 DEF allVars
<1>. QED
  BY <1>1, <1>2, <1>3, <1>4, <1>5, <1>6, <1>7 DEF LoopNext, CommitThread, WriterThread

LEMMA LoopOwns == LoopInductive /\ [LoopNext]_allVars => OwnershipInv' /\ TypeOK'
  BY LoopStepsTheRing, OwnershipStep DEF LoopInductive, OwnershipInv

(* A parked thread with no wake under way had popped all that the write    *)
(* index showed it, and no push has moved the index on since.              *)
LEMMA ParkedOverNothing ==
  ASSUME LoopInductive
  PROVE  SleepsOnNothing
<1> SUFFICES ASSUME sPc = "park", ~token
             PROVE  /\ pPc = "idle" /\ wPc = "idle" => FullSlots = {}
                    /\ owed = 0 => channel = <<>>
  BY DEF SleepsOnNothing
<1>1. owed = 0 => channel = <<>>
  BY DEF LoopInductive, LoopTypeOK, SendsAreSeen
<1>2. ASSUME pPc = "idle", wPc = "idle", NEW s \in FullSlots PROVE FALSE
  <2>1. /\ seen >= write /\ seen <= read /\ write = pIndex /\ read = cIndex
        /\ seen \in Nat /\ pIndex \in Nat /\ cIndex \in Nat
    BY <1>2 DEF LoopInductive, LoopTypeOK, PushesAreSeen, PopIsInBatch, TypeOK
  <2>2. Stored = pIndex
    BY <1>2 DEF Stored
  <2>3. s \in Slots /\ stamp[s].index \in Nat /\ FullSlot(s)
    BY <1>2 DEF FullSlots, LoopInductive, OwnershipInv, SlotInv, SlotOk, TypeOK, Stamp
  <2>4. cIndex <= stamp[s].index /\ stamp[s].index < pIndex
    BY <2>2, <2>3 DEF FullSlot
  <2>. QED
    BY <2>1, <2>3, <2>4
<1>. QED
  BY <1>1, <1>2

(* The committing thread: a push under way, or the wake that follows it.   *)
LEMMA CommitThreadKeeps ==
  ASSUME LoopInductive, OwnershipInv', TypeOK', CommitThread
  PROVE  LoopTypeOK' /\ PopIsInBatch' /\ SendsAreSeen' /\ PushesAreSeen' /\ WaitsInBatch'
<1> USE DEF LoopInductive
<1>1. CASE CommitStep
  <2>1. /\ UNCHANGED <<loopVars, sendVars, parked, token, waited>> /\ wPc = "idle"
        /\ wPc' \in {"idle", "wake"}
    BY <1>1 DEF CommitStep
  <2>2. UNCHANGED <<cPc, cIndex, read>>
    BY <1>1 DEF CommitStep, ProducerStep, Call, PushLoad, OfferLoad, PushClaim, PushTake, Fill,
                Publish, Count, ProducerAdvance, consumerVars, sharedVars
  <2>3. \/ UNCHANGED <<write, pIndex>>
        \/ write' = pIndex' /\ pPc' = "idle"
    BY <1>1 DEF CommitStep, ProducerStep, Call, PushLoad, OfferLoad, PushClaim, PushTake, Fill,
                Publish, Count, ProducerAdvance, consumerVars, sharedVars
  <2>4. write' # write => wPc' = "wake"
    BY <1>1, <2>3 DEF CommitStep
  <2>5. LoopTypeOK'
    BY <2>1 DEF LoopTypeOK, loopVars, sendVars
  <2>6. PopIsInBatch'
    BY <2>1, <2>2, <2>3 DEF PopIsInBatch, loopVars
  <2>7. SendsAreSeen'
    BY <2>1 DEF SendsAreSeen, loopVars, sendVars
  <2>8. PushesAreSeen'
    BY <2>1, <2>2, <2>4 DEF PushesAreSeen, loopVars
  <2>9. WaitsInBatch'
    BY <2>1 DEF WaitsInBatch, loopVars, sendVars
  <2>. QED
    BY <2>5, <2>6, <2>7, <2>8, <2>9
<1>2. CASE WakeLoad
  <2>1. /\ UNCHANGED <<vars, loopVars, sendVars, parked, token, waited>>
        /\ wPc = "wake" /\ wPc' \in {"idle", "unpark"} /\ (parked => wPc' = "unpark")
    BY <1>2 DEF WakeLoad
  <2>2. UNCHANGED <<cPc, cIndex, read, write, pIndex>>
    BY <2>1 DEF vars, consumerVars, sharedVars, producerVars
  <2>3. LoopTypeOK'
    BY <2>1 DEF LoopTypeOK, loopVars, sendVars
  <2>4. PopIsInBatch'
    BY <2>1, <2>2 DEF PopIsInBatch, loopVars
  <2>5. SendsAreSeen'
    BY <2>1 DEF SendsAreSeen, loopVars, sendVars
  <2>6. PushesAreSeen'
    BY <2>1, <2>2 DEF PushesAreSeen, loopVars
  <2>7. WaitsInBatch'
    BY <2>1 DEF WaitsInBatch, loopVars, sendVars
  <2>. QED
    BY <2>3, <2>4, <2>5, <2>6, <2>7
<1>3. CASE WakeUnpark
  <2>1. /\ UNCHANGED <<vars, loopVars, sendVars, parked, waited>>
        /\ wPc' = "idle" /\ token' = TRUE
    BY <1>3 DEF WakeUnpark
  <2>2. UNCHANGED <<cPc, cIndex, read, write, pIndex>>
    BY <2>1 DEF vars, consumerVars, sharedVars, producerVars
  <2>3. LoopTypeOK'
    <3>1. token' \in BOOLEAN
      BY <2>1, Zenon
    <3>. QED
      BY <2>1, <3>1 DEF LoopTypeOK, loopVars, sendVars
  <2>4. PopIsInBatch'
    BY <2>1, <2>2 DEF PopIsInBatch, loopVars
  <2>5. SendsAreSeen'
    BY <2>1 DEF SendsAreSeen
  <2>6. PushesAreSeen'
    BY <2>1, <2>2 DEF PushesAreSeen, loopVars
  <2>7. WaitsInBatch'
    BY <2>1 DEF WaitsInBatch, loopVars, sendVars
  <2>. QED
    BY <2>3, <2>4, <2>5, <2>6, <2>7
<1>. QED
  BY <1>1, <1>2, <1>3 DEF CommitThread

(* The threads that send: what they append to the channel they follow with *)
(* a wake.                                                                 *)
LEMMA SendersKeep ==
  ASSUME LoopInductive, OwnershipInv', TypeOK',
         SendWake \/ \E m \in {"change", "Stop"} : Send(m)
  PROVE  LoopTypeOK' /\ PopIsInBatch' /\ SendsAreSeen' /\ PushesAreSeen' /\ WaitsInBatch'
<1> USE DEF LoopInductive
<1>1. ASSUME NEW m \in {"change", "Stop"}, Send(m)
      PROVE  LoopTypeOK' /\ PopIsInBatch' /\ SendsAreSeen' /\ PushesAreSeen' /\ WaitsInBatch'
  <2>1. /\ UNCHANGED <<vars, loopVars, wakeVars, waited>> /\ owed \in Nat /\ owed' = owed + 1
        /\ sent' = sent + 1 /\ channel \in Seq({"change", "Stop"})
        /\ channel' = IF sPc = "returned" THEN channel ELSE Append(channel, m)
    BY <1>1 DEF Send, LoopTypeOK
  <2>2. UNCHANGED <<cPc, cIndex, read, write, pIndex>>
    BY <2>1 DEF vars, consumerVars, sharedVars, producerVars
  <2>3. channel' \in Seq({"change", "Stop"}) /\ (channel' = <<>> => channel = <<>>)
    BY <2>1
  <2>4. LoopTypeOK'
    BY <2>1, <2>3 DEF LoopTypeOK, loopVars, wakeVars
  <2>5. PopIsInBatch'
    BY <2>1, <2>2 DEF PopIsInBatch, loopVars
  <2>6. SendsAreSeen'
    BY <2>1 DEF SendsAreSeen
  <2>7. PushesAreSeen'
    BY <2>1, <2>2 DEF PushesAreSeen, loopVars, wakeVars
  <2>8. WaitsInBatch'
    BY <2>1, <2>3 DEF WaitsInBatch, loopVars
  <2>. QED
    BY <2>4, <2>5, <2>6, <2>7, <2>8
<1>2. CASE SendWake
  <2>1. /\ UNCHANGED <<vars, loopVars, channel, sent, parked, wPc, waited>>
        /\ owed \in Nat /\ owed > 0 /\ owed' = owed - 1 /\ token' = TRUE
    BY <1>2 DEF SendWake, LoopTypeOK
  <2>2. UNCHANGED <<cPc, cIndex, read, write, pIndex>>
    BY <2>1 DEF vars, consumerVars, sharedVars, producerVars
  <2>3. LoopTypeOK'
    <3>1. token' \in BOOLEAN
      BY <2>1, Zenon
    <3>. QED
      BY <2>1, <3>1 DEF LoopTypeOK, loopVars
  <2>4. PopIsInBatch'
    BY <2>1, <2>2 DEF PopIsInBatch, loopVars
  <2>5. SendsAreSeen'
    BY <2>1 DEF SendsAreSeen
  <2>6. PushesAreSeen'
    BY <2>1, <2>2 DEF PushesAreSeen, loopVars
  <2>7. WaitsInBatch'
    BY <2>1 DEF WaitsInBatch, loopVars
  <2>. QED
    BY <2>3, <2>4, <2>5, <2>6, <2>7
<1>. QED
  BY <1>1, <1>2

(* The writer thread between the channel and the ring. *)
LEMMA ControlKeeps ==
  ASSUME LoopInductive, OwnershipInv', TypeOK', TakeControl \/ TakeStop \/ ControlEmpty
  PROVE  /\ LoopTypeOK' /\ PopIsInBatch' /\ SendsAreSeen' /\ PushesAreSeen' /\ WaitsInBatch'
         /\ ControlWaitsOneBatch'
<1> USE LoopAssumption DEF LoopInductive
<1>1. channel \in Seq({"change", "Stop"})
  BY DEF LoopTypeOK
<1>2. CASE TakeControl
  <2>1. /\ UNCHANGED <<vars, loopVars, wakeVars, owed, sent>> /\ sPc = "control" /\ waited' = 0
        /\ channel' = Tail(channel) /\ channel # <<>>
    BY <1>2 DEF TakeControl
  <2>2. channel' \in Seq({"change", "Stop"})
    BY <1>1, <2>1
  <2>3. UNCHANGED <<cPc, cIndex, read, write, pIndex>>
    BY <2>1 DEF vars, consumerVars, sharedVars, producerVars
  <2>4. LoopTypeOK'
    BY <2>1, <2>2 DEF LoopTypeOK, loopVars, wakeVars
  <2>5. PopIsInBatch' /\ SendsAreSeen' /\ PushesAreSeen'
    BY <2>1, <2>3 DEF PopIsInBatch, SendsAreSeen, PushesAreSeen, loopVars, wakeVars
  <2>6. WaitsInBatch' /\ ControlWaitsOneBatch'
    BY <2>1 DEF WaitsInBatch, ControlWaitsOneBatch, loopVars
  <2>. QED
    BY <2>4, <2>5, <2>6
<1>3. CASE TakeStop
  <2>1. /\ UNCHANGED <<fanned, passes, seen, wakeVars, owed, sent>> /\ sPc = "control"
        /\ channel' = <<>> /\ sPc' = "returned" /\ waited' = 0 /\ cPc' = "gone"
        /\ UNCHANGED <<cIndex, read, write, pIndex>>
    BY <1>3 DEF TakeStop, DropConsumer, producerVars, sharedVars
  <2>2. channel' \in Seq({"change", "Stop"})
    BY <2>1
  <2>3. LoopTypeOK'
    BY <2>1, <2>2 DEF LoopTypeOK, wakeVars
  <2>4. PopIsInBatch' /\ SendsAreSeen' /\ PushesAreSeen'
    BY <2>1 DEF PopIsInBatch, SendsAreSeen, PushesAreSeen, wakeVars
  <2>5. WaitsInBatch' /\ ControlWaitsOneBatch'
    BY <2>1 DEF WaitsInBatch, ControlWaitsOneBatch
  <2>. QED
    BY <2>3, <2>4, <2>5
<1>4. CASE ControlEmpty
  <2>1. /\ UNCHANGED <<vars, passes, seen, wakeVars, sendVars, waited>> /\ sPc = "control"
        /\ channel = <<>> /\ sPc' = "pop" /\ fanned' = 0
    BY <1>4 DEF ControlEmpty
  <2>2. UNCHANGED <<cPc, cIndex, read, write, pIndex>>
    BY <2>1 DEF vars, consumerVars, sharedVars, producerVars
  <2>3. LoopTypeOK'
    BY <2>1 DEF LoopTypeOK, wakeVars, sendVars
  <2>4. PopIsInBatch' /\ PushesAreSeen'
    BY <2>1, <2>2 DEF PopIsInBatch, PushesAreSeen, wakeVars
  <2>5. SendsAreSeen'
    BY <2>1 DEF SendsAreSeen, sendVars
  <2>6. WaitsInBatch' /\ ControlWaitsOneBatch'
    BY <2>1 DEF WaitsInBatch, ControlWaitsOneBatch, sendVars
  <2>. QED
    BY <2>3, <2>4, <2>5, <2>6
<1>. QED
  BY <1>2, <1>3, <1>4

(* The writer thread inside the batch. *)
LEMMA BatchKeeps ==
  ASSUME LoopInductive, OwnershipInv', TypeOK', PopStep \/ PopRecord \/ PopNothing
  PROVE  /\ LoopTypeOK' /\ PopIsInBatch' /\ SendsAreSeen' /\ PushesAreSeen' /\ WaitsInBatch'
         /\ ControlWaitsOneBatch'
<1> USE LoopAssumption DEF LoopInductive
<1>1. /\ sPc = "pop" /\ ~parked /\ write = pIndex /\ read = cIndex
      /\ waited \in Nat /\ fanned \in Nat /\ waited <= fanned /\ fanned < RecordsPerPass
      /\ RecordsPerPass \in Nat /\ passes \in 0..LooksBeforePark
  BY DEF PopStep, PopRecord, PopNothing, LoopTypeOK, PushesAreSeen, PopIsInBatch, WaitsInBatch
<1>2. /\ UNCHANGED <<write, pIndex>> /\ read' = cIndex' /\ cPc' # "gone"
      /\ UNCHANGED <<seen, wakeVars, sendVars>>
  BY <1>1 DEF PopStep, PopRecord, PopNothing, ConsumerStep, PopCall, PopLook, PopClaim, PopTake,
              PopRelease, ConsumerAdvance, sharedVars, producerVars, loopVars
<1>3. CASE PopStep
  <2>1. UNCHANGED <<loopVars, waited>>
    BY <1>3 DEF PopStep
  <2>2. LoopTypeOK'
    BY <1>2, <2>1 DEF LoopTypeOK, loopVars, wakeVars, sendVars
  <2>3. PopIsInBatch' /\ PushesAreSeen'
    BY <1>1, <1>2, <2>1 DEF PopIsInBatch, PushesAreSeen, loopVars, wakeVars
  <2>4. SendsAreSeen'
    BY <1>1, <1>2, <2>1 DEF SendsAreSeen, loopVars, sendVars, wakeVars
  <2>5. WaitsInBatch' /\ ControlWaitsOneBatch'
    BY <1>1, <1>2, <2>1 DEF WaitsInBatch, ControlWaitsOneBatch, loopVars, sendVars
  <2>. QED
    BY <2>2, <2>3, <2>4, <2>5
<1>4. CASE PopRecord
  <2>1. /\ cPc' = "idle" /\ sPc' \in {"pop", "control"} /\ passes' \in 0..LooksBeforePark
        /\ fanned' \in 0..RecordsPerPass
        /\ waited' = IF channel = <<>> THEN 0 ELSE waited + 1
        /\ sPc' = "pop" => fanned' = fanned + 1 /\ fanned' < RecordsPerPass
    BY <1>1, <1>4 DEF PopRecord
  <2>2. LoopTypeOK'
    BY <1>1, <1>2, <2>1 DEF LoopTypeOK, wakeVars, sendVars
  <2>3. PopIsInBatch' /\ PushesAreSeen'
    BY <1>1, <1>2, <2>1 DEF PopIsInBatch, PushesAreSeen, wakeVars
  <2>4. SendsAreSeen'
    BY <1>1, <1>2, <2>1 DEF SendsAreSeen, sendVars, wakeVars
  <2>5. WaitsInBatch' /\ ControlWaitsOneBatch'
    BY <1>1, <1>2, <2>1 DEF WaitsInBatch, ControlWaitsOneBatch, sendVars
  <2>. QED
    BY <2>2, <2>3, <2>4, <2>5
<1>5. CASE PopNothing
  <2>1. /\ cPc' = "idle" /\ sPc' \in {"flag", "control"} /\ passes' \in 0..LooksBeforePark
        /\ fanned' = 0 /\ waited' = waited
    BY <1>1, <1>5 DEF PopNothing
  <2>2. LoopTypeOK'
    BY <1>1, <1>2, <2>1 DEF LoopTypeOK, wakeVars, sendVars
  <2>3. PopIsInBatch' /\ PushesAreSeen'
    BY <1>1, <1>2, <2>1 DEF PopIsInBatch, PushesAreSeen, wakeVars
  <2>4. SendsAreSeen'
    BY <1>1, <1>2, <2>1 DEF SendsAreSeen, sendVars, wakeVars
  <2>5. WaitsInBatch' /\ ControlWaitsOneBatch'
    BY <1>1, <1>2, <2>1 DEF WaitsInBatch, ControlWaitsOneBatch, sendVars
  <2>. QED
    BY <2>2, <2>3, <2>4, <2>5
<1>. QED
  BY <1>3, <1>4, <1>5

(* The writer thread going to sleep and coming back. *)
LEMMA ParkKeeps ==
  ASSUME LoopInductive, OwnershipInv', TypeOK',
         RaiseFlag \/ LookAtWrite \/ LookAtRead \/ Unparked \/ SpuriousWake \/ LowerFlag
  PROVE  LoopTypeOK' /\ PopIsInBatch' /\ SendsAreSeen' /\ PushesAreSeen' /\ WaitsInBatch'
<1> USE DEF LoopInductive
<1>1. UNCHANGED <<vars, fanned, passes, wPc, sendVars, waited>>
  BY DEF RaiseFlag, LookAtWrite, LookAtRead, Unparked, SpuriousWake, LowerFlag, wakeVars
<1>2. UNCHANGED <<cPc, cIndex, read, write, pIndex>>
  BY <1>1 DEF vars, consumerVars, sharedVars, producerVars
<1>3. /\ parked \in BOOLEAN /\ token \in BOOLEAN /\ seen \in Nat /\ write \in Nat /\ read \in Nat
  BY DEF LoopTypeOK, TypeOK
<1>4. parked' \in BOOLEAN /\ token' \in BOOLEAN
  BY <1>3, Zenon DEF RaiseFlag, LookAtWrite, LookAtRead, Unparked, SpuriousWake, LowerFlag, wakeVars
<1>5. /\ sPc \in {"flag", "write", "read", "park", "lower"}
      /\ sPc' \in {"write", "read", "park", "lower", "control"} /\ seen' \in Nat
  BY <1>3 DEF RaiseFlag, LookAtWrite, LookAtRead, Unparked, SpuriousWake, LowerFlag
<1>6. LoopTypeOK'
  BY <1>1, <1>4, <1>5 DEF LoopTypeOK, sendVars
<1>7. PopIsInBatch'
  BY <1>2, <1>5 DEF PopIsInBatch
<1>8. SendsAreSeen'
  BY <1>1, <1>5 DEF SendsAreSeen, RaiseFlag, LookAtWrite, LookAtRead, Unparked, SpuriousWake,
                    LowerFlag, sendVars, wakeVars
<1>9. PushesAreSeen'
  BY <1>1, <1>2, <1>3 DEF PushesAreSeen, RaiseFlag, LookAtWrite, LookAtRead, Unparked,
                          SpuriousWake, LowerFlag, wakeVars
<1>10. WaitsInBatch'
  BY <1>1, <1>5 DEF WaitsInBatch, sendVars
<1>. QED
  BY <1>6, <1>7, <1>8, <1>9, <1>10

-----------------------------------------------------------------------------
LEMMA LoopStep == LoopInductive /\ [LoopNext]_allVars => LoopInductive'
<1> SUFFICES ASSUME LoopInductive, [LoopNext]_allVars PROVE LoopInductive'
  OBVIOUS
<1>1. OwnershipInv' /\ TypeOK'
  BY LoopOwns
<1> DEFINE Parts == LoopTypeOK /\ PopIsInBatch /\ SendsAreSeen /\ PushesAreSeen /\ WaitsInBatch
<1>2. Parts' /\ ControlWaitsOneBatch'
  <2>1. CASE waited' = waited
    <3>1. ControlWaitsOneBatch'
      BY <2>1 DEF LoopInductive, ControlWaitsOneBatch
    <3>2. CASE UNCHANGED allVars
      BY <1>1, <3>1, <3>2 DEF LoopInductive, LoopTypeOK, PopIsInBatch, SendsAreSeen, PushesAreSeen,
              WaitsInBatch, allVars, vars, loopVars, wakeVars, sendVars, consumerVars, sharedVars,
              producerVars
    <3>3. CASE CommitThread
      BY <1>1, <3>1, <3>3, CommitThreadKeeps
    <3>4. CASE SendWake \/ \E m \in {"change", "Stop"} : Send(m)
      BY <1>1, <3>1, <3>4, SendersKeep
    <3>5. CASE RaiseFlag \/ LookAtWrite \/ LookAtRead \/ Unparked \/ SpuriousWake \/ LowerFlag
      BY <1>1, <3>1, <3>5, ParkKeeps
    <3>6. CASE TakeControl \/ TakeStop \/ ControlEmpty \/ PopStep \/ PopRecord \/ PopNothing
      BY <1>1, <3>6, ControlKeeps, BatchKeeps
    <3>. QED
      BY <3>2, <3>3, <3>4, <3>5, <3>6 DEF LoopNext, WriterThread
  <2>2. CASE waited' # waited
    <3>1. TakeControl \/ TakeStop \/ PopRecord
      BY <2>2 DEF LoopNext, WriterThread, CommitThread, CommitStep, WakeLoad, WakeUnpark, Send,
              SendWake, ControlEmpty, PopStep, PopNothing, RaiseFlag, LookAtWrite, LookAtRead,
              Unparked, LowerFlag, SpuriousWake, allVars
    <3>. QED
      BY <1>1, <3>1, ControlKeeps, BatchKeeps
  <2>. QED
    BY <2>1, <2>2
<1>. QED
  BY <1>1, <1>2 DEF LoopInductive

(* However pushes, sends, stops and wakes out of nowhere interleave, the   *)
(* writer thread is never asleep over a record whose push has returned or  *)
(* a message whose sender has, and a message waits out one batch at most.  *)
THEOREM LoopNeverSleepsOverWork == LoopSpec => []LoopInv
<1>1. LoopSpec => []LoopInductive
  BY LoopInitInductive, LoopStep, PTL DEF LoopSpec
<1>. QED
  BY <1>1, ParkedOverNothing, PTL DEF LoopInv

=============================================================================
