-------------------------------- MODULE Ring --------------------------------
(***************************************************************************)
(* The drop-oldest ring of crates/broker/src/ring.rs: one producer, one    *)
(* consumer, and per slot a stamp that says which absolute index the slot  *)
(* holds and who owns it.                                                  *)
(*                                                                         *)
(* Every load, store and compare-exchange on an atomic, and every access   *)
(* to a slot's value, is a step of its own, so the two threads interleave  *)
(* between any two of them.  The source makes all stamp and index accesses *)
(* SeqCst, which is what licenses reasoning by interleaving.               *)
(*                                                                         *)
(* Records are numbered in the order push and offer are called, so         *)
(* "older" is "<".  A slot whose value has been moved out holds NoRecord:  *)
(* the MaybeUninit of the source with nothing in it.                       *)
(***************************************************************************)
EXTENDS Integers, FiniteSets

CONSTANTS
  Capacity,    (* How many records the ring holds (Ring::split).           *)
  MaxRecords   (* Bound: how many records are pushed or offered in all.    *)

ASSUME CapacityAssumption == Capacity \in Nat \ {0}
ASSUME MaxRecordsAssumption == MaxRecords \in Nat

VARIABLES
  stamp,       (* [Slots -> Stamp]: the slot's AtomicU64.                  *)
  value,       (* [Slots -> record or NoRecord]: the slot's UnsafeCell.    *)
  write, read, (* Published indices, read by len alone.                    *)
  dropped,     (* The drop counter.                                        *)
  pPc, pIndex, pCursor,       (* The Producer handle and where it is.      *)
  op, reloaded,               (* The call in progress; push's local flag.  *)
  pHand,       (* The record the caller handed over, until it is moved.    *)
  pOut,        (* The record an eviction moved out, until it is returned.  *)
  cPc, cIndex, cCursor,       (* The Consumer handle and where it is.      *)
  cHand,       (* The record pop moved out, until pop returns it.          *)
  next,        (* History: how many records were pushed or offered.        *)
  result,      (* History: what the last push or offer returned.           *)
  arrived,     (* History: the records pop returned.                       *)
  returned,    (* History: the records push and offer gave back.           *)
  discarded,   (* History: the records dropped with the ring.              *)
  gone         (* The shared ring has been dropped.                        *)

producerVars == <<pPc, pIndex, pCursor, op, reloaded, pHand, pOut, next, result, returned>>
consumerVars == <<cPc, cIndex, cCursor, cHand, arrived>>
sharedVars   == <<stamp, value, write, read, dropped>>
dropVars     == <<discarded, gone>>
vars         == <<producerVars, consumerVars, sharedVars, dropVars>>

NoRecord == -1
Slots    == 0..(Capacity - 1)
States   == {"EMPTY", "FULL", "HELD_BY_PRODUCER", "HELD_BY_CONSUMER"}
Stamp    == [index : Nat, state : States]

(* The stamp naming absolute index i in state s. *)
At(i, s) == [index |-> i, state |-> s]

(* The slot after c, wrapping where the ring ends. *)
NextCursor(c) == IF c + 1 = Capacity THEN 0 ELSE c + 1

Init ==
  /\ stamp = [s \in Slots |-> At(s, "EMPTY")]
  /\ value = [s \in Slots |-> NoRecord]
  /\ write = 0 /\ read = 0 /\ dropped = 0
  /\ pPc = "idle" /\ pIndex = 0 /\ pCursor = 0
  /\ op = "push" /\ reloaded = FALSE
  /\ pHand = NoRecord /\ pOut = NoRecord
  /\ cPc = "idle" /\ cIndex = 0 /\ cCursor = 0 /\ cHand = NoRecord
  /\ next = 0 /\ result = "none"
  /\ arrived = {} /\ returned = {} /\ discarded = {} /\ gone = FALSE

-----------------------------------------------------------------------------
(* The producer: push and offer. *)

(* The producer thread enters push or offer with the next record. *)
Call(o) ==
  /\ pPc = "idle" /\ next < MaxRecords
  /\ pPc' = IF o = "push" THEN "load" ELSE "offer"
  /\ op' = o /\ reloaded' = FALSE
  /\ pHand' = next /\ next' = next + 1
  /\ UNCHANGED <<pIndex, pCursor, pOut, result, returned>>
  /\ UNCHANGED <<consumerVars, sharedVars, dropVars>>

(* Mutant: push waits for the consumer to leave the slot. *)
PushLoad_Waits ==
  LET current == stamp[pCursor] IN
  /\ pPc = "load"
  /\ pPc' = CASE current = At(pIndex, "EMPTY") -> "fill"
              [] current = At(pIndex - Capacity, "FULL") -> "claim"
              [] OTHER -> "load"
  /\ UNCHANGED <<pIndex, pCursor, op, reloaded, pHand, pOut, next, result, returned>>
  /\ UNCHANGED <<consumerVars, sharedVars, dropVars>>

(* Mutant: push turns the newest record away whenever the ring is full. *)
PushLoad_DropsNewest ==
  /\ pPc = "load"
  /\ pPc' = IF stamp[pCursor] = At(pIndex, "EMPTY") THEN "fill" ELSE "count"
  /\ UNCHANGED <<pIndex, pCursor, op, reloaded, pHand, pOut, next, result, returned>>
  /\ UNCHANGED <<consumerVars, sharedVars, dropVars>>

(* push loads the stamp of the slot its index falls on: free for this      *)
(* index, full of the record one lap back, or being read, which it looks   *)
(* at once more before it gives its record back.  The source has no other  *)
(* arm but a panic.                                                        *)
PushLoad ==
  LET current == stamp[pCursor] IN
  /\ pPc = "load"
  /\ pPc' = CASE current = At(pIndex, "EMPTY") -> "fill"
              [] current = At(pIndex - Capacity, "FULL") -> "claim"
              [] current.state = "HELD_BY_CONSUMER" -> IF reloaded THEN "count" ELSE "load"
              [] OTHER -> "panic"
  /\ reloaded' = (reloaded \/ current.state = "HELD_BY_CONSUMER")
  /\ UNCHANGED <<pIndex, pCursor, op, pHand, pOut, next, result, returned>>
  /\ UNCHANGED <<consumerVars, sharedVars, dropVars>>

(* offer loads the same stamp once, and takes any answer but free as full. *)
OfferLoad ==
  /\ pPc = "offer"
  /\ pPc' = IF stamp[pCursor] = At(pIndex, "EMPTY") THEN "fill" ELSE "count"
  /\ UNCHANGED <<pIndex, pCursor, op, reloaded, pHand, pOut, next, result, returned>>
  /\ UNCHANGED <<consumerVars, sharedVars, dropVars>>

(* The compare-exchange by which push takes the oldest record's slot. *)
PushClaim ==
  LET oldest == pIndex - Capacity
      won    == stamp[pCursor] = At(oldest, "FULL")
  IN
  /\ pPc = "claim"
  /\ pPc' = IF won THEN "take" ELSE "load"
  /\ stamp' = IF won THEN [stamp EXCEPT ![pCursor] = At(oldest, "HELD_BY_PRODUCER")]
                     ELSE stamp
  /\ UNCHANGED <<pIndex, pCursor, op, reloaded, pHand, pOut, next, result, returned>>
  /\ UNCHANGED <<value, write, read, dropped, consumerVars, dropVars>>

(* push moves the evicted record out of the slot it has taken. *)
PushTake ==
  /\ pPc = "take"
  /\ pPc' = "fill"
  /\ pOut' = value[pCursor]
  /\ value' = [value EXCEPT ![pCursor] = NoRecord]
  /\ UNCHANGED <<pIndex, pCursor, op, reloaded, pHand, next, result, returned>>
  /\ UNCHANGED <<stamp, write, read, dropped, consumerVars, dropVars>>

(* push or offer moves the caller's record into the slot. *)
Fill ==
  /\ pPc = "fill"
  /\ pPc' = "publish"
  /\ value' = [value EXCEPT ![pCursor] = pHand]
  /\ pHand' = NoRecord
  /\ UNCHANGED <<pIndex, pCursor, op, reloaded, pOut, next, result, returned>>
  /\ UNCHANGED <<stamp, write, read, dropped, consumerVars, dropVars>>

(* push or offer stamps the slot full; an eviction is then counted. *)
Publish ==
  /\ pPc = "publish"
  /\ pPc' = IF pOut = NoRecord THEN "advance" ELSE "count"
  /\ stamp' = [stamp EXCEPT ![pCursor] = At(pIndex, "FULL")]
  /\ UNCHANGED <<pIndex, pCursor, op, reloaded, pHand, pOut, next, result, returned>>
  /\ UNCHANGED <<value, write, read, dropped, consumerVars, dropVars>>

(* dropped.fetch_add(1): a refusal then returns, an eviction advances. *)
Count ==
  /\ pPc = "count"
  /\ dropped' = dropped + 1
  /\ IF pHand = NoRecord
       THEN /\ pPc' = "advance"
            /\ UNCHANGED <<pHand, result, returned>>
       ELSE /\ pPc' = "idle"
            /\ result' = "Refused" /\ returned' = returned \cup {pHand}
            /\ pHand' = NoRecord
  /\ UNCHANGED <<pIndex, pCursor, op, reloaded, pOut, next>>
  /\ UNCHANGED <<stamp, value, write, read, consumerVars, dropVars>>

(* Producer::advance, after which push or offer returns. *)
ProducerAdvance ==
  /\ pPc = "advance"
  /\ pPc' = "idle"
  /\ pIndex' = pIndex + 1
  /\ pCursor' = NextCursor(pCursor)
  /\ write' = pIndex + 1
  /\ result' = IF pOut = NoRecord THEN "Stored" ELSE "Evicted"
  /\ returned' = returned \cup ({pOut} \ {NoRecord})
  /\ pOut' = NoRecord
  /\ UNCHANGED <<op, reloaded, pHand, next>>
  /\ UNCHANGED <<stamp, value, read, dropped, consumerVars, dropVars>>

-----------------------------------------------------------------------------
(* The consumer: pop. *)

(* The consumer thread enters pop. *)
PopCall ==
  /\ cPc = "idle"
  /\ cPc' = "look"
  /\ UNCHANGED <<cIndex, cCursor, cHand, arrived>>
  /\ UNCHANGED <<producerVars, sharedVars, dropVars>>

(* Mutant: a slot the producer is inside of a lap later is stepped over. *)
PopLook_NoLapCheck ==
  LET current == stamp[cCursor] IN
  /\ cPc = "look"
  /\ cPc' = IF current = At(cIndex, "EMPTY") THEN "idle"
            ELSE IF current = At(cIndex, "FULL") THEN "claim"
            ELSE "advance"
  /\ UNCHANGED <<cIndex, cCursor, cHand, arrived>>
  /\ UNCHANGED <<producerVars, sharedVars, dropVars>>

(* pop loads the stamp of the slot its index falls on.  A slot free for    *)
(* this index, or one the producer is inside of a lap later, ends the call *)
(* with nothing; a record this index is owed is claimed; anything else was *)
(* evicted and is stepped over.                                            *)
PopLook ==
  LET current == stamp[cCursor] IN
  /\ cPc = "look"
  /\ cPc' = IF current = At(cIndex, "EMPTY") \/ current.index < cIndex THEN "idle"
            ELSE IF current = At(cIndex, "FULL") THEN "claim"
            ELSE "advance"
  /\ UNCHANGED <<cIndex, cCursor, cHand, arrived>>
  /\ UNCHANGED <<producerVars, sharedVars, dropVars>>

(* Mutant: the slot is stamped without a compare-exchange. *)
PopClaim_Unchecked ==
  /\ cPc = "claim"
  /\ cPc' = "take"
  /\ stamp' = [stamp EXCEPT ![cCursor] = At(cIndex, "HELD_BY_CONSUMER")]
  /\ UNCHANGED <<cIndex, cCursor, cHand, arrived>>
  /\ UNCHANGED <<value, write, read, dropped, producerVars, dropVars>>

(* The compare-exchange by which pop takes the record it is owed. *)
PopClaim ==
  LET won == stamp[cCursor] = At(cIndex, "FULL") IN
  /\ cPc = "claim"
  /\ cPc' = IF won THEN "take" ELSE "advance"
  /\ stamp' = IF won THEN [stamp EXCEPT ![cCursor] = At(cIndex, "HELD_BY_CONSUMER")]
                     ELSE stamp
  /\ UNCHANGED <<cIndex, cCursor, cHand, arrived>>
  /\ UNCHANGED <<value, write, read, dropped, producerVars, dropVars>>

(* pop moves the record out of the slot it has taken. *)
PopTake ==
  /\ cPc = "take"
  /\ cPc' = "release"
  /\ cHand' = value[cCursor]
  /\ value' = [value EXCEPT ![cCursor] = NoRecord]
  /\ UNCHANGED <<cIndex, cCursor, arrived>>
  /\ UNCHANGED <<stamp, write, read, dropped, producerVars, dropVars>>

(* Mutant: the slot is stamped free for the lap that is over. *)
PopRelease_SameLap ==
  /\ cPc = "release"
  /\ cPc' = "advance"
  /\ stamp' = [stamp EXCEPT ![cCursor] = At(cIndex, "EMPTY")]
  /\ UNCHANGED <<cIndex, cCursor, cHand, arrived>>
  /\ UNCHANGED <<value, write, read, dropped, producerVars, dropVars>>

(* pop stamps the slot free for the index one lap on. *)
PopRelease ==
  /\ cPc = "release"
  /\ cPc' = "advance"
  /\ stamp' = [stamp EXCEPT ![cCursor] = At(cIndex + Capacity, "EMPTY")]
  /\ UNCHANGED <<cIndex, cCursor, cHand, arrived>>
  /\ UNCHANGED <<value, write, read, dropped, producerVars, dropVars>>

(* Consumer::advance: pop returns the record it took, or having stepped    *)
(* over an evicted one looks at the next slot.                             *)
ConsumerAdvance ==
  /\ cPc = "advance"
  /\ cPc' = IF cHand = NoRecord THEN "look" ELSE "idle"
  /\ cIndex' = cIndex + 1
  /\ cCursor' = NextCursor(cCursor)
  /\ read' = cIndex + 1
  /\ arrived' = arrived \cup ({cHand} \ {NoRecord})
  /\ cHand' = NoRecord
  /\ UNCHANGED <<stamp, value, write, dropped, producerVars, dropVars>>

-----------------------------------------------------------------------------
(* The end of the ring. *)

(* The producer's handle is dropped, between two calls. *)
DropProducer ==
  /\ pPc = "idle" /\ pPc' = "gone"
  /\ UNCHANGED <<pIndex, pCursor, op, reloaded, pHand, pOut, next, result, returned>>
  /\ UNCHANGED <<consumerVars, sharedVars, dropVars>>

(* The consumer's handle is dropped, between two calls. *)
DropConsumer ==
  /\ cPc = "idle" /\ cPc' = "gone"
  /\ UNCHANGED <<cIndex, cCursor, cHand, arrived>>
  /\ UNCHANGED <<producerVars, sharedVars, dropVars>>

(* Drop for Ring: the last Arc is gone, and the full slots' records go.    *)
DropRing ==
  LET full == {s \in Slots : stamp[s].state = "FULL"} IN
  /\ pPc = "gone" /\ cPc = "gone" /\ ~gone
  /\ gone' = TRUE
  /\ discarded' = {value[s] : s \in full}
  /\ value' = [s \in Slots |-> IF s \in full THEN NoRecord ELSE value[s]]
  /\ UNCHANGED <<stamp, write, read, dropped, producerVars, consumerVars>>

-----------------------------------------------------------------------------
ProducerStep ==
  \/ PushLoad \/ OfferLoad \/ PushClaim \/ PushTake
  \/ Fill \/ Publish \/ Count \/ ProducerAdvance

ConsumerStep ==
  PopLook \/ PopClaim \/ PopTake \/ PopRelease \/ ConsumerAdvance

Next ==
  \/ \E o \in {"push", "offer"} : Call(o)
  \/ ProducerStep
  \/ PopCall
  \/ ConsumerStep
  \/ DropProducer \/ DropConsumer \/ DropRing

Spec == Init /\ [][Next]_vars

(* The producer's thread runs; the consumer's may stop for good anywhere.  *)
ProducerFairSpec == Spec /\ WF_vars(ProducerStep)

(* The consumer's thread runs too and keeps calling pop, as drain loops do, *)
(* and the last handle to go takes the ring with it.                       *)
ConsumerRuns == WF_vars(PopCall \/ ConsumerStep) /\ WF_vars(DropRing)

-----------------------------------------------------------------------------
(* What the properties speak of. *)

FullSlots == {s \in Slots : stamp[s].state = "FULL"}
Held      == {value[s] : s \in FullSlots} \ {NoRecord}
InSlots   == {value[s] : s \in Slots} \ {NoRecord}
Hand(h)   == {h} \ {NoRecord}

(* Ring::len as the consumer's end reads it: its own index is exact.       *)
Depth == IF write > read THEN IF write - read < Capacity THEN write - read ELSE Capacity
                         ELSE 0

(* Each end is inside a slot from the step that wins it to the step that   *)
(* publishes a new stamp on it.                                            *)
ProducerInside == pPc \in {"take", "fill", "publish"}
ConsumerInside == cPc \in {"take", "release"}

-----------------------------------------------------------------------------
(* Every variable ranges over the values its field can hold. *)
TypeOK ==
  /\ stamp \in [Slots -> Stamp]
  /\ value \in [Slots -> Nat \cup {NoRecord}]
  /\ write \in Nat /\ read \in Nat /\ dropped \in Nat
  /\ pPc \in {"idle", "load", "offer", "claim", "take", "fill", "publish",
              "count", "advance", "panic", "gone"}
  /\ pIndex \in Nat /\ pCursor \in Slots
  /\ op \in {"push", "offer"} /\ reloaded \in BOOLEAN
  /\ pHand \in Nat \cup {NoRecord} /\ pOut \in Nat \cup {NoRecord}
  /\ cPc \in {"idle", "look", "claim", "take", "release", "advance", "gone"}
  /\ cIndex \in Nat /\ cCursor \in Slots
  /\ cHand \in Nat \cup {NoRecord}
  /\ next \in Nat /\ result \in {"none", "Stored", "Evicted", "Refused"}
  /\ arrived \subseteq Nat /\ returned \subseteq Nat
  /\ discarded \subseteq Nat \cup {NoRecord}
  /\ gone \in BOOLEAN

(* The SAFETY comments of ring.rs: a slot's value is never reached by both *)
(* ends at once, and each end moves out only a value that is there and     *)
(* writes only over nothing.                                               *)
SlotsAreExclusive ==
  /\ ~ (ProducerInside /\ ConsumerInside /\ pCursor = cCursor)
  /\ pPc = "take" => value[pCursor] # NoRecord
  /\ pPc = "fill" => value[pCursor] = NoRecord
  /\ cPc = "take" => value[cCursor] # NoRecord

(* push meets neither its unreachable! arm nor its failing debug_assert:   *)
(* the slot at its index is free for it, or full or being read one lap     *)
(* back.                                                                   *)
PushNeverPanics == pPc # "panic"

(* pop answers None only when no slot holds a record: nothing is left      *)
(* behind the consumer, not even by a producer caught inside the slot pop  *)
(* would have read.                                                        *)
NoneMeansEmpty ==
  [][cPc = "look" /\ cPc' = "idle" => FullSlots = {}]_vars

(* push and offer return whatever the consumer does or has stopped doing:  *)
(* "never blocks ... and never waits on the consumer".                     *)
PushReturns == pPc \in {"load", "offer"} ~> pPc \in {"idle", "gone"}

(* The ring as a queue: a call whose record is undecided; a push that has  *)
(* won the oldest record's slot and owes its own; a pop that has won one;  *)
(* and what has left the queue to either side, returned already or not.    *)
Undecided == IF pPc \in {"load", "offer", "claim", "take", "fill", "publish"} THEN op ELSE "none"
Replacing == \E s \in Slots : stamp[s].state = "HELD_BY_PRODUCER"
Leaving   == \E s \in Slots : stamp[s].state = "HELD_BY_CONSUMER"
Popped    == arrived \cup Hand(cHand) \cup (IF cPc = "take" THEN {value[cCursor]} ELSE {})
GivenBack == returned \cup Hand(pOut)
               \cup (IF pPc = "take" THEN {value[pCursor]} ELSE {})
               \cup (IF pPc = "count" THEN Hand(pHand) ELSE {})

(* The ring implements the queue its callers are promised.  A record        *)
(* leaves the queue, to either side, at the compare-exchange that wins its *)
(* slot, enters it at the stamp that publishes it, and is refused at the   *)
(* load that decides so.                                                   *)
Queue == INSTANCE LossyQueue WITH
  call <- Undecided, replacing <- Replacing, held <- Held, leaving <- Leaving,
  popped <- Popped, returned <- GivenBack

ImplementsQueue == Queue!Spec

(* The comment on Push::Refused: "The consumer is draining at that moment  *)
(* by definition, so the next push finds room."                            *)
NextPushFindsRoom ==
  [][pPc = "load" /\ pPc' = "count" /\ pHand # NoRecord => result # "Refused"]_vars

=============================================================================
