------------------------------- MODULE RingInv -------------------------------
(***************************************************************************)
(* The inductive invariant of Ring: what the indices, the stamps, the two  *)
(* threads' positions and the slots' values have to do with each other at  *)
(* every step.  It is checked by TLC as an invariant and proved to be one  *)
(* in WriterLoopProofs.                                                    *)
(***************************************************************************)
EXTENDS Ring

(* Indices below this one have been published in a slot. *)
Stored ==
  IF pPc = "advance" \/ (pPc = "count" /\ pHand = NoRecord) THEN pIndex + 1
                                                            ELSE pIndex

(* Each cursor is its index modulo the capacity, and a stamp names only    *)
(* indices that fall on its slot.                                          *)
Alignment ==
  /\ pCursor = pIndex % Capacity
  /\ cCursor = cIndex % Capacity
  /\ \A s \in Slots : stamp[s].index % Capacity = s

(* An empty slot waits for its next index, and the consumer has been past  *)
(* the index before it.  Only a producer about to publish has put a value  *)
(* there.                                                                  *)
EmptySlot(s) ==
  /\ Stored <= stamp[s].index /\ stamp[s].index < Stored + Capacity
  /\ \/ stamp[s].index < cIndex + Capacity
     \/ stamp[s].index = cIndex + Capacity /\ cPc = "advance" /\ cHand # NoRecord
  /\ value[s] # NoRecord <=> (pPc = "publish" /\ s = pCursor)

(* A full slot holds one of the last records stored, and the consumer is   *)
(* not past it nor about to step over it.                                  *)
FullSlot(s) ==
  /\ Stored <= stamp[s].index + Capacity /\ stamp[s].index < Stored
  /\ cIndex <= stamp[s].index
  /\ cIndex = stamp[s].index => cPc \in {"idle", "look", "claim", "gone"}
  /\ gone \/ value[s] # NoRecord

(* A slot the producer holds is at its cursor, one lap back. *)
ProducerSlot(s) ==
  /\ s = pCursor /\ pIndex = stamp[s].index + Capacity
  /\ ProducerInside
  /\ value[s] # NoRecord <=> pPc \in {"take", "publish"}

(* A slot the consumer holds is at its cursor, on this lap. *)
ConsumerSlot(s) ==
  /\ s = cCursor /\ cIndex = stamp[s].index
  /\ ConsumerInside
  /\ Stored <= cIndex + Capacity
  /\ value[s] # NoRecord <=> cPc = "take"

SlotOk(s) ==
  /\ stamp[s].state = "EMPTY" => EmptySlot(s)
  /\ stamp[s].state = "FULL" => FullSlot(s)
  /\ stamp[s].state = "HELD_BY_PRODUCER" => ProducerSlot(s)
  /\ stamp[s].state = "HELD_BY_CONSUMER" => ConsumerSlot(s)

SlotInv == \A s \in Slots : SlotOk(s)

(* The producer between two steps: what it holds and what its slot says.   *)
ProducerInv ==
  /\ pPc # "panic"
  /\ pPc = "claim" => pIndex >= Capacity
  /\ pHand # NoRecord => pPc \in {"load", "offer", "claim", "take", "fill", "count"}
  /\ pPc \in {"load", "offer", "claim", "take", "fill"} => pHand # NoRecord
  /\ pOut # NoRecord => pPc \in {"fill", "publish", "count", "advance"}
  /\ pPc = "count" => (pOut # NoRecord <=> pHand = NoRecord)
  /\ pPc \in {"fill", "publish"} /\ pOut = NoRecord
       => stamp[pCursor] = At(pIndex, "EMPTY")
  /\ pPc = "take" \/ (pPc \in {"fill", "publish"} /\ pOut # NoRecord)
       => stamp[pCursor].state = "HELD_BY_PRODUCER"

(* The consumer between two steps, which never overtakes the producer.     *)
ConsumerInv ==
  /\ cIndex <= Stored
  /\ cPc \in {"claim", "take", "release", "advance"} => cIndex < Stored
  /\ ConsumerInside => stamp[cCursor] = At(cIndex, "HELD_BY_CONSUMER")
  /\ cHand # NoRecord => cPc \in {"release", "advance"}
  /\ cPc = "release" => cHand # NoRecord
  /\ gone => pPc = "gone" /\ cPc = "gone"

OwnershipInv == TypeOK /\ Alignment /\ SlotInv /\ ProducerInv /\ ConsumerInv

(* The record of the push or offer under way is the newest, wherever it    *)
(* is; every record waiting is older, and they wait in the order they came *)
(* in.                                                                     *)
OrderInv ==
  /\ pPc \in {"load", "claim", "take"} => op = "push"
  /\ pPc = "offer" => op = "offer"
  /\ pHand # NoRecord => pHand = next - 1
  /\ pPc = "publish" => value[pCursor] = next - 1
  /\ \A s \in FullSlots :
       /\ value[s] < next
       /\ pPc \in {"load", "offer", "claim", "take", "fill", "publish"} => value[s] < next - 1
  /\ ~gone => \A s, t \in FullSlots : stamp[s].index < stamp[t].index => value[s] < value[t]

(* What holds of the ring at every step: who owns which slot, and in what  *)
(* order the records wait.                                                 *)
RingInvariant == OwnershipInv /\ OrderInv

=============================================================================
