----------------------------- MODULE LossyQueue -----------------------------
(***************************************************************************)
(* What the ring of crates/broker/src/ring.rs promises its two callers: a  *)
(* bounded queue that a push never waits on.  A record pushed into a full  *)
(* queue replaces the oldest one, a record offered to a full queue is      *)
(* given back, and pop takes the oldest.  Records are numbered in the      *)
(* order they are handed in, so the oldest of a set is its least member.   *)
(*                                                                         *)
(* The one thing a caller can see of the two threads is that a record      *)
(* being popped takes up room until its pop is over; a push that finds the *)
(* queue full only because of it gives its record back.                    *)
(***************************************************************************)
EXTENDS Integers, FiniteSets

CONSTANT Capacity   (* How many records the queue holds.                   *)

VARIABLES
  next,       (* How many records have been handed in.                     *)
  call,       (* "push" or "offer" while its record is undecided, else     *)
              (* "none".                                                   *)
  replacing,  (* The push under way has evicted and now owes its record.   *)
  held,       (* The records the queue holds.                              *)
  leaving,    (* A record being popped still takes up room.                *)
  popped, returned, discarded

vars == <<next, call, replacing, held, leaving, popped, returned, discarded>>

Room    == Cardinality(held) + (IF leaving THEN 1 ELSE 0) < Capacity
IsOldest(r) == r \in held /\ \A s \in held : r <= s
Newest  == next - 1

Init ==
  /\ next = 0 /\ call = "none" /\ replacing = FALSE
  /\ held = {} /\ leaving = FALSE
  /\ popped = {} /\ returned = {} /\ discarded = {}

(* A caller hands in the next record, to push or to offer. *)
HandIn(o) ==
  /\ call = "none" /\ call' = o
  /\ next' = next + 1
  /\ UNCHANGED <<replacing, held, leaving, popped, returned, discarded>>

(* The record goes in. *)
Put ==
  /\ call # "none" /\ Room
  /\ held' = held \cup {Newest}
  /\ call' = "none" /\ replacing' = FALSE
  /\ UNCHANGED <<next, leaving, popped, returned, discarded>>

(* A push finds the queue full of waiting records and gives up the oldest. *)
Evict ==
  /\ call = "push" /\ ~replacing /\ Cardinality(held) = Capacity
  /\ \E r \in held :
       /\ IsOldest(r)
       /\ held' = held \ {r}
       /\ returned' = returned \cup {r}
  /\ replacing' = TRUE
  /\ UNCHANGED <<next, call, leaving, popped, discarded>>

(* The record is given back: an offer to a full queue, or a push into one  *)
(* that is full because of the record being popped.                        *)
Refuse ==
  /\ call # "none" /\ ~replacing /\ ~Room
  /\ call = "push" => leaving
  /\ returned' = returned \cup {Newest}
  /\ call' = "none"
  /\ UNCHANGED <<next, replacing, held, leaving, popped, discarded>>

(* The oldest record is popped, and then its room is free. *)
Take ==
  /\ ~leaving /\ leaving' = TRUE
  /\ \E r \in held :
       /\ IsOldest(r)
       /\ held' = held \ {r}
       /\ popped' = popped \cup {r}
  /\ UNCHANGED <<next, call, replacing, returned, discarded>>

Leave ==
  /\ leaving /\ leaving' = FALSE
  /\ UNCHANGED <<next, call, replacing, held, popped, returned, discarded>>

(* The queue is dropped with what it holds, between calls. *)
Discard ==
  /\ call = "none" /\ ~leaving
  /\ discarded' = held /\ held' = {}
  /\ UNCHANGED <<next, call, replacing, leaving, popped, returned>>

Next ==
  \/ \E o \in {"push", "offer"} : HandIn(o)
  \/ Put \/ Evict \/ Refuse \/ Take \/ Leave \/ Discard

Spec == Init /\ [][Next]_vars

=============================================================================
