------------------------------- MODULE Outbox -------------------------------
(***************************************************************************)
(* One connection's outbound queue, of crates/broker/src/fanout.rs: the    *)
(* writer thread's Outbox, which numbers a record and puts it in the ring  *)
(* of its class, and the drainer's Drain, which merges the three rings     *)
(* back into the order of the numbers while the writer thread goes on.     *)
(*                                                                         *)
(* A ring is the LossyQueue that Ring implements: an eviction and the put  *)
(* that follows it are two steps, and so are taking a record and freeing   *)
(* its room, with the other thread in between.                             *)
(***************************************************************************)
EXTENDS Integers, FiniteSets

CONSTANTS
  Capacity,   (* [Rings -> how many records each ring holds].              *)
  MaxSeq      (* Bound: how many records are pushed.                       *)

Lossy == 1
Durable == 2
Lifecycle == 3
Rings == 1..3        (* In the order Drain looks at them.                  *)

ASSUME CapacityAssumption == Capacity \in [Rings -> Nat \ {0}]

VARIABLES
  seq,         (* Connection.next_seq.                                     *)
  queued,      (* [Rings -> the numbers in the ring], the least the oldest. *)
  owing,       (* The ring an eviction made room in, until the put; or 0.  *)
  answers,     (* The numbers that are broker answers (Queued.answer).     *)
  dropped,     (* [lossy, durable, broker_answer]: Counts' drop counters.  *)
  closed,      (* The LIFECYCLE ring has refused a boundary.               *)
  held,        (* [Rings -> Drain's held record, or 0].                    *)
  leaving,     (* The ring the drainer is moving a record out of, or 0.    *)
  dPc, at,     (* The drainer: between pops, or at which ring of a pass.   *)
  popped,      (* Drain::pop's local flag.                                 *)
  passes,      (* History: how many passes this pop has begun.             *)
  before,      (* History: numbers below it were in when this pass began.  *)
  ringOf,      (* History: the ring each number went to.                   *)
  lost,        (* History: what the rings turned away.                     *)
  handed       (* History: what pop handed on.                             *)

writerVars == <<seq, owing, answers, dropped, closed, ringOf, lost>>
drainVars  == <<held, leaving, dPc, at, popped, passes, before, handed>>
vars       == <<queued, writerVars, drainVars>>

Nothing == 0

(* Counts, as a connection begins: Dropped, label by label. *)
NoDrops == [lossy |-> 0, durable |-> 0, broker_answer |-> 0]

Init ==
  /\ seq = 1 /\ owing = Nothing /\ answers = {} /\ closed = FALSE
  /\ dropped = NoDrops
  /\ queued = [c \in Rings |-> {}] /\ held = [c \in Rings |-> Nothing]
  /\ leaving = Nothing /\ dPc = "idle" /\ at = 1 /\ popped = FALSE
  /\ passes = 0 /\ before = 1
  /\ ringOf = <<>> /\ lost = {} /\ handed = {}

-----------------------------------------------------------------------------
(* The writer thread: Connection::push and Outbox::push.                   *)

InRing(c) == Cardinality(queued[c]) + (IF leaving = c THEN 1 ELSE 0)

Full(c) == InRing(c) = Capacity[c]

IsOldest(r, c) == r \in queued[c] /\ \A s \in queued[c] : r <= s

(* What is turned away is counted as what it was. *)
Lose(r) ==
  LET label == IF ringOf'[r] = Lossy THEN "lossy"
               ELSE IF r \in answers' THEN "broker_answer" ELSE "durable"
  IN
  /\ lost' = lost \cup {r}
  /\ dropped' = [dropped EXCEPT ![label] = @ + 1]

(* A record for ring c takes the next number whether or not the ring keeps *)
(* it.  With room it goes in; a full ring gives up its oldest record, or   *)
(* turns the new one away while that one is being read.  The LIFECYCLE     *)
(* ring never evicts: the connection is closed instead.                    *)
Number(c, isAnswer) ==
  /\ ~closed /\ owing = Nothing /\ seq <= MaxSeq
  /\ seq' = seq + 1
  /\ answers' = IF isAnswer THEN answers \cup {seq} ELSE answers
  /\ ringOf' = [n \in 1..seq |-> IF n = seq THEN c ELSE ringOf[n]]
  /\ UNCHANGED drainVars

Store(c, isAnswer) ==
  /\ Number(c, isAnswer) /\ ~Full(c)
  /\ queued' = [queued EXCEPT ![c] = @ \cup {seq}]
  /\ UNCHANGED <<owing, closed, lost, dropped>>

Evict(c, isAnswer) ==
  /\ Number(c, isAnswer) /\ c # Lifecycle /\ Full(c) /\ leaving # c
  /\ \E r \in queued[c] :
       /\ IsOldest(r, c)
       /\ queued' = [queued EXCEPT ![c] = @ \ {r}]
       /\ Lose(r)
  /\ owing' = c
  /\ UNCHANGED closed

Refuse(c, isAnswer) ==
  /\ Number(c, isAnswer) /\ c # Lifecycle /\ Full(c) /\ leaving = c
  /\ Lose(seq)
  /\ UNCHANGED <<queued, owing, closed>>

Close(c, isAnswer) ==
  /\ Number(c, isAnswer) /\ c = Lifecycle /\ Full(c)
  /\ closed' = TRUE
  /\ UNCHANGED <<queued, owing, lost, dropped>>

(* The record an eviction made room for goes in. *)
Put ==
  /\ owing # Nothing
  /\ queued' = [queued EXCEPT ![owing] = @ \cup {seq - 1}]
  /\ owing' = Nothing
  /\ UNCHANGED <<seq, answers, dropped, closed, ringOf, lost, drainVars>>

Push(c, isAnswer) ==
  Store(c, isAnswer) \/ Evict(c, isAnswer) \/ Refuse(c, isAnswer) \/ Close(c, isAnswer)

-----------------------------------------------------------------------------
(* The drainer: Drain::pop.                                                *)

(* Numbers below this one have all been put in their rings. *)
Numbered == IF owing = Nothing THEN seq ELSE seq - 1

PassOver == dPc = "look" /\ at \notin Rings

PopCall ==
  /\ dPc = "idle" /\ dPc' = "look"
  /\ at' = 1 /\ popped' = FALSE
  /\ passes' = 1 /\ before' = Numbered
  /\ UNCHANGED <<held, leaving, handed, queued, writerVars>>

(* A ring a record is held from is passed over, and so is an empty one. *)
LookNext ==
  /\ dPc = "look" /\ at \in Rings
  /\ held[at] # Nothing \/ queued[at] = {}
  /\ at' = at + 1
  /\ UNCHANGED <<held, leaving, dPc, popped, passes, before, handed, queued, writerVars>>

LookTake ==
  /\ dPc = "look" /\ at \in Rings /\ held[at] = Nothing
  /\ \E r \in queued[at] :
       /\ IsOldest(r, at)
       /\ queued' = [queued EXCEPT ![at] = @ \ {r}]
       /\ held' = [held EXCEPT ![at] = r]
  /\ leaving' = at /\ dPc' = "leave" /\ popped' = TRUE
  /\ UNCHANGED <<at, passes, before, handed, writerVars>>

(* Ring's pop returns, and the slot is free again. *)
Leave ==
  /\ dPc = "leave" /\ dPc' = "look"
  /\ leaving' = Nothing /\ at' = at + 1
  /\ UNCHANGED <<held, popped, passes, before, handed, queued, writerVars>>

(* A pass that popped something is followed by another. *)
NextPass ==
  /\ PassOver /\ popped
  /\ at' = 1 /\ popped' = FALSE
  /\ passes' = passes + 1 /\ before' = Numbered
  /\ UNCHANGED <<held, leaving, dPc, handed, queued, writerVars>>

(* Mutant: the first ring that has anything goes first. *)
IsLowest_FirstRing(c) == held[c] # Nothing /\ \A d \in 1..(c - 1) : held[d] = Nothing

IsLowest(c) == held[c] # Nothing /\ \A d \in Rings : held[d] # Nothing => held[c] <= held[d]

(* Mutant: one pass is trusted. *)
HandOn_OnePass ==
  /\ PassOver
  /\ \E c \in Rings :
       /\ IsLowest(c)
       /\ held' = [held EXCEPT ![c] = Nothing]
       /\ handed' = handed \cup {held[c]}
  /\ dPc' = "idle"
  /\ UNCHANGED <<leaving, at, popped, passes, before, queued, writerVars>>

(* After a pass that popped nothing the lowest record held is handed on.   *)
HandOn ==
  /\ PassOver /\ ~popped
  /\ \E c \in Rings :
       /\ IsLowest(c)
       /\ held' = [held EXCEPT ![c] = Nothing]
       /\ handed' = handed \cup {held[c]}
  /\ dPc' = "idle"
  /\ UNCHANGED <<leaving, at, popped, passes, before, queued, writerVars>>

PopNone ==
  /\ PassOver /\ ~popped
  /\ \A c \in Rings : held[c] = Nothing
  /\ dPc' = "idle"
  /\ UNCHANGED <<held, leaving, at, popped, passes, before, handed, queued, writerVars>>

DrainStep == LookNext \/ LookTake \/ Leave \/ NextPass \/ HandOn \/ PopNone

-----------------------------------------------------------------------------
(* Answers are Durable. *)
Next ==
  \/ \E c \in Rings : Push(c, FALSE)
  \/ Push(Durable, TRUE)
  \/ Put
  \/ PopCall \/ DrainStep

Spec == Init /\ [][Next]_vars

-----------------------------------------------------------------------------
HeldNow == {held[c] : c \in Rings} \ {Nothing}
Live    == (UNION {queued[c] : c \in Rings}) \cup HeldNow
             \cup (IF owing = Nothing THEN {} ELSE {seq - 1})
ClosedBy == IF closed THEN {seq - 1} ELSE {}
Hands    == {c \in Rings : held[c] # Nothing}

(* Every variable ranges over the values its field can hold, and no ring   *)
(* is over its capacity.                                                   *)
TypeOK ==
  /\ seq \in Nat \ {0} /\ owing \in {Nothing, Lossy, Durable} /\ answers \subseteq Nat
  /\ dropped \in [{"lossy", "durable", "broker_answer"} -> Nat]
  /\ queued \in [Rings -> SUBSET (1..(seq - 1))]
  /\ held \in [Rings -> 0..(seq - 1)]
  /\ leaving \in Rings \cup {Nothing} /\ at \in 1..4
  /\ dPc \in {"idle", "look", "leave"} /\ popped \in BOOLEAN /\ closed \in BOOLEAN
  /\ passes \in Nat /\ before \in 1..seq
  /\ lost \subseteq 1..(seq - 1) /\ handed \subseteq 1..(seq - 1)
  /\ \A c \in Rings : InRing(c) <= Capacity[c]

(* Records come in the order of their numbers, and a number skipped is a   *)
(* record lost: "an eviction... is a gap and not a reorder".  What is lost *)
(* is counted once, under the label of what it was.                        *)
GapsAreLosses ==
  /\ \A r \in handed : \A n \in 1..r : n \in handed \cup lost
  /\ dropped.lossy = Cardinality({r \in lost : ringOf[r] = Lossy})
  /\ dropped.broker_answer = Cardinality(lost \cap answers)
  /\ dropped.durable = Cardinality({r \in lost \ answers : ringOf[r] = Durable})

(* "A pass that pops fills one of three places, so this is four passes at  *)
(* most", however fast the writer thread pushes.                           *)
FourPassesAtMost == passes <= 4

(* A number is in one place: its ring, the drainer's hand, on the way in   *)
(* after an eviction, handed on, lost, or closing the connection.          *)
Placed ==
  /\ ringOf \in [1..(seq - 1) -> Rings]
  /\ \A n \in answers : n < seq /\ n > 0 /\ ringOf[n] = Durable
  /\ \A c \in Rings : \A r \in queued[c] : ringOf[r] = c /\ held[c] < r
  /\ \A c \in Rings : held[c] # Nothing => ringOf[held[c]] = c
  /\ (1..(seq - 1)) \subseteq Live \cup handed \cup lost \cup ClosedBy
  /\ Live \cap (handed \cup lost \cup ClosedBy) = {}

(* Between an eviction and the put there is room for the newest number,    *)
(* which is in no ring yet.                                                *)
PutHasRoom ==
  owing # Nothing =>
    /\ ~closed /\ seq > 1 /\ ringOf[seq - 1] = owing /\ before < seq
    /\ InRing(owing) < Capacity[owing]
    /\ \A c \in Rings : seq - 1 \notin queued[c] /\ held[c] # seq - 1

(* During a pop each pass so far but this one has filled a hand.  A pass   *)
(* that has popped nothing has left behind it only what is younger than    *)
(* itself, and what it holds is older.                                     *)
PassInv ==
  /\ leaving = IF dPc = "leave" THEN at ELSE Nothing
  /\ dPc = "leave" => at \in Rings /\ popped
  /\ dPc # "idle" => passes + (IF popped THEN 1 ELSE 0) <= Cardinality(Hands) + 1
  /\ dPc # "idle" /\ ~popped =>
       /\ \A c \in Rings : held[c] < before
       /\ \A c \in Rings : c < at /\ held[c] = Nothing => \A r \in queued[c] : before <= r

(* What holds of the queue at every step, an inductive invariant: every    *)
(* gap is a loss, counted, in a number of passes that is bounded.          *)
OutboxInv ==
  /\ TypeOK /\ Placed /\ PutHasRoom /\ PassInv
  /\ GapsAreLosses /\ FourPassesAtMost

(* The queue is the stream its connection is promised.                     *)
Promise == INSTANCE Stream WITH
  live <- Live,
  lost <- lost \cup ClosedBy

ImplementsStream == Promise!Spec

=============================================================================
