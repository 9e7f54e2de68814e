----------------------------- MODULE WriterLoop -----------------------------
(***************************************************************************)
(* The writer thread of crates/broker/src/fanout.rs as a loop that sleeps: *)
(* how it shares its time between the control channel and the commit ring, *)
(* and the park and wake protocol that puts it to sleep.  What it does     *)
(* with what it takes is in Fanout.                                        *)
(*                                                                         *)
(* The commit ring is Ring, step by step, because the protocol rests on    *)
(* the order of the ring's own stores: a record can be popped before the   *)
(* write index that is_empty reads says it is there.                       *)
(***************************************************************************)
EXTENDS RingInv, Sequences

CONSTANTS
  RecordsPerPass,   (* How many records one pass fans out at most.         *)
  LooksBeforePark,  (* How many empty passes come before a park.           *)
  MaxSends          (* Bound: how many control messages are sent.          *)

ASSUME LoopAssumption ==
  RecordsPerPass \in Nat \ {0} /\ LooksBeforePark \in Nat /\ MaxSends \in Nat

VARIABLES
  parked,    (* ParkFlag.parked.                                           *)
  token,     (* The thread's park token: unpark sets it, park takes it.    *)
  sPc,       (* Where the writer thread is outside pop.                    *)
  fanned,    (* Records fanned out in this pass.                           *)
  passes,    (* empty_passes.                                              *)
  seen,      (* The write index is_empty loaded.                           *)
  wPc,       (* The committing thread after its push: Waker::wake_if_parked *)
  channel,   (* The control channel.                                       *)
  owed,      (* Senders that have sent and not yet unparked.               *)
  sent,      (* How many control messages were sent.                       *)
  waited     (* History: records popped while a control message waited.    *)

loopVars == <<sPc, fanned, passes, seen>>
wakeVars == <<parked, token, wPc>>
sendVars == <<channel, owed, sent>>
allVars  == <<vars, loopVars, wakeVars, sendVars, waited>>

LoopInit ==
  /\ Init
  /\ parked = FALSE /\ token = FALSE
  /\ sPc = "control" /\ fanned = 0 /\ passes = 0 /\ seen = 0
  /\ wPc = "idle"
  /\ channel = <<>> /\ owed = 0 /\ sent = 0 /\ waited = 0

-----------------------------------------------------------------------------
(* The committing thread: Commit::push_addressed. *)

(* Mutant: a push is not followed by a look at the flag. *)
CommitStep_NoWake ==
  /\ wPc = "idle"
  /\ Call("push") \/ ProducerStep
  /\ UNCHANGED <<loopVars, sendVars, parked, token, wPc, waited>>

(* One step of the push; the wake follows whatever the push came to. *)
CommitStep ==
  /\ wPc = "idle"
  /\ Call("push") \/ ProducerStep
  /\ wPc' = IF pPc' = "idle" THEN "wake" ELSE "idle"
  /\ UNCHANGED <<loopVars, sendVars, parked, token, waited>>

(* Waker::wake_if_parked: the load of the flag, then the unpark. *)
WakeLoad ==
  /\ wPc = "wake"
  /\ wPc' = IF parked THEN "unpark" ELSE "idle"
  /\ UNCHANGED <<vars, loopVars, sendVars, parked, token, waited>>

WakeUnpark ==
  /\ wPc = "unpark" /\ wPc' = "idle"
  /\ token' = TRUE
  /\ UNCHANGED <<vars, loopVars, sendVars, parked, waited>>

-----------------------------------------------------------------------------
(* The threads that attach, answer, detach and stop: Connections::send. *)

Stopped == \E i \in DOMAIN channel : channel[i] = "Stop"

(* A message goes into the channel, unless the writer thread is gone. *)
Send(message) ==
  /\ sent < MaxSends /\ sent' = sent + 1
  /\ channel' = IF sPc = "returned" THEN channel ELSE Append(channel, message)
  /\ owed' = owed + 1
  /\ UNCHANGED <<vars, loopVars, wakeVars, waited>>

(* Mutant: the sender wakes the thread only if it finds it parked. *)
SendWake_IfParked ==
  /\ owed > 0 /\ owed' = owed - 1
  /\ token' = (token \/ parked)
  /\ UNCHANGED <<vars, loopVars, channel, sent, parked, wPc, waited>>

(* The unconditional wake that follows each send. *)
SendWake ==
  /\ owed > 0 /\ owed' = owed - 1
  /\ token' = TRUE
  /\ UNCHANGED <<vars, loopVars, channel, sent, parked, wPc, waited>>

-----------------------------------------------------------------------------
(* The writer thread: Writer::run. *)

(* It takes every control message there is before it looks at the ring. *)
TakeControl ==
  /\ sPc = "control" /\ channel # <<>> /\ Head(channel) # "Stop"
  /\ channel' = Tail(channel)
  /\ waited' = 0
  /\ UNCHANGED <<vars, loopVars, wakeVars, owed, sent>>

(* A stop, or every sender gone, ends the thread and drops its end. *)
TakeStop ==
  /\ sPc = "control" /\ channel # <<>> /\ Head(channel) = "Stop"
  /\ channel' = <<>> /\ sPc' = "returned"
  /\ waited' = 0
  /\ DropConsumer
  /\ UNCHANGED <<fanned, passes, seen, wakeVars, owed, sent>>

ControlEmpty ==
  /\ sPc = "control" /\ channel = <<>>
  /\ sPc' = "pop" /\ fanned' = 0
  /\ UNCHANGED <<vars, passes, seen, wakeVars, sendVars, waited>>

(* A step inside pop. *)
PopStep ==
  /\ sPc = "pop"
  /\ PopCall \/ ConsumerStep
  /\ cPc' # "idle"
  /\ UNCHANGED <<loopVars, wakeVars, sendVars, waited>>

(* pop hands over a record, which is fanned out; the pass ends at its bound. *)
PopRecord ==
  /\ sPc = "pop"
  /\ ConsumerAdvance /\ cPc' = "idle"
  /\ IF fanned + 1 = RecordsPerPass
       THEN sPc' = "control" /\ fanned' = 0 /\ passes' = 0
       ELSE fanned' = fanned + 1 /\ UNCHANGED <<sPc, passes>>
  /\ waited' = IF channel = <<>> THEN 0 ELSE waited + 1
  /\ UNCHANGED <<seen, wakeVars, sendVars>>

(* pop finds nothing: a pass that fanned something out goes round again,   *)
(* and so does an empty one until enough of them have come in a row.       *)
PopNothing ==
  /\ sPc = "pop"
  /\ PopLook /\ cPc' = "idle"
  /\ sPc' = IF fanned = 0 /\ passes = LooksBeforePark THEN "flag" ELSE "control"
  /\ passes' = IF fanned = 0 /\ passes < LooksBeforePark THEN passes + 1 ELSE 0
  /\ fanned' = 0
  /\ UNCHANGED <<seen, wakeVars, sendVars, waited>>

(* Mutant: the thread parks on the look it took before it raised the flag. *)
RaiseFlag_NoSecondLook ==
  /\ sPc = "flag" /\ sPc' = "park"
  /\ parked' = TRUE
  /\ UNCHANGED <<vars, fanned, passes, seen, token, wPc, sendVars, waited>>

(* ParkFlag::park_unless: the flag goes up, the ring's two indices are     *)
(* loaded, and the thread parks if they say the ring holds nothing.        *)
RaiseFlag ==
  /\ sPc = "flag" /\ sPc' = "write"
  /\ parked' = TRUE
  /\ UNCHANGED <<vars, fanned, passes, seen, token, wPc, sendVars, waited>>

LookAtWrite ==
  /\ sPc = "write" /\ sPc' = "read"
  /\ seen' = write
  /\ UNCHANGED <<vars, fanned, passes, wakeVars, sendVars, waited>>

LookAtRead ==
  /\ sPc = "read"
  /\ sPc' = IF seen > read THEN "lower" ELSE "park"
  /\ UNCHANGED <<vars, fanned, passes, seen, wakeVars, sendVars, waited>>

(* park returns at once with the token, and may return without it. *)
Unparked ==
  /\ sPc = "park" /\ token
  /\ sPc' = "lower" /\ token' = FALSE
  /\ UNCHANGED <<vars, fanned, passes, seen, parked, wPc, sendVars, waited>>

SpuriousWake ==
  /\ sPc = "park" /\ ~token
  /\ sPc' = "lower"
  /\ UNCHANGED <<vars, fanned, passes, seen, wakeVars, sendVars, waited>>

LowerFlag ==
  /\ sPc = "lower" /\ sPc' = "control"
  /\ parked' = FALSE
  /\ UNCHANGED <<vars, fanned, passes, seen, token, wPc, sendVars, waited>>

-----------------------------------------------------------------------------
CommitThread == CommitStep \/ WakeLoad \/ WakeUnpark

(* The writer thread's own steps: every one but a wake out of nowhere.     *)
WriterThread ==
  \/ TakeControl \/ TakeStop \/ ControlEmpty
  \/ PopStep \/ PopRecord \/ PopNothing
  \/ RaiseFlag \/ LookAtWrite \/ LookAtRead \/ Unparked \/ LowerFlag

LoopNext ==
  \/ CommitThread
  \/ Send("change") \/ (~Stopped /\ sPc # "returned" /\ Send("Stop"))
  \/ SendWake
  \/ WriterThread
  \/ SpuriousWake

LoopSpec == LoopInit /\ [][LoopNext]_allVars

(* A push that has begun goes on, a send is followed by its wake, and the  *)
(* writer thread runs.  Nothing obliges anyone to push or send again.      *)
LoopFairSpec ==
  /\ LoopSpec
  /\ WF_allVars(CommitThread /\ ~Call("push"))
  /\ WF_allVars(SendWake)
  /\ WF_allVars(WriterThread)

-----------------------------------------------------------------------------
LoopTypeOK ==
  /\ TypeOK
  /\ parked \in BOOLEAN /\ token \in BOOLEAN
  /\ sPc \in {"control", "pop", "flag", "write", "read", "park", "lower", "returned"}
  /\ fanned \in 0..RecordsPerPass /\ passes \in 0..LooksBeforePark
  /\ seen \in Nat
  /\ wPc \in {"idle", "wake", "unpark"}
  /\ channel \in Seq({"change", "Stop"})
  /\ owed \in Nat /\ sent \in Nat /\ waited \in Nat

(* The argument of Waker::wake_if_parked: the thread is never asleep over  *)
(* a record whose push has returned, nor over a control message whose      *)
(* sender has returned, unless its wake is already on its way.             *)
SleepsOnNothing ==
  sPc = "park" /\ ~token =>
    /\ pPc = "idle" /\ wPc = "idle" => FullSlots = {}
    /\ owed = 0 => channel = <<>>

(* "An attach or an answer waits at most one batch, never a flood." *)
ControlWaitsOneBatch == waited <= RecordsPerPass

(* The thread is inside pop only in the batch loop, and its published      *)
(* index is its own, as the committing thread's is.                        *)
PopIsInBatch ==
  /\ cPc = "gone" <=> sPc = "returned"
  /\ sPc \notin {"pop", "returned"} => cPc = "idle"
  /\ write = pIndex /\ read = cIndex

(* From the look at the channel to the park no message comes unseen: its   *)
(* sender is about to wake the thread or has.                              *)
SendsAreSeen ==
  sPc \in {"pop", "flag", "write", "read", "park"} /\ channel # <<>> => owed > 0 \/ token

(* Once the write index is loaded under the flag, a push that moves it on  *)
(* wakes the thread; and a parked thread had popped all that index showed. *)
PushesAreSeen ==
  /\ parked <=> sPc \in {"write", "read", "park", "lower"}
  /\ sPc \in {"read", "park"} /\ seen < write => token \/ wPc # "idle"
  /\ sPc = "park" => seen <= read

(* A control message waits out only records of the batch under way.        *)
WaitsInBatch ==
  /\ channel = <<>> => waited = 0
  /\ sPc = "pop" => waited <= fanned /\ fanned < RecordsPerPass

(* Where the threads are and what they have told each other: an inductive  *)
(* invariant.                                                              *)
LoopInductive ==
  /\ LoopTypeOK /\ OwnershipInv
  /\ PopIsInBatch /\ SendsAreSeen /\ PushesAreSeen /\ WaitsInBatch
  /\ ControlWaitsOneBatch

(* What holds of the loop at every step: the thread never sleeps over work *)
(* and never lets a control message wait out more than one batch.          *)
LoopInv == LoopInductive /\ SleepsOnNothing

(* Every record committed is fanned out, or was turned away by the ring,   *)
(* though nothing is committed after it to wake the thread again.          *)
CommittedIsFanned ==
  \A r \in 0..(MaxRecords - 1) :
    r < next ~> r \in arrived \cup returned \/ sPc = "returned"

(* A Stop ends the thread, which is what dropping the Writer waits for,    *)
(* however long the ring stays busy and whenever the thread went to sleep. *)
StopReturns == Stopped ~> sPc = "returned"

=============================================================================
