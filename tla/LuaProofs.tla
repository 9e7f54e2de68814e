----------------------------- MODULE LuaProofs -----------------------------
(***************************************************************************)
(* The Lua side, for any values of its constants.  The hook driver handles *)
(* each command once and in order, runs on the file the broker took, and   *)
(* has the sim driver run once in a load; a record goes where its own      *)
(* begin said and comes to one counted end; a call that takes a table      *)
(* takes it whole or refuses it, and leaves nothing behind.  The three     *)
(* specifications share no name, so that one module reasons about each.    *)
(***************************************************************************)
EXTENDS HookDriver, Encoder, Shim, FiniteSetTheorems, FunctionTheorems, SequenceTheorems, TLAPS

Ends == {"discarded", "run", "dropped", "refused", "reloaded"}
Sent == 1..Len(topicOf)

Starting == {"read", "open", "configure"}
Handling == {"take", "handle", "reload", "store"}
Running  == {"switch", "register", "idle", "inject", "dispatch"} \cup Handling

(* A command is where it was put: on the ring, held between two            *)
(* dispatches, in the hands of the one under way, or handled.              *)
CommandInv ==
  /\ topicOf \in Seq(Topics) /\ ring \in Seq(Sent)
  /\ done \in Seq([n : Sent, what : Ends])
  /\ held \in Sent \cup {None} /\ frame.record \in Sent \cup {None}
  /\ pc \in Handling => held = None
  /\ pc \notin Handling => frame.record = None
  /\ pc \in {"handle", "reload", "store"} => frame.record # None

(* The file in force is the one start read, until a reload's is taken by   *)
(* the broker first and the driver next; the ring keeps its size, and the  *)
(* route is the one installed.                                             *)
FileInv ==
  /\ file \in Files \cup {None}
  /\ pc = "read" => (IF file = None THEN Defaults ELSE file).route = installed /\ conf = None
  /\ conf # None => conf \in Settings /\ conf.route = installed /\ conf.memory >= rings
  /\ pc \in {"open", "configure"} => conf # None /\ rings = conf.ring
  /\ pc \in Starting => ~broker.bound
  /\ pc \in Running => broker.bound
  /\ rings \in Nat
  /\ broker.bound =>
       /\ conf # None /\ broker.table \in Settings /\ broker.size = rings
       /\ pc # "store" => conf = [broker.table EXCEPT !.route = installed]
  /\ pc \in {"reload", "store"} => frame.table \in Settings /\ frame.table.memory >= rings
  /\ pc = "store" => broker.table = frame.table

(* On the stock route nothing runs the sim driver in a load but its end.   *)
LoadInv ==
  /\ runs \in 0..1 /\ installed \in Routes
  /\ pc = "inject" => ~loading
  /\ installed = "stock" /\ (loading \/ pc = "inject") => runs = 0

Frames == [cap : Nat, ran : Nat, record : Sent \cup {None}, table : Settings \cup {None}]

HookInv ==
  /\ pc \in Starting \cup Running \cup {"stopped"}
  /\ frame \in Frames
  /\ DOMAIN broker = {"bound", "on", "table", "size"}
  /\ CommandInv /\ FileInv /\ LoadInv /\ EachCommandOnce

-----------------------------------------------------------------------------
(* Sequences: what moves from the front of one to the end of another.      *)

LEMMA HeadAndTail ==
  ASSUME NEW S, NEW s \in Seq(S), s # <<>>
  PROVE  Head(s) \in S /\ Tail(s) \in Seq(S) /\ <<Head(s)>> \o Tail(s) = s
<1>1. Head(s) \in S /\ Tail(s) \in Seq(S)
  BY HeadTailProperties
<1>2. <<Head(s)>> \in Seq(S) /\ Len(<<Head(s)>>) = 1
  BY <1>1
<1>3. Len(s) \in Nat /\ Len(s) # 0 /\ Len(Tail(s)) = Len(s) - 1
      /\ \A i \in 1..Len(Tail(s)) : Tail(s)[i] = s[i + 1]
  BY HeadTailProperties, EmptySeq, LenProperties
<1>4. DOMAIN s = 1..Len(s)
  BY LenProperties
<1> QED
  BY <1>1, <1>2, <1>3, <1>4, ConcatProperties, SeqEqual

LEMMA OneOn ==
  ASSUME NEW S, NEW a \in Seq(S), NEW b \in Seq(S), NEW e \in S
  PROVE  (a \o <<e>>) \o b = Append(a, e) \o b /\ a \o <<e>> \in Seq(S)
<1>1. Append(a, e) = a \o <<e>> /\ Append(a, e) \in Seq(S)
  BY AppendIsConcat, AppendProperties
<1> QED
  BY <1>1

-----------------------------------------------------------------------------
LEMMA InitHookInv == Init => HookInv
<1> SUFFICES ASSUME Init PROVE HookInv
  OBVIOUS
<1> USE HookDriverAssumption DEF Init, NoFrame
<1>1. Len(topicOf) = 0 /\ Sent = {}
  BY DEF Sent
<1>2. CommandInv
  BY <1>1 DEF CommandInv, Handling
<1>3. FileInv /\ LoadInv
  BY DEF FileInv, LoadInv, Starting, Running, Handling
<1>4. EachCommandOnce
  <2>1. Numbers = <<>> /\ InHand = <<>>
    BY DEF Numbers, InHand
  <2>2. [n \in 1..0 |-> n] = <<>>
    OBVIOUS
  <2> QED
    BY <2>1, <2>2, <1>1 DEF EachCommandOnce
<1> QED
  BY <1>1, <1>2, <1>3, <1>4 DEF HookInv, Starting, Frames

-----------------------------------------------------------------------------
(* The line of commands: those handled, those in hand, those on the ring.  *)

LEMMA LineTypes ==
  ASSUME CommandInv
  PROVE  /\ Numbers \in Seq(Sent) /\ InHand \in Seq(Sent) /\ ring \in Seq(Sent)
         /\ Len(topicOf) \in Nat
         /\ held = None => InHand = IF frame.record = None THEN <<>> ELSE <<frame.record>>
         /\ frame.record = None => InHand = IF held = None THEN <<>> ELSE <<held>>
<1> USE DEF CommandInv
<1>1. Len(topicOf) \in Nat
  BY LenProperties
<1>2. Numbers \in Seq(Sent)
  <2>1. Len(done) \in Nat /\ DOMAIN done = 1..Len(done)
        /\ \A i \in 1..Len(done) : done[i].n \in Sent
    <3> DEFINE R == [n : Sent, what : Ends]
    <3>1. done \in Seq(R) /\ \A x \in R : x.n \in Sent
      OBVIOUS
    <3> HIDE DEF R
    <3>2. Len(done) \in Nat /\ DOMAIN done = 1..Len(done) /\ done \in [1..Len(done) -> R]
      BY <3>1, LenProperties
    <3> QED
      BY <3>1, <3>2
  <2>2. Numbers \in [1..Len(done) -> Sent]
    BY <2>1 DEF Numbers
  <2>3. Seq(Sent) = UNION {[1..n -> Sent] : n \in Nat}
    BY SeqDef
  <2> QED
    BY <2>1, <2>2, <2>3
<1>3. ASSUME NEW x \in Sent \cup {None}, NEW y \in Sent \cup {None}
      PROVE  LET a == IF x = None THEN <<>> ELSE <<x>>
                 b == IF y = None THEN <<>> ELSE <<y>>
             IN  /\ a \in Seq(Sent) /\ b \in Seq(Sent) /\ a \o b \in Seq(Sent)
                 /\ y = None => a \o b = a
                 /\ x = None => a \o b = b
  <2> DEFINE a == IF x = None THEN <<>> ELSE <<x>>
             b == IF y = None THEN <<>> ELSE <<y>>
  <2>1. a \in Seq(Sent) /\ b \in Seq(Sent) /\ (x = None => a = <<>>) /\ (y = None => b = <<>>)
    <3>1. x # None => <<x>> \in Seq(Sent)
      OBVIOUS
    <3>2. y # None => <<y>> \in Seq(Sent)
      OBVIOUS
    <3> QED
      BY <3>1, <3>2, EmptySeq
  <2> HIDE DEF a, b
  <2>2. a \o b \in Seq(Sent) /\ a \o <<>> = a /\ <<>> \o b = b
    BY <2>1, ConcatProperties, ConcatEmptySeq
  <2> QED
    BY <2>1, <2>2 DEF a, b
<1> QED
  BY <1>1, <1>2, <1>3 DEF InHand

(* A command handled goes from the hand to the end of those handled. *)
LEMMA HandledKeepsLine ==
  ASSUME CommandInv, EachCommandOnce, NEW what, Handled(what), frame.record # None, held = None,
         frame \in Frames,
         ring' = ring, held' = held, topicOf' = topicOf
  PROVE  EachCommandOnce'
<1> DEFINE r == frame.record
<1>1. Numbers \in Seq(Sent) /\ ring \in Seq(Sent) /\ InHand = <<r>> /\ r \in Sent
  BY LineTypes DEF CommandInv
<1>2. Numbers' = Append(Numbers, r)
  <2>1. Len(done) \in Nat /\ done \in Seq([n : Sent, what : Ends])
        /\ DOMAIN done = 1..Len(done)
    BY LenProperties DEF CommandInv
  <2>2. done' = Append(done, [n |-> r, what |-> what])
    BY DEF Handled
  <2>3. DOMAIN done' = 1..(Len(done) + 1)
        /\ \A i \in 1..(Len(done) + 1) : done'[i].n = IF i <= Len(done) THEN done[i].n ELSE r
    BY <2>1, <2>2
  <2>4. Len(Numbers) = Len(done) /\ DOMAIN Numbers = 1..Len(done)
        /\ \A i \in 1..Len(done) : Numbers[i] = done[i].n
    BY <1>1, <2>1, LenProperties DEF Numbers
  <2>5. Numbers' = [i \in 1..(Len(done) + 1) |-> IF i <= Len(done) THEN done[i].n ELSE r]
    BY <2>3 DEF Numbers
  <2>6. Append(Numbers, r) = [i \in 1..(Len(done) + 1) |-> IF i <= Len(done) THEN done[i].n ELSE r]
    BY <1>1, <2>1, <2>4
  <2> QED
    BY <2>5, <2>6
<1>3. InHand' = <<>>
  <2>1. frame'.record = None /\ held' = None
    BY DEF Handled
  <2> QED
    BY <2>1 DEF InHand
<1>4. (Numbers \o <<r>>) \o ring = Append(Numbers, r) \o ring
      /\ Append(Numbers, r) \in Seq(Sent)
  BY <1>1, OneOn, AppendProperties
<1>5. Append(Numbers, r) \o <<>> = Append(Numbers, r)
  BY <1>4, ConcatEmptySeq
<1> QED
  BY <1>1, <1>2, <1>3, <1>4, <1>5 DEF EachCommandOnce

(* A command popped goes from the ring's front to the hand. *)
LEMMA PoppedKeepsLine ==
  ASSUME CommandInv, EachCommandOnce, held = None, ~Empty, Popped,
         done' = done, topicOf' = topicOf, frame \in Frames,
         InHand' = <<Next_record>>
  PROVE  EachCommandOnce' /\ Next_record \in Sent /\ ring' \in Seq(Sent)
<1>1. Numbers \in Seq(Sent) /\ ring \in Seq(Sent) /\ InHand \in Seq(Sent)
      /\ InHand = IF frame.record = None THEN <<>> ELSE <<frame.record>>
  BY LineTypes
<1>2. Numbers' = Numbers
  BY DEF Numbers
<1>3. CASE frame.record # None
  BY <1>1, <1>2, <1>3 DEF EachCommandOnce, Next_record, Popped, Frames
<1>4. CASE frame.record = None
  <2> DEFINE h == Head(ring) t == Tail(ring)
  <2>1. ring # <<>> /\ InHand = <<>> /\ Next_record = h /\ ring' = t
    BY <1>1, <1>4 DEF Empty, Next_record, Popped
  <2>2. h \in Sent /\ t \in Seq(Sent) /\ <<h>> \o t = ring
    BY <1>1, <2>1, HeadAndTail
  <2>3. <<h>> \in Seq(Sent)
    BY <2>2
  <2> HIDE DEF h, t
  <2>4. (Numbers \o <<h>>) \o t = Numbers \o (<<h>> \o t)
    BY <1>1, <2>2, <2>3, ConcatAssociative
  <2>5. Numbers \o <<>> = Numbers
    BY <1>1, ConcatEmptySeq
  <2> QED
    BY <1>2, <2>1, <2>2, <2>4, <2>5 DEF EachCommandOnce
<1> QED
  BY <1>3, <1>4

(* A command delivered goes to the end of the line, by the next number. *)
LEMMA DeliveredEndsLine ==
  ASSUME HookInv, NEW its \in Topics, Deliver(its)
  PROVE  CommandInv' /\ EachCommandOnce' /\ frame' \in Frames'
<1> DEFINE k == Len(topicOf) + 1
<1> USE DEF HookInv
<1>1. topicOf' = Append(topicOf, its) /\ ring' = Append(ring, k)
      /\ UNCHANGED <<pc, driverVars, done>>
  BY DEF Deliver
<1>2. Numbers \in Seq(Sent) /\ InHand \in Seq(Sent) /\ ring \in Seq(Sent) /\ Len(topicOf) \in Nat
  BY LineTypes
<1>3. topicOf \in Seq(Topics) /\ topicOf' \in Seq(Topics) /\ Len(topicOf') = k
  BY <1>1 DEF CommandInv
<1>4. Sent' = 1..k /\ Sent \subseteq Sent' /\ k \in Sent'
  BY <1>2, <1>3 DEF Sent
<1>5. Numbers \in Seq(Sent') /\ InHand \in Seq(Sent') /\ ring \in Seq(Sent')
  BY <1>2, <1>4, SeqMonotonic
<1>6. CommandInv'
  <2>1. ring' \in Seq(Sent')
    BY <1>1, <1>4, <1>5
  <2>2. done \in Seq([n : Sent', what : Ends])
    <3>1. [n : Sent, what : Ends] \subseteq [n : Sent', what : Ends]
      BY <1>4
    <3>2. done \in Seq([n : Sent, what : Ends])
      BY DEF CommandInv
    <3> QED
      BY <3>1, <3>2, SeqMonotonic
  <2> QED
    BY <1>1, <1>3, <1>4, <2>1, <2>2 DEF CommandInv, driverVars
<1>7. EachCommandOnce'
  <2> DEFINE line == Numbers \o InHand
  <2>1. line \in Seq(Sent') /\ line \in Seq(Sent)
    BY <1>2, <1>5, ConcatProperties
  <2>2. Numbers' = Numbers /\ InHand' = InHand
    BY <1>1 DEF Numbers, InHand, driverVars
  <2> HIDE DEF line
  <2>3. line \o Append(ring, k) = Append(line \o ring, k)
    <3>1. <<k>> \in Seq(Sent') /\ line \o ring \in Seq(Sent')
      BY <1>4, <1>5, <2>1, ConcatProperties
    <3>2. (line \o ring) \o <<k>> = line \o (ring \o <<k>>)
      BY <1>5, <2>1, <3>1, ConcatAssociative
    <3>3. Append(ring, k) = ring \o <<k>>
      BY <1>4, <1>5, AppendIsConcat
    <3>4. Append(line \o ring, k) = (line \o ring) \o <<k>>
      BY <1>4, <3>1, AppendIsConcat
    <3> QED
      BY <3>2, <3>3, <3>4
  <2>4. line \o ring = [n \in 1..Len(topicOf) |-> n]
    BY DEF EachCommandOnce, line
  <2>5. Append([n \in 1..Len(topicOf) |-> n], k) = [n \in 1..k |-> n]
    <3>1. ASSUME NEW m \in Nat PROVE Append([n \in 1..m |-> n], m + 1) = [n \in 1..(m + 1) |-> n]
      <4> DEFINE s == [n \in 1..m |-> n]
      <4>1. s \in Seq(Nat) /\ Len(s) = m
        OBVIOUS
      <4> QED
        BY <4>1
    <3> QED
      BY <1>2, <3>1
  <2> QED
    BY <1>1, <1>3, <2>2, <2>3, <2>4, <2>5 DEF EachCommandOnce, line
<1> QED
  BY <1>1, <1>4, <1>6, <1>7 DEF Frames, driverVars

(* What moves no command, in or out of a dispatch. *)
LEMMA QuietKeepsLine ==
  ASSUME HookInv, UNCHANGED <<ring, done, topicOf, held, frame>>,
         pc' = pc \/ (pc \notin Handling /\ pc' \notin Handling)
  PROVE  CommandInv' /\ EachCommandOnce' /\ frame' \in Frames'
<1>1. Sent' = Sent /\ Numbers' = Numbers /\ InHand' = InHand
  BY DEF Sent, Numbers, InHand
<1> QED
  BY <1>1 DEF HookInv, CommandInv, EachCommandOnce, Handling, Frames

-----------------------------------------------------------------------------
(* A step leaves each command where the line has it.                       *)

LEMMA CommandStep ==
  ASSUME HookInv, Next
  PROVE  CommandInv' /\ EachCommandOnce' /\ frame' \in Frames'
<1> USE HookDriverAssumption
<1>1. CASE \/ StartRead \/ StartOpen \/ StartConfigure \/ StartSwitch \/ StartRest
           \/ Player \/ LoadBegin \/ InjectSkips \/ EditFile
  <2>1. UNCHANGED <<ring, done, topicOf, held, frame>>
    BY <1>1 DEF StartRead, StartOpen, StartConfigure, StartSwitch, StartRest, Player, LoadBegin,
                InjectSkips, EditFile, driverVars, brokerVars
  <2>2. pc' = pc \/ (pc \notin Handling /\ pc' \notin Handling)
    BY <1>1 DEF StartRead, StartOpen, StartConfigure, StartSwitch, StartRest, Stop, Player,
                LoadBegin, InjectSkips, EditFile, Handling
  <2> QED
    BY <2>1, <2>2, QuietKeepsLine
<1>2. CASE InjectLoads \/ InjectFails \/ InjectMisses \/ InjectRefused
  BY <1>2, QuietKeepsLine
  DEF InjectLoads, InjectFails, InjectMisses, InjectRefused, Injected, Handling, brokerVars
<1>3. CASE \E reads \in BOOLEAN : Frame(reads) \/ LoadEnd(reads)
  BY <1>3, QuietKeepsLine DEF Frame, LoadEnd, Handling, brokerVars
<1>4. CASE \E value \in BOOLEAN : SetEnabled(value)
  <2>1. UNCHANGED <<ring, done, topicOf, held, frame, pc>>
    BY <1>4 DEF SetEnabled, driverVars
  <2> QED
    BY <2>1, QuietKeepsLine
<1>5. CASE \E its \in Topics : Deliver(its)
  BY <1>5, DeliveredEndsLine
<1>6. CASE Dispatch
  <2>1. CASE loading
    BY <1>6, <2>1, QuietKeepsLine DEF Dispatch, Handling, brokerVars
  <2>2. CASE ~loading
    <3>1. frame.record = None /\ held' = None /\ frame'.record = held /\ held \in Sent \cup {None}
          /\ UNCHANGED <<ring, done, topicOf>>
      BY <1>6, <2>2 DEF Dispatch, Handling, HookInv, CommandInv, brokerVars
    <3>2. InHand = IF held = None THEN <<>> ELSE <<held>>
      BY <3>1, LineTypes DEF HookInv
    <3>3. CommandInv'
      BY <1>6, <2>2, <3>1 DEF Dispatch, Handling, HookInv, CommandInv, Sent
    <3>4. InHand' = IF held = None THEN <<>> ELSE <<held>>
      <4>1. InHand' = IF frame.record' = None THEN <<>> ELSE <<frame.record'>>
        BY <3>1, <3>3, LineTypes DEF InHand
      <4> QED
        BY <3>1, <4>1
    <3>5. EachCommandOnce'
      BY <3>1, <3>2, <3>4 DEF HookInv, EachCommandOnce, Numbers
    <3>6. conf.cap \in Nat
      BY <1>6 DEF Dispatch, HookInv, FileInv, Running, Settings
    <3>7. frame' \in Frames'
      BY <1>6, <2>2, <3>1, <3>6 DEF Dispatch, Frames, Sent
    <3> QED
      BY <3>3, <3>5, <3>7
  <2> QED
    BY <2>1, <2>2
<1>7. CASE TakeNone
  <2>1. frame.record = None /\ held = None /\ UNCHANGED <<ring, done, topicOf, held>>
        /\ frame' = NoFrame /\ pc' = "idle"
    BY <1>7 DEF TakeNone, Empty, HookInv, CommandInv, Handling, brokerVars
  <2>2. CommandInv'
    BY <2>1 DEF HookInv, CommandInv, Handling, NoFrame, Sent
  <2>3. EachCommandOnce'
    BY <2>1 DEF HookInv, EachCommandOnce, Numbers, InHand, NoFrame
  <2> QED
    BY <2>1, <2>2, <2>3 DEF Frames, NoFrame
<1>8. CASE TakeHolds
  <2>1. held = None /\ ~Empty /\ Popped /\ UNCHANGED <<done, topicOf>> /\ held' = Next_record
        /\ frame' = NoFrame /\ pc' = "idle"
    BY <1>8 DEF TakeHolds, HookInv, CommandInv, Handling
  <2>2. Next_record # None
    BY <2>1, HeadAndTail DEF HookInv, CommandInv, Empty, Next_record, Sent
  <2>3. InHand' = <<Next_record>>
    <3>1. <<Next_record>> \in Seq({Next_record})
      OBVIOUS
    <3>2. <<>> \o <<Next_record>> = <<Next_record>>
      BY <3>1, ConcatEmptySeq
    <3> QED
      BY <2>1, <2>2, <3>2 DEF InHand, NoFrame
  <2>4. EachCommandOnce' /\ Next_record \in Sent /\ ring' \in Seq(Sent)
    BY <2>1, <2>3, PoppedKeepsLine DEF HookInv
  <2>5. CommandInv'
    BY <2>1, <2>4 DEF HookInv, CommandInv, Handling, NoFrame, Sent
  <2> QED
    BY <2>1, <2>4, <2>5 DEF Frames, NoFrame
<1>9. CASE Take
  <2>1. held = None /\ ~Empty /\ Popped /\ UNCHANGED <<done, topicOf, held>> /\ pc' = "handle"
        /\ frame' = [frame EXCEPT !.ran = @ + 1, !.record = Next_record]
    BY <1>9 DEF Take, HookInv, CommandInv, Handling
  <2>2. Next_record # None /\ frame'.record = Next_record
    BY <2>1, HeadAndTail DEF HookInv, CommandInv, Empty, Next_record, Sent, Frames
  <2>3. InHand' = <<Next_record>>
    <3>1. <<Next_record>> \in Seq({Next_record})
      OBVIOUS
    <3>2. <<Next_record>> \o <<>> = <<Next_record>>
      BY <3>1, ConcatEmptySeq
    <3> QED
      BY <2>1, <2>2, <3>2 DEF InHand
  <2>4. EachCommandOnce' /\ Next_record \in Sent /\ ring' \in Seq(Sent)
    BY <2>1, <2>3, PoppedKeepsLine DEF HookInv
  <2>5. CommandInv'
    BY <2>1, <2>2, <2>4 DEF HookInv, CommandInv, Handling, Sent
  <2>6. frame' \in Frames'
    <3>1. frame \in Frames /\ Sent' = Sent
      BY <2>1 DEF HookInv, Sent
    <3>2. frame.ran + 1 \in Nat
      BY <3>1 DEF Frames
    <3> QED
      BY <2>1, <2>4, <3>1, <3>2 DEF Frames
  <2> QED
    BY <2>4, <2>5, <2>6
<1>10. ASSUME NEW what \in Ends, Handled(what), pc \in {"handle", "reload", "store"},
              UNCHANGED <<ring, topicOf, held>>
       PROVE  CommandInv' /\ EachCommandOnce' /\ frame' \in Frames'
  <2>1. held = None /\ frame.record # None /\ frame.record \in Sent
    BY <1>10 DEF HookInv, CommandInv, Handling
  <2>2. EachCommandOnce'
    BY <1>10, <2>1, HandledKeepsLine DEF HookInv
  <2>3. frame' = [frame EXCEPT !.record = None, !.table = None] /\ pc' = "take"
        /\ done' = Append(done, [n |-> frame.record, what |-> what])
    BY <1>10 DEF Handled
  <2>4. Sent' = Sent /\ frame' \in Frames' /\ frame'.record = None
    BY <1>10, <2>3 DEF HookInv, Frames, Sent
  <2>5. done' \in Seq([n : Sent, what : Ends])
    <3>1. [n |-> frame.record, what |-> what] \in [n : Sent, what : Ends]
      BY <1>10, <2>1
    <3> QED
      BY <3>1, <2>3, AppendProperties DEF HookInv, CommandInv
  <2>6. CommandInv'
    BY <1>10, <2>1, <2>3, <2>4, <2>5 DEF HookInv, CommandInv, Handling
  <2> QED
    BY <2>2, <2>4, <2>6
<1>11. ASSUME pc \in {"handle", "reload", "store"}, pc' \in {"handle", "reload", "store"},
              UNCHANGED <<ring, topicOf, held, done>>,
              frame' = frame \/ \E f \in Settings : frame' = [frame EXCEPT !.table = f]
       PROVE  CommandInv' /\ EachCommandOnce' /\ frame' \in Frames'
  <2>1. frame' \in Frames /\ Sent' = Sent /\ frame'.record = frame.record
    BY <1>11 DEF HookInv, Frames, Sent
  <2>2. EachCommandOnce'
    BY <1>11, <2>1 DEF HookInv, EachCommandOnce, Numbers, InHand
  <2>3. CommandInv'
    BY <1>11, <2>1 DEF HookInv, CommandInv, Handling
  <2> QED
    BY <2>1, <2>2, <2>3 DEF Frames
<1>12. CASE Handle
  <2>1. pc = "handle" /\ UNCHANGED <<ring, topicOf, held>> /\ \E what \in Ends : Handled(what)
    BY <1>12 DEF Handle, Ends, brokerVars
  <2> QED
    BY <1>10, <2>1
<1>13. CASE ReloadRead
  <2>1. pc = "handle" /\ UNCHANGED <<ring, topicOf, held>>
    BY <1>13 DEF ReloadRead, brokerVars
  <2>2. CASE Handled("refused")
    BY <1>10, <2>1, <2>2 DEF Ends
  <2>3. CASE pc' = "reload" /\ frame' = [frame EXCEPT !.table = file] /\ UNCHANGED done /\ file # None
    BY <1>11, <2>1, <2>3, HookDriverAssumption DEF HookInv, FileInv
  <2> QED
    BY <1>13, <2>2, <2>3 DEF ReloadRead
<1>14. CASE ReloadConfigure
  <2>1. pc = "reload" /\ UNCHANGED <<ring, topicOf, held>>
    BY <1>14 DEF ReloadConfigure, brokerVars
  <2>2. CASE Handled("refused")
    BY <1>10, <2>1, <2>2 DEF Ends
  <2>3. CASE pc' = "store" /\ UNCHANGED <<frame, done>>
    BY <1>11, <2>1, <2>3
  <2> QED
    BY <1>14, <2>2, <2>3 DEF ReloadConfigure
<1>15. CASE ReloadStore
  <2>1. pc = "store" /\ UNCHANGED <<ring, topicOf, held>> /\ Handled("reloaded")
    BY <1>15 DEF ReloadStore, brokerVars
  <2> QED
    BY <1>10, <2>1 DEF Ends
<1> QED
  BY <1>1, <1>2, <1>3, <1>4, <1>5, <1>6, <1>7, <1>8, <1>9, <1>12, <1>13, <1>14, <1>15
  DEF Next, LogicStep, Callback, Outside
-----------------------------------------------------------------------------
(* A step leaves the driver and the broker on one file.                    *)

LEMMA FileStep ==
  ASSUME HookInv, Next
  PROVE  FileInv' /\ pc' \in Starting \cup Running \cup {"stopped"}
         /\ DOMAIN broker' = {"bound", "on", "table", "size"}
<1> USE HookDriverAssumption DEF HookInv
<1> DEFINE Goal == FileInv' /\ pc' \in Starting \cup Running \cup {"stopped"}
                   /\ DOMAIN broker' = {"bound", "on", "table", "size"}
<1>1. CASE StartRead
  <2> DEFINE f == IF file = None THEN Defaults ELSE file
  <2>1. f \in Settings /\ f.route = installed /\ ~broker.bound /\ f.ring \in Nat /\ f.memory \in Nat
    BY <1>1 DEF FileInv, StartRead, Settings, Starting
  <2>2. UNCHANGED <<file, frame, broker, installed>>
    BY <1>1 DEF StartRead, brokerVars
  <2>3. CASE Valid(f, f.ring) /\ pc' = "open" /\ conf' = f /\ rings' = f.ring
    BY <2>1, <2>2, <2>3 DEF FileInv, Valid, Starting, Running, Handling
  <2>4. CASE pc' = "stopped" /\ UNCHANGED <<conf, rings>>
    BY <2>1, <2>2, <2>4 DEF FileInv, Starting, Running, Handling
  <2> QED
    BY <1>1, <2>3, <2>4 DEF StartRead, Stop
<1>2. CASE StartOpen
  BY <1>2 DEF StartOpen, FileInv, Starting, Running, Handling, driverVars, brokerVars
<1>3. CASE StartConfigure
  BY <1>3 DEF StartConfigure, FileInv, Stop, Starting, Running, Handling, driverVars, Settings
<1>4. CASE StartSwitch \/ StartRest
  BY <1>4 DEF StartSwitch, StartRest, FileInv, Starting, Running, Handling, driverVars, brokerVars
<1>5. CASE \/ Player \/ LoadBegin \/ Dispatch \/ TakeNone \/ TakeHolds \/ Take
           \/ \E reads \in BOOLEAN : Frame(reads) \/ LoadEnd(reads)
  <2>1. UNCHANGED <<file, conf, rings, broker, installed>>
    BY <1>5 DEF Player, LoadBegin, Dispatch, TakeNone, TakeHolds, Take, Frame, LoadEnd,
                driverVars, brokerVars
  <2>2. pc \in {"idle", "dispatch", "take"} /\ pc' \in {"idle", "dispatch", "take", "inject", "handle"}
    BY <1>5 DEF Player, LoadBegin, Dispatch, TakeNone, TakeHolds, Take, Frame, LoadEnd
  <2> QED
    BY <2>1, <2>2 DEF FileInv, Starting, Running, Handling
<1>6. CASE InjectLoads \/ InjectFails \/ InjectMisses \/ InjectRefused \/ InjectSkips
  <2>1. UNCHANGED <<file, conf, rings, broker, installed>> /\ pc = "inject" /\ pc' = "dispatch"
    BY <1>6 DEF InjectLoads, InjectFails, InjectMisses, InjectRefused, InjectSkips, Injected,
                driverVars, brokerVars
  <2> QED
    BY <2>1 DEF FileInv, Starting, Running, Handling
<1>7. CASE Handle
  <2>1. UNCHANGED <<file, conf, rings, broker, installed>> /\ pc = "handle" /\ pc' = "take"
    BY <1>7 DEF Handle, Handled, brokerVars
  <2> QED
    BY <2>1 DEF FileInv, Starting, Running, Handling
<1>8. CASE ReloadRead
  <2>1. UNCHANGED <<file, conf, rings, broker, installed>> /\ pc = "handle"
    BY <1>8 DEF ReloadRead, brokerVars
  <2>2. CASE Handled("refused")
    BY <2>1, <2>2 DEF FileInv, Handled, Starting, Running, Handling
  <2>3. CASE file # None /\ Valid(file, rings) /\ pc' = "reload"
             /\ frame' = [frame EXCEPT !.table = file]
    <3>1. frame'.table = file /\ file \in Settings /\ file.memory >= rings
      BY <2>3 DEF FileInv, Frames, Valid
    <3> QED
      BY <2>1, <2>3, <3>1 DEF FileInv, Starting, Running, Handling
  <2> QED
    BY <1>8, <2>2, <2>3 DEF ReloadRead
<1>9. CASE ReloadConfigure
  <2>1. UNCHANGED <<file, conf, rings, installed>> /\ pc = "reload" /\ broker.bound
        /\ frame.table \in Settings /\ frame.table.memory >= rings
    BY <1>9 DEF ReloadConfigure, FileInv, Starting, Running, Handling
  <2>2. CASE Handled("refused") /\ UNCHANGED broker
    BY <2>1, <2>2 DEF FileInv, Handled, Starting, Running, Handling
  <2>3. CASE /\ broker' = [broker EXCEPT !.on = frame.table.on, !.table = frame.table]
             /\ pc' = "store" /\ UNCHANGED frame
    <3>1. broker'.bound /\ broker'.table = frame.table /\ broker'.size = broker.size
          /\ DOMAIN broker' = {"bound", "on", "table", "size"}
      BY <2>1, <2>3
    <3> QED
      BY <2>1, <2>3, <3>1 DEF FileInv, Starting, Running, Handling
  <2> QED
    BY <1>9, <2>2, <2>3 DEF ReloadConfigure
<1>10. CASE ReloadStore
  <2> DEFINE t == frame.table
  <2>1. UNCHANGED <<file, rings, broker, installed>> /\ pc = "store" /\ pc' = "take" /\ broker.bound
        /\ t \in Settings /\ t.memory >= rings /\ broker.table = t /\ conf # None
        /\ conf.route = installed /\ installed \in Routes
        /\ conf' = [t EXCEPT !.route = conf.route]
    BY <1>10 DEF ReloadStore, Pending, Handled, FileInv, LoadInv, Starting, Running, Handling, brokerVars
  <2>2. conf' \in Settings /\ conf'.route = installed /\ conf'.memory = t.memory
        /\ conf' = [broker.table EXCEPT !.route = installed] /\ conf' # None
    <3>1. PICK r \in Routes : r = installed /\ conf' = [t EXCEPT !.route = r]
      BY <2>1
    <3>2. [t EXCEPT !.route = r] \in Settings /\ [t EXCEPT !.route = r].route = r
          /\ [t EXCEPT !.route = r].memory = t.memory
      BY <2>1, <3>1 DEF Settings
    <3> QED
      BY <2>1, <3>1, <3>2
  <2> QED
    BY <2>1, <2>2 DEF FileInv, Starting, Running, Handling
<1>11. CASE \E value \in BOOLEAN : SetEnabled(value)
  <2>1. PICK value \in BOOLEAN : SetEnabled(value)
    BY <1>11
  <2>2. UNCHANGED <<pc, file, conf, rings, frame, installed>>
        /\ broker'.bound = broker.bound /\ broker'.table = broker.table /\ broker'.size = broker.size
        /\ DOMAIN broker' = {"bound", "on", "table", "size"}
    BY <2>1 DEF SetEnabled, driverVars
  <2> QED
    BY <2>2 DEF FileInv
<1>12. CASE \E its \in Topics : Deliver(its)
  <2>1. UNCHANGED <<pc, file, conf, rings, frame, broker, installed>>
    BY <1>12 DEF Deliver, driverVars
  <2> QED
    BY <2>1 DEF FileInv
<1>13. CASE EditFile
  <2>1. UNCHANGED <<pc, conf, rings, frame, broker, installed>> /\ file' \in Files \cup {None}
        /\ pc # "read"
    BY <1>13 DEF EditFile, driverVars, brokerVars
  <2> QED
    BY <2>1 DEF FileInv
<1> QED
  BY <1>1, <1>2, <1>3, <1>4, <1>5, <1>6, <1>7, <1>8, <1>9, <1>10, <1>11, <1>12, <1>13
  DEF Next, LogicStep, Callback, Outside

(* A step runs the sim driver once at most, and only where nothing else    *)
(* of the load's will.                                                     *)
LEMMA LoadStep ==
  ASSUME HookInv, Next
  PROVE  LoadInv' /\ (runs' > runs /\ pc = "inject" => ~refused)
<1> USE HookDriverAssumption DEF HookInv, LoadInv
<1>1. CASE LoadBegin
  BY <1>1 DEF LoadBegin
<1>2. CASE \E reads \in BOOLEAN : LoadEnd(reads)
  BY <1>2 DEF LoadEnd
<1>3. CASE InjectLoads \/ InjectFails \/ InjectMisses \/ InjectRefused
  <2>1. broker.bound /\ conf.route = installed
    BY <1>3 DEF InjectLoads, InjectFails, InjectMisses, InjectRefused, Injected, FileInv, Running
  <2>2. /\ pc = "inject" /\ pc' = "dispatch" /\ ~refused /\ conf.route = "stock"
        /\ (runs' = runs \/ runs' = runs + 1) /\ loading' = loading /\ installed' = installed
    BY <1>3 DEF InjectLoads, InjectFails, InjectMisses, InjectRefused, Injected, Enabled
  <2>3. runs = 0
    BY <2>1, <2>2
  <2>4. ~loading'
    BY <2>2
  <2>5. runs' \in 0..1 /\ installed' \in Routes
    BY <2>2, <2>3
  <2> QED
    BY <2>2, <2>4, <2>5
<1>4. CASE \E reads \in BOOLEAN : Frame(reads)
  BY <1>4 DEF Frame
<1>5. CASE \/ StartRead \/ StartOpen \/ StartConfigure \/ StartSwitch \/ StartRest
           \/ InjectSkips \/ Dispatch \/ TakeNone \/ TakeHolds \/ Take \/ Handle
           \/ ReloadRead \/ ReloadConfigure \/ ReloadStore \/ Player \/ Outside
  <2>1. UNCHANGED <<runs, loading, installed>>
    BY <1>5 DEF StartRead, StartOpen, StartConfigure, StartSwitch, StartRest, InjectSkips, Dispatch,
                TakeNone, TakeHolds, Take, Handle, ReloadRead, ReloadConfigure, ReloadStore, Player,
                Outside, SetEnabled, Deliver, EditFile, driverVars
  <2>2. pc' = "inject" => pc = "inject"
    BY <1>5 DEF StartRead, StartOpen, StartConfigure, StartSwitch, StartRest, InjectSkips, Dispatch,
                TakeNone, TakeHolds, Take, Handle, ReloadRead, ReloadConfigure, ReloadStore, Player,
                Outside, SetEnabled, Deliver, EditFile, Stop, Handled
  <2> QED
    BY <2>1, <2>2
<1> QED
  BY <1>1, <1>2, <1>3, <1>4, <1>5 DEF Next, LogicStep, Callback

LEMMA NextHookInv == HookInv /\ [Next]_vars => HookInv'
<1>1. ASSUME HookInv, Next PROVE HookInv'
  BY <1>1, CommandStep, FileStep, LoadStep DEF HookInv
<1>2. ASSUME HookInv, UNCHANGED vars PROVE HookInv'
  <2>1. UNCHANGED <<pc, file, conf, rings, on, refused, held, loading, loads, frame, broker, ring, sim,
                    installed, budget, topicOf, done, runs>>
    BY <1>2 DEF vars, driverVars, brokerVars
  <2>2. CommandInv' /\ EachCommandOnce'
    BY <1>2, <2>1 DEF HookInv, CommandInv, EachCommandOnce, Numbers, InHand, Sent
  <2>3. FileInv' /\ LoadInv'
    BY <1>2, <2>1 DEF HookInv, FileInv, LoadInv
  <2>. QED
    BY <1>2, <2>1, <2>2, <2>3 DEF HookInv, Frames, Sent
<1> QED
  BY <1>1, <1>2

-----------------------------------------------------------------------------
(* Every reachable state has each command in one place, one configuration  *)
(* in force, and the sim driver run once at most in the load.              *)
THEOREM HookIsSafe == Spec => []HookInv
<1> QED
  BY InitHookInv, NextHookInv, PTL DEF Spec

(* A command the broker stored is handled once, in its ring's order,       *)
(* however many the cap leaves for later, and whatever DCS calls between.  *)
THEOREM EachCommandIsHandledOnce == Spec => []EachCommandOnce
<1>1. HookInv => EachCommandOnce
  BY DEF HookInv
<1> QED
  BY <1>1, HookIsSafe, PTL

(* The driver runs on the file the broker took last, on the route DCS was  *)
(* started with, and its memory of keys covers the ring as allocated.      *)
THEOREM OneFileIsInForce == Spec => []FileIsInForce
<1>1. HookInv => FileIsInForce
  BY DEF HookInv, FileInv, FileIsInForce, OneConfiguration, MemoryCoversRing
<1> QED
  BY <1>1, HookIsSafe, PTL

(* The sim driver runs once at most in a load, by one of the two routes,   *)
(* and never again once DCS refused it.                                    *)
THEOREM SimDriverRunsOnce == Spec => SimDriverOnce
<1> DEFINE Once == runs' <= 1 /\ (runs' > runs /\ pc = "inject" => ~refused)
<1>1. HookInv /\ [Next]_vars => [Once]_vars
  <2>1. ASSUME HookInv, Next PROVE Once
    <3>1. LoadInv' /\ (runs' > runs /\ pc = "inject" => ~refused)
      BY <2>1, LoadStep
    <3> QED
      BY <3>1 DEF LoadInv
  <2> QED
    BY <2>1
<1> QED
  BY <1>1, HookIsSafe, PTL DEF Spec, SimDriverOnce
-----------------------------------------------------------------------------
(* The shim's put calls: one Lua state's record in progress.               *)

(* An encoder by what becomes of a record: how it stands and what it has   *)
(* discarded.                                                              *)
IsEncoder(e) ==
  /\ {"state", "discarded"} \subseteq DOMAIN e /\ e.discarded \in Nat
  /\ e = NoEncoder \/ e.state # "None"

Same(e, f) == f.discarded = e.discarded /\ (f.state \in {"None", "Idle"} <=> e.state \in {"None", "Idle"})

RecordInv ==
  /\ tally \in [begins : Nat, opened : Nat, pushed : Nat, forgotten : Nat] /\ oversize \in Nat
  /\ IsEncoder(encoder)
  /\ InProgress => /\ {"topic", "to"} \subseteq DOMAIN meant /\ meant.to = to
                   /\ topic = IF to = Nothing THEN meant.topic ELSE Nothing
  /\ RecordsAreTheirOwn

(* Only begin, commit and discard move a record in or out of progress.     *)
LEMMA PoisonKeeps ==
  ASSUME NEW e, IsEncoder(e), e.state = "Open",
         NEW error \in {"FieldNumber", "Full", "Depth", "Unbalanced"}
  PROVE  IsEncoder(Poison(e, error)) /\ Same(e, Poison(e, error))
  BY DEF Poison, NoEncoder, IsEncoder, Same

LEMMA PutKeeps ==
  ASSUME NEW e, IsEncoder(e), NEW field, NEW wire, NEW cells
  PROVE  IsEncoder(Put(e, field, wire, cells)) /\ Same(e, Put(e, field, wire, cells))
<1>1. CASE e.state # "Open"
  BY <1>1 DEF Put, Same
<1>2. CASE e.state = "Open"
  <2>1. PICK f : f = [e EXCEPT !.buf = @ \o <<[key |-> <<field, wire>>]>> \o cells]
    OBVIOUS
  <2>2. IsEncoder(f) /\ Same(e, f)
    BY <1>2, <2>1 DEF IsEncoder, Same, NoEncoder
  <2>. QED
    BY <1>2, <2>1, <2>2, PoisonKeeps DEF Put
<1>. QED
  BY <1>1, <1>2

LEMMA MessageKeeps ==
  ASSUME NEW e, IsEncoder(e), NEW field
  PROVE  IsEncoder(Message(e, field)) /\ Same(e, Message(e, field))
<1>1. PICK p : p = Put(e, field, length, Gap(e))
  OBVIOUS
<1>2. IsEncoder(p) /\ Same(e, p)
  BY <1>1, PutKeeps
<1>3. PICK f : f = [p EXCEPT !.open = Append(@, LastGap(p))]
  OBVIOUS
<1>4. p.state = "Open" => IsEncoder(f) /\ Same(e, f)
  BY <1>2, <1>3 DEF IsEncoder, Same, NoEncoder
<1>5. Message(e, field) = IF e.state = "Open" /\ Len(e.open) = MaxDepth THEN Poison(e, "Depth")
                          ELSE IF p.state = "Open" THEN f ELSE p
  BY <1>1, <1>3 DEF Message
<1>. QED
  BY <1>2, <1>4, <1>5, PoisonKeeps

LEMMA EndKeeps ==
  ASSUME NEW e, IsEncoder(e)
  PROVE  IsEncoder(EndMessage(e)) /\ Same(e, EndMessage(e))
<1>1. CASE e.state # "Open"
  BY <1>1 DEF EndMessage, Same
<1>2. CASE e.state = "Open"
  <2>1. PICK g : g = Filled(e, Last(e.open))
    OBVIOUS
  <2>2. IsEncoder(g) /\ Same(e, g) /\ g.state = "Open"
    BY <1>2, <2>1 DEF Filled, IsEncoder, Same, NoEncoder
  <2>3. PICK f : f = [g EXCEPT !.open = Front(@)]
    OBVIOUS
  <2>4. IsEncoder(f) /\ Same(e, f)
    BY <2>2, <2>3 DEF IsEncoder, Same, NoEncoder
  <2>. QED
    BY <1>2, <2>1, <2>3, <2>4, PoisonKeeps DEF EndMessage
<1>. QED
  BY <1>1, <1>2

LEMMA BeginCounts ==
  ASSUME NEW e, IsEncoder(e), e.state # "None", NEW url, NEW stamp
  PROVE  /\ IsEncoder(Begin(e, url, stamp)) /\ Begin(e, url, stamp).state \notin {"None", "Idle"}
         /\ Begin(e, url, stamp).discarded = IF e.state = "Idle" THEN e.discarded ELSE e.discarded + 1
<1>1. PICK c : c = Cleared(e)
  OBVIOUS
<1>2. /\ IsEncoder(c) /\ c.state = "Open"
      /\ c.discarded = IF e.state = "Idle" THEN e.discarded ELSE e.discarded + 1
  <2>1. PICK n \in Nat : n = IF e.state # "Idle" THEN e.discarded + 1 ELSE e.discarded
    BY DEF IsEncoder
  <2>2. c = [e EXCEPT !.discarded = n, !.buf = <<>>, !.open = <<>>, !.state = "Open"]
    BY <1>1, <2>1 DEF Cleared
  <2>3. DOMAIN c = DOMAIN e /\ c.state = "Open" /\ c.discarded = n
    BY <2>2 DEF IsEncoder
  <2>. QED
    BY <2>1, <2>3 DEF IsEncoder
<1>3. PICK s : s = Stamped(c, stamp)
  OBVIOUS
<1>4. IsEncoder(s) /\ Same(c, s)
  <2>1. CASE stamp = 0
    BY <1>2, <1>3, <2>1 DEF Stamped, Same
  <2>2. CASE stamp # 0
    <3>1. PICK p : p = Put(c, 2, varint, put_varint[stamp])
      OBVIOUS
    <3>2. IsEncoder(p) /\ Same(c, p)
      BY <1>2, <3>1, PutKeeps
    <3>3. s = Put(p, 3, fixed64, Bytes(Fixed))
      BY <1>3, <2>2, <3>1 DEF Stamped
    <3>4. IsEncoder(s) /\ Same(p, s)
      BY <3>2, <3>3, PutKeeps
    <3>. QED
      BY <3>2, <3>4 DEF Same
  <2>. QED
    BY <2>1, <2>2
<1>5. PICK outer : outer = Put(s, 4, length, Gap(e))
  OBVIOUS
<1>6. PICK name : name = Put(outer, 1, length, put_varint[url] \o Bytes(url))
  OBVIOUS
<1>7. PICK inner : inner = Put(name, 2, length, Gap(e))
  OBVIOUS
<1>8. IsEncoder(outer) /\ IsEncoder(name) /\ IsEncoder(inner) /\ Same(c, inner)
  <2>1. IsEncoder(outer) /\ Same(s, outer)
    BY <1>4, <1>5, PutKeeps
  <2>2. IsEncoder(name) /\ Same(outer, name)
    BY <2>1, <1>6, PutKeeps
  <2>3. IsEncoder(inner) /\ Same(name, inner)
    BY <2>2, <1>7, PutKeeps
  <2>. QED
    BY <1>4, <2>1, <2>2, <2>3 DEF Same
<1>9. PICK a, b : Begin(e, url, stamp) = [inner EXCEPT !.payload_gap = a, !.value_gap = b]
  BY <1>1, <1>3, <1>5, <1>6, <1>7 DEF Begin
<1>10. PICK f : f = [inner EXCEPT !.payload_gap = a, !.value_gap = b]
  OBVIOUS
<1>11. DOMAIN f = DOMAIN inner /\ f.state = inner.state /\ f.discarded = inner.discarded
  BY <1>8, <1>10 DEF IsEncoder
<1>12. inner.state \notin {"None", "Idle"} /\ inner.discarded = c.discarded
  BY <1>2, <1>8 DEF Same
<1>. QED
  BY <1>2, <1>8, <1>9, <1>10, <1>11, <1>12 DEF IsEncoder

LEMMA CommitCounts ==
  ASSUME NEW e, IsEncoder(e), e.state \notin {"None", "Idle"}
  PROVE  /\ IsEncoder(Commit(e)) /\ Commit(e).state = "Idle"
         /\ Commit(e).discarded = IF Whole(e) THEN e.discarded ELSE e.discarded + 1
<1>1. CASE Whole(e)
  BY <1>1 DEF Commit, IsEncoder
<1>2. CASE ~Whole(e)
  BY <1>2 DEF Commit, Discard, IsEncoder
<1>. QED
  BY <1>1, <1>2

LEMMA RecordInvInit == EncoderInit => RecordInv
  BY DEF EncoderInit, RecordInv, IsEncoder, NoEncoder, InProgress, RecordsAreTheirOwn, AddressIsItsOwn,
         EveryRecordCounted

(* What counts is the encoder, and the counters. *)
LEMMA RecordStays ==
  ASSUME RecordInv, UNCHANGED <<tally, oversize, to, topic>>, pushed' = Nothing,
         IsEncoder(encoder'), Same(encoder, encoder'),
         InProgress => {"topic", "to"} \subseteq DOMAIN meant' /\ meant'.to = meant.to /\ meant'.topic = meant.topic
  PROVE  RecordInv'
<1>1. InProgress' <=> InProgress
  BY DEF InProgress, Same
<1>2. EveryRecordCounted'
  BY <1>1 DEF EveryRecordCounted, RecordInv, RecordsAreTheirOwn, Same
<1>3. AddressIsItsOwn'
  BY DEF AddressIsItsOwn
<1>. QED
  BY <1>1, <1>2, <1>3 DEF RecordInv, RecordsAreTheirOwn

LEMMA OpenCounts ==
  ASSUME RecordInv, NEW t, NEW id, Open(t, id), pushed' = Nothing, oversize' = oversize
  PROVE  RecordInv'
<1>1. PICK o : o = Opening
  OBVIOUS
<1>2. PICK fresh : fresh = WithCapacity(cap)
  OBVIOUS
<1>3. IsEncoder(fresh) /\ fresh.state = "Idle" /\ fresh.discarded = 0
  BY <1>2 DEF WithCapacity, IsEncoder
<1>4. o = IF Replaces THEN fresh ELSE encoder
  BY <1>1, <1>2 DEF Opening
<1>5. IsEncoder(o) /\ o.state # "None"
  BY <1>3, <1>4 DEF RecordInv, IsEncoder, Replaces
<1>6. PICK lost \in Nat : lost = Forgets
  BY DEF Forgets, RecordInv, IsEncoder
<1>7. /\ tally \in [begins : Nat, opened : Nat, pushed : Nat, forgotten : Nat] /\ oversize \in Nat
      /\ encoder.discarded \in Nat /\ o.discarded \in Nat
  BY <1>5 DEF RecordInv, IsEncoder
<1>8. encoder.discarded + (IF InProgress THEN 1 ELSE 0)
        = lost + o.discarded + (IF o.state # "Idle" THEN 1 ELSE 0)
  <2>1. CASE Replaces
    BY <1>3, <1>4, <1>6, <1>7, <2>1 DEF Forgets
  <2>2. CASE ~Replaces
    <3>1. lost = 0 /\ o = encoder
      BY <1>4, <1>6, <2>2 DEF Forgets
    <3>2. InProgress <=> o.state # "Idle"
      BY <1>5, <3>1 DEF InProgress
    <3>. QED
      BY <1>7, <3>1, <3>2
  <2>. QED
    BY <2>1, <2>2
<1>9. AddressIsItsOwn'
  BY DEF AddressIsItsOwn
<1>10. tally.opened = tally.pushed + oversize + tally.forgotten + encoder.discarded + (IF InProgress THEN 1 ELSE 0)
  BY DEF RecordInv, RecordsAreTheirOwn, EveryRecordCounted
<1>11. CASE RecordTopics[t].registered
  <2>1. PICK n : n = Begin(o, RecordTopics[t].url, epoch)
    OBVIOUS
  <2>2. /\ encoder' = n /\ to' = id /\ topic' = (IF id = Nothing THEN t ELSE Nothing)
        /\ meant' = [topic |-> t, to |-> id, stamp |-> epoch, puts |-> <<>>]
        /\ Began(TRUE)
    BY <1>1, <1>11, <2>1 DEF Open, Address
  <2>3. /\ IsEncoder(n) /\ n.state \notin {"None", "Idle"}
        /\ n.discarded = IF o.state = "Idle" THEN o.discarded ELSE o.discarded + 1
    BY <1>5, <2>1, BeginCounts
  <2>4. /\ tally' \in [begins : Nat, opened : Nat, pushed : Nat, forgotten : Nat]
        /\ tally'.opened = tally.opened + 1 /\ tally'.forgotten = tally.forgotten + lost /\ tally'.pushed = tally.pushed
    <3>1. tally' = [tally EXCEPT !.begins = @ + 1, !.forgotten = @ + lost, !.opened = @ + 1]
      BY <1>6, <2>2 DEF Began
    <3>2. PICK b \in Nat, o1 \in Nat, f \in Nat :
            b = tally.begins + 1 /\ o1 = tally.opened + 1 /\ f = tally.forgotten + lost
      BY <1>7
    <3>3. tally' = [tally EXCEPT !.begins = b, !.forgotten = f, !.opened = o1]
      BY <3>1, <3>2
    <3>. QED
      BY <1>7, <3>2, <3>3
  <2>5. InProgress'
    BY <2>2, <2>3 DEF InProgress
  <2>6. tally'.opened = tally'.pushed + oversize' + tally'.forgotten + encoder'.discarded + 1
    <3>1. n.discarded = o.discarded + (IF o.state # "Idle" THEN 1 ELSE 0)
      BY <1>7, <2>3
    <3>2. PICK k \in 0..1 : k = IF o.state # "Idle" THEN 1 ELSE 0
      OBVIOUS
    <3>3. tally.opened = tally.pushed + oversize + tally.forgotten + lost + o.discarded + k
      BY <1>7, <1>8, <1>10, <3>2
    <3>4. encoder'.discarded = o.discarded + k
      BY <2>2, <3>1, <3>2
    <3>. QED
      BY <1>7, <2>4, <3>3, <3>4
  <2>7. EveryRecordCounted'
    BY <2>5, <2>6 DEF EveryRecordCounted
  <2>. QED
    BY <1>7, <1>9, <2>2, <2>3, <2>4, <2>7 DEF RecordInv, RecordsAreTheirOwn
<1>12. CASE ~RecordTopics[t].registered
  <2>1. encoder' = o /\ Began(FALSE) /\ UNCHANGED <<to, topic, meant>>
    BY <1>1, <1>12 DEF Open
  <2>2. /\ tally' \in [begins : Nat, opened : Nat, pushed : Nat, forgotten : Nat]
        /\ tally'.opened = tally.opened /\ tally'.forgotten = tally.forgotten + lost /\ tally'.pushed = tally.pushed
    <3>1. tally' = [tally EXCEPT !.begins = @ + 1, !.forgotten = @ + lost, !.opened = @]
      BY <1>6, <2>1 DEF Began
    <3>2. PICK b \in Nat, o1 \in Nat, f \in Nat :
            b = tally.begins + 1 /\ o1 = tally.opened /\ f = tally.forgotten + lost
      BY <1>7
    <3>3. tally' = [tally EXCEPT !.begins = b, !.forgotten = f, !.opened = o1]
      BY <3>1, <3>2
    <3>. QED
      BY <1>7, <3>2, <3>3
  <2>3. InProgress' <=> o.state # "Idle"
    BY <1>5, <2>1 DEF InProgress
  <2>4. EveryRecordCounted'
    BY <1>7, <1>8, <1>10, <2>1, <2>2, <2>3 DEF EveryRecordCounted
  <2>5. InProgress' => InProgress
    BY <1>3, <1>4, <1>5, <2>3 DEF InProgress
  <2>. QED
    BY <1>5, <1>7, <1>9, <2>1, <2>2, <2>4, <2>5 DEF RecordInv, RecordsAreTheirOwn
<1>. QED
  BY <1>11, <1>12

LEMMA RecordInvStep == RecordInv /\ [EncoderNext]_(encoderVars) => RecordInv'
<1>. SUFFICES ASSUME RecordInv, [EncoderNext]_(encoderVars) PROVE RecordInv'
  OBVIOUS
<1>1. IsEncoder(encoder) /\ InProgress => {"topic", "to"} \subseteq DOMAIN meant
  BY DEF RecordInv
<1>2. CASE configure \/ set_epoch
  <2>1. UNCHANGED <<encoder, tally, oversize, to, topic, meant>> /\ pushed' = Nothing
    BY <1>2 DEF configure, set_epoch, pendingVars
  <2>. QED
    BY <2>1, RecordStays DEF RecordInv, Same
<1>3. ASSUME NEW t \in DOMAIN RecordTopics, begin(t) PROVE RecordInv'
  BY <1>3, OpenCounts DEF begin
<1>4. ASSUME NEW t \in DOMAIN RecordTopics, NEW id \in Ids, begin_to(t, id) PROVE RecordInv'
  <2>1. CASE RecordTopics[t].reply
    BY <1>4, <2>1, OpenCounts DEF begin_to
  <2>2. CASE ~RecordTopics[t].reply
    <3>1. UNCHANGED <<encoder, to, topic, meant, oversize>> /\ pushed' = Nothing
          /\ tally' = [tally EXCEPT !.begins = @ + 1]
      BY <1>4, <2>2 DEF begin_to, pendingVars
    <3>2. /\ tally' \in [begins : Nat, opened : Nat, pushed : Nat, forgotten : Nat]
          /\ tally'.opened = tally.opened /\ tally'.forgotten = tally.forgotten /\ tally'.pushed = tally.pushed
      BY <3>1 DEF RecordInv
    <3>. QED
      BY <3>1, <3>2 DEF RecordInv, RecordsAreTheirOwn, AddressIsItsOwn, EveryRecordCounted, InProgress
  <2>. QED
    BY <2>1, <2>2
<1>5. ASSUME NEW put, NEW e, Call(put, e), IsEncoder(e), Same(encoder, e) PROVE RecordInv'
  <2>1. encoder' = e /\ meant' = [meant EXCEPT !.puts = Append(@, put)] /\ pushed' = Nothing
        /\ UNCHANGED <<tally, oversize, to, topic>>
    BY <1>5 DEF Call
  <2>2. InProgress => {"topic", "to"} \subseteq DOMAIN meant' /\ meant'.to = meant.to /\ meant'.topic = meant.topic
    BY <2>1 DEF RecordInv
  <2>. QED
    BY <1>5, <2>1, <2>2, RecordStays
<1>6. ASSUME NEW put \in Puts, put_call(put) PROVE RecordInv'
  BY <1>1, <1>5, <1>6, MessageKeeps, PutKeeps DEF put_call, RecordInv
<1>7. CASE end_message
  BY <1>1, <1>5, <1>7, EndKeeps DEF end_message, RecordInv
<1>8. CASE commit
  <2>1. CASE ~InProgress
    <3>1. UNCHANGED <<encoder, oversize, tally>> /\ pushed' = Nothing
      BY <1>8, <2>1 DEF commit
    <3>2. ~InProgress'
      BY <2>1, <3>1 DEF InProgress
    <3>. QED
      BY <3>1, <3>2, <2>1 DEF RecordInv, RecordsAreTheirOwn, AddressIsItsOwn, EveryRecordCounted
  <2>2. CASE InProgress
    <3>1. PICK n : n = Commit(encoder)
      OBVIOUS
    <3>2. /\ IsEncoder(n) /\ n.state = "Idle"
          /\ n.discarded = IF Whole(encoder) THEN encoder.discarded ELSE encoder.discarded + 1
      BY <2>2, <3>1, CommitCounts DEF RecordInv, InProgress
    <3>3. PICK large \in BOOLEAN :
            large = (to = Nothing /\ boundary /\ Len(EnvelopeTail(encoder)) > MaxLifecycle)
      OBVIOUS
    <3>4. /\ encoder' = n
          /\ oversize' = IF Whole(encoder) /\ large THEN oversize + 1 ELSE oversize
          /\ IF Whole(encoder) /\ ~large
             THEN /\ pushed' = [tail |-> EnvelopeTail(encoder), to |-> to, topic |-> topic, meant |-> meant]
                  /\ tally' = [tally EXCEPT !.pushed = @ + 1]
             ELSE pushed' = Nothing /\ UNCHANGED tally
      BY <1>8, <2>2, <3>1, <3>3 DEF commit
    <3>5. /\ tally \in [begins : Nat, opened : Nat, pushed : Nat, forgotten : Nat] /\ oversize \in Nat
          /\ encoder.discarded \in Nat
          /\ tally.opened = tally.pushed + oversize + tally.forgotten + encoder.discarded + 1
      BY <2>2 DEF RecordInv, RecordsAreTheirOwn, EveryRecordCounted, IsEncoder
    <3>6. /\ tally' \in [begins : Nat, opened : Nat, pushed : Nat, forgotten : Nat] /\ oversize' \in Nat
          /\ tally'.opened = tally.opened /\ tally'.forgotten = tally.forgotten
          /\ tally'.pushed = IF Whole(encoder) /\ ~large THEN tally.pushed + 1 ELSE tally.pushed
      BY <3>4, <3>5
    <3>7. ~InProgress'
      BY <3>2, <3>4 DEF InProgress
    <3>8. tally'.opened = tally'.pushed + oversize' + tally'.forgotten + encoder'.discarded
      BY <3>2, <3>4, <3>5, <3>6
    <3>9. EveryRecordCounted'
      BY <3>2, <3>4, <3>5, <3>6, <3>7, <3>8 DEF EveryRecordCounted
    <3>10. AddressIsItsOwn'
      BY <2>2, <3>4 DEF AddressIsItsOwn, RecordInv
    <3>. QED
      BY <3>2, <3>4, <3>6, <3>7, <3>9, <3>10 DEF RecordInv, RecordsAreTheirOwn
  <2>. QED
    BY <2>1, <2>2
<1>9. CASE UNCHANGED encoderVars
  <2>1. UNCHANGED <<encoder, tally, oversize, to, topic, meant, pushed>>
    BY <1>9 DEF encoderVars, pendingVars
  <2>. QED
    BY <2>1 DEF RecordInv, RecordsAreTheirOwn, AddressIsItsOwn, EveryRecordCounted, InProgress
<1>. QED
  BY <1>2, <1>3, <1>4, <1>6, <1>7, <1>8, <1>9 DEF EncoderNext

(* For any topics, puts, frame caps and limits: a record goes where its    *)
(* own begin or begin_to said, whatever was begun, refused, abandoned or   *)
(* raised on before it, and every record opened is in progress, pushed, or *)
(* counted as discarded, oversize, or in an encoder that was replaced.     *)
THEOREM RecordsAreTheirOwnAlways == EncoderSpec => []RecordsAreTheirOwn
<1>1. RecordInv => RecordsAreTheirOwn
  BY DEF RecordInv
<1>. QED
  BY <1>1, RecordInvInit, RecordInvStep, PTL DEF EncoderSpec
-----------------------------------------------------------------------------
(* The calls that take a table: the shim reads it through the Lua stack.   *)

(* A sequence known by its length alone: the stack holds any Lua value.    *)
Tuple(s, n) == s = [i \in 1..n |-> s[i]]

(* A token list read from its table, as far as its n-th entry.             *)
Read(tokens, l, n) ==
  /\ Tuple(l, n)
  /\ \A i \in 1..n : IsToken(tokens[2][Number(i, "whole")])
                     /\ l[i].id = FieldOf(tokens[2][Number(i, "whole")], Str("id"))

(* The rows rs are those of the table t at its keys past.                  *)
RowsAre(c, t, rs, past) ==
  /\ \A k \in past : Sound(c, k, t[2][k])
  /\ c # "replies" => {r[1] : r \in rs} = past
  /\ c = "replies" => rs = {t[2][k] : k \in past}
  /\ \A r \in rs : IsTokens(c, r[1], FieldOf(t, r[1])) =>
       Read(t[2][r[1]], r[2], Cardinality(DOMAIN t[2][r[1]][2]))

(* The list l measured by d, with the keys left and the one in hand to     *)
(* come: every key seen is a position, counted once.                       *)
Measuring(l, d, left, inhand) ==
  LET seen == DOMAIN l[2] \ (left \cup inhand) IN
  /\ Type(l) = "table" /\ left \cup inhand \subseteq DOMAIN l[2] /\ left \cap inhand = {}
  /\ d = [in |-> d.in, count |-> Cardinality(seen), highest |-> d.highest]
  /\ d.highest \in Nat
  /\ \A k \in seen : IsPosition(k) /\ k[2] <= d.highest
  /\ d.highest > 0 => \E k \in seen : k[2] = d.highest

(* A step of the reading, by what the walks have put on the stack and how  *)
(* many are under way: the rows lua_next went past are read, all of them,  *)
(* but the one in hand.                                                    *)
First   == Arg(1)
InTable == call \in Tables /\ Type(First) = "table"

Walk(height, walks, inhand) ==
  /\ InTable /\ HashIsRead /\ Tuple(stack, height) /\ Tuple(todo, walks)
  /\ todo[walks] \cup inhand \subseteq DOMAIN First[2]
  /\ RowsAre(call, First, rows, DOMAIN First[2] \ (todo[walks] \cup inhand))

AtRow(height, walks) ==
  /\ Walk(height, walks, {stack[1]}) /\ stack[1] \notin todo[walks] /\ stack[2] = First[2][stack[1]]

InTokens(height, walks) ==
  AtRow(height, walks) /\ IsTokens(call, stack[1], stack[2])

InList(height, walks) ==
  /\ InTokens(height, walks)
  /\ IsList(stack[2]) /\ nth = <<nth[1], Cardinality(DOMAIN stack[2][2])>>
  /\ nth[1] \in 1..(nth[2] + 1) /\ Read(stack[2], list, nth[1] - 1)

AtEntry(height, walks) ==
  InList(height, walks) /\ nth[1] <= nth[2] /\ stack[3] = stack[2][2][Number(nth[1], "whole")]

InEntry(height, walks) ==
  AtEntry(height, walks) /\ HasNames(stack[3]) /\ stack[4] = FieldOf(stack[3], Str("caps"))

Before   == Tuple(stack, 0) /\ Tuple(todo, 0)
AtHash   == Before /\ InTable
AtWalk   == Walk(1, 1, {})
AtPair   == AtRow(2, 1)
InDense  ==
  \/ dense.in = "tokens" /\ InTokens(3, 2) /\ Measuring(stack[2], dense, todo[1], {})
  \/ dense.in = "caps" /\ InEntry(5, 2) /\ Measuring(stack[4], dense, todo[1], {})
DenseKey ==
  \/ dense.in = "tokens" /\ InTokens(4, 2) /\ Measuring(stack[2], dense, todo[1], {stack[3]})
  \/ dense.in = "caps" /\ InEntry(6, 2) /\ Measuring(stack[4], dense, todo[1], {stack[5]})
ListTop == InList(2, 1)
EntryTop == AtEntry(3, 1)
CapsTop  == InEntry(4, 1)
Dense    == Type(stack[4]) = "table" /\ IsList(stack[4])
            /\ dense.count = Cardinality(DOMAIN stack[4][2])
Ready    == Tuple(stack, 0) /\ (call \in Tables => InTable /\ RowsAre(call, First, rows, DOMAIN First[2]))
Ended    == ReadWhole /\ (step = "raised" => Len(stack) <= 1)

StepInv ==
  /\ step \in {"idle", "check"} => Before
  /\ step = "hash" => AtHash
  /\ step = "walk" => AtWalk
  /\ step = "row" => AtPair
  /\ step = "dense" => InDense
  /\ step = "pair" => DenseKey
  /\ step = "entries" => ListTop
  /\ step = "entry" => EntryTop
  /\ step = "list" => CapsTop
  /\ step = "members" => CapsTop /\ Dense
  /\ step = "bridge" => Ready
  /\ step \in {"answered", "raised"} => Ended

InWalk == {"walk", "row", "dense", "pair", "entries", "entry", "list", "members"}

CallInv ==
  /\ step \in {"idle", "check", "hash", "bridge", "answered", "raised"} \cup InWalk
  /\ step # "idle" => call \in DOMAIN Calls /\ args \in Calls[call]
  /\ step \notin {"answered", "raised"} => given = <<>>
  /\ step \in {"idle", "check", "hash"} => rows = {}
  /\ live => step \in InWalk \/ (step = "bridge" /\ call \in Tables)

ShimInv == CallInv /\ StepInv
-----------------------------------------------------------------------------
(* What a push and a pop leave of a tuple: its first n, where they were or *)
(* one further on.                                                         *)
Keeps(t, s, n)  == \A i \in 1..n : t[i] = s[i]
Atop(t, n, x)   == t[n + 1] = x
Above(t, n, x, y) == t[n + 1] = x /\ t[n + 2] = y
Shifts(t, s, n) == \A i \in 1..n : t[i + 1] = s[i]

LEMMA TupleIs ==
  ASSUME NEW s, NEW n \in Nat, Tuple(s, n)
  PROVE  \E V : s \in Seq(V) /\ Len(s) = n /\ DOMAIN s = 1..n
<1>1. PICK V : V = {s[i] : i \in 1..n}
  OBVIOUS
<1>2. \A i \in 1..n : s[i] \in V
  BY <1>1
<1>3. s \in [1..n -> V]
  BY <1>2 DEF Tuple
<1>4. s \in Seq(V) /\ Len(s) = n /\ DOMAIN s = 1..n
  BY <1>3
<1>. QED
  BY <1>4

LEMMA WiderSeq ==
  ASSUME NEW V, NEW s \in Seq(V), NEW R
  PROVE  s \in Seq(V \cup R)
  OBVIOUS

LEMMA EmptyTuple == Tuple(<<>>, 0) /\ \A s : Tuple(s, 0) => s = <<>>
<1>1. ASSUME NEW s, Tuple(s, 0) PROVE s = <<>>
  <2>1. PICK V : s \in Seq(V) /\ Len(s) = 0
    BY <1>1, TupleIs
  <2>. QED
    BY <2>1
<1>2. Tuple(<<>>, 0)
  BY DEF Tuple
<1>. QED
  BY <1>1, <1>2

LEMMA SeqIsTuple ==
  ASSUME NEW V, NEW s \in Seq(V)
  PROVE  Tuple(s, Len(s))
  BY DEF Tuple

LEMMA Pushed ==
  ASSUME NEW s, NEW n \in Nat, Tuple(s, n), NEW x
  PROVE  Tuple(Append(s, x), n + 1) /\ Atop(Append(s, x), n, x) /\ Keeps(Append(s, x), s, n)
<1>1. PICK V : s \in Seq(V) /\ Len(s) = n
  BY TupleIs
<1>2. PICK R : s \in Seq(R) /\ x \in R
  <2>1. PICK R : R = V \cup {x}
    OBVIOUS
  <2>. QED
    BY <1>1, <2>1, WiderSeq
<1>3. PICK t : t = Append(s, x)
  OBVIOUS
<1>4. t \in Seq(R) /\ Len(t) = n + 1 /\ t[n + 1] = x /\ \A i \in 1..n : t[i] = s[i]
  BY <1>1, <1>2, <1>3, AppendProperties
<1>. QED
  BY <1>3, <1>4, SeqIsTuple DEF Keeps, Atop

LEMMA Dropped ==
  ASSUME NEW s, NEW n \in Nat, Tuple(s, n), NEW k \in 0..n
  PROVE  Tuple(SubSeq(s, 1, k), k) /\ Keeps(SubSeq(s, 1, k), s, k)
<1>1. PICK V : s \in Seq(V) /\ Len(s) = n
  BY TupleIs
<1>2. PICK t : t = SubSeq(s, 1, k)
  OBVIOUS
<1>3. t = [i \in 1..k |-> s[i]]
  BY <1>1, <1>2
<1>. QED
  BY <1>2, <1>3 DEF Tuple, Keeps

LEMMA Joined ==
  ASSUME NEW s, NEW n \in Nat, Tuple(s, n), NEW x, NEW y
  PROVE  Tuple(s \o <<x, y>>, n + 2) /\ Keeps(s \o <<x, y>>, s, n) /\ Above(s \o <<x, y>>, n, x, y)
<1>1. PICK V : s \in Seq(V) /\ Len(s) = n
  BY TupleIs
<1>2. PICK R : s \in Seq(R) /\ x \in R /\ y \in R
  <2>1. PICK R : R = V \cup {x, y}
    OBVIOUS
  <2>. QED
    BY <1>1, <2>1, WiderSeq
<1>3. PICK p : p = <<x, y>>
  OBVIOUS
<1>4. p \in Seq(R) /\ Len(p) = 2 /\ p[1] = x /\ p[2] = y
  BY <1>2, <1>3
<1>5. PICK t : t = s \o p
  OBVIOUS
<1>6. t \in Seq(R) /\ Len(t) = Len(s) + Len(p)
      /\ \A i \in 1..Len(s) + Len(p) : t[i] = IF i <= Len(s) THEN s[i] ELSE p[i - Len(s)]
  BY <1>2, <1>4, <1>5, ConcatProperties
<1>7. Len(t) = n + 2 /\ t[n + 1] = x /\ t[n + 2] = y /\ \A i \in 1..n : t[i] = s[i]
  BY <1>1, <1>4, <1>6
<1>. QED
  BY <1>3, <1>5, <1>6, <1>7, SeqIsTuple DEF Keeps, Above

LEMMA PutFirst ==
  ASSUME NEW s, NEW n \in Nat, Tuple(s, n), NEW x
  PROVE  Tuple(<<x>> \o s, n + 1) /\ (<<x>> \o s)[1] = x /\ Shifts(<<x>> \o s, s, n)
<1>1. PICK V : s \in Seq(V) /\ Len(s) = n
  BY TupleIs
<1>2. PICK R : s \in Seq(R) /\ x \in R
  <2>1. PICK R : R = V \cup {x}
    OBVIOUS
  <2>. QED
    BY <1>1, <2>1, WiderSeq
<1>3. PICK p : p = <<x>>
  OBVIOUS
<1>4. p \in Seq(R) /\ Len(p) = 1 /\ p[1] = x
  BY <1>2, <1>3
<1>5. PICK t : t = p \o s
  OBVIOUS
<1>6. t \in Seq(R) /\ Len(t) = Len(p) + Len(s)
      /\ \A i \in 1..Len(p) + Len(s) : t[i] = IF i <= Len(p) THEN p[i] ELSE s[i - Len(p)]
  BY <1>2, <1>4, <1>5, ConcatProperties
<1>7. Len(t) = n + 1 /\ t[1] = x /\ \A i \in 1..n : t[i + 1] = s[i]
  BY <1>1, <1>4, <1>6
<1>. QED
  BY <1>3, <1>5, <1>6, <1>7, SeqIsTuple DEF Shifts

LEMMA HeadTail ==
  ASSUME NEW s, NEW n \in Nat, Tuple(s, n + 1)
  PROVE  Head(s) = s[1] /\ Tuple(Tail(s), n) /\ Shifts(s, Tail(s), n)
<1>1. PICK V : s \in Seq(V) /\ Len(s) = n + 1
  BY TupleIs
<1>2. PICK t : t = Tail(s)
  OBVIOUS
<1>3. t \in Seq(V) /\ Len(t) = n /\ \A i \in 1..n : t[i] = s[i + 1]
  <2>1. s # <<>> /\ Len(s) # 0
    BY <1>1
  <2>2. t \in Seq(V) /\ Len(t) = Len(s) - 1
    BY <1>1, <1>2, <2>1
  <2>. QED
    BY <1>1, <1>2, <2>1, <2>2
<1>4. Head(s) = s[1]
  BY <1>1
<1>. QED
  BY <1>2, <1>3, <1>4, SeqIsTuple DEF Shifts

(* The length a tuple is known by is its length, and its end is the top.   *)
LEMMA TupleLen ==
  ASSUME NEW s, NEW n \in Nat, Tuple(s, n)
  PROVE  Len(s) = n /\ DOMAIN s = 1..n /\ Last(s) = s[n]
  BY TupleIs DEF Last

LEMMA TopOf ==
  ASSUME NEW n \in Nat, Tuple(stack, n)
  PROVE  Len(stack) = n /\ Top = stack[n]
  BY TupleLen DEF Top

LEMMA HeadOf ==
  ASSUME NEW s, NEW n \in Nat \ {0}, Tuple(s, n)
  PROVE  Head(s) = s[1]
<1>1. PICK V : s \in Seq(V) /\ Len(s) = n
  BY TupleIs
<1>. QED
  BY <1>1

LEMMA DropOf ==
  ASSUME NEW n \in Nat, Tuple(stack, n), NEW j \in 0..n
  PROVE  Tuple(Drop(j), n - j) /\ Keeps(Drop(j), stack, n - j)
<1>1. PICK k \in 0..n : k = n - j
  OBVIOUS
<1>2. Drop(j) = SubSeq(stack, 1, k)
  BY <1>1, TupleLen DEF Drop
<1>. QED
  BY <1>1, <1>2, Dropped

(* What a refusal leaves, when everything the readers pushed is popped.    *)
LEMMA RefusedClean ==
  ASSUME NEW popped, Tuple(popped, 0), Refuse(popped)
  PROVE  Len(stack') <= 1 /\ step' = "raised" /\ ~live'
<1>1. Tuple(Append(popped, <<"message">>), 0 + 1)
  BY Pushed
<1>2. Len(stack') = 0 + 1
  BY <1>1, TupleLen DEF Refuse
<1>. QED
  BY <1>2 DEF Refuse

LEMMA WalkStarts ==
  ASSUME NEW n \in Nat, Tuple(stack, n), NEW d \in Nat, Tuple(todo, d), NEW t, StartWalk(t)
  PROVE  /\ Tuple(stack', n + 1) /\ Keeps(stack', stack, n)
         /\ Tuple(todo', d + 1) /\ todo'[1] = DOMAIN t[2] /\ Shifts(todo', todo, d)
<1>1. Tuple(stack', n + 1) /\ Keeps(stack', stack, n)
  BY Pushed DEF StartWalk
<1>2. PICK q : q = DOMAIN t[2]
  OBVIOUS
<1>3. Tuple(<<q>> \o todo, d + 1) /\ (<<q>> \o todo)[1] = q /\ Shifts(<<q>> \o todo, todo, d)
  BY PutFirst
<1>4. todo' = <<q>> \o todo
  BY <1>2 DEF StartWalk
<1>. QED
  BY <1>1, <1>2, <1>3, <1>4

LEMMA PairComes ==
  ASSUME NEW n \in Nat, Tuple(stack, n + 1), NEW d \in Nat, Tuple(todo, d + 1),
         NEW t, NEW dest, NextPair(t, dest)
  PROVE  \E k \in todo[1] :
           /\ Tuple(stack', n + 2) /\ stack'[n + 1] = k /\ stack'[n + 2] = t[2][k]
           /\ Keeps(stack', stack, n)
           /\ Tuple(todo', d + 1) /\ todo'[1] = todo[1] \ {k}
           /\ \A i \in 1..d : todo'[i + 1] = todo[i + 1]
           /\ step' = dest
<1>1. Head(todo) = todo[1] /\ Tuple(Tail(todo), d) /\ Shifts(todo, Tail(todo), d)
  BY HeadTail
<1>2. PICK k \in todo[1] : /\ stack' = Drop(1) \o <<k, t[2][k]>>
                           /\ todo' = <<todo[1] \ {k}>> \o Tail(todo) /\ step' = dest
  BY <1>1 DEF NextPair
<1>3. PICK p : p = Drop(1)
  OBVIOUS
<1>4. Tuple(p, n) /\ Keeps(p, stack, n)
  <2>1. n + 1 \in Nat /\ 1 \in 0..(n + 1) /\ (n + 1) - 1 = n
    OBVIOUS
  <2>2. Tuple(p, (n + 1) - 1) /\ Keeps(p, stack, (n + 1) - 1)
    BY <1>3, <2>1, DropOf
  <2>. QED
    BY <2>1, <2>2
<1>5. Tuple(stack', n + 2) /\ stack'[n + 1] = k /\ stack'[n + 2] = t[2][k] /\ Keeps(stack', p, n)
  <2>1. PICK v : v = t[2][k]
    OBVIOUS
  <2>2. Tuple(p \o <<k, v>>, n + 2) /\ Keeps(p \o <<k, v>>, p, n) /\ Above(p \o <<k, v>>, n, k, v)
    BY <1>4, Joined
  <2>3. stack' = p \o <<k, v>>
    BY <1>2, <1>3, <2>1
  <2>. QED
    BY <2>1, <2>2, <2>3 DEF Above
<1>6. PICK r : r = Tail(todo)
  OBVIOUS
<1>7. Tuple(todo', d + 1) /\ todo'[1] = todo[1] \ {k} /\ Shifts(todo', r, d)
  <2>1. PICK q : q = todo[1] \ {k}
    OBVIOUS
  <2>2. Tuple(<<q>> \o r, d + 1) /\ (<<q>> \o r)[1] = q /\ Shifts(<<q>> \o r, r, d)
    BY <1>1, <1>6, PutFirst
  <2>3. todo' = <<q>> \o r
    BY <1>2, <1>6, <2>1
  <2>. QED
    BY <2>1, <2>2, <2>3
<1>8. Keeps(stack', stack, n)
  BY <1>4, <1>5 DEF Keeps
<1>9. \A i \in 1..d : todo'[i + 1] = todo[i + 1]
  BY <1>1, <1>6, <1>7 DEF Shifts
<1>. QED
  BY <1>2, <1>5, <1>7, <1>8, <1>9

(* The same, for a stack and walks of known length.                        *)
LEMMA PairOn ==
  ASSUME NEW n \in Nat \ {0}, Tuple(stack, n), NEW d \in Nat \ {0}, Tuple(todo, d),
         NEW t, NEW dest, NextPair(t, dest)
  PROVE  \E k \in todo[1] :
           /\ Tuple(stack', n + 1) /\ stack'[n] = k /\ stack'[n + 1] = t[2][k]
           /\ Keeps(stack', stack, n - 1)
           /\ Tuple(todo', d) /\ todo'[1] = todo[1] \ {k} /\ \A i \in 2..d : todo'[i] = todo[i]
           /\ step' = dest
<1>1. PICK m \in Nat : n = m + 1
  <2>1. n - 1 \in Nat /\ n = (n - 1) + 1
    OBVIOUS
  <2>. QED
    BY <2>1
<1>2. PICK e \in Nat : d = e + 1
  <2>1. d - 1 \in Nat /\ d = (d - 1) + 1
    OBVIOUS
  <2>. QED
    BY <2>1
<1>3. Tuple(stack, m + 1) /\ Tuple(todo, e + 1) /\ m \in Nat /\ e \in Nat
  BY <1>1, <1>2
<1>4. PICK k \in todo[1] :
        /\ Tuple(stack', m + 2) /\ stack'[m + 1] = k /\ stack'[m + 2] = t[2][k]
        /\ Keeps(stack', stack, m)
        /\ Tuple(todo', e + 1) /\ todo'[1] = todo[1] \ {k}
        /\ \A i \in 1..e : todo'[i + 1] = todo[i + 1]
        /\ step' = dest
  BY <1>3, PairComes
<1>5. m + 2 = n + 1 /\ m = n - 1
  BY <1>1
<1>6. \A i \in 2..d : todo'[i] = todo[i]
  <2>. SUFFICES ASSUME NEW i \in 2..d PROVE todo'[i] = todo[i]
    OBVIOUS
  <2>1. PICK j \in 1..e : i = j + 1
    <3>1. i - 1 \in 1..e /\ i = (i - 1) + 1
      BY <1>2
    <3>. QED
      BY <3>1
  <2>. QED
    BY <1>4, <2>1
<1>. QED
  BY <1>1, <1>2, <1>4, <1>5, <1>6

LEMMA WalkEnds ==
  ASSUME NEW d \in Nat \ {0}, Tuple(todo, d), todo' = Tail(todo)
  PROVE  Tuple(todo', d - 1) /\ Shifts(todo, todo', d - 1)
<1>1. PICK e \in Nat : d = e + 1 /\ e = d - 1
  <2>1. d - 1 \in Nat /\ d = (d - 1) + 1
    OBVIOUS
  <2>. QED
    BY <2>1
<1>2. Tuple(todo, e + 1)
  BY <1>1
<1>3. Tuple(Tail(todo), e) /\ Shifts(todo, Tail(todo), e)
  BY <1>1, <1>2, HeadTail
<1>. QED
  BY <1>1, <1>3

-----------------------------------------------------------------------------
(* A list is dense when it has as many keys as its highest is.             *)

Positions(n) == {Number(i, "whole") : i \in 1..n}

LEMMA PositionsCount ==
  ASSUME NEW n \in Nat
  PROVE  IsFiniteSet(Positions(n)) /\ Cardinality(Positions(n)) = n
<1>1. PICK f : f = [i \in 1..n |-> Number(i, "whole")]
  OBVIOUS
<1>2. f \in Bijection(1..n, Positions(n))
  <2>1. f \in [1..n -> Positions(n)]
    BY <1>1 DEF Positions
  <2>2. \A a, b \in 1..n : f[a] = f[b] => a = b
    BY <1>1 DEF Number
  <2>3. \A y \in Positions(n) : \E a \in 1..n : f[a] = y
    BY <1>1 DEF Positions
  <2>. QED
    BY <2>1, <2>2, <2>3, Fun_IsBij
<1>3. ExistsBijection(1..n, Positions(n))
  BY <1>2 DEF ExistsBijection
<1>4. IsFiniteSet(1..n) /\ Cardinality(1..n) = n
  BY FS_Interval
<1>. QED
  BY <1>3, <1>4, FS_Bijection

(* The shim's counting of a finite set is the library's.                   *)
LEMMA SameCount ==
  ASSUME NEW D
  PROVE  Cardinality(D) = Cardinality(D) /\ IsFiniteSet(D) = IsFiniteSet(D)
  BY DEF Cardinality, Cardinality, IsFiniteSet, IsFiniteSet

LEMMA ListIs ==
  ASSUME NEW v
  PROVE  IsList(v) <=> DOMAIN v[2] = Positions(Cardinality(DOMAIN v[2]))
<1>1. IsList(v) <=> DOMAIN v[2] = Positions(Cardinality(DOMAIN v[2]))
  BY DEF IsList, Positions
<1>. QED
  BY <1>1, SameCount

LEMMA DenseIsList ==
  ASSUME NEW l, IsFiniteSet(DOMAIN l[2]), NEW h \in Nat,
         \A k \in DOMAIN l[2] : k \in Positions(h),
         h > 0 => \E k \in DOMAIN l[2] : k[2] = h
  PROVE  IsList(l) <=> Cardinality(DOMAIN l[2]) = h
<1>1. PICK D : D = DOMAIN l[2]
  OBVIOUS
<1>2. PICK c \in Nat : c = Cardinality(D)
  BY <1>1, FS_CardinalityType
<1>3. IsList(l) <=> D = Positions(c)
  BY <1>1, <1>2, ListIs
<1>4. ASSUME c = h PROVE D = Positions(c)
  <2>1. D \in SUBSET Positions(h)
    BY <1>1
  <2>2. Cardinality(D) = Cardinality(Positions(h)) /\ IsFiniteSet(Positions(h))
    BY <1>2, <1>4, PositionsCount
  <2>. QED
    BY <1>4, <2>1, <2>2, FS_Subset
<1>5. ASSUME D = Positions(c) PROVE c = h
  <2>1. \A i \in 1..c : Number(i, "whole") \in D
    BY <1>5 DEF Positions
  <2>2. c <= h
    <3>1. CASE c > 0
      <4>1. Number(c, "whole") \in Positions(h)
        BY <1>1, <2>1, <3>1
      <4>2. PICK i \in 1..h : Number(c, "whole") = Number(i, "whole")
        BY <4>1 DEF Positions
      <4>. QED
        BY <4>2 DEF Number
    <3>. QED
      BY <3>1
  <2>3. h <= c
    <3>1. CASE h > 0
      <4>1. PICK k \in Positions(c) : k[2] = h
        BY <1>1, <1>5, <3>1
      <4>2. PICK i \in 1..c : k = Number(i, "whole")
        BY <4>1 DEF Positions
      <4>. QED
        BY <4>1, <4>2 DEF Number
    <3>. QED
      BY <3>1
  <2>. QED
    BY <2>2, <2>3
<1>. QED
  BY <1>1, <1>2, <1>3, <1>4, <1>5

(* A position of a table is one of the first its number is.                *)
LEMMA PositionIs ==
  ASSUME NEW v, Sane(v), Type(v) = "table", NEW k \in DOMAIN v[2], IsPosition(k)
  PROVE  k[2] \in Nat \ {0} /\ k = Number(k[2], "whole")
  BY DEF Sane, IsPosition, IsWhole, Type

LEMMA PositionsBelow ==
  ASSUME NEW v, Sane(v), Type(v) = "table", NEW h \in Nat, NEW seen \in SUBSET DOMAIN v[2],
         \A k \in seen : IsPosition(k) /\ k[2] <= h
  PROVE  \A k \in seen : k \in Positions(h)
<1>. SUFFICES ASSUME NEW k \in seen PROVE k \in Positions(h)
  OBVIOUS
<1>1. k[2] \in Nat \ {0} /\ k = Number(k[2], "whole") /\ k[2] <= h
  BY PositionIs
<1>. QED
  BY <1>1 DEF Positions

(* A table has finitely many keys.                                         *)
LEMMA FiniteTable ==
  ASSUME NEW v, Sane(v), Type(v) = "table"
  PROVE  IsFiniteSet(DOMAIN v[2]) /\ Cardinality(DOMAIN v[2]) \in Nat
<1>1. IsFiniteSet(DOMAIN v[2])
  BY DEF Sane
<1>2. IsFiniteSet(DOMAIN v[2])
  BY <1>1, SameCount
<1>. QED
  BY <1>2, FS_CardinalityType, Zenon

LEMMA ListHolds ==
  ASSUME NEW v, IsList(v)
  PROVE  /\ \A k \in DOMAIN v[2] : \E i \in 1..Cardinality(DOMAIN v[2]) : k = Number(i, "whole")
         /\ \A i \in 1..Cardinality(DOMAIN v[2]) : Number(i, "whole") \in DOMAIN v[2]
  BY ListIs DEF Positions

LEMMA ListIsOfPositions ==
  ASSUME NEW v, Sane(v), Type(v) = "table", IsList(v), NEW k \in DOMAIN v[2]
  PROVE  IsPosition(k)
<1>1. Cardinality(DOMAIN v[2]) \in Nat
  BY FiniteTable
<1>2. PICK i \in 1..Cardinality(DOMAIN v[2]) : k = Number(i, "whole")
  BY ListHolds
<1>. QED
  BY <1>1, <1>2 DEF IsPosition, IsWhole, Type, Number

-----------------------------------------------------------------------------
(* The measuring of a list, key by key.                                    *)

LEMMA MeasureStarts ==
  ASSUME NEW l, Type(l) = "table", NEW in, NEW d, d = [in |-> in, count |-> 0, highest |-> 0]
  PROVE  Measuring(l, d, DOMAIN l[2], {})
<1>1. PICK seen : seen = DOMAIN l[2] \ (DOMAIN l[2] \cup {}) /\ seen = {}
  OBVIOUS
<1>2. Cardinality(seen) = 0
  BY <1>1, FS_EmptySet
<1>. QED
  BY <1>1, <1>2 DEF Measuring

LEMMA MeasureNext ==
  ASSUME NEW l, NEW d, NEW left, Measuring(l, d, left, {}), NEW k \in left
  PROVE  Measuring(l, d, left \ {k}, {k})
<1>1. (left \ {k}) \cup {k} = left \cup {}
  OBVIOUS
<1>. QED
  BY <1>1 DEF Measuring

WithKey(d, k) == [d EXCEPT !.count = @ + 1, !.highest = IF k[2] > @ THEN k[2] ELSE @]

LEMMA MeasurePair ==
  ASSUME NEW l, Sane(l), NEW d, NEW left, NEW k, Measuring(l, d, left, {k}), IsPosition(k)
  PROVE  Measuring(l, WithKey(d, k), left, {}) /\ WithKey(d, k).in = d.in
<1>e. PICK e : e = WithKey(d, k)
  OBVIOUS
<1>1. PICK seen : seen = DOMAIN l[2] \ (left \cup {k})
  OBVIOUS
<1>2. PICK now : now = DOMAIN l[2] \ (left \cup {})
  OBVIOUS
<1>3. /\ Type(l) = "table" /\ left \cup {k} \subseteq DOMAIN l[2] /\ left \cap {k} = {}
      /\ d = [in |-> d.in, count |-> Cardinality(seen), highest |-> d.highest]
      /\ d.highest \in Nat
      /\ \A x \in seen : IsPosition(x) /\ x[2] <= d.highest
      /\ d.highest > 0 => \E x \in seen : x[2] = d.highest
  BY <1>1 DEF Measuring
<1>4. now = seen \cup {k} /\ k \notin seen
  BY <1>1, <1>2, <1>3
<1>5. Cardinality(now) = Cardinality(seen) + 1 /\ Cardinality(seen) \in Nat
  <2>1. IsFiniteSet(DOMAIN l[2])
    BY <1>3, FiniteTable
  <2>2. IsFiniteSet(seen)
    BY <1>1, <2>1, FS_Subset
  <2>. QED
    BY <1>4, <2>2, FS_AddElement, FS_CardinalityType
<1>6. PICK p \in Nat \ {0} : p = k[2]
  BY <1>3, PositionIs
<1>7. PICK h \in Nat : h = d.highest
  BY <1>3
<1>8. PICK c \in Nat : c = Cardinality(seen)
  BY <1>5
<1>9. PICK g \in Nat : g = IF p > h THEN p ELSE h
  BY <1>6, <1>7
<1>i. PICK i : i = d.in
  OBVIOUS
<1>d. d = [in |-> i, count |-> c, highest |-> h]
  BY <1>3, <1>7, <1>8, <1>i
<1>10. e = [in |-> i, count |-> c + 1, highest |-> g]
  <2>1. e = [d EXCEPT !.count = c + 1, !.highest = g]
    BY <1>6, <1>9, <1>d, <1>e DEF WithKey
  <2>. QED
    BY <1>d, <2>1
<1>11. \A x \in seen : x[2] \in Nat /\ x[2] <= h
  BY <1>1, <1>3, <1>7, PositionIs
<1>12. \A x \in now : IsPosition(x) /\ x[2] <= g
  BY <1>3, <1>4, <1>6, <1>7, <1>9, <1>11
<1>13. g > 0 => \E x \in now : x[2] = g
  BY <1>3, <1>4, <1>6, <1>7, <1>9
<1>14. e.in = d.in /\ e.count = Cardinality(now) /\ e.highest = g
  <2>1. e.in = d.in /\ e.count = c + 1 /\ e.highest = g
    <3>1. PICK f : f = [in |-> i, count |-> c + 1, highest |-> g]
      OBVIOUS
    <3>2. f.in = i /\ f.count = c + 1 /\ f.highest = g
      BY <3>1
    <3>. QED
      BY <1>10, <1>i, <3>1, <3>2, Zenon
  <2>. QED
    BY <1>5, <1>8, <2>1
<1>15. left \cup {} \subseteq DOMAIN l[2] /\ left \cap {} = {}
  BY <1>3
<1>. QED
  BY <1>2, <1>3, <1>9, <1>10, <1>e, <1>i, <1>12, <1>13, <1>14, <1>15 DEF Measuring

LEMMA MeasureRefused ==
  ASSUME NEW l, Sane(l), NEW d, NEW left, NEW k, Measuring(l, d, left, {k}), ~IsPosition(k)
  PROVE  ~IsList(l)
<1>1. k \in DOMAIN l[2] /\ Type(l) = "table"
  BY DEF Measuring
<1>. QED
  BY <1>1, ListIsOfPositions

LEMMA MeasureEnds ==
  ASSUME NEW l, Sane(l), NEW d, Measuring(l, d, {}, {})
  PROVE  /\ IsList(l) <=> d.count = d.highest
         /\ d.count = Cardinality(DOMAIN l[2]) /\ Type(l) = "table"
<1>1. DOMAIN l[2] \ ({} \cup {}) = DOMAIN l[2]
  OBVIOUS
<1>2. /\ Type(l) = "table" /\ d.highest \in Nat
      /\ d = [in |-> d.in, count |-> Cardinality(DOMAIN l[2]), highest |-> d.highest]
      /\ \A k \in DOMAIN l[2] : IsPosition(k) /\ k[2] <= d.highest
      /\ d.highest > 0 => \E k \in DOMAIN l[2] : k[2] = d.highest
  BY <1>1 DEF Measuring
<1>3. \A k \in DOMAIN l[2] : k \in Positions(d.highest)
  <2>1. PICK h \in Nat : h = d.highest
    BY <1>2
  <2>2. PICK seen : seen = DOMAIN l[2]
    OBVIOUS
  <2>3. \A k \in seen : k \in Positions(h)
    BY <1>2, <2>1, <2>2, PositionsBelow
  <2>. QED
    BY <2>1, <2>2, <2>3
<1>4. IsFiniteSet(DOMAIN l[2])
  BY <1>2, FiniteTable
<1>5. IsList(l) <=> Cardinality(DOMAIN l[2]) = d.highest
  BY <1>2, <1>3, <1>4, DenseIsList
<1>6. d.count = Cardinality(DOMAIN l[2])
  BY <1>2
<1>. QED
  BY <1>2, <1>5, <1>6

-----------------------------------------------------------------------------
(* What has been read, row by row and token by token.                      *)

LEMMA NoRows ==
  ASSUME NEW c, NEW t
  PROVE  RowsAre(c, t, {}, {})
  BY DEF RowsAre

LEMMA ReadNone ==
  ASSUME NEW v
  PROVE  Read(v, <<>>, 0)
  BY EmptyTuple DEF Read

LEMMA ReadMore ==
  ASSUME NEW v, NEW l, NEW n \in Nat, Read(v, l, n), NEW e,
         IsToken(v[2][Number(n + 1, "whole")]), e.id = FieldOf(v[2][Number(n + 1, "whole")], Str("id"))
  PROVE  Read(v, Append(l, e), n + 1)
<1>1. Tuple(l, n)
  BY DEF Read
<1>2. PICK m : m = Append(l, e)
  OBVIOUS
<1>3. Tuple(m, n + 1) /\ m[n + 1] = e /\ Keeps(m, l, n)
  BY <1>1, <1>2, Pushed DEF Atop
<1>4. ASSUME NEW i \in 1..(n + 1)
      PROVE  IsToken(v[2][Number(i, "whole")]) /\ m[i].id = FieldOf(v[2][Number(i, "whole")], Str("id"))
  <2>1. CASE i = n + 1
    BY <1>3, <2>1
  <2>2. CASE i # n + 1
    <3>1. i \in 1..n /\ m[i] = l[i]
      BY <1>3, <2>2 DEF Keeps
    <3>. QED
      BY <3>1 DEF Read
  <2>. QED
    BY <2>1, <2>2
<1>. QED
  BY <1>2, <1>3, <1>4 DEF Read

LEMMA RowNames ==
  ASSUME NEW c, c # "replies", NEW k, NEW v, RowRead(c, k, v) # Absent
  PROVE  RowRead(c, k, v)[1] = k
<1>1. CASE c = "configure"
  BY <1>1 DEF RowRead
<1>2. CASE c # "configure"
  BY <1>2 DEF RowRead
<1>. QED
  BY <1>1, <1>2

LEMMA RowAdded ==
  ASSUME NEW c, NEW t, NEW rs, NEW past, RowsAre(c, t, rs, past),
         NEW k, KeyTaken(c, k), ~IsTokens(c, k, t[2][k]), RowRead(c, k, t[2][k]) # Absent, k \in DOMAIN t[2]
  PROVE  RowsAre(c, t, rs \cup {RowRead(c, k, t[2][k])}, past \cup {k})
<1>1. PICK v : v = t[2][k]
  OBVIOUS
<1>2. PICK r : r = RowRead(c, k, v)
  OBVIOUS
<1>3. Sound(c, k, v)
  BY <1>1 DEF Sound
<1>4. c = "replies" => r = v
  BY <1>1, <1>2 DEF RowRead
<1>5. c # "replies" => r[1] = k
  BY <1>1, <1>2, RowNames
<1>6. ~IsTokens(c, r[1], FieldOf(t, r[1]))
  <2>1. CASE c = "replies"
    BY <2>1 DEF IsTokens
  <2>2. CASE c # "replies"
    BY <1>1, <1>5, <2>2 DEF FieldOf
  <2>. QED
    BY <2>1, <2>2
<1>7. \A x \in past \cup {k} : Sound(c, x, t[2][x])
  BY <1>1, <1>3 DEF RowsAre
<1>8. c # "replies" => {x[1] : x \in rs \cup {r}} = past \cup {k}
  BY <1>5 DEF RowsAre
<1>9. c = "replies" => rs \cup {r} = {t[2][x] : x \in past \cup {k}}
  BY <1>1, <1>4 DEF RowsAre
<1>10. \A x \in rs \cup {r} : IsTokens(c, x[1], FieldOf(t, x[1])) =>
         Read(t[2][x[1]], x[2], Cardinality(DOMAIN t[2][x[1]][2]))
  BY <1>6 DEF RowsAre
<1>11. RowsAre(c, t, rs \cup {r}, past \cup {k})
  BY <1>7, <1>8, <1>9, <1>10, Zenon DEF RowsAre
<1>. QED
  BY <1>1, <1>2, <1>11

LEMMA TokensAdded ==
  ASSUME NEW c, NEW t, NEW rs, NEW past, RowsAre(c, t, rs, past),
         NEW k \in DOMAIN t[2], NEW l, IsTokens(c, k, t[2][k]), IsList(t[2][k]), Sane(t[2][k]),
         Read(t[2][k], l, Cardinality(DOMAIN t[2][k][2]))
  PROVE  RowsAre(c, t, rs \cup {<<Str("tokens"), l>>}, past \cup {k})
<1>1. PICK v : v = t[2][k]
  OBVIOUS
<1>2. PICK r : r = <<k, l>>
  OBVIOUS
<1>3. c = "configure" /\ k = Str("tokens") /\ Type(v) = "table"
  BY <1>1 DEF IsTokens
<1>4. PICK n \in Nat : n = Cardinality(DOMAIN v[2])
  BY <1>1, <1>3, FiniteTable
<1>5. \A x \in DOMAIN v[2] : IsToken(v[2][x])
  <2>. SUFFICES ASSUME NEW x \in DOMAIN v[2] PROVE IsToken(v[2][x])
    OBVIOUS
  <2>1. PICK i \in 1..n : x = Number(i, "whole")
    BY <1>1, <1>4, ListHolds
  <2>. QED
    BY <1>1, <1>4, <2>1 DEF Read
<1>6. Sound(c, k, v)
  <2>1. KeyTaken(c, k)
    BY <1>3 DEF KeyTaken, Str, Type
  <2>. QED
    BY <1>1, <1>5, <2>1 DEF Sound
<1>7. \A x \in past \cup {k} : Sound(c, x, t[2][x])
  BY <1>1, <1>6 DEF RowsAre
<1>8. c # "replies" => {x[1] : x \in rs \cup {r}} = past \cup {k}
  BY <1>2 DEF RowsAre
<1>9. c # "replies"
  BY <1>3
<1>10. \A x \in rs \cup {r} : IsTokens(c, x[1], FieldOf(t, x[1])) =>
         Read(t[2][x[1]], x[2], Cardinality(DOMAIN t[2][x[1]][2]))
  <2>1. r[1] = k /\ r[2] = l
    BY <1>2
  <2>2. Read(t[2][r[1]], r[2], Cardinality(DOMAIN t[2][r[1]][2]))
    BY <2>1
  <2>. QED
    BY <2>2 DEF RowsAre
<1>11. RowsAre(c, t, rs \cup {r}, past \cup {k})
  BY <1>7, <1>8, <1>9, <1>10, Zenon DEF RowsAre
<1>. QED
  BY <1>2, <1>3, <1>11

-----------------------------------------------------------------------------
(* What a call is made with.                                               *)

LEMMA Given ==
  ASSUME SaneCalls, CallInv, step # "idle", Type(First) = "table"
  PROVE  /\ Sane(First)
         /\ \A v \in Within(First) : Sane(v) /\ \A e \in Within(v) : Sane(e) /\ \A l \in Within(e) : Sane(l)
<1>1. call \in DOMAIN Calls /\ args \in Calls[call]
  BY DEF CallInv
<1>2. args # <<>> /\ First = args[1]
  <2>1. First = IF 1 <= Len(args) THEN args[1] ELSE Nil
    BY DEF First, Arg
  <2>2. Type(Nil) # "table"
    BY DEF Type, Nil
  <2>3. args = <<>> => ~(1 <= Len(args))
    OBVIOUS
  <2>. QED
    BY <2>1, <2>2, <2>3
<1>. QED
  BY <1>1, <1>2 DEF SaneCalls

-----------------------------------------------------------------------------
(* The steps.  What a step leaves of the call and of what was read.        *)

LEMMA Unmoved ==
  ASSUME call' = call, args' = args
  PROVE  First' = First /\ HashIsRead' = HashIsRead /\ InTable' = InTable
<1>1. First' = First
  BY DEF First, Arg
<1>2. HashIsRead' = HashIsRead
  BY DEF HashIsRead, Arg
<1>. QED
  BY <1>1, <1>2 DEF InTable

(* The table in hand, and the list, entry and list of it, are sane.        *)
LEMMA RowIs ==
  ASSUME SaneCalls, CallInv, step # "idle", NEW n, NEW w, AtRow(n, w)
  PROVE  Sane(First) /\ stack[1] \in DOMAIN First[2] /\ Sane(stack[2])
<1>1. Sane(First) /\ \A v \in Within(First) : Sane(v)
  BY Given DEF AtRow, Walk, InTable
<1>2. stack[1] \in DOMAIN First[2]
  BY DEF AtRow, Walk
<1>3. stack[2] \in Within(First)
  BY <1>2 DEF AtRow, Walk, InTable, Within
<1>. QED
  BY <1>1, <1>2, <1>3

LEMMA EntryIs ==
  ASSUME SaneCalls, CallInv, step # "idle", NEW n, NEW w, AtEntry(n, w)
  PROVE  /\ nth[2] \in Nat /\ nth[1] \in 1..nth[2] /\ nth[2] = Cardinality(DOMAIN stack[2][2])
         /\ Number(nth[1], "whole") \in DOMAIN stack[2][2]
         /\ Sane(stack[3]) /\ \A l \in Within(stack[3]) : Sane(l)
<1>1. \A v \in Within(First) : Sane(v) /\ \A e \in Within(v) : Sane(e) /\ \A l \in Within(e) : Sane(l)
  BY Given DEF AtEntry, InList, InTokens, AtRow, Walk, InTable
<1>2. stack[2] \in Within(First) /\ Sane(stack[2])
  <2>1. stack[1] \in DOMAIN First[2]
    BY DEF AtEntry, InList, InTokens, AtRow, Walk
  <2>. QED
    BY <1>1, <2>1 DEF AtEntry, InList, InTokens, AtRow, Walk, InTable, Within
<1>3. Type(stack[2]) = "table" /\ IsList(stack[2])
  BY DEF AtEntry, InList, InTokens, IsTokens
<1>4. PICK c \in Nat : c = Cardinality(DOMAIN stack[2][2])
  BY <1>2, <1>3, FiniteTable
<1>5. PICK i \in 1..(c + 1) : i = nth[1] /\ nth[2] = c /\ i <= c
  <2>1. nth = <<nth[1], c>> /\ nth[1] \in 1..(nth[2] + 1) /\ nth[1] <= nth[2]
    BY <1>4 DEF AtEntry, InList
  <2>2. nth[2] = c
    BY <2>1
  <2>. QED
    BY <2>1, <2>2
<1>6. i \in 1..c /\ Number(i, "whole") \in DOMAIN stack[2][2]
  BY <1>3, <1>4, <1>5, ListHolds
<1>7. stack[3] = stack[2][2][Number(i, "whole")]
  BY <1>5 DEF AtEntry
<1>8. stack[3] \in Within(stack[2])
  BY <1>3, <1>6, <1>7 DEF Within
<1>. QED
  BY <1>1, <1>2, <1>4, <1>5, <1>6, <1>8

LEMMA CapsAre ==
  ASSUME SaneCalls, CallInv, step # "idle", NEW n, NEW w, InEntry(n, w), Type(stack[4]) = "table"
  PROVE  Sane(stack[4])
<1>1. \A l \in Within(stack[3]) : Sane(l)
  BY EntryIs DEF InEntry
<1>2. Type(stack[3]) = "table"
  BY DEF InEntry, HasNames
<1>3. Str("caps") \in DOMAIN stack[3][2] /\ stack[4] = stack[3][2][Str("caps")]
  BY DEF InEntry, FieldOf, Type, Nil
<1>. QED
  BY <1>1, <1>2, <1>3 DEF Within

(* A value that will not do refuses the call, and rightly.                 *)
LEMMA RowRefuses ==
  ASSUME NEW n, NEW w, AtRow(n, w), ~Sound(call, stack[1], stack[2]), call' = call, args' = args,
         step' = "raised", given' = <<>>, Len(stack') <= 1
  PROVE  Ended'
<1>1. First' = First
  BY Unmoved
<1>2. stack[1] \in DOMAIN First[2] /\ ~Sound(call, stack[1], First[2][stack[1]])
  BY DEF AtRow, Walk
<1>3. ReadWhole'
  BY <1>1, <1>2 DEF ReadWhole, First
<1>. QED
  BY <1>3 DEF Ended

LEMMA TokenRefuses ==
  ASSUME SaneCalls, CallInv, step # "idle", NEW n, NEW w, AtEntry(n, w), ~IsToken(stack[3])
  PROVE  ~Sound(call, stack[1], stack[2])
<1>1. Number(nth[1], "whole") \in DOMAIN stack[2][2]
  BY EntryIs
<1>. QED
  BY <1>1 DEF AtEntry, InList, InTokens, Sound

(* What a step that touches only what is above leaves in place.            *)
LEMMA RowKept ==
  ASSUME NEW n, NEW w, NEW m, NEW x, AtRow(n, w), UNCHANGED <<call, args, rows>>,
         Tuple(stack', m), Tuple(todo', x), stack'[1] = stack[1], stack'[2] = stack[2], todo'[x] = todo[w]
  PROVE  AtRow(m, x)'
<1>1. First' = First /\ HashIsRead' = HashIsRead /\ InTable' = InTable
  BY Unmoved
<1>. QED
  BY <1>1 DEF AtRow, Walk

LEMMA TokensKept ==
  ASSUME NEW n, NEW w, NEW m, NEW x, InTokens(n, w), UNCHANGED <<call, args, rows>>,
         Tuple(stack', m), Tuple(todo', x), stack'[1] = stack[1], stack'[2] = stack[2], todo'[x] = todo[w]
  PROVE  InTokens(m, x)'
  BY RowKept DEF InTokens

LEMMA ListKept ==
  ASSUME NEW n, NEW w, NEW m, NEW x, InList(n, w), UNCHANGED <<call, args, rows, nth, list>>,
         Tuple(stack', m), Tuple(todo', x), stack'[1] = stack[1], stack'[2] = stack[2], todo'[x] = todo[w]
  PROVE  InList(m, x)'
  BY TokensKept DEF InList

LEMMA EntryKept ==
  ASSUME NEW n, NEW w, NEW m, NEW x, InEntry(n, w), UNCHANGED <<call, args, rows, nth, list>>,
         Tuple(stack', m), Tuple(todo', x), stack'[1] = stack[1], stack'[2] = stack[2],
         stack'[3] = stack[3], stack'[4] = stack[4], todo'[x] = todo[w]
  PROVE  InEntry(m, x)'
  BY ListKept DEF InEntry, AtEntry

-----------------------------------------------------------------------------
(* Each step keeps the invariant.                                          *)

LEMMA MakeKeeps ==
  ASSUME ShimInv, NEW c \in DOMAIN Calls, NEW a \in Calls[c], Make(c, a)
  PROVE  ShimInv'
<1>1. CallInv'
  BY DEF ShimInv, CallInv, Make, bridge, reading, InWalk
<1>2. Before'
  BY DEF ShimInv, StepInv, Make, reading, Before
<1>. QED
  BY <1>1, <1>2 DEF ShimInv, StepInv, Make

LEMMA CheckTypeKeeps ==
  ASSUME ShimInv, CheckType
  PROVE  ShimInv'
<1>1. step = "check" /\ Before /\ rows = {} /\ given = <<>> /\ ~live
      /\ UNCHANGED <<call, args, todo, dense, nth, rows, list, given>>
  BY DEF CheckType, ShimInv, StepInv, CallInv, InWalk, reading, bridge
<1>2. First' = First /\ InTable' = InTable
  BY <1>1, Unmoved
<1>3. call \in Tables => Wanted[call] = "table"
  BY DEF Wanted, Tables
<1>4. CASE Type(Arg(1)) # Wanted[call]
  <2>1. RaiseNow
    BY <1>4 DEF CheckType
  <2>2. Len(stack') <= 1
    BY <1>1, <2>1, TupleLen DEF RaiseNow, Before
  <2>3. ReadWhole'
    BY <1>1, <1>2, <1>3, <1>4 DEF ReadWhole, First
  <2>4. Ended'
    BY <2>2, <2>3 DEF Ended
  <2>5. CallInv'
    BY <1>1, <2>1 DEF ShimInv, CallInv, RaiseNow, InWalk
  <2>. QED
    BY <2>1, <2>4, <2>5 DEF ShimInv, StepInv, RaiseNow
<1>5. CASE Type(Arg(1)) = Wanted[call]
  <2>1. UNCHANGED <<stack, live>> /\ step' = IF call \in Tables THEN "hash" ELSE "bridge"
    BY <1>5 DEF CheckType
  <2>2. CASE call \in Tables
    <3>1. AtHash'
      BY <1>1, <1>2, <1>3, <1>5, <2>1, <2>2 DEF AtHash, Before, InTable, First
    <3>2. CallInv'
      BY <1>1, <2>1, <2>2 DEF ShimInv, CallInv, InWalk
    <3>. QED
      BY <2>1, <2>2, <3>1, <3>2 DEF ShimInv, StepInv
  <2>3. CASE call \notin Tables
    <3>1. Ready'
      BY <1>1, <2>1, <2>3 DEF Ready, Before
    <3>2. CallInv'
      BY <1>1, <2>1, <2>3 DEF ShimInv, CallInv, InWalk
    <3>. QED
      BY <2>1, <2>3, <3>1, <3>2 DEF ShimInv, StepInv
  <2>. QED
    BY <2>2, <2>3
<1>. QED
  BY <1>4, <1>5

LEMMA OpenTableKeeps ==
  ASSUME ShimInv, OpenTable
  PROVE  ShimInv'
<1>1. step = "hash" /\ Before /\ InTable /\ rows = {} /\ given = <<>> /\ UNCHANGED <<call, args, rows, given>>
  BY DEF OpenTable, ShimInv, StepInv, AtHash, CallInv, InWalk, bridge
<1>2. First' = First /\ InTable' = InTable /\ HashIsRead' = HashIsRead
  BY <1>1, Unmoved
<1>3. CASE HashIsRead
  <2>1. StartWalk(First) /\ live' /\ step' = "walk"
    BY <1>3 DEF OpenTable, First
  <2>2. Tuple(stack', 1) /\ Tuple(todo', 1) /\ todo'[1] = DOMAIN First[2]
    <3>1. Tuple(stack', 0 + 1) /\ Tuple(todo', 0 + 1) /\ todo'[1] = DOMAIN First[2]
      BY <1>1, <2>1, WalkStarts DEF Before
    <3>. QED
      BY <3>1
  <2>3. RowsAre(call, First, {}, {})
    BY NoRows
  <2>4. DOMAIN First[2] \ (DOMAIN First[2] \cup {}) = {}
    OBVIOUS
  <2>5. AtWalk'
    BY <1>1, <1>2, <1>3, <2>2, <2>3, <2>4 DEF AtWalk, Walk
  <2>6. CallInv'
    BY <1>1, <2>1 DEF ShimInv, CallInv, InWalk
  <2>. QED
    BY <2>1, <2>5, <2>6 DEF ShimInv, StepInv
<1>4. CASE ~HashIsRead
  <2>1. Refuse(stack)
    BY <1>4 DEF OpenTable
  <2>2. Len(stack') <= 1 /\ step' = "raised" /\ ~live'
    BY <1>1, <2>1, RefusedClean DEF Before
  <2>3. ReadWhole'
    BY <1>1, <1>2, <1>4 DEF ReadWhole
  <2>4. Ended'
    BY <2>2, <2>3 DEF Ended
  <2>5. CallInv'
    BY <1>1, <2>2 DEF ShimInv, CallInv, InWalk
  <2>. QED
    BY <2>2, <2>4, <2>5 DEF ShimInv, StepInv
<1>. QED
  BY <1>3, <1>4

LEMMA NextRowKeeps ==
  ASSUME ShimInv, NextRow
  PROVE  ShimInv'
<1>1. step = "walk" /\ Walk(1, 1, {}) /\ UNCHANGED <<call, args, rows, live, given>>
  BY DEF NextRow, ShimInv, StepInv, AtWalk, bridge
<1>2. First' = First /\ InTable' = InTable /\ HashIsRead' = HashIsRead
  BY <1>1, Unmoved
<1>3. NextPair(First, "row")
  BY DEF NextRow, First
<1>4. PICK k \in todo[1] :
        /\ Tuple(stack', 1 + 1) /\ stack'[1] = k /\ stack'[1 + 1] = First[2][k]
        /\ Tuple(todo', 1) /\ todo'[1] = todo[1] \ {k} /\ step' = "row"
  BY <1>1, <1>3, PairOn DEF Walk
<1>5. (todo[1] \ {k}) \cup {k} = todo[1] \cup {} /\ k \in todo[1] /\ k \notin todo[1] \ {k}
  BY <1>4
<1>6. AtPair'
  BY <1>1, <1>2, <1>4, <1>5 DEF AtPair, AtRow, Walk
<1>7. CallInv'
  BY <1>1, <1>4 DEF ShimInv, CallInv, InWalk
<1>. QED
  BY <1>4, <1>6, <1>7 DEF ShimInv, StepInv

LEMMA RowsEndKeeps ==
  ASSUME ShimInv, RowsEnd
  PROVE  ShimInv'
<1>1. step = "walk" /\ Walk(1, 1, {}) /\ UNCHANGED <<call, args, rows, live, given>> /\ step' = "bridge"
      /\ stack' = Drop(1) /\ Head(todo) = {}
  BY DEF RowsEnd, ShimInv, StepInv, AtWalk, bridge
<1>2. First' = First /\ InTable' = InTable
  BY <1>1, Unmoved
<1>3. todo[1] = {}
  BY <1>1, HeadOf DEF Walk
<1>4. Tuple(stack', 0)
  <2>1. Tuple(Drop(1), 1 - 1)
    BY <1>1, DropOf DEF Walk
  <2>. QED
    BY <1>1, <2>1
<1>5. DOMAIN First[2] \ ({} \cup {}) = DOMAIN First[2]
  OBVIOUS
<1>6. Ready'
  BY <1>1, <1>2, <1>3, <1>4, <1>5 DEF Ready, Walk
<1>7. CallInv'
  BY <1>1 DEF ShimInv, CallInv, InWalk, Walk, InTable
<1>. QED
  BY <1>1, <1>6, <1>7 DEF ShimInv, StepInv

LEMMA RowKeeps ==
  ASSUME ShimInv, Row
  PROVE  ShimInv'
<1>1. step = "row" /\ AtRow(2, 1) /\ UNCHANGED <<call, args, todo, given>> /\ given = <<>>
  BY DEF Row, ShimInv, StepInv, AtPair, CallInv, InWalk, bridge
<1>2. First' = First /\ InTable' = InTable /\ HashIsRead' = HashIsRead
  BY <1>1, Unmoved
<1>3. Tuple(stack, 2)
  BY <1>1 DEF AtRow, Walk
<1>4. stack[Len(stack) - 1] = stack[1] /\ Top = stack[2]
  BY <1>3, TopOf
<1>5. PICK k, v : k = stack[1] /\ v = stack[2]
  OBVIOUS
<1>6. v = First[2][k] /\ k \in DOMAIN First[2] /\ k \notin todo[1] /\ ~IsTokens(call, k, v)
  BY <1>1, <1>4, <1>5 DEF AtRow, Walk, Row
<1>7. CASE KeyTaken(call, k) /\ RowRead(call, k, v) # Absent
  <2>1. /\ rows' = rows \cup {RowRead(call, k, v)}
        /\ stack' = Drop(1) /\ step' = "walk" /\ UNCHANGED live
    BY <1>4, <1>5, <1>7 DEF Row
  <2>2. Tuple(stack', 1)
    <3>1. Tuple(Drop(1), 2 - 1)
      BY <1>3, DropOf
    <3>. QED
      BY <2>1, <3>1
  <2>3. PICK past : past = DOMAIN First[2] \ (todo[1] \cup {k})
    OBVIOUS
  <2>4. RowsAre(call, First, rows, past)
    BY <1>1, <1>5, <2>3 DEF AtRow, Walk
  <2>5. RowsAre(call, First, rows', past \cup {k})
    BY <1>6, <1>7, <2>1, <2>4, RowAdded
  <2>6. past \cup {k} = DOMAIN First[2] \ (todo[1] \cup {})
    BY <1>6, <2>3
  <2>7. AtWalk'
    BY <1>1, <1>2, <2>2, <2>5, <2>6 DEF AtWalk, AtRow, Walk
  <2>8. CallInv'
    BY <1>1, <2>1 DEF ShimInv, CallInv, InWalk
  <2>. QED
    BY <2>1, <2>7, <2>8 DEF ShimInv, StepInv
<1>8. CASE ~(KeyTaken(call, k) /\ RowRead(call, k, v) # Absent)
  <2>1. Refuse(Drop(2))
    BY <1>4, <1>5, <1>8 DEF Row
  <2>2. Tuple(Drop(2), 2 - 2)
    BY <1>3, DropOf
  <2>3. Len(stack') <= 1 /\ step' = "raised" /\ ~live'
    BY <2>1, <2>2, RefusedClean
  <2>4. ~Sound(call, k, v)
    BY <1>6, <1>8 DEF Sound
  <2>5. Ended'
    BY <1>1, <1>5, <2>3, <2>4, RowRefuses
  <2>6. CallInv'
    BY <1>1, <2>3 DEF ShimInv, CallInv, InWalk
  <2>. QED
    BY <2>3, <2>5, <2>6 DEF ShimInv, StepInv
<1>. QED
  BY <1>7, <1>8

LEMMA RowTokensKeeps ==
  ASSUME ShimInv, RowTokens
  PROVE  ShimInv'
<1>1. step = "row" /\ AtRow(2, 1) /\ UNCHANGED <<call, args, rows, live, given>> /\ step' = "dense"
      /\ StartWalk(Top) /\ dense' = [in |-> "tokens", count |-> 0, highest |-> 0]
      /\ IsTokens(call, stack[Len(stack) - 1], Top)
  BY DEF RowTokens, ShimInv, StepInv, AtPair, bridge
<1>2. Tuple(stack, 2) /\ Tuple(todo, 1)
  BY <1>1 DEF AtRow, Walk
<1>3. stack[Len(stack) - 1] = stack[1] /\ Top = stack[2]
  BY <1>2, TopOf
<1>4. InTokens(2, 1)
  BY <1>1, <1>3 DEF InTokens
<1>5. /\ Tuple(stack', 2 + 1) /\ Keeps(stack', stack, 2)
      /\ Tuple(todo', 1 + 1) /\ todo'[1] = DOMAIN stack[2][2] /\ Shifts(todo', todo, 1)
  BY <1>1, <1>2, <1>3, WalkStarts
<1>6. stack'[1] = stack[1] /\ stack'[2] = stack[2] /\ todo'[2] = todo[1] /\ Tuple(stack', 3) /\ Tuple(todo', 2)
  BY <1>5 DEF Keeps, Shifts
<1>7. InTokens(3, 2)'
  BY <1>1, <1>4, <1>6, TokensKept
<1>8. Measuring(stack[2], dense', DOMAIN stack[2][2], {})
  BY <1>1, <1>3, MeasureStarts DEF IsTokens
<1>9. dense'.in = "tokens"
  BY <1>1
<1>10. InDense'
  BY <1>5, <1>6, <1>7, <1>8, <1>9 DEF InDense
<1>11. CallInv'
  BY <1>1 DEF ShimInv, CallInv, InWalk
<1>. QED
  BY <1>1, <1>10, <1>11 DEF ShimInv, StepInv

LEMMA DenseNextKeeps ==
  ASSUME ShimInv, DenseNext
  PROVE  ShimInv'
<1>1. step = "dense" /\ InDense /\ UNCHANGED <<call, args, dense, nth, rows, list, live, given>>
      /\ NextPair(Measured, "pair")
  BY DEF DenseNext, ShimInv, StepInv, bridge
<1>2. CASE dense.in = "tokens"
  <2>1. InTokens(3, 2) /\ Measuring(stack[2], dense, todo[1], {}) /\ Measured = stack[2]
    BY <1>1, <1>2 DEF InDense, Measured
  <2>2. Tuple(stack, 3) /\ Tuple(todo, 2)
    BY <2>1 DEF InTokens, AtRow, Walk
  <2>3. PICK k \in todo[1] :
          /\ Tuple(stack', 3 + 1) /\ stack'[3] = k
          /\ Keeps(stack', stack, 3 - 1)
          /\ Tuple(todo', 2) /\ todo'[1] = todo[1] \ {k} /\ \A i \in 2..2 : todo'[i] = todo[i]
          /\ step' = "pair"
    BY <1>1, <2>1, <2>2, PairOn
  <2>4. stack'[1] = stack[1] /\ stack'[2] = stack[2] /\ todo'[2] = todo[2] /\ Tuple(stack', 4)
    BY <2>3 DEF Keeps
  <2>5. InTokens(4, 2)'
    BY <1>1, <2>1, <2>3, <2>4, TokensKept
  <2>6. Measuring(stack[2], dense, todo[1] \ {k}, {k})
    BY <2>1, <2>3, MeasureNext
  <2>7. DenseKey'
    BY <1>1, <1>2, <2>3, <2>4, <2>5, <2>6 DEF DenseKey
  <2>8. CallInv'
    BY <1>1, <2>3 DEF ShimInv, CallInv, InWalk
  <2>. QED
    BY <2>3, <2>7, <2>8 DEF ShimInv, StepInv
<1>3. CASE dense.in = "caps"
  <2>1. InEntry(5, 2) /\ Measuring(stack[4], dense, todo[1], {}) /\ Measured = stack[4]
    BY <1>1, <1>3 DEF InDense, Measured
  <2>2. Tuple(stack, 5) /\ Tuple(todo, 2)
    BY <2>1 DEF InEntry, AtEntry, InList, InTokens, AtRow, Walk
  <2>3. PICK k \in todo[1] :
          /\ Tuple(stack', 5 + 1) /\ stack'[5] = k
          /\ Keeps(stack', stack, 5 - 1)
          /\ Tuple(todo', 2) /\ todo'[1] = todo[1] \ {k} /\ \A i \in 2..2 : todo'[i] = todo[i]
          /\ step' = "pair"
    BY <1>1, <2>1, <2>2, PairOn
  <2>4. /\ stack'[1] = stack[1] /\ stack'[2] = stack[2] /\ stack'[3] = stack[3] /\ stack'[4] = stack[4]
        /\ todo'[2] = todo[2] /\ Tuple(stack', 6)
    BY <2>3 DEF Keeps
  <2>5. InEntry(6, 2)'
    BY <1>1, <2>1, <2>3, <2>4, EntryKept
  <2>6. Measuring(stack[4], dense, todo[1] \ {k}, {k})
    BY <2>1, <2>3, MeasureNext
  <2>7. DenseKey'
    BY <1>1, <1>3, <2>3, <2>4, <2>5, <2>6 DEF DenseKey
  <2>8. CallInv'
    BY <1>1, <2>3 DEF ShimInv, CallInv, InWalk
  <2>. QED
    BY <2>3, <2>7, <2>8 DEF ShimInv, StepInv
<1>. QED
  BY <1>1, <1>2, <1>3 DEF InDense

LEMMA DensePairKeeps ==
  ASSUME SaneCalls, ShimInv, DensePair
  PROVE  ShimInv'
<1>1. step = "pair" /\ DenseKey /\ UNCHANGED <<call, args, todo, nth, rows, list, live, given>>
      /\ step' = "dense" /\ stack' = Drop(1) /\ CallInv
  BY DEF DensePair, ShimInv, StepInv, bridge
<1>2. CASE dense.in = "tokens"
  <2>1. InTokens(4, 2) /\ Measuring(stack[2], dense, todo[1], {stack[3]})
    BY <1>1, <1>2 DEF DenseKey
  <2>2. Tuple(stack, 4) /\ Tuple(todo, 2)
    BY <2>1 DEF InTokens, AtRow, Walk
  <2>3. PICK k : k = stack[3] /\ k = stack[Len(stack) - 1]
    BY <2>2, TupleLen
  <2>4. IsPosition(k) /\ dense' = WithKey(dense, k)
    BY <2>3 DEF DensePair, WithKey
  <2>5. Sane(stack[2])
    BY <1>1, <2>1, RowIs DEF InTokens
  <2>6. Measuring(stack[2], dense', todo[1], {}) /\ dense'.in = dense.in
    BY <2>1, <2>3, <2>4, <2>5, MeasurePair
  <2>7. Tuple(stack', 4 - 1) /\ Keeps(stack', stack, 4 - 1)
    BY <1>1, <2>2, DropOf
  <2>8. stack'[1] = stack[1] /\ stack'[2] = stack[2] /\ Tuple(stack', 3) /\ todo'[2] = todo[2] /\ Tuple(todo', 2)
    BY <1>1, <2>2, <2>7 DEF Keeps
  <2>9. InTokens(3, 2)'
    BY <1>1, <2>1, <2>8, TokensKept
  <2>10. InDense'
    BY <1>1, <1>2, <2>6, <2>8, <2>9 DEF InDense
  <2>11. CallInv'
    BY <1>1 DEF CallInv, InWalk
  <2>. QED
    BY <1>1, <2>10, <2>11 DEF ShimInv, StepInv
<1>3. CASE dense.in = "caps"
  <2>1. InEntry(6, 2) /\ Measuring(stack[4], dense, todo[1], {stack[5]})
    BY <1>1, <1>3 DEF DenseKey
  <2>2. Tuple(stack, 6) /\ Tuple(todo, 2)
    BY <2>1 DEF InEntry, AtEntry, InList, InTokens, AtRow, Walk
  <2>3. PICK k : k = stack[5] /\ k = stack[Len(stack) - 1]
    BY <2>2, TupleLen
  <2>4. IsPosition(k) /\ dense' = WithKey(dense, k)
    BY <2>3 DEF DensePair, WithKey
  <2>5. Sane(stack[4])
    BY <1>1, <2>1, CapsAre DEF Measuring
  <2>6. Measuring(stack[4], dense', todo[1], {}) /\ dense'.in = dense.in
    BY <2>1, <2>3, <2>4, <2>5, MeasurePair
  <2>7. Tuple(stack', 6 - 1) /\ Keeps(stack', stack, 6 - 1)
    BY <1>1, <2>2, DropOf
  <2>8. /\ stack'[1] = stack[1] /\ stack'[2] = stack[2] /\ stack'[3] = stack[3] /\ stack'[4] = stack[4]
        /\ Tuple(stack', 5) /\ todo'[2] = todo[2] /\ Tuple(todo', 2)
    BY <1>1, <2>2, <2>7 DEF Keeps
  <2>9. InEntry(5, 2)'
    BY <1>1, <2>1, <2>8, EntryKept
  <2>10. InDense'
    BY <1>1, <1>3, <2>6, <2>8, <2>9 DEF InDense
  <2>11. CallInv'
    BY <1>1 DEF CallInv, InWalk
  <2>. QED
    BY <1>1, <2>10, <2>11 DEF ShimInv, StepInv
<1>. QED
  BY <1>1, <1>2, <1>3 DEF DenseKey

(* A list that is not dense makes its row, or its entry, one that will not *)
(* do.                                                                     *)
LEMMA ListRefuses ==
  ASSUME SaneCalls, CallInv, step # "idle", NEW n, NEW w
  PROVE  /\ InTokens(n, w) /\ ~IsList(stack[2]) => ~Sound(call, stack[1], stack[2])
         /\ InEntry(n, w) /\ ~IsCaps(stack[4]) => ~Sound(call, stack[1], stack[2])
<1>1. ASSUME InEntry(n, w), ~IsCaps(stack[4]) PROVE ~Sound(call, stack[1], stack[2])
  <2>1. ~IsToken(stack[3]) /\ AtEntry(n, w)
    BY <1>1 DEF InEntry, IsToken
  <2>. QED
    BY <2>1, TokenRefuses
<1>2. ASSUME InTokens(n, w), ~IsList(stack[2]) PROVE ~Sound(call, stack[1], stack[2])
  BY <1>2 DEF InTokens, Sound
<1>. QED
  BY <1>1, <1>2

(* Refused in the middle of a row, with nothing left on the stack.         *)
LEMMA Refuses ==
  ASSUME SaneCalls, CallInv, step \in InWalk, NEW n \in Nat, NEW w, NEW j, j = n, AtRow(n, w),
         Refuse(Drop(j)), ~Sound(call, stack[1], stack[2]), UNCHANGED <<call, args, given>>
  PROVE  ShimInv'
<1>1. Tuple(Drop(n), n - n) /\ n - n = 0
  BY DropOf DEF AtRow, Walk
<1>2. Len(stack') <= 1 /\ step' = "raised" /\ ~live'
  BY <1>1, RefusedClean
<1>3. given' = <<>>
  BY DEF CallInv, InWalk
<1>4. Ended'
  BY <1>2, <1>3, RowRefuses
<1>5. CallInv'
  BY <1>2 DEF CallInv, InWalk
<1>. QED
  BY <1>2, <1>4, <1>5 DEF ShimInv, StepInv

LEMMA DenseRefusedKeeps ==
  ASSUME SaneCalls, ShimInv, DenseRefused
  PROVE  ShimInv'
<1>1. step = "pair" /\ DenseKey /\ UNCHANGED <<call, args, given>> /\ CallInv
      /\ ~IsPosition(stack[Len(stack) - 1]) /\ Refuse(Drop(2 + AboveRow + 2))
  BY DEF DenseRefused, ShimInv, StepInv, bridge
<1>2. step \in InWalk /\ step # "idle"
  BY <1>1 DEF InWalk
<1>3. CASE dense.in = "tokens"
  <2>1. InTokens(4, 2) /\ Measuring(stack[2], dense, todo[1], {stack[3]})
    BY <1>1, <1>3 DEF DenseKey
  <2>2. AtRow(4, 2) /\ Tuple(stack, 4)
    BY <2>1 DEF InTokens, AtRow, Walk
  <2>3. stack[Len(stack) - 1] = stack[3]
    BY <2>2, TupleLen
  <2>4. Sane(stack[2])
    BY <1>1, <1>2, <2>2, RowIs
  <2>5. ~IsList(stack[2])
    BY <1>1, <2>1, <2>3, <2>4, MeasureRefused
  <2>6. ~Sound(call, stack[1], stack[2])
    BY <1>1, <1>2, <2>1, <2>5, ListRefuses
  <2>7. Refuse(Drop(4))
    BY <1>1, <1>3 DEF AboveRow
  <2>. QED
    BY <1>1, <1>2, <2>2, <2>6, <2>7, Refuses
<1>4. CASE dense.in = "caps"
  <2>1. InEntry(6, 2) /\ Measuring(stack[4], dense, todo[1], {stack[5]})
    BY <1>1, <1>4 DEF DenseKey
  <2>2. AtRow(6, 2) /\ Tuple(stack, 6)
    BY <2>1 DEF InEntry, AtEntry, InList, InTokens, AtRow, Walk
  <2>3. stack[Len(stack) - 1] = stack[5]
    BY <2>2, TupleLen
  <2>4. Sane(stack[4])
    BY <1>1, <1>2, <2>1, CapsAre DEF Measuring
  <2>5. ~IsCaps(stack[4])
    BY <1>1, <2>1, <2>3, <2>4, MeasureRefused DEF IsCaps
  <2>6. ~Sound(call, stack[1], stack[2])
    BY <1>1, <1>2, <2>1, <2>5, ListRefuses
  <2>7. Refuse(Drop(6))
    BY <1>1, <1>4 DEF AboveRow
  <2>. QED
    BY <1>1, <1>2, <2>2, <2>6, <2>7, Refuses
<1>. QED
  BY <1>1, <1>3, <1>4 DEF DenseKey

LEMMA DenseHoleKeeps ==
  ASSUME SaneCalls, ShimInv, DenseHole
  PROVE  ShimInv'
<1>1. step = "dense" /\ InDense /\ UNCHANGED <<call, args, given>> /\ CallInv
      /\ Head(todo) = {} /\ dense.count # dense.highest /\ Refuse(Drop(1 + AboveRow + 2))
  BY DEF DenseHole, Hole, ShimInv, StepInv, bridge
<1>2. step \in InWalk /\ step # "idle"
  BY <1>1 DEF InWalk
<1>3. CASE dense.in = "tokens"
  <2>1. InTokens(3, 2) /\ Measuring(stack[2], dense, todo[1], {})
    BY <1>1, <1>3 DEF InDense
  <2>2. AtRow(3, 2) /\ Tuple(todo, 2)
    BY <2>1 DEF InTokens, AtRow, Walk
  <2>3. todo[1] = {}
    BY <1>1, <2>2, HeadOf
  <2>4. Sane(stack[2])
    BY <1>1, <1>2, <2>2, RowIs
  <2>5. ~IsList(stack[2])
    BY <1>1, <2>1, <2>3, <2>4, MeasureEnds
  <2>6. ~Sound(call, stack[1], stack[2])
    BY <1>1, <1>2, <2>1, <2>5, ListRefuses
  <2>7. Refuse(Drop(3))
    BY <1>1, <1>3 DEF AboveRow
  <2>. QED
    BY <1>1, <1>2, <2>2, <2>6, <2>7, Refuses
<1>4. CASE dense.in = "caps"
  <2>1. InEntry(5, 2) /\ Measuring(stack[4], dense, todo[1], {})
    BY <1>1, <1>4 DEF InDense
  <2>2. AtRow(5, 2) /\ Tuple(todo, 2)
    BY <2>1 DEF InEntry, AtEntry, InList, InTokens, AtRow, Walk
  <2>3. todo[1] = {}
    BY <1>1, <2>2, HeadOf
  <2>4. Sane(stack[4])
    BY <1>1, <1>2, <2>1, CapsAre DEF Measuring
  <2>5. ~IsCaps(stack[4])
    BY <1>1, <2>1, <2>3, <2>4, MeasureEnds DEF IsCaps
  <2>6. ~Sound(call, stack[1], stack[2])
    BY <1>1, <1>2, <2>1, <2>5, ListRefuses
  <2>7. Refuse(Drop(5))
    BY <1>1, <1>4 DEF AboveRow
  <2>. QED
    BY <1>1, <1>2, <2>2, <2>6, <2>7, Refuses
<1>. QED
  BY <1>1, <1>3, <1>4 DEF InDense

LEMMA DenseEndKeeps ==
  ASSUME SaneCalls, ShimInv, DenseEnd
  PROVE  ShimInv'
<1>1. step = "dense" /\ InDense /\ UNCHANGED <<call, args, dense, rows, live, given>> /\ CallInv
      /\ Head(todo) = {} /\ dense.count = dense.highest
      /\ stack' = Drop(1) /\ todo' = Tail(todo)
  BY DEF DenseEnd, Hole, Measure, ShimInv, StepInv, bridge
<1>2. step \in InWalk /\ step # "idle"
  BY <1>1 DEF InWalk
<1>3. CASE dense.in = "tokens"
  <2>1. InTokens(3, 2) /\ Measuring(stack[2], dense, todo[1], {})
    BY <1>1, <1>3 DEF InDense
  <2>2. AtRow(3, 2) /\ Tuple(todo, 2) /\ Tuple(stack, 3)
    BY <2>1 DEF InTokens, AtRow, Walk
  <2>3. todo[1] = {}
    BY <1>1, <2>2, HeadOf
  <2>4. Sane(stack[2])
    BY <1>1, <1>2, <2>2, RowIs
  <2>5. IsList(stack[2]) /\ dense.count = Cardinality(DOMAIN stack[2][2]) /\ Type(stack[2]) = "table"
    BY <1>1, <2>1, <2>3, <2>4, MeasureEnds
  <2>6. Cardinality(DOMAIN stack[2][2]) \in Nat
    BY <2>4, <2>5, FiniteTable
  <2>7. step' = "entries" /\ nth' = <<1, dense.count>> /\ list' = <<>>
    BY <1>3 DEF DenseEnd, Measure
  <2>8. Tuple(stack', 3 - 1) /\ Keeps(stack', stack, 3 - 1)
    BY <1>1, <2>2, DropOf
  <2>9. Tuple(todo', 2 - 1) /\ Shifts(todo, todo', 2 - 1)
    BY <1>1, <2>2, WalkEnds
  <2>10. stack'[1] = stack[1] /\ stack'[2] = stack[2] /\ todo'[1] = todo[2] /\ Tuple(stack', 2) /\ Tuple(todo', 1)
    BY <2>8, <2>9 DEF Keeps, Shifts
  <2>11. InTokens(2, 1)'
    BY <1>1, <2>1, <2>10, TokensKept
  <2>12. nth'[1] = 1 /\ nth'[2] = dense.count /\ nth'[1] - 1 = 0 /\ nth'[1] \in 1..(nth'[2] + 1)
    BY <2>5, <2>6, <2>7
  <2>13. Read(stack'[2], list', nth'[1] - 1)
    BY <2>7, <2>12, ReadNone
  <2>14. ListTop'
    BY <2>5, <2>7, <2>10, <2>11, <2>12, <2>13 DEF ListTop, InList
  <2>15. CallInv'
    BY <1>1, <2>7 DEF CallInv, InWalk
  <2>. QED
    BY <2>7, <2>14, <2>15 DEF ShimInv, StepInv
<1>4. CASE dense.in = "caps"
  <2>1. InEntry(5, 2) /\ Measuring(stack[4], dense, todo[1], {})
    BY <1>1, <1>4 DEF InDense
  <2>2. Tuple(todo, 2) /\ Tuple(stack, 5)
    BY <2>1 DEF InEntry, AtEntry, InList, InTokens, AtRow, Walk
  <2>3. todo[1] = {}
    BY <1>1, <2>2, HeadOf
  <2>4. Sane(stack[4])
    BY <1>1, <1>2, <2>1, CapsAre DEF Measuring
  <2>5. IsList(stack[4]) /\ dense.count = Cardinality(DOMAIN stack[4][2]) /\ Type(stack[4]) = "table"
    BY <1>1, <2>1, <2>3, <2>4, MeasureEnds
  <2>6. step' = "members" /\ UNCHANGED <<nth, list>>
    BY <1>4 DEF DenseEnd, Measure
  <2>7. Tuple(stack', 5 - 1) /\ Keeps(stack', stack, 5 - 1)
    BY <1>1, <2>2, DropOf
  <2>8. Tuple(todo', 2 - 1) /\ Shifts(todo, todo', 2 - 1)
    BY <1>1, <2>2, WalkEnds
  <2>9. /\ stack'[1] = stack[1] /\ stack'[2] = stack[2] /\ stack'[3] = stack[3] /\ stack'[4] = stack[4]
        /\ todo'[1] = todo[2] /\ Tuple(stack', 4) /\ Tuple(todo', 1)
    BY <2>7, <2>8 DEF Keeps, Shifts
  <2>10. CapsTop'
    BY <1>1, <2>1, <2>6, <2>9, EntryKept DEF CapsTop
  <2>11. Dense'
    BY <1>1, <2>5, <2>9 DEF Dense
  <2>12. CallInv'
    BY <1>1, <2>6 DEF CallInv, InWalk
  <2>. QED
    BY <2>6, <2>10, <2>11, <2>12 DEF ShimInv, StepInv
<1>. QED
  BY <1>1, <1>3, <1>4 DEF InDense

LEMMA NextEntryKeeps ==
  ASSUME SaneCalls, ShimInv, NextEntry
  PROVE  ShimInv'
<1>1. step = "entries" /\ InList(2, 1) /\ UNCHANGED <<call, args, todo, dense, nth, rows, list, live, given>>
      /\ CallInv /\ nth[1] <= nth[2] /\ step' = "entry"
      /\ stack' = Append(stack, FieldOf(Top, Number(nth[1], "whole")))
  BY DEF NextEntry, ShimInv, StepInv, ListTop, bridge, reading
<1>2. AtRow(2, 1) /\ Tuple(stack, 2) /\ Tuple(todo, 1) /\ Type(stack[2]) = "table" /\ IsList(stack[2])
  BY <1>1 DEF InList, InTokens, IsTokens, AtRow, Walk
<1>3. Top = stack[2]
  BY <1>2, TopOf
<1>4. FieldOf(stack[2], Number(nth[1], "whole")) = stack[2][2][Number(nth[1], "whole")]
  <2>1. Sane(stack[2])
    BY <1>1, <1>2, RowIs
  <2>2. PICK c \in Nat : c = Cardinality(DOMAIN stack[2][2])
    BY <1>2, <2>1, FiniteTable
  <2>3. nth = <<nth[1], c>> /\ nth[1] \in 1..(nth[2] + 1)
    BY <1>1, <2>2 DEF InList
  <2>4. nth[2] = c
    BY <2>3
  <2>5. nth[1] \in 1..c
    BY <1>1, <2>3, <2>4
  <2>6. Number(nth[1], "whole") \in DOMAIN stack[2][2]
    BY <1>2, <2>2, <2>5, ListHolds
  <2>. QED
    BY <2>6 DEF FieldOf
<1>5. PICK e : e = FieldOf(stack[2], Number(nth[1], "whole"))
  OBVIOUS
<1>6. Tuple(stack', 2 + 1) /\ Atop(stack', 2, e) /\ Keeps(stack', stack, 2)
  BY <1>1, <1>2, <1>3, <1>5, Pushed
<1>7. stack'[1] = stack[1] /\ stack'[2] = stack[2] /\ stack'[3] = e /\ Tuple(stack', 3) /\ Tuple(todo', 1)
  <2>1. Tuple(stack', 3)
    BY <1>6
  <2>2. stack'[1] = stack[1] /\ stack'[2] = stack[2] /\ stack'[3] = e
    BY <1>6 DEF Keeps, Atop
  <2>. QED
    BY <1>1, <1>2, <2>1, <2>2
<1>8. InList(3, 1)'
  BY <1>1, <1>7, ListKept
<1>9. EntryTop'
  BY <1>1, <1>4, <1>5, <1>7, <1>8 DEF EntryTop, AtEntry
<1>10. CallInv'
  BY <1>1 DEF CallInv, InWalk
<1>. QED
  BY <1>1, <1>9, <1>10 DEF ShimInv, StepInv

LEMMA EntriesEndKeeps ==
  ASSUME SaneCalls, ShimInv, EntriesEnd
  PROVE  ShimInv'
<1>1. step = "entries" /\ InList(2, 1) /\ UNCHANGED <<call, args, todo, live, given>>
      /\ CallInv /\ nth[1] > nth[2] /\ step' = "walk"
      /\ rows' = rows \cup {<<Str("tokens"), list>>} /\ stack' = Drop(1)
  BY DEF EntriesEnd, ShimInv, StepInv, ListTop, bridge
<1>2. InTokens(2, 1) /\ AtRow(2, 1) /\ Tuple(stack, 2) /\ Type(stack[2]) = "table" /\ IsList(stack[2])
  BY <1>1 DEF InList, InTokens, IsTokens, AtRow, Walk
<1>3. First' = First /\ InTable' = InTable /\ HashIsRead' = HashIsRead
  BY <1>1, Unmoved
<1>4. Sane(stack[2]) /\ stack[1] \in DOMAIN First[2]
  BY <1>1, <1>2, RowIs
<1>5. Read(stack[2], list, Cardinality(DOMAIN stack[2][2]))
  <2>1. PICK c \in Nat : c = Cardinality(DOMAIN stack[2][2])
    BY <1>2, <1>4, FiniteTable
  <2>2. nth = <<nth[1], c>> /\ nth[1] \in 1..(nth[2] + 1) /\ Read(stack[2], list, nth[1] - 1)
    BY <1>1, <2>1 DEF InList
  <2>3. nth[2] = c
    BY <2>2
  <2>4. nth[1] - 1 = c
    BY <1>1, <2>1, <2>2, <2>3
  <2>. QED
    BY <2>1, <2>2, <2>4
<1>6. PICK k : k = stack[1]
  OBVIOUS
<1>7. /\ stack[2] = First[2][k] /\ k \notin todo[1] /\ k \in DOMAIN First[2] /\ IsTokens(call, k, First[2][k])
      /\ RowsAre(call, First, rows, DOMAIN First[2] \ (todo[1] \cup {k}))
  BY <1>2, <1>4, <1>6 DEF InTokens, AtRow, Walk
<1>8. PICK past : past = DOMAIN First[2] \ (todo[1] \cup {k})
  OBVIOUS
<1>9. RowsAre(call, First, rows', past \cup {k})
  BY <1>1, <1>2, <1>4, <1>5, <1>7, <1>8, TokensAdded
<1>10. past \cup {k} = DOMAIN First[2] \ (todo[1] \cup {})
  BY <1>7, <1>8
<1>11. Tuple(stack', 1)
  <2>1. Tuple(Drop(1), 2 - 1)
    BY <1>2, DropOf
  <2>. QED
    BY <1>1, <2>1
<1>12. AtWalk'
  BY <1>1, <1>2, <1>3, <1>9, <1>10, <1>11 DEF AtWalk, AtRow, Walk
<1>13. CallInv'
  BY <1>1 DEF CallInv, InWalk
<1>. QED
  BY <1>1, <1>12, <1>13 DEF ShimInv, StepInv

LEMMA EntryKeeps ==
  ASSUME SaneCalls, ShimInv, Entry
  PROVE  ShimInv'
<1>1. step = "entry" /\ AtEntry(3, 1) /\ UNCHANGED <<call, args, todo, dense, nth, rows, list, given>> /\ CallInv
  BY DEF Entry, ShimInv, StepInv, EntryTop, bridge, reading
<1>2. AtRow(3, 1) /\ Tuple(stack, 3) /\ Tuple(todo, 1)
  BY <1>1 DEF AtEntry, InList, InTokens, AtRow, Walk
<1>3. Top = stack[3]
  BY <1>2, TopOf
<1>4. CASE HasNames(stack[3])
  <2>1. stack' = Append(stack, FieldOf(stack[3], Str("caps"))) /\ step' = "list" /\ UNCHANGED live
    BY <1>3, <1>4 DEF Entry
  <2>2. PICK e : e = FieldOf(stack[3], Str("caps"))
    OBVIOUS
  <2>3. Tuple(stack', 3 + 1) /\ Atop(stack', 3, e) /\ Keeps(stack', stack, 3)
    BY <1>2, <2>1, <2>2, Pushed
  <2>4. /\ stack'[1] = stack[1] /\ stack'[2] = stack[2] /\ stack'[3] = stack[3] /\ stack'[4] = e
        /\ Tuple(stack', 4) /\ Tuple(todo', 1)
    BY <1>1, <1>2, <2>3 DEF Keeps, Atop
  <2>5. InList(4, 1)'
    BY <1>1, <2>4, ListKept DEF AtEntry
  <2>6. CapsTop'
    BY <1>1, <1>4, <2>2, <2>4, <2>5 DEF CapsTop, InEntry, AtEntry
  <2>7. CallInv'
    BY <1>1, <2>1 DEF CallInv, InWalk
  <2>. QED
    BY <2>1, <2>6, <2>7 DEF ShimInv, StepInv
<1>5. CASE ~HasNames(stack[3])
  <2>1. Refuse(Drop(3))
    BY <1>3, <1>5 DEF Entry
  <2>2. step \in InWalk /\ step # "idle"
    BY <1>1 DEF InWalk
  <2>3. ~Sound(call, stack[1], stack[2])
    BY <1>1, <1>5, <2>2, TokenRefuses DEF IsToken
  <2>. QED
    BY <1>1, <1>2, <2>1, <2>2, <2>3, Refuses
<1>. QED
  BY <1>4, <1>5

LEMMA CapsListKeeps ==
  ASSUME SaneCalls, ShimInv, CapsList
  PROVE  ShimInv'
<1>1. step = "list" /\ InEntry(4, 1) /\ UNCHANGED <<call, args, nth, rows, list, given>> /\ CallInv
  BY DEF CapsList, ShimInv, StepInv, CapsTop, bridge
<1>2. AtRow(4, 1) /\ Tuple(stack, 4) /\ Tuple(todo, 1)
  BY <1>1 DEF InEntry, AtEntry, InList, InTokens, AtRow, Walk
<1>3. Top = stack[4]
  BY <1>2, TopOf
<1>4. CASE Type(stack[4]) = "table"
  <2>1. StartWalk(stack[4]) /\ step' = "dense" /\ UNCHANGED live
        /\ dense' = [in |-> "caps", count |-> 0, highest |-> 0]
    BY <1>3, <1>4 DEF CapsList
  <2>2. /\ Tuple(stack', 4 + 1) /\ Keeps(stack', stack, 4)
        /\ Tuple(todo', 1 + 1) /\ todo'[1] = DOMAIN stack[4][2] /\ Shifts(todo', todo, 1)
    BY <1>2, <2>1, WalkStarts
  <2>3. /\ stack'[1] = stack[1] /\ stack'[2] = stack[2] /\ stack'[3] = stack[3] /\ stack'[4] = stack[4]
        /\ todo'[2] = todo[1] /\ Tuple(stack', 5) /\ Tuple(todo', 2)
    BY <2>2 DEF Keeps, Shifts
  <2>4. InEntry(5, 2)'
    BY <1>1, <2>3, EntryKept
  <2>5. Measuring(stack[4], dense', DOMAIN stack[4][2], {})
    BY <1>4, <2>1, MeasureStarts
  <2>6. dense'.in = "caps"
    BY <2>1
  <2>7. InDense'
    BY <2>2, <2>3, <2>4, <2>5, <2>6 DEF InDense
  <2>8. CallInv'
    BY <1>1, <2>1 DEF CallInv, InWalk
  <2>. QED
    BY <2>1, <2>7, <2>8 DEF ShimInv, StepInv
<1>5. CASE Type(stack[4]) # "table"
  <2>1. Refuse(Drop(4))
    BY <1>3, <1>5 DEF CapsList
  <2>2. step \in InWalk /\ step # "idle"
    BY <1>1 DEF InWalk
  <2>3. ~Sound(call, stack[1], stack[2])
    BY <1>1, <1>5, <2>2, ListRefuses DEF IsCaps
  <2>. QED
    BY <1>1, <1>2, <2>1, <2>2, <2>3, Refuses
<1>. QED
  BY <1>4, <1>5

(* The capabilities of a dense list are its n values.                      *)
LEMMA MembersAre ==
  ASSUME NEW v, IsList(v), Type(v) = "table"
  PROVE  IsCaps(v) <=> \A i \in 1..Cardinality(DOMAIN v[2]) :
                        Member("configure", FieldOf(v, Number(i, "whole"))) # Absent
<1>1. \A i \in 1..Cardinality(DOMAIN v[2]) :
        Number(i, "whole") \in DOMAIN v[2] /\ FieldOf(v, Number(i, "whole")) = v[2][Number(i, "whole")]
  BY ListHolds DEF FieldOf
<1>2. \A k \in DOMAIN v[2] : \E i \in 1..Cardinality(DOMAIN v[2]) : k = Number(i, "whole")
  BY ListHolds
<1>3. IsCaps(v) <=> \A k \in DOMAIN v[2] : Member("configure", v[2][k]) # Absent
  BY DEF IsCaps
<1>. QED
  BY <1>1, <1>2, <1>3

LEMMA ReadCapsKeeps ==
  ASSUME SaneCalls, ShimInv, ReadCaps
  PROVE  ShimInv'
<1>1. step = "members" /\ InEntry(4, 1) /\ UNCHANGED <<call, args, todo, dense, rows, given>> /\ CallInv
      /\ Type(stack[4]) = "table" /\ IsList(stack[4]) /\ dense.count = Cardinality(DOMAIN stack[4][2])
  BY DEF ReadCaps, ShimInv, StepInv, CapsTop, Dense, bridge
<1>2. AtRow(4, 1) /\ InTokens(4, 1) /\ AtEntry(4, 1) /\ Tuple(stack, 4) /\ Tuple(todo, 1)
  BY <1>1 DEF InEntry, AtEntry, InList, InTokens, AtRow, Walk
<1>3. Top = stack[4]
  BY <1>2, TopOf
<1>4. step \in InWalk /\ step # "idle"
  BY <1>1 DEF InWalk
<1>5. IsCaps(stack[4]) <=> \A i \in 1..dense.count : Member("configure", FieldOf(stack[4], Number(i, "whole"))) # Absent
  BY <1>1, MembersAre
<1>6. CASE IsCaps(stack[4])
  <2>1. PICK e : /\ e.id = FieldOf(stack[3], Str("id")) /\ list' = Append(list, e)
                 /\ stack' = Drop(2) /\ nth' = [nth EXCEPT ![1] = @ + 1] /\ step' = "entries"
                 /\ UNCHANGED live
    <3>2. PICK e : e = [id |-> FieldOf(stack[3], Str("id")), secret |-> FieldOf(stack[3], Str("secret")),
                        caps |-> {Member("configure", FieldOf(stack[4], Number(i, "whole"))) : i \in 1..dense.count}]
      OBVIOUS
    <3>3. e.id = FieldOf(stack[3], Str("id"))
      BY <3>2
    <3>4. /\ list' = Append(list, e)
          /\ stack' = Drop(1 + 1) /\ nth' = [nth EXCEPT ![1] = @ + 1] /\ step' = "entries"
          /\ UNCHANGED live
      BY <1>3, <1>5, <1>6, <3>2 DEF ReadCaps
    <3>. QED
      BY <3>3, <3>4
  <2>2. PICK c \in Nat, n \in Nat \ {0} : c = nth[2] /\ n <= c /\ n = nth[1] /\ c = Cardinality(DOMAIN stack[2][2])
    BY <1>1, <1>2, <1>4, EntryIs
  <2>3. nth = <<n, c>> /\ Read(stack[2], list, n - 1) /\ stack[3] = stack[2][2][Number(n, "whole")]
    BY <1>2, <2>2 DEF AtEntry, InList
  <2>4. PICK m \in Nat : m = n - 1 /\ n = m + 1
    <3>1. n - 1 \in Nat /\ n = (n - 1) + 1
      BY <2>2
    <3>. QED
      BY <3>1
  <2>5. IsToken(stack[3])
    BY <1>1, <1>6 DEF InEntry, IsToken
  <2>6. Read(stack[2], list', n)
    BY <2>1, <2>3, <2>4, <2>5, ReadMore
  <2>7. nth' = <<n + 1, c>>
    BY <2>1, <2>2, <2>3
  <2>8. nth'[1] = n + 1 /\ nth'[2] = c /\ nth'[1] - 1 = n /\ nth'[1] \in 1..(nth'[2] + 1)
    BY <2>2, <2>7
  <2>9. Tuple(stack', 4 - 2) /\ Keeps(stack', stack, 4 - 2)
    BY <1>2, <2>1, DropOf
  <2>10. stack'[1] = stack[1] /\ stack'[2] = stack[2] /\ Tuple(stack', 2) /\ Tuple(todo', 1)
    BY <1>1, <1>2, <2>9 DEF Keeps
  <2>11. InTokens(2, 1)'
    BY <1>1, <1>2, <2>10, TokensKept
  <2>12. IsList(stack[2])
    BY <1>2 DEF AtEntry, InList
  <2>13. ListTop'
    BY <2>2, <2>6, <2>7, <2>8, <2>10, <2>11, <2>12 DEF ListTop, InList
  <2>14. CallInv'
    BY <1>1, <2>1 DEF CallInv, InWalk
  <2>. QED
    BY <2>1, <2>13, <2>14 DEF ShimInv, StepInv
<1>7. CASE ~IsCaps(stack[4])
  <2>1. Refuse(Drop(4))
    BY <1>3, <1>5, <1>7 DEF ReadCaps
  <2>2. ~Sound(call, stack[1], stack[2])
    BY <1>1, <1>4, <1>7, ListRefuses
  <2>. QED
    BY <1>1, <1>2, <1>4, <2>1, <2>2, Refuses
<1>. QED
  BY <1>6, <1>7

LEMMA RegisterKeeps ==
  ASSUME SaneCalls, ShimInv, Register
  PROVE  ShimInv'
<1>1. step = "bridge" /\ call \in Tables /\ Ready /\ CallInv /\ UNCHANGED <<call, args>> /\ given' = <<rows>>
  BY DEF Register, Hands, ShimInv, StepInv
<1>2. First' = First /\ InTable /\ RowsAre(call, First, rows, DOMAIN First[2]) /\ Tuple(stack, 0)
  BY <1>1, Unmoved DEF Ready
<1>3. given' # <<>> /\ given'[1] = rows
  BY <1>1
<1>4. ReadWhole'
  <2>1. Range(First[2]) = {First[2][k] : k \in DOMAIN First[2]}
    BY DEF Range
  <2>2. ASSUME NEW r \in rows, IsTokens(call, r[1], FieldOf(First, r[1]))
        PROVE  /\ Len(r[2]) = Cardinality(DOMAIN FieldOf(First, r[1])[2])
               /\ \A n \in DOMAIN r[2] :
                    r[2][n].id = FieldOf(FieldOf(First, r[1])[2][Number(n, "whole")], Str("id"))
    <3>1. PICK k : k = r[1]
      OBVIOUS
    <3>2. call = "configure" /\ call # "replies"
      BY <2>2 DEF IsTokens
    <3>3. k \in {x[1] : x \in rows}
      BY <3>1
    <3>4. k \in DOMAIN First[2]
      BY <1>2, <3>2, <3>3 DEF RowsAre
    <3>5. PICK v : v = First[2][k] /\ v = FieldOf(First, k) /\ v \in Within(First)
      BY <1>2, <3>4 DEF FieldOf, Within, InTable
    <3>6. Sane(v) /\ Type(v) = "table"
      <4>1. Sane(v)
        BY <1>1, <1>2, <3>5, Given DEF InTable
      <4>. QED
        BY <2>2, <3>1, <3>5, <4>1 DEF IsTokens
    <3>7. PICK c \in Nat : c = Cardinality(DOMAIN v[2]) /\ c = Cardinality(DOMAIN v[2])
      BY <3>6, FiniteTable, SameCount
    <3>8. Read(v, r[2], c)
      BY <1>2, <2>2, <3>1, <3>5, <3>7 DEF RowsAre
    <3>9. PICK l : l = r[2]
      OBVIOUS
    <3>10. Tuple(l, c) /\ \A i \in 1..c : l[i].id = FieldOf(v[2][Number(i, "whole")], Str("id"))
      BY <3>8, <3>9 DEF Read
    <3>11. Len(l) = c /\ DOMAIN l = 1..c
      BY <3>7, <3>10, TupleLen
    <3>. QED
      BY <3>1, <3>5, <3>7, <3>9, <3>10, <3>11
  <2>. QED
    BY <1>1, <1>2, <1>3, <2>1, <2>2 DEF ReadWhole, RowsAre, First
<1>5. CASE Refuse(stack)
  <2>1. Len(stack') <= 1 /\ step' = "raised" /\ ~live'
    BY <1>2, <1>5, RefusedClean
  <2>2. Ended'
    BY <1>4, <2>1 DEF Ended
  <2>3. CallInv'
    BY <1>1, <2>1 DEF CallInv, InWalk
  <2>. QED
    BY <2>1, <2>2, <2>3 DEF ShimInv, StepInv
<1>6. CASE step' = "answered" /\ ~live'
  <2>1. Ended'
    BY <1>4, <1>6 DEF Ended
  <2>2. CallInv'
    BY <1>1, <1>6 DEF CallInv, InWalk
  <2>. QED
    BY <1>6, <2>1, <2>2 DEF ShimInv, StepInv
<1>. QED
  BY <1>5, <1>6 DEF Register, Answer

(* The calls that take no table end in one step.                           *)
LEMMA EndsCall ==
  ASSUME CallInv, step # "idle", call \notin Tables, UNCHANGED <<call, args>>, ~live', Tuple(stack, 0),
         \/ step' = "answered"
         \/ step' = "raised" /\ stack' = stack
         \/ Refuse(stack)
  PROVE  ShimInv'
<1>1. step' \in {"answered", "raised"} /\ (step' = "raised" => Len(stack') <= 1)
  <2>1. CASE Refuse(stack)
    BY <2>1, RefusedClean
  <2>2. CASE step' = "raised" /\ stack' = stack
    BY <2>2, TupleLen
  <2>. QED
    BY <2>1, <2>2
<1>2. ReadWhole'
  BY DEF ReadWhole, Tables
<1>3. Ended'
  BY <1>1, <1>2 DEF Ended
<1>4. CallInv'
  BY <1>1 DEF CallInv, InWalk
<1>. QED
  BY <1>1, <1>3, <1>4 DEF ShimInv, StepInv

LEMMA PlainKeeps ==
  ASSUME ShimInv, Schema \/ Tick \/ Epoch \/ Poll
  PROVE  ShimInv'
<1>1. CallInv /\ step \in {"bridge", "check"} /\ step # "idle" /\ call \notin Tables /\ UNCHANGED <<call, args>>
  BY DEF ShimInv, Schema, Tick, Epoch, Poll, Tables
<1>2. Tuple(stack, 0) /\ ~live
  BY <1>1 DEF ShimInv, StepInv, CallInv, Before, Ready, InWalk
<1>3. \/ step' = "answered" /\ ~live'
      \/ step' = "raised" /\ UNCHANGED <<stack, live>>
      \/ Refuse(stack) /\ ~live'
  BY DEF Schema, Tick, Epoch, Poll, Answer, Refuse, RaiseNow
<1>. QED
  BY <1>1, <1>2, <1>3, EndsCall

LEMMA OverKeeps ==
  ASSUME ShimInv, Over
  PROVE  ShimInv'
<1>1. Before'
  BY EmptyTuple DEF Over, Before
<1>2. CallInv'
  BY DEF ShimInv, CallInv, Over, InWalk
<1>. QED
  BY <1>1, <1>2 DEF ShimInv, StepInv, Over

(* Left alone, everything is as it was.                                    *)
LEMMA ShimStutters ==
  ASSUME ShimInv, UNCHANGED shimVars
  PROVE  ShimInv'
<1>1. UNCHANGED <<step, call, args, stack, todo, dense, nth, rows, list, live, given>>
  BY DEF shimVars, reading, bridge
<1>2. First' = First /\ HashIsRead' = HashIsRead /\ InTable' = InTable
  BY <1>1, Unmoved
<1>3. CallInv'
  BY <1>1 DEF ShimInv, CallInv
<1>4. ReadWhole' = ReadWhole
  BY <1>1 DEF ReadWhole, HashIsRead, Arg
<1>5. StepInv'
  BY <1>1, <1>2, <1>4 DEF ShimInv, StepInv, Before, AtHash, AtWalk, AtPair, InDense, DenseKey, ListTop,
       EntryTop, CapsTop, Dense, Ready, Ended, InEntry, AtEntry, InList, InTokens, AtRow, Walk
<1>. QED
  BY <1>3, <1>5 DEF ShimInv

LEMMA ShimStarts ==
  ASSUME ShimInit
  PROVE  ShimInv
<1>1. Before
  BY EmptyTuple DEF ShimInit, Before
<1>. QED
  BY <1>1 DEF ShimInit, ShimInv, CallInv, StepInv, InWalk

LEMMA ShimSteps ==
  ASSUME SaneCalls, ShimInv, [ShimNext]_shimVars
  PROVE  ShimInv'
<1>1. ASSUME NEW c \in DOMAIN Calls, NEW a \in Calls[c], Make(c, a) PROVE ShimInv'
  BY <1>1, MakeKeeps
<1>2. ASSUME CheckType \/ OpenTable \/ NextRow \/ RowsEnd \/ Row \/ RowTokens PROVE ShimInv'
  BY <1>2, CheckTypeKeeps, OpenTableKeeps, NextRowKeeps, RowsEndKeeps, RowKeeps, RowTokensKeeps
<1>3. ASSUME DenseNext \/ DensePair \/ DenseRefused \/ DenseHole \/ DenseEnd PROVE ShimInv'
  BY <1>3, DenseNextKeeps, DensePairKeeps, DenseRefusedKeeps, DenseHoleKeeps, DenseEndKeeps
<1>4. ASSUME NextEntry \/ EntriesEnd \/ Entry \/ CapsList \/ ReadCaps PROVE ShimInv'
  BY <1>4, NextEntryKeeps, EntriesEndKeeps, EntryKeeps, CapsListKeeps, ReadCapsKeeps
<1>5. ASSUME Register \/ Schema \/ Tick \/ Epoch \/ Poll \/ Over PROVE ShimInv'
  BY <1>5, RegisterKeeps, PlainKeeps, OverKeeps
<1>. QED
  BY <1>1, <1>2, <1>3, <1>4, <1>5, ShimStutters DEF ShimNext

LEMMA ShimIsClean ==
  ASSUME ShimInv
  PROVE  CallsAreClean
<1>1. ReadWhole
  <2>1. CASE step \in {"answered", "raised"}
    BY <2>1 DEF ShimInv, StepInv, Ended
  <2>2. CASE step \notin {"answered", "raised"}
    BY <2>2 DEF ShimInv, CallInv, ReadWhole
  <2>. QED
    BY <2>1, <2>2
<1>2. LeavesNothing
  <2>1. step = "bridge" => stack = <<>>
    BY EmptyTuple DEF ShimInv, StepInv, Ready
  <2>. QED
    BY <2>1 DEF ShimInv, StepInv, Ended, CallInv, InWalk, LeavesNothing
<1>. QED
  BY <1>1, <1>2 DEF CallsAreClean

(* Whatever tables Lua passes, and in whatever order it walks them, a call *)
(* takes what it was given whole or refuses it, and leaves nothing on the  *)
(* stack or owned by a frame that is jumped over.                          *)
THEOREM CallsAreAlwaysClean == ShimSpec => []CallsAreClean
<1>1. ShimInit => ShimInv
  BY ShimStarts
<1>2. ShimInv /\ [ShimNext]_shimVars => ShimInv'
  BY ShimSteps, ShimAssumption
<1>3. ShimInv => CallsAreClean
  BY ShimIsClean
<1>. QED
  BY <1>1, <1>2, <1>3, PTL DEF ShimSpec
=============================================================================
