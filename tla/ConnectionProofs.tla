-------------------------- MODULE ConnectionProofs --------------------------
(***************************************************************************)
(* For any consumers, queue and number of sessions: a reader that saw its  *)
(* refusal go out saw it go out, and where the queue is not filled before  *)
(* the handshake is taken, the handshake is the first thing a consumer     *)
(* reads.                                                                  *)
(***************************************************************************)
EXTENDS Connection, FiniteSetTheorems, TLAPS

-----------------------------------------------------------------------------
(***************************************************************************)
(* The inductive invariant of Connection: where each thing meant for a     *)
(* consumer is (in the control channel, the queue, the drainer's hands or  *)
(* on the wire), against what its reader has counted and read.             *)
(***************************************************************************)

Frames   == {"handshake", "answer", "result", "refusal", "record"}
Messages == {"attach", "answer", "result", "authenticated", "refusal", "detach"}

TypeInv ==
  /\ lPc \in {"accept", "attach", "read", "open", "hand", "join", "done"}
  /\ current = {} <=> lPc \in {"accept", "join", "done"}
  /\ current = {} \/ \E c \in Conns : current = {c}
  /\ open \cup toWake \cup holds \cup flushed \cup unlifted \subseteq Conns
  /\ xPc \in {"no", "close", "join", "dropped"} /\ (stop <=> xPc # "no")
  /\ socket \in [Conns -> {"none", "open", "left", "down"}]
  /\ channel \in Seq(Conns \X Messages)
  /\ attached \in [Conns -> {"no", "yes", "caps", "gone"}]
  /\ queue \in [Conns -> Seq(Frames)]
  /\ records \in [Conns -> 0..MaxRecords] /\ pings \in [Conns -> 0..MaxPings]
  /\ answered \in [Conns -> Nat \ {0}]
  /\ session \in [Conns -> BOOLEAN] /\ expired \in [Conns -> BOOLEAN]
  /\ rPc \in [Conns -> {"none", "read", "announce", "lift", "flush", "shut", "free",
                        "closing", "wake", "done"}]
  /\ dPc \in [Conns -> {"none", "recv", "look", "pop", "write", "raise", "check", "asleep",
                        "lower", "end", "detach", "done"}]
  /\ frame \in [Conns -> Frames \cup {"none"}] /\ written \in [Conns -> Nat]
  /\ closing \in [Conns -> BOOLEAN] /\ parked \in [Conns -> BOOLEAN]
  /\ token \in [Conns -> BOOLEAN]
  /\ wire \in [Conns -> [first : Frames \cup {"none"}, all : SUBSET Frames]]
  /\ \A c \in Conns :
       /\ Len(queue[c]) <= Capacity
       /\ IsFiniteSet(wire[c].all) /\ Cardinality(wire[c].all) <= written[c]
       /\ parked[c] <=> dPc[c] \in {"check", "asleep", "lower"}
       /\ dPc[c] = "write" <=> frame[c] # "none"
       /\ socket[c] = "none" => dPc[c] = "none" /\ rPc[c] = "none"

-----------------------------------------------------------------------------
(* What is under way to a consumer.                                        *)

(* How many of the control messages are for it, and one of these. *)
Places(s, T) == {i \in DOMAIN s : s[i] \in T}
On(c, M)     == Cardinality(Places(channel, {c} \X M))

(* The frames that are yet to be queued, and those ever to be written: no  *)
(* more than these, for any of them may be evicted or find nobody.         *)
Pending(c) == On(c, {"attach", "answer", "result", "refusal"})
Held(c)    == IF frame[c] = "none" THEN 0 ELSE 1
Ledger(c)  == written[c] + Held(c) + Len(queue[c]) + Pending(c)

(* A session was taken, whether or not it lasted. *)
Opened(c) == session[c] \/ rPc[c] \in {"announce", "lift"} \/ c \in unlifted

(* Nothing has been done for a connection before its Attach is sent. *)
Unsent(c) == socket[c] = "none" \/ (lPc = "attach" /\ current = {c})

StartInv(c) ==
  /\ c \in open => socket[c] # "none"
  /\ c \in current =>
       /\ socket[c] # "none" /\ dPc[c] = "recv"
       /\ lPc \in {"attach", "read"} => rPc[c] = "none"
  /\ Unsent(c) =>
       On(c, {"attach"}) = 0 /\ Ledger(c) = 0 /\ attached[c] = "no" /\ rPc[c] = "none"
       /\ ~session[c]
  /\ On(c, {"attach"}) <= 1
  /\ On(c, {"detach"}) > 0 => dPc[c] = "done"

(* Before a session, what the reader counts bounds what is under way, and  *)
(* no record is.                                                           *)
CountInv(c) ==
  /\ ~Opened(c) =>
       Ledger(c) <= answered[c] /\ attached[c] # "caps" /\ On(c, {"authenticated"}) = 0
  /\ rPc[c] = "flush" => ~Opened(c)
  /\ c \in unlifted => rPc[c] \in {"shut", "free", "closing", "wake", "done"}

(* A refusal is under way, written, or one of those counted that never     *)
(* will be.                                                                *)
Refused(c) ==
  \/ "refusal" \in wire[c].all \/ frame[c] = "refusal"
  \/ \E i \in DOMAIN queue[c] : queue[c][i] = "refusal"
  \/ On(c, {"refusal"}) > 0
  \/ Ledger(c) < answered[c]

RefusalInv(c) ==
  /\ rPc[c] = "flush" => Refused(c)
  /\ c \in flushed => "refusal" \in wire[c].all

-----------------------------------------------------------------------------
(* The handshake, where the ring is not filled before it is taken.         *)

(* Every frame there can ever be for a connection: the handshake, an       *)
(* answer a frame read, and the records.                                   *)
Room == 1 + MaxPings + 1 + MaxRecords <= Capacity

Authed(c) == session[c] \/ rPc[c] \notin {"none", "read"}

(* The frames there have been for it: one of each of these, and no more. *)
Begun(c) == IF Unsent(c) THEN 0 ELSE 1
Auths(c) == IF Authed(c) THEN 1 ELSE 0

(* Until the drainer has it, the handshake is the oldest in the queue.     *)
Foremost(c) ==
  dPc[c] \notin {"end", "detach", "done"} /\ written[c] = 0 =>
    /\ frame[c] \in {"none", "handshake"}
    /\ frame[c] = "none" =>
         IF queue[c] = <<>> THEN attached[c] \in {"no", "gone"} ELSE Head(queue[c]) = "handshake"

FirstInv(c) ==
  /\ Ledger(c) <= Begun(c) + pings[c] + Auths(c) + records[c]
  /\ attached[c] = "no" => queue[c] = <<>>
  /\ On(c, {"attach"}) > 0 => attached[c] = "no" \/ dPc[c] = "done"
  /\ wire[c].first = IF written[c] = 0 THEN "none" ELSE "handshake"
  /\ Foremost(c)

ConnInv(c) == StartInv(c) /\ CountInv(c) /\ RefusalInv(c) /\ (Room => FirstInv(c))

ConnectionInvariant == TypeInv /\ \A c \in Conns : ConnInv(c)

-----------------------------------------------------------------------------
(* Sequences, and how many of their places hold one of a set. *)

LEMMA AppendFacts ==
  ASSUME NEW S, NEW s \in Seq(S), NEW x \in S
  PROVE  /\ Append(s, x) \in Seq(S) /\ Len(Append(s, x)) = Len(s) + 1
         /\ DOMAIN Append(s, x) = DOMAIN s \cup {Len(s) + 1}
         /\ DOMAIN s = 1..Len(s) /\ Len(s) \in Nat
         /\ \A i \in DOMAIN s : Append(s, x)[i] = s[i]
         /\ Append(s, x)[Len(s) + 1] = x
OBVIOUS

LEMMA TailFacts ==
  ASSUME NEW S, NEW s \in Seq(S), s # <<>>
  PROVE  /\ Tail(s) \in Seq(S) /\ Len(Tail(s)) = Len(s) - 1
         /\ DOMAIN s = 1..Len(s) /\ Len(s) \in Nat \ {0}
         /\ DOMAIN Tail(s) = 1..(Len(s) - 1)
         /\ \A i \in DOMAIN Tail(s) : Tail(s)[i] = s[i + 1] /\ i + 1 \in DOMAIN s
         /\ Head(s) = s[1] /\ 1 \in DOMAIN s /\ Head(s) \in S
OBVIOUS

LEMMA PlacesAreFinite ==
  ASSUME NEW S, NEW s \in Seq(S), NEW T
  PROVE  IsFiniteSet(Places(s, T)) /\ Cardinality(Places(s, T)) \in Nat
<1>1. IsFiniteSet(1..Len(s))
  BY FS_Interval
<1>2. Places(s, T) \in SUBSET (1..Len(s))
  BY DEF Places
<1> QED BY <1>1, <1>2, FS_Subset, FS_CardinalityType

LEMMA PlacesGrow ==
  ASSUME NEW S, NEW s \in Seq(S), NEW m \in S, NEW T
  PROVE  Cardinality(Places(Append(s, m), T)) =
           Cardinality(Places(s, T)) + (IF m \in T THEN 1 ELSE 0)
<1>1. /\ DOMAIN Append(s, m) = DOMAIN s \cup {Len(s) + 1}
      /\ DOMAIN s = 1..Len(s) /\ Len(s) \in Nat
      /\ \A i \in DOMAIN s : Append(s, m)[i] = s[i]
      /\ Append(s, m)[Len(s) + 1] = m
  BY AppendFacts
<1>2. Places(Append(s, m), T) =
        IF m \in T THEN Places(s, T) \cup {Len(s) + 1} ELSE Places(s, T)
  BY <1>1 DEF Places
<1>3. Len(s) + 1 \notin Places(s, T)
  BY <1>1 DEF Places
<1>4. IsFiniteSet(Places(s, T)) /\ Cardinality(Places(s, T)) \in Nat
  BY PlacesAreFinite
<1>5. Cardinality(Places(s, T) \cup {Len(s) + 1}) = Cardinality(Places(s, T)) + 1
  BY <1>3, <1>4, FS_AddElement
<1>6. CASE m \in T
  BY <1>2, <1>5, <1>6
<1>7. CASE m \notin T
  BY <1>2, <1>4, <1>7
<1> QED BY <1>6, <1>7

LEMMA PlacesShrink ==
  ASSUME NEW S, NEW s \in Seq(S), s # <<>>, NEW T
  PROVE  Cardinality(Places(s, T)) =
           Cardinality(Places(Tail(s), T)) + (IF Head(s) \in T THEN 1 ELSE 0)
<1>1. /\ Tail(s) \in Seq(S) /\ DOMAIN s = 1..Len(s) /\ Len(s) \in Nat \ {0}
      /\ DOMAIN Tail(s) = 1..(Len(s) - 1)
      /\ \A i \in DOMAIN Tail(s) : Tail(s)[i] = s[i + 1] /\ i + 1 \in DOMAIN s
      /\ Head(s) = s[1] /\ 1 \in DOMAIN s
  BY TailFacts
<1> DEFINE P == Places(Tail(s), T)
           Q == Places(s, T) \ {1}
           f == [i \in P |-> i + 1]
<1>2. f \in Bijection(P, Q)
  <2>1. \A i \in P : i + 1 \in Q /\ i \in Nat
    BY <1>1 DEF Places
  <2>2. \A j \in Q : j - 1 \in P /\ (j - 1) + 1 = j
    BY <1>1 DEF Places
  <2>3. f \in [P -> Q]
    BY <2>1
  <2>4. \A i, j \in P : f[i] = f[j] => i = j
    BY <2>1
  <2>5. \A j \in Q : \E i \in P : f[i] = j
    BY <2>2
  <2> HIDE DEF P, Q, f
  <2>6. f \in Injection(P, Q)
    <3>1. DOMAIN f = P
      BY <2>3
    <3> QED BY <2>3, <2>4, <3>1 DEF Injection, IsInjective
  <2>7. f \in Surjection(P, Q)
    BY <2>3, <2>5 DEF Surjection
  <2> QED BY <2>6, <2>7 DEF Bijection
<1>3. IsFiniteSet(P) /\ Cardinality(P) \in Nat
  BY <1>1, PlacesAreFinite
<1>4. Cardinality(Q) = Cardinality(P)
  <2> HIDE DEF P, Q, f
  <2> QED BY <1>2, <1>3, FS_Bijection DEF ExistsBijection
<1>5. IsFiniteSet(Places(s, T)) /\ Cardinality(Places(s, T)) \in Nat
  BY PlacesAreFinite
<1>6. 1 \in Places(s, T) <=> Head(s) \in T
  BY <1>1 DEF Places
<1>7. Cardinality(Q) =
        IF 1 \in Places(s, T) THEN Cardinality(Places(s, T)) - 1 ELSE Cardinality(Places(s, T))
  BY <1>5, FS_RemoveElement
<1> QED BY <1>3, <1>4, <1>5, <1>6, <1>7

(* A message sent, or taken, changes what is on its way to its own         *)
(* connection alone.                                                       *)
LEMMA OnType ==
  ASSUME TypeInv, NEW c, NEW M
  PROVE  On(c, M) \in Nat
<1>1. channel \in Seq(Conns \X Messages)
  BY DEF TypeInv
<1> QED BY <1>1, PlacesAreFinite DEF On

LEMMA OnSent ==
  ASSUME TypeInv, NEW d \in Conns, NEW m \in Messages, Send(d, m), NEW c, NEW M
  PROVE  On(c, M)' = On(c, M) + (IF c = d /\ m \in M THEN 1 ELSE 0)
<1>1. channel \in Seq(Conns \X Messages) /\ <<d, m>> \in Conns \X Messages
  BY DEF TypeInv
<1>2. <<d, m>> \in {c} \X M <=> c = d /\ m \in M
  OBVIOUS
<1>3. Cardinality(Places(Append(channel, <<d, m>>), {c} \X M)) =
        Cardinality(Places(channel, {c} \X M)) + (IF <<d, m>> \in {c} \X M THEN 1 ELSE 0)
  BY <1>1, PlacesGrow
<1>4. channel' = Append(channel, <<d, m>>)
  BY DEF Send
<1> QED BY <1>2, <1>3, <1>4 DEF On

LEMMA OnTaken ==
  ASSUME TypeInv, NEW d \in Conns, NEW m \in Messages, channel # <<>>,
         Head(channel) = <<d, m>>, channel' = Tail(channel), NEW c, NEW M
  PROVE  On(c, M) = On(c, M)' + (IF c = d /\ m \in M THEN 1 ELSE 0)
<1>1. channel \in Seq(Conns \X Messages)
  BY DEF TypeInv
<1>2. <<d, m>> \in {c} \X M <=> c = d /\ m \in M
  OBVIOUS
<1>3. Cardinality(Places(channel, {c} \X M)) =
        Cardinality(Places(Tail(channel), {c} \X M)) + (IF Head(channel) \in {c} \X M THEN 1 ELSE 0)
  BY <1>1, PlacesShrink
<1> QED BY <1>2, <1>3 DEF On

-----------------------------------------------------------------------------
(* What the steps of the writer thread do to a queue. *)

LEMMA EnqueueFacts ==
  ASSUME TypeInv, NEW c \in Conns, NEW f \in Frames, Enqueue(c, f)
  PROVE  /\ queue' \in [Conns -> Seq(Frames)] /\ toWake' = toWake \cup {c}
         /\ \A d \in Conns : d # c => queue'[d] = queue[d]
         /\ Len(queue[c]) \in 0..Capacity /\ Len(queue'[c]) <= Capacity
         /\ \E i \in DOMAIN queue'[c] : queue'[c][i] = f
         /\ queue'[c] # <<>>
         /\ \/ Len(queue[c]) = Capacity /\ Len(queue'[c]) = Len(queue[c])
            \/ /\ Len(queue[c]) < Capacity /\ Len(queue'[c]) = Len(queue[c]) + 1
               /\ Head(queue'[c]) = IF queue[c] = <<>> THEN f ELSE Head(queue[c])
               /\ \A i \in DOMAIN queue[c] : i \in DOMAIN queue'[c] /\ queue'[c][i] = queue[c][i]
<1>1. queue \in [Conns -> Seq(Frames)] /\ queue[c] \in Seq(Frames) /\ Len(queue[c]) \in 0..Capacity
      /\ Capacity \in Nat \ {0}
  <2>1. queue \in [Conns -> Seq(Frames)] /\ Len(queue[c]) <= Capacity
    BY DEF TypeInv
  <2> QED BY <2>1, ConnectionAssumption
<1>2. toWake' = toWake \cup {c}
  BY DEF Enqueue
<1>3. CASE Len(queue[c]) = Capacity
  <2>1. queue' = [queue EXCEPT ![c] = Append(Tail(queue[c]), f)]
    BY <1>1, <1>3 DEF Enqueue
  <2>2. queue[c] # <<>>
    BY <1>1, <1>3
  <2>3. Tail(queue[c]) \in Seq(Frames) /\ Len(Tail(queue[c])) = Capacity - 1
    BY <1>1, <1>3, <2>2, TailFacts
  <2>4. PICK q \in Seq(Frames) : q = Append(Tail(queue[c]), f) /\ Len(q) = Capacity /\ q[Capacity] = f
    <3>1. /\ Append(Tail(queue[c]), f) \in Seq(Frames)
          /\ Len(Append(Tail(queue[c]), f)) = (Capacity - 1) + 1
          /\ Append(Tail(queue[c]), f)[(Capacity - 1) + 1] = f
      BY <2>3, AppendFacts
    <3>2. (Capacity - 1) + 1 = Capacity
      BY <1>1
    <3> QED BY <3>1, <3>2
  <2>5. queue' \in [Conns -> Seq(Frames)] /\ queue'[c] = q
        /\ \A d \in Conns : d # c => queue'[d] = queue[d]
    BY <1>1, <2>1, <2>4
  <2>6. Capacity \in DOMAIN q /\ q # <<>>
    BY <1>1, <2>4
  <2> QED BY <1>1, <1>2, <1>3, <2>4, <2>5, <2>6
<1>4. CASE Len(queue[c]) # Capacity
  <2>1. queue' = [queue EXCEPT ![c] = Append(queue[c], f)]
    BY <1>1, <1>4 DEF Enqueue
  <2>2. PICK q \in Seq(Frames) :
          /\ q = Append(queue[c], f) /\ Len(q) = Len(queue[c]) + 1
          /\ DOMAIN q = DOMAIN queue[c] \cup {Len(queue[c]) + 1}
          /\ \A i \in DOMAIN queue[c] : q[i] = queue[c][i]
          /\ q[Len(queue[c]) + 1] = f
    <3>1. /\ Append(queue[c], f) \in Seq(Frames)
          /\ Len(Append(queue[c], f)) = Len(queue[c]) + 1
          /\ DOMAIN Append(queue[c], f) = DOMAIN queue[c] \cup {Len(queue[c]) + 1}
          /\ \A i \in DOMAIN queue[c] : Append(queue[c], f)[i] = queue[c][i]
          /\ Append(queue[c], f)[Len(queue[c]) + 1] = f
      BY <1>1, AppendFacts
    <3> QED BY <3>1
  <2>3. queue' \in [Conns -> Seq(Frames)] /\ queue'[c] = q
        /\ \A d \in Conns : d # c => queue'[d] = queue[d]
    BY <1>1, <2>1, <2>2
  <2>4. q # <<>> /\ Head(q) = IF queue[c] = <<>> THEN f ELSE Head(queue[c])
    BY <1>1, <2>2
  <2> QED BY <1>1, <1>2, <1>4, <2>2, <2>3, <2>4
<1> QED BY <1>3, <1>4

(* A control message taken is one of these. *)
Taken(c, m) ==
  /\ channel # <<>> /\ Head(channel) = <<c, m>> /\ channel' = Tail(channel)
  /\ UNCHANGED <<listener, dropping, socket, records, reader, expired, drainer, closing, token>>
  /\ \/ m = "attach" /\ attached' = [attached EXCEPT ![c] = "yes"] /\ Enqueue(c, "handshake")
     \/ /\ m = "detach" /\ attached' = [attached EXCEPT ![c] = "gone"]
        /\ queue' = [queue EXCEPT ![c] = <<>>] /\ UNCHANGED toWake
     \/ /\ m \notin {"attach", "detach"} /\ attached[c] \notin {"yes", "caps"}
        /\ UNCHANGED <<attached, queue, toWake>>
     \/ /\ m = "authenticated" /\ attached' = [attached EXCEPT ![c] = "caps"]
        /\ attached[c] \in {"yes", "caps"} /\ UNCHANGED <<queue, toWake>>
     \/ /\ m \in {"answer", "result", "refusal"} /\ attached[c] \in {"yes", "caps"}
        /\ UNCHANGED attached /\ Enqueue(c, m)

LEMMA ControlFacts ==
  ASSUME TypeInv, Control
  PROVE  \E c \in Conns, m \in Messages : Taken(c, m)
<1>1. channel \in Seq(Conns \X Messages) /\ channel # <<>> /\ channel' = Tail(channel)
  BY DEF TypeInv, Control
<1>2. PICK c \in Conns, m \in Messages : Head(channel) = <<c, m>>
  BY <1>1, TailFacts
<1>3. Head(channel)[1] = c /\ Head(channel)[2] = m
  BY <1>2
<1> QED BY <1>1, <1>2, <1>3 DEF Control, Taken, At, NotQueued

-----------------------------------------------------------------------------
(* Every variable stays in its range. *)

LEMMA TypeInit ==
  ASSUME Init
  PROVE  TypeInv
<1>1. IsFiniteSet({}) /\ Cardinality({}) = 0
  BY FS_EmptySet
<1>2. \A c \in Conns :
        /\ queue[c] = <<>> /\ wire[c].all = {} /\ written[c] = 0 /\ parked[c] = FALSE
        /\ dPc[c] = "none" /\ frame[c] = "none" /\ socket[c] = "none" /\ rPc[c] = "none"
  BY DEF Init, All
<1>3. ASSUME NEW c \in Conns
      PROVE /\ Len(queue[c]) <= Capacity
            /\ IsFiniteSet(wire[c].all) /\ Cardinality(wire[c].all) <= written[c]
            /\ parked[c] <=> dPc[c] \in {"check", "asleep", "lower"}
            /\ dPc[c] = "write" <=> frame[c] # "none"
            /\ socket[c] = "none" => dPc[c] = "none" /\ rPc[c] = "none"
  <2>1. Len(queue[c]) = 0 /\ 0 <= Capacity
    BY <1>2, ConnectionAssumption
  <2>2. IsFiniteSet(wire[c].all) /\ Cardinality(wire[c].all) = 0 /\ written[c] = 0
    BY <1>1, <1>2
  <2>3. parked[c] <=> dPc[c] \in {"check", "asleep", "lower"}
    BY <1>2
  <2>4. dPc[c] # "write" /\ frame[c] = "none" /\ rPc[c] = "none" /\ dPc[c] = "none"
    BY <1>2
  <2> QED BY <2>1, <2>2, <2>3, <2>4
<1>4. /\ wire \in [Conns -> [first : Frames \cup {"none"}, all : SUBSET Frames]]
      /\ queue \in [Conns -> Seq(Frames)] /\ channel \in Seq(Conns \X Messages)
      /\ records \in [Conns -> 0..MaxRecords] /\ pings \in [Conns -> 0..MaxPings]
  BY ConnectionAssumption DEF Init, All
<1> QED BY <1>3, <1>4 DEF Init, All, TypeInv

LEMMA SendType ==
  ASSUME TypeInv, NEW c \in Conns, NEW m \in Messages, Send(c, m)
  PROVE  channel' \in Seq(Conns \X Messages)
<1>1. channel \in Seq(Conns \X Messages) /\ <<c, m>> \in Conns \X Messages
  BY DEF TypeInv
<1> QED BY <1>1, AppendFacts DEF Send

LEMMA ListenType ==
  ASSUME TypeInv, Listen,
         \A c \in current : socket[c] # "none" /\ dPc[c] = "recv"
  PROVE  TypeInv'
<1>1. ASSUME NEW c \in Conns, Accept(c) PROVE TypeInv'
  BY SMTT(30), <1>1 DEF Accept, At, TypeInv, dropping, writer, reader, history
<1>2. ASSUME NEW c \in Conns, Attach(c) PROVE TypeInv'
  <2>1. channel' \in Seq(Conns \X Messages)
    BY <1>2, SendType DEF Attach, Messages
  <2> QED BY <1>2, <2>1 DEF Attach, AtWork, TypeInv, dropping, writer, reader, history, drainer
<1>3. ASSUME NEW c \in Conns, StartReader(c), socket[c] # "none" PROVE TypeInv'
  BY <1>3 DEF StartReader, AtWork, At, TypeInv, dropping, writer, history, drainer
<1>4. ASSUME NEW c \in Conns, PushOpen(c) PROVE TypeInv'
  BY <1>4 DEF PushOpen, AtWork, TypeInv, dropping, writer, reader, history, drainer
<1>5. ASSUME NEW c \in Conns, Hand(c), dPc[c] = "recv" PROVE TypeInv'
  BY SMTT(30), <1>5 DEF Hand, AtWork, At, TypeInv, dropping, writer, reader, history
<1>6. CASE AcceptStops
  BY <1>6 DEF AcceptStops, TypeInv, dropping, writer, reader, history, drainer
<1>7. CASE Joined
  BY <1>7 DEF Joined, TypeInv, dropping, writer, reader, history, drainer
<1> QED BY <1>1, <1>2, <1>3, <1>4, <1>5, <1>6, <1>7 DEF Listen, StartReader, Hand, AtWork

LEMMA DropType ==
  ASSUME TypeInv, Drop, \A c \in open : socket[c] # "none"
  PROVE  TypeInv'
<1>1. CASE Stop
  BY <1>1 DEF Stop, TypeInv, listener, writer, reader, history, drainer
<1>2. CASE CloseOpen
  BY <1>2 DEF CloseOpen, TypeInv, listener, writer, reader, history, drainer
<1>3. CASE Dropped
  BY <1>3 DEF Dropped, TypeInv, listener, writer, reader, history, drainer
<1> QED BY <1>1, <1>2, <1>3 DEF Drop

LEMMA TakenType ==
  ASSUME TypeInv, NEW c \in Conns, NEW m \in Messages, Taken(c, m)
  PROVE  TypeInv'
<1> USE DEF listener, dropping, reader, history, drainer
<1>1. channel' \in Seq(Conns \X Messages)
  <2>1. channel \in Seq(Conns \X Messages)
    BY DEF TypeInv
  <2> QED BY <2>1, TailFacts DEF Taken
<1>2. ASSUME NEW f \in Frames, Enqueue(c, f), attached' \in [Conns -> {"no", "yes", "caps", "gone"}]
      PROVE  TypeInv'
  <2>1. /\ queue' \in [Conns -> Seq(Frames)] /\ toWake' = toWake \cup {c}
        /\ \A d \in Conns : d # c => queue'[d] = queue[d]
        /\ Len(queue'[c]) <= Capacity
    BY <1>2, EnqueueFacts
  <2>2. \A d \in Conns : Len(queue'[d]) <= Capacity
    BY <2>1 DEF TypeInv
  <2> QED BY ZenonT(30), <1>1, <1>2, <2>1, <2>2 DEF Taken, TypeInv
<1>3. CASE m = "attach" /\ attached' = [attached EXCEPT ![c] = "yes"] /\ Enqueue(c, "handshake")
  BY <1>2, <1>3 DEF TypeInv, Frames
<1>4. CASE m = "detach" /\ attached' = [attached EXCEPT ![c] = "gone"]
           /\ queue' = [queue EXCEPT ![c] = <<>>] /\ UNCHANGED toWake
  <2>1. queue' \in [Conns -> Seq(Frames)] /\ \A d \in Conns : Len(queue'[d]) <= Capacity
    <3>1. <<>> \in Seq(Frames) /\ Len(<<>>) = 0 /\ 0 <= Capacity
      BY ConnectionAssumption
    <3> QED BY <1>4, <3>1 DEF TypeInv
  <2> QED BY <1>1, <1>4, <2>1 DEF Taken, TypeInv
<1>5. CASE UNCHANGED <<attached, queue, toWake>>
  BY <1>1, <1>5 DEF Taken, TypeInv
<1>6. CASE attached' = [attached EXCEPT ![c] = "caps"] /\ UNCHANGED <<queue, toWake>>
  BY <1>1, <1>6 DEF Taken, TypeInv
<1>7. CASE m \in {"answer", "result", "refusal"} /\ UNCHANGED attached /\ Enqueue(c, m)
  BY ZenonT(30), <1>2, <1>7 DEF TypeInv, Frames
<1> QED BY <1>3, <1>4, <1>5, <1>6, <1>7 DEF Taken

LEMMA WriteType ==
  ASSUME TypeInv, Write
  PROVE  TypeInv'
<1> USE DEF listener, dropping, reader, history, drainer
<1>1. CASE Control
  BY <1>1, ControlFacts, TakenType
<1>2. ASSUME NEW c \in Conns, FanOut(c) PROVE TypeInv'
  <2>1. /\ queue' \in [Conns -> Seq(Frames)] /\ toWake' = toWake \cup {c}
        /\ \A d \in Conns : d # c => queue'[d] = queue[d]
        /\ Len(queue'[c]) <= Capacity
    BY <1>2, EnqueueFacts DEF FanOut, Frames
  <2>2. \A d \in Conns : Len(queue'[d]) <= Capacity
    BY <2>1 DEF TypeInv
  <2>3. records' \in [Conns -> 0..MaxRecords]
    <3>1. records \in [Conns -> 0..MaxRecords] /\ records[c] + 1 \in 0..MaxRecords
      BY SMTT(30), <1>2, ConnectionAssumption DEF FanOut, TypeInv
    <3> QED BY <1>2, <3>1 DEF FanOut, At
  <2> QED BY ZenonT(30), <1>2, <2>1, <2>2, <2>3 DEF FanOut, TypeInv
<1>3. ASSUME NEW c \in Conns, WakeDrainer(c) PROVE TypeInv'
  BY <1>3 DEF WakeDrainer, At, TypeInv
<1>4. ASSUME NEW c \in Conns, CloseFull(c) PROVE TypeInv'
  BY SMTT(30), <1>4 DEF CloseFull, At, TypeInv
<1> QED BY <1>1, <1>2, <1>3, <1>4 DEF Write

LEMMA ReadType ==
  ASSUME TypeInv, NEW c \in Conns, Read(c)
  PROVE  TypeInv'
<1> USE DEF listener, dropping, writer, history, drainer, OtherThan
<1>1. ASSUME NEW m \in Messages, Send(c, m) PROVE channel' \in Seq(Conns \X Messages)
  BY <1>1, SendType
<1>2. CASE ReadPing(c)
  <2>1. channel' \in Seq(Conns \X Messages)
    BY <1>1, <1>2 DEF ReadPing, Messages
  <2>2. pings' \in [Conns -> 0..MaxPings] /\ answered' \in [Conns -> Nat \ {0}]
    <3>1. pings \in [Conns -> 0..MaxPings] /\ answered \in [Conns -> Nat \ {0}]
          /\ session[c] \in BOOLEAN /\ pings[c] < MaxPings
      BY <1>2 DEF TypeInv, ReadPing
    <3>2. pings[c] + 1 \in 0..MaxPings /\ answered[c] + (IF session[c] THEN 0 ELSE 1) \in Nat \ {0}
      BY <3>1, ConnectionAssumption
    <3> QED BY <1>2, <3>1, <3>2 DEF ReadPing, At
  <2> QED BY <1>2, <2>1, <2>2 DEF ReadPing, Reads, TypeInv
<1>3. CASE ReadAuth(c)
  <2>1. channel' \in Seq(Conns \X Messages)
    BY <1>1, <1>3 DEF ReadAuth, Messages
  <2> QED BY <1>3, <2>1 DEF ReadAuth, Reads, At, TypeInv
<1>4. CASE ReadBadAuth(c)
  <2>1. channel' \in Seq(Conns \X Messages)
    BY <1>1, <1>4 DEF ReadBadAuth, Messages
  <2>2. answered' \in [Conns -> Nat \ {0}]
    <3>1. answered \in [Conns -> Nat \ {0}] /\ answered[c] + 1 \in Nat \ {0}
      BY DEF TypeInv
    <3> QED BY <1>4, <3>1 DEF ReadBadAuth, At
  <2> QED BY SMTT(30), <1>4, <2>1, <2>2 DEF ReadBadAuth, Reads, At, TypeInv
<1>5. CASE Announce(c)
  <2>1. channel' \in Seq(Conns \X Messages)
    BY <1>1, <1>5 DEF Announce, Messages
  <2> QED BY <1>5, <2>1 DEF Announce, At, TypeInv
<1>6. CASE Ends(c)
  BY <1>6 DEF Ends, At, TypeInv
<1>7. CASE Lift(c)
  BY <1>7 DEF Lift, At, TypeInv
<1>8. CASE LiftFails(c)
  BY <1>8 DEF LiftFails, At, TypeInv
<1>9. CASE Flush(c)
  BY SMTT(30), <1>9 DEF Flush, At, TypeInv
<1>10. CASE FlushWait(c)
  BY <1>10 DEF FlushWait, At, TypeInv
<1>11. CASE Shut(c)
  BY <1>11 DEF Shut, At, TypeInv
<1>12. CASE Free(c)
  BY <1>12 DEF Free, At, TypeInv
<1>13. CASE RaiseClosing(c)
  BY <1>13 DEF RaiseClosing, At, TypeInv
<1>14. CASE ReaderWake(c)
  BY <1>14 DEF ReaderWake, At, TypeInv
<1> QED BY <1>2, <1>3, <1>4, <1>5, <1>6, <1>7, <1>8, <1>9, <1>10, <1>11, <1>12, <1>13, <1>14
        DEF Read, ReaderRuns, ReadRefused, ReadClosed, ReadTimesOut

LEMMA DrainType ==
  ASSUME TypeInv, NEW c \in Conns, Drain(c)
  PROVE  TypeInv'
<1> USE DEF listener, dropping, reader, history, Others, Quiet, Goes, At
<1>1. CASE Look(c)
  BY <1>1 DEF Look, TypeInv
<1>2. CASE Pop(c)
  <2>1. queue[c] \in Seq(Frames) /\ queue[c] # <<>> /\ Len(queue[c]) <= Capacity /\ Capacity \in Nat
    BY <1>2, ConnectionAssumption DEF Pop, TypeInv
  <2>2. Tail(queue[c]) \in Seq(Frames) /\ Len(Tail(queue[c])) <= Capacity /\ Head(queue[c]) \in Frames
    BY <2>1, TailFacts
  <2>3. queue' \in [Conns -> Seq(Frames)] /\ \A d \in Conns : Len(queue'[d]) <= Capacity
    BY <1>2, <2>2 DEF Pop, TypeInv
  <2>4. frame' = [frame EXCEPT ![c] = Head(queue[c])] /\ Head(queue[c]) # "none"
    BY <1>2, <2>2 DEF Pop, Frames
  <2>5. frame' \in [Conns -> Frames \cup {"none"}]
        /\ \A d \in Conns : dPc'[d] = "write" <=> frame'[d] # "none"
    BY <1>2, <2>2, <2>4 DEF Pop, TypeInv
  <2>6. \A d \in Conns : parked'[d] <=> dPc'[d] \in {"check", "asleep", "lower"}
    BY <1>2 DEF Pop, TypeInv
  <2>7. \A d \in Conns : socket'[d] = "none" => dPc'[d] = "none" /\ rPc'[d] = "none"
    BY <1>2 DEF Pop, TypeInv
  <2> QED BY <1>2, <2>3, <2>5, <2>6, <2>7 DEF Pop, TypeInv
<1>3. CASE PopEmpty(c)
  <2>1. PICK to \in {"end", "look", "raise"} : dPc[c] = "pop" /\ dPc' = [dPc EXCEPT ![c] = to]
    BY <1>3 DEF PopEmpty
  <2> QED BY <1>3, <2>1 DEF PopEmpty, TypeInv
<1>4. CASE Written(c)
  <2>1. /\ wire \in [Conns -> [first : Frames \cup {"none"}, all : SUBSET Frames]]
        /\ written \in [Conns -> Nat] /\ frame[c] \in Frames
        /\ IsFiniteSet(wire[c].all) /\ Cardinality(wire[c].all) <= written[c]
    <3>1. frame[c] \in Frames
      BY <1>4 DEF TypeInv, Written
    <3> QED BY <3>1 DEF TypeInv
  <2>2. PICK w \in [first : Frames \cup {"none"}, all : SUBSET Frames] :
          /\ wire' = [wire EXCEPT ![c] = w]
          /\ w.all = wire[c].all \cup {frame[c]}
    <3>1. [first |-> IF written[c] = 0 THEN frame[c] ELSE wire[c].first,
           all |-> wire[c].all \cup {frame[c]}] \in [first : Frames \cup {"none"}, all : SUBSET Frames]
      BY <2>1
    <3> QED BY <1>4, <3>1 DEF Written
  <2>3. Cardinality(wire[c].all) \in Nat
        /\ IsFiniteSet(w.all) /\ Cardinality(w.all) <= Cardinality(wire[c].all) + 1
    <3>1. /\ IsFiniteSet(wire[c].all \cup {frame[c]})
          /\ Cardinality(wire[c].all \cup {frame[c]}) =
               IF frame[c] \in wire[c].all THEN Cardinality(wire[c].all)
               ELSE Cardinality(wire[c].all) + 1
      BY <2>1, FS_AddElement
    <3>2. Cardinality(wire[c].all) \in Nat
      BY <2>1, FS_CardinalityType
    <3> QED BY <2>2, <3>1, <3>2
  <2>4. written' = [written EXCEPT ![c] = written[c] + 1] /\ written' \in [Conns -> Nat]
    BY <1>4, <2>1 DEF Written
  <2>5. IsFiniteSet(w.all) /\ Cardinality(w.all) <= written[c] + 1
    BY <2>1, <2>3, FS_CardinalityType
  <2>6. \A d \in Conns : IsFiniteSet(wire'[d].all) /\ Cardinality(wire'[d].all) <= written'[d]
    BY ZenonT(30), <2>1, <2>2, <2>4, <2>5 DEF TypeInv
  <2>7. wire' \in [Conns -> [first : Frames \cup {"none"}, all : SUBSET Frames]]
    BY <2>1, <2>2
  <2> QED BY ZenonT(30), <1>4, <2>4, <2>6, <2>7 DEF Written, TypeInv
<1>5. CASE WriteFails(c)
  BY SMTT(30), <1>5 DEF WriteFails, TypeInv
<1>6. CASE Raise(c)
  BY <1>6 DEF Raise, TypeInv
<1>7. CASE Check(c)
  BY <1>7 DEF Check, TypeInv
<1>8. CASE Wakes(c)
  BY <1>8 DEF Wakes, TypeInv
<1>9. CASE Lower(c)
  BY <1>9 DEF Lower, TypeInv
<1>10. CASE EndShut(c)
  BY SMTT(30), <1>10 DEF EndShut, TypeInv
<1>11. CASE Detach(c)
  <2>1. channel' \in Seq(Conns \X Messages)
    BY <1>11, SendType DEF Detach, Messages
  <2> QED BY <1>11, <2>1 DEF Detach, TypeInv
<1> QED BY <1>1, <1>2, <1>3, <1>4, <1>5, <1>6, <1>7, <1>8, <1>9, <1>10, <1>11
        DEF Drain, DrainerRuns

LEMMA TypeStep ==
  ASSUME TypeInv, [Next]_vars, \A c \in Conns : StartInv(c)
  PROVE  TypeInv'
<1>1. current \cup open \subseteq Conns
  BY DEF TypeInv
<1>2. CASE Listen
  BY <1>1, <1>2, ListenType DEF StartInv
<1>3. CASE Drop
  BY <1>1, <1>3, DropType DEF StartInv
<1>4. CASE Write
  BY <1>4, WriteType
<1>5. ASSUME NEW c \in Conns, Read(c) PROVE TypeInv'
  BY <1>5, ReadType
<1>6. ASSUME NEW c \in Conns, Drain(c) PROVE TypeInv'
  BY <1>6, DrainType
<1>7. ASSUME NEW c \in Conns, PeerGoes(c) PROVE TypeInv'
  BY SMTT(30), <1>7 DEF PeerGoes, At, TypeInv, listener, dropping, writer, reader, history, drainer
<1>8. ASSUME NEW c \in Conns, Expire(c) PROVE TypeInv'
  BY <1>8 DEF Expire, At, TypeInv, listener, dropping, writer, reader, history, drainer
<1>9. CASE UNCHANGED vars
  BY <1>9 DEF vars, TypeInv, listener, dropping, writer, reader, history, drainer
<1> QED BY <1>2, <1>3, <1>4, <1>5, <1>6, <1>7, <1>8, <1>9 DEF Next

-----------------------------------------------------------------------------
(* Steps that leave what is under way to a connection as it was. *)

SameBook(c) ==
  /\ attached'[c] = attached[c] /\ queue'[c] = queue[c] /\ records'[c] = records[c]
  /\ answered'[c] = answered[c] /\ pings'[c] = pings[c] /\ session'[c] = session[c]
  /\ frame'[c] = frame[c] /\ written'[c] = written[c] /\ wire'[c] = wire[c]

SameMail(c) ==
  /\ On(c, {"attach"})' = On(c, {"attach"}) /\ Pending(c)' = Pending(c)
  /\ On(c, {"authenticated"})' = On(c, {"authenticated"})
  /\ On(c, {"refusal"})' = On(c, {"refusal"})
  /\ On(c, {"detach"})' = On(c, {"detach"}) \/ dPc'[c] = "done"

SameStart(c) ==
  /\ Unsent(c)' <=> Unsent(c)
  /\ c \in open' => socket'[c] # "none"
  /\ c \in current' =>
       /\ socket'[c] # "none" /\ dPc'[c] = "recv"
       /\ lPc' \in {"attach", "read"} => rPc'[c] = "none"

(* A drainer that ends has ended; a reader goes on to end. *)
SamePlace(c) ==
  /\ dPc[c] = "done" => dPc'[c] = "done"
  /\ dPc[c] \in {"end", "detach", "done"} => dPc'[c] \in {"end", "detach", "done"}
  /\ \/ rPc'[c] = rPc[c]
     \/ /\ rPc[c] \in {"read", "flush", "shut", "free", "closing", "wake", "done"}
        /\ rPc'[c] \in {"shut", "free", "closing", "wake", "done"}
  /\ c \in unlifted' <=> c \in unlifted
  /\ c \in flushed' => c \in flushed \/ "refusal" \in wire[c].all

Still(c) == SameBook(c) /\ SameMail(c) /\ SameStart(c) /\ SamePlace(c)

LEMMA LedgerType ==
  ASSUME TypeInv, NEW c \in Conns
  PROVE  /\ Ledger(c) \in Nat /\ Pending(c) \in Nat /\ written[c] \in Nat
         /\ Len(queue[c]) \in Nat /\ answered[c] \in Nat \ {0}
         /\ pings[c] \in Nat /\ records[c] \in Nat
         /\ Ledger(c) = 0 <=> written[c] = 0 /\ frame[c] = "none" /\ queue[c] = <<>> /\ Pending(c) = 0
<1>1. Pending(c) \in Nat
  BY OnType DEF Pending
<1>2. written[c] \in Nat /\ queue[c] \in Seq(Frames) /\ answered[c] \in Nat \ {0}
      /\ pings[c] \in Nat /\ records[c] \in Nat
  BY ConnectionAssumption DEF TypeInv
<1>3. Len(queue[c]) \in Nat /\ (Len(queue[c]) = 0 <=> queue[c] = <<>>)
  BY <1>2
<1>4. PICK d \in {0, 1} : d = Held(c) /\ (d = 0 <=> frame[c] = "none")
  BY DEF Held
<1>5. Ledger(c) = written[c] + d + Len(queue[c]) + Pending(c)
  BY <1>4 DEF Ledger
<1> QED BY <1>1, <1>2, <1>3, <1>4, <1>5

LEMMA Kept ==
  ASSUME TypeInv, NEW c \in Conns, ConnInv(c), Still(c)
  PROVE  ConnInv(c)'
<1>1. Ledger(c)' = Ledger(c)
  BY DEF Still, SameBook, SameMail, Ledger, Held
<1>2. Opened(c)' <=> Opened(c)
  BY DEF Still, SameBook, SamePlace, Opened
<1>3. StartInv(c)'
  <2>1. c \in open' => socket'[c] # "none"
    BY DEF Still, SameStart
  <2>2. c \in current' => socket'[c] # "none" /\ dPc'[c] = "recv"
                          /\ (lPc' \in {"attach", "read"} => rPc'[c] = "none")
    BY DEF Still, SameStart
  <2>3. Unsent(c)' => On(c, {"attach"})' = 0 /\ Ledger(c)' = 0 /\ attached'[c] = "no" /\ rPc'[c] = "none"
                      /\ ~session'[c]
    BY <1>1 DEF Still, SameStart, SameBook, SameMail, SamePlace, ConnInv, StartInv
  <2>4. On(c, {"attach"})' <= 1
    BY DEF Still, SameMail, ConnInv, StartInv
  <2>5. On(c, {"detach"})' > 0 => dPc'[c] = "done"
    BY DEF Still, SameMail, SamePlace, ConnInv, StartInv
  <2> QED BY <2>1, <2>2, <2>3, <2>4, <2>5 DEF StartInv
<1>4. CountInv(c)'
  BY <1>1, <1>2 DEF Still, SameBook, SameMail, SamePlace, ConnInv, CountInv
<1>5. RefusalInv(c)'
  BY <1>1 DEF Still, SameBook, SameMail, SamePlace, ConnInv, RefusalInv, Refused
<1>6. ASSUME Room PROVE FirstInv(c)'
  <2>1. FirstInv(c)
    BY <1>6 DEF ConnInv
  <2>2. Ledger(c)' <= Begun(c)' + pings'[c] + Auths(c)' + records'[c]
    <3>1. Authed(c) => Authed(c)'
      BY DEF Still, SamePlace, SameBook, Authed
    <3>2. PICK a \in {0, 1}, u \in {0, 1}, b \in {0, 1} :
             /\ a = Auths(c) /\ b = Auths(c)' /\ u = Begun(c) /\ u = Begun(c)' /\ a <= b
      BY <3>1 DEF Still, SameStart, Auths, Begun
    <3>3. Ledger(c) <= u + pings[c] + a + records[c]
      BY <2>1, <3>2 DEF FirstInv
    <3>4. Ledger(c)' <= u + pings[c] + b + records[c]
      BY <1>1, <3>2, <3>3, LedgerType
    <3> QED BY <3>2, <3>4 DEF Still, SameBook
  <2>3. attached'[c] = "no" => queue'[c] = <<>>
    BY <2>1 DEF FirstInv, Still, SameBook
  <2>4. On(c, {"attach"})' > 0 => attached'[c] = "no" \/ dPc'[c] = "done"
    BY <2>1 DEF FirstInv, Still, SameBook, SameMail, SamePlace
  <2>5. wire'[c].first = IF written'[c] = 0 THEN "none" ELSE "handshake"
    BY <2>1 DEF FirstInv, Still, SameBook
  <2>6. Foremost(c)'
    BY <2>1 DEF FirstInv, Foremost, Still, SameBook, SamePlace
  <2> QED BY <2>2, <2>3, <2>4, <2>5, <2>6 DEF FirstInv
<1> QED BY <1>3, <1>4, <1>5, <1>6 DEF ConnInv, Room

LEMMA MailKept ==
  ASSUME NEW c, UNCHANGED channel
  PROVE  SameMail(c)
BY DEF SameMail, Pending, On

LEMMA MailSentElsewhere ==
  ASSUME TypeInv, NEW d \in Conns, NEW m \in Messages, Send(d, m), NEW c \in Conns \ {d}
  PROVE  SameMail(c)
<1>1. \A M : On(c, M)' = On(c, M)
  <2>1. ASSUME NEW M PROVE On(c, M)' = On(c, M)
    <3>1. On(c, M)' = On(c, M) + (IF c = d /\ m \in M THEN 1 ELSE 0)
      BY OnSent
    <3>2. On(c, M) \in Nat
      BY OnType
    <3> QED BY <3>1, <3>2
  <2> QED BY <2>1
<1> QED BY <1>1 DEF SameMail, Pending

LEMMA MailTakenElsewhere ==
  ASSUME TypeInv, NEW d \in Conns, NEW m \in Messages, Taken(d, m), NEW c \in Conns \ {d}, TypeInv'
  PROVE  SameMail(c)
<1>1. ASSUME NEW M PROVE On(c, M)' = On(c, M)
  <2>1. On(c, M) = On(c, M)' + (IF c = d /\ m \in M THEN 1 ELSE 0)
    BY OnTaken DEF Taken
  <2>2. On(c, M)' \in Nat
    <3>1. channel' \in Seq(Conns \X Messages)
      BY DEF TypeInv
    <3>2. Cardinality(Places(channel', {c} \X M)) \in Nat
      BY <3>1, PlacesAreFinite
    <3> QED BY <3>2 DEF On
  <2> QED BY <2>1, <2>2
<1> QED BY <1>1 DEF SameMail, Pending

LEMMA StartKept ==
  ASSUME NEW c \in Conns, StartInv(c), UNCHANGED listener,
         socket'[c] = "none" <=> socket[c] = "none",
         dPc'[c] = dPc[c] \/ dPc[c] # "recv",
         rPc'[c] = rPc[c] \/ rPc[c] # "none"
  PROVE  SameStart(c)
BY DEF StartInv, SameStart, Unsent, listener

LEMMA ListenStill ==
  ASSUME TypeInv, NEW c \in Conns, ConnInv(c), Listen,
         ~Accept(c), ~Attach(c), ~StartReader(c)
  PROVE  Still(c)
<1> USE DEF At, AtWork, listener, dropping, writer, reader, history, drainer
<1>1. ASSUME NEW d \in Conns \ {c}, Accept(d) PROVE Still(c)
  <2>1. SameMail(c)
    BY <1>1, MailKept DEF Accept
  <2>2. SameBook(c) /\ SamePlace(c)
    BY <1>1 DEF Accept, SameBook, SamePlace, TypeInv
  <2>3. SameStart(c)
    BY <1>1 DEF Accept, SameStart, TypeInv, Unsent, ConnInv, StartInv
  <2> QED BY <2>1, <2>2, <2>3 DEF Still
<1>2. ASSUME NEW d \in Conns \ {c}, Attach(d) PROVE Still(c)
  <2>1. SameMail(c)
    BY <1>2, MailSentElsewhere DEF Attach, Messages
  <2>2. SameBook(c) /\ SamePlace(c)
    BY <1>2 DEF Attach, SameBook, SamePlace
  <2>3. SameStart(c)
    BY <1>2 DEF Attach, SameStart, Unsent, ConnInv, StartInv
  <2> QED BY <2>1, <2>2, <2>3 DEF Still
<1>3. ASSUME NEW d \in Conns \ {c}, StartReader(d) PROVE Still(c)
  <2>1. SameMail(c)
    BY <1>3, MailKept DEF StartReader
  <2>2. SameBook(c) /\ SamePlace(c)
    BY <1>3 DEF StartReader, SameBook, SamePlace, TypeInv
  <2>3. SameStart(c)
    BY <1>3 DEF StartReader, SameStart, Unsent, ConnInv, StartInv
  <2> QED BY <2>1, <2>2, <2>3 DEF Still
<1>4. ASSUME NEW d \in Conns, PushOpen(d) PROVE Still(c)
  <2>1. SameMail(c)
    BY <1>4, MailKept DEF PushOpen
  <2>2. SameBook(c) /\ SamePlace(c)
    BY <1>4 DEF PushOpen, SameBook, SamePlace
  <2>3. SameStart(c)
    BY <1>4 DEF PushOpen, SameStart, Unsent, ConnInv, StartInv
  <2> QED BY <2>1, <2>2, <2>3 DEF Still
<1>5. ASSUME NEW d \in Conns, Hand(d) PROVE Still(c)
  <2>1. SameMail(c)
    BY <1>5, MailKept DEF Hand
  <2>2. SameBook(c) /\ SamePlace(c)
    BY <1>5 DEF Hand, SameBook, SamePlace, TypeInv, ConnInv, StartInv
  <2>3. SameStart(c)
    BY <1>5 DEF Hand, SameStart, Unsent, ConnInv, StartInv
  <2> QED BY <2>1, <2>2, <2>3 DEF Still
<1>6. CASE AcceptStops \/ Joined
  <2>1. SameMail(c)
    BY <1>6, MailKept DEF AcceptStops, Joined
  <2>2. SameBook(c) /\ SamePlace(c)
    BY <1>6 DEF AcceptStops, Joined, SameBook, SamePlace
  <2>3. SameStart(c)
    BY <1>6 DEF AcceptStops, Joined, SameStart, Unsent, ConnInv, StartInv, TypeInv
  <2> QED BY <2>1, <2>2, <2>3 DEF Still
<1> QED BY <1>1, <1>2, <1>3, <1>4, <1>5, <1>6 DEF Listen

LEMMA DropStill ==
  ASSUME TypeInv, NEW c \in Conns, ConnInv(c), Drop
  PROVE  Still(c)
<1> USE DEF listener, dropping, writer, reader, history, drainer
<1>1. SameMail(c)
  BY MailKept DEF Drop, Stop, CloseOpen, Dropped
<1>2. SameBook(c) /\ SamePlace(c)
  BY DEF Drop, Stop, CloseOpen, Dropped, SameBook, SamePlace
<1>3. SameStart(c)
  BY StartKept DEF Drop, Stop, CloseOpen, Dropped, ConnInv, StartInv
<1> QED BY <1>1, <1>2, <1>3 DEF Still

LEMMA WriteStill ==
  ASSUME TypeInv, TypeInv', NEW c \in Conns, ConnInv(c), NEW d \in Conns,
         \/ WakeDrainer(d)
         \/ d # c /\ (FanOut(d) \/ CloseFull(d) \/ \E m \in Messages : Taken(d, m))
  PROVE  Still(c)
<1> USE DEF listener, dropping, reader, history, drainer, At
<1>1. CASE WakeDrainer(d)
  <2>1. SameMail(c) /\ SameStart(c)
    BY <1>1, MailKept, StartKept DEF WakeDrainer, ConnInv
  <2>2. SameBook(c) /\ SamePlace(c)
    BY <1>1 DEF WakeDrainer, SameBook, SamePlace
  <2> QED BY <2>1, <2>2 DEF Still
<1>2. CASE d # c /\ FanOut(d)
  <2>1. SameMail(c) /\ SameStart(c)
    BY <1>2, MailKept, StartKept DEF FanOut, ConnInv
  <2>2. queue'[c] = queue[c]
    BY <1>2, EnqueueFacts DEF FanOut, Frames
  <2>3. SameBook(c) /\ SamePlace(c)
    BY <1>2, <2>2 DEF FanOut, SameBook, SamePlace, TypeInv
  <2> QED BY <2>1, <2>3 DEF Still
<1>3. CASE d # c /\ CloseFull(d)
  <2>1. SameMail(c) /\ SameStart(c)
    BY <1>3, MailKept, StartKept DEF CloseFull, ConnInv, TypeInv
  <2>2. SameBook(c) /\ SamePlace(c)
    BY <1>3 DEF CloseFull, SameBook, SamePlace, TypeInv
  <2> QED BY <2>1, <2>2 DEF Still
<1>4. ASSUME NEW m \in Messages, d # c, Taken(d, m) PROVE Still(c)
  <2>1. SameMail(c)
    BY <1>4, MailTakenElsewhere
  <2>2. SameStart(c)
    BY <1>4, StartKept DEF Taken, ConnInv
  <2>3. queue'[c] = queue[c]
    <3>1. ASSUME NEW f \in Frames, Enqueue(d, f) PROVE queue'[c] = queue[c]
      BY <1>4, <3>1, EnqueueFacts
    <3>2. queue \in [Conns -> Seq(Frames)]
      BY DEF TypeInv
    <3>3. CASE queue' = [queue EXCEPT ![d] = <<>>] \/ UNCHANGED queue
      BY <1>4, <3>2, <3>3
    <3>4. \/ \E f \in Frames : Enqueue(d, f)
          \/ queue' = [queue EXCEPT ![d] = <<>>] \/ UNCHANGED queue
      BY <1>4 DEF Taken, Frames
    <3> QED BY <3>1, <3>3, <3>4
  <2>4. attached'[c] = attached[c]
    <3>1. ASSUME NEW v, attached' = [attached EXCEPT ![d] = v] PROVE attached'[c] = attached[c]
      BY <1>4, <3>1 DEF TypeInv
    <3> QED BY <1>4, <3>1 DEF Taken
  <2>5. SameBook(c) /\ SamePlace(c)
    BY <1>4, <2>3, <2>4 DEF Taken, SameBook, SamePlace
  <2> QED BY <2>1, <2>2, <2>5 DEF Still
<1> QED BY <1>1, <1>2, <1>3, <1>4

(* A reader's steps: another connection's, and its own that send nothing   *)
(* and open no session.                                                    *)
LEMMA ReadElsewhere ==
  ASSUME TypeInv, NEW d \in Conns, Read(d), NEW c \in Conns \ {d}, ConnInv(c)
  PROVE  Still(c)
<1> USE DEF listener, dropping, writer, drainer, history, At, OtherThan
<1>1. /\ UNCHANGED <<attached, queue, records, frame, written, wire, dPc>>
      /\ UNCHANGED listener
      /\ socket'[c] = socket[c]
      /\ answered'[c] = answered[c] /\ pings'[c] = pings[c] /\ session'[c] = session[c]
      /\ rPc'[c] = rPc[c] /\ (c \in unlifted' <=> c \in unlifted) /\ (c \in flushed' <=> c \in flushed)
  <2>1. CASE ReadPing(d) \/ ReadAuth(d) \/ ReadBadAuth(d)
    BY <2>1 DEF ReadPing, ReadAuth, ReadBadAuth, Reads, TypeInv
  <2>2. CASE Ends(d) \/ Announce(d) \/ Lift(d) \/ LiftFails(d) \/ Flush(d) \/ FlushWait(d)
    BY <2>2 DEF Ends, Announce, Lift, LiftFails, Flush, FlushWait, TypeInv
  <2>3. CASE Shut(d) \/ Free(d) \/ RaiseClosing(d) \/ ReaderWake(d)
    BY <2>3 DEF Shut, Free, RaiseClosing, ReaderWake, TypeInv
  <2> QED BY <2>1, <2>2, <2>3 DEF Read, ReaderRuns, ReadRefused, ReadClosed, ReadTimesOut
<1>2. SameMail(c)
  <2>1. CASE UNCHANGED channel
    BY <2>1, MailKept
  <2>2. CASE \E m \in Messages : Send(d, m)
    BY <2>2, MailSentElsewhere
  <2> QED BY <2>1, <2>2 DEF Read, ReaderRuns, ReadRefused, ReadClosed, ReadTimesOut, ReadPing,
                 ReadAuth, ReadBadAuth, Announce, Ends, Lift, LiftFails, Flush, FlushWait, Shut,
                 Free, RaiseClosing, ReaderWake, Messages
<1>3. SameStart(c)
  BY <1>1, StartKept DEF ConnInv
<1> QED BY <1>1, <1>2, <1>3 DEF Still, SameBook, SamePlace

LEMMA ReadQuietly ==
  ASSUME TypeInv, NEW c \in Conns, ConnInv(c),
         Ends(c) \/ FlushWait(c) \/ Shut(c) \/ Free(c) \/ RaiseClosing(c) \/ ReaderWake(c)
  PROVE  Still(c)
<1> USE DEF listener, dropping, writer, drainer, history, At, OtherThan
<1>1. /\ UNCHANGED <<attached, queue, records, frame, written, wire, dPc, unlifted, flushed,
                     answered, pings, session, channel>>
      /\ UNCHANGED listener
      /\ rPc[c] \in {"read", "flush", "shut", "free", "closing", "wake"}
      /\ rPc'[c] \in {"shut", "free", "closing", "wake", "done"}
  BY DEF Ends, FlushWait, Shut, Free, RaiseClosing, ReaderWake, TypeInv
<1>2. socket'[c] = "none" <=> socket[c] = "none"
  BY <1>1 DEF Ends, FlushWait, Shut, Free, RaiseClosing, ReaderWake, TypeInv
<1>3. SameStart(c)
  BY <1>1, <1>2, StartKept DEF ConnInv
<1> QED BY <1>1, <1>3, MailKept DEF Still, SameBook, SamePlace

(* What it has written, and what may still come, are no more than it has   *)
(* counted: when the counts agree nothing is left to come.                 *)
LEMMA FlushStill ==
  ASSUME TypeInv, NEW c \in Conns, ConnInv(c), Flush(c)
  PROVE  Still(c)
<1> USE DEF listener, dropping, writer, drainer, history, At, OtherThan
<1>1. /\ UNCHANGED <<attached, queue, records, frame, written, wire, dPc, unlifted,
                     answered, pings, session, channel>>
      /\ UNCHANGED listener
      /\ rPc[c] = "flush" /\ rPc'[c] = "shut" /\ socket' = socket
      /\ written[c] >= answered[c]
  BY DEF Flush, TypeInv
<1>2. Ledger(c) <= answered[c]
  BY <1>1 DEF ConnInv, CountInv
<1>3. frame[c] = "none" /\ queue[c] = <<>> /\ Pending(c) = 0 /\ ~(Ledger(c) < answered[c])
  <2>1. PICK d \in {0, 1} : d = Held(c) /\ (d = 0 <=> frame[c] = "none")
    BY DEF Held
  <2>2. Ledger(c) = written[c] + d + Len(queue[c]) + Pending(c)
    BY <2>1 DEF Ledger
  <2>3. d = 0 /\ Len(queue[c]) = 0 /\ Pending(c) = 0 /\ ~(Ledger(c) < answered[c])
    BY <1>1, <1>2, <2>1, <2>2, LedgerType
  <2>4. queue[c] \in Seq(Frames)
    BY DEF TypeInv
  <2> QED BY <2>1, <2>3, <2>4
<1>4. ~(On(c, {"refusal"}) > 0)
  <2>1. On(c, {"refusal"}) <= Pending(c)
    <3>1. Places(channel, {c} \X {"refusal"})
            \in SUBSET Places(channel, {c} \X {"attach", "answer", "result", "refusal"})
      BY DEF Places
    <3>2. channel \in Seq(Conns \X Messages)
      BY DEF TypeInv
    <3>3. IsFiniteSet(Places(channel, {c} \X {"attach", "answer", "result", "refusal"}))
      BY <3>2, PlacesAreFinite
    <3>4. Cardinality(Places(channel, {c} \X {"refusal"}))
            <= Cardinality(Places(channel, {c} \X {"attach", "answer", "result", "refusal"}))
      BY <3>1, <3>3, FS_Subset
    <3> QED BY <3>4 DEF On, Pending
  <2> QED BY <1>3, <2>1, OnType
<1>5. "refusal" \in wire[c].all
  BY <1>1, <1>3, <1>4 DEF ConnInv, RefusalInv, Refused
<1>6. SameStart(c)
  BY <1>1, StartKept DEF ConnInv
<1> QED BY <1>1, <1>5, <1>6, MailKept DEF Still, SameBook, SamePlace

LEMMA DrainElsewhere ==
  ASSUME TypeInv, NEW d \in Conns, Drain(d), NEW c \in Conns \ {d}, ConnInv(c)
  PROVE  Still(c)
<1> USE DEF listener, dropping, reader, history, At, Goes, Others, Quiet
<1>1. /\ UNCHANGED <<attached, records, answered, pings, session, rPc, unlifted, flushed>>
      /\ UNCHANGED listener
      /\ socket'[c] = socket[c] /\ queue'[c] = queue[c] /\ frame'[c] = frame[c]
      /\ written'[c] = written[c] /\ wire'[c] = wire[c] /\ dPc'[c] = dPc[c]
  <2>1. CASE Look(d) \/ PopEmpty(d) \/ Raise(d) \/ Check(d) \/ Wakes(d) \/ Lower(d)
    BY <2>1 DEF Look, PopEmpty, Raise, Check, Wakes, Lower, TypeInv
  <2>2. CASE Pop(d) \/ WriteFails(d) \/ EndShut(d) \/ Detach(d)
    BY <2>2 DEF Pop, WriteFails, EndShut, Detach, TypeInv
  <2>3. CASE Written(d)
    BY <2>3 DEF Written, TypeInv
  <2> QED BY <2>1, <2>2, <2>3 DEF Drain, DrainerRuns
<1>2. SameMail(c)
  <2>1. CASE UNCHANGED channel
    BY <2>1, MailKept
  <2>2. CASE Send(d, "detach")
    BY <2>2, MailSentElsewhere DEF Messages
  <2> QED BY <2>1, <2>2 DEF Drain, DrainerRuns, Look, PopEmpty, Raise, Check, Wakes, Lower, Pop,
                 WriteFails, EndShut, Detach, Written
<1>3. SameStart(c)
  BY <1>1, StartKept DEF ConnInv
<1> QED BY <1>1, <1>2, <1>3 DEF Still, SameBook, SamePlace

LEMMA DrainQuietly ==
  ASSUME TypeInv, NEW c \in Conns, ConnInv(c),
         \/ Look(c) \/ PopEmpty(c) \/ Raise(c) \/ Check(c) \/ Wakes(c) \/ Lower(c)
         \/ EndShut(c) \/ Detach(c)
  PROVE  Still(c)
<1> USE DEF listener, dropping, reader, history, At, Goes, Others, Quiet
<1>1. /\ UNCHANGED <<attached, records, answered, pings, session, rPc, unlifted, flushed>>
      /\ UNCHANGED <<queue, frame, written, wire>> /\ UNCHANGED listener
      /\ dPc[c] \notin {"recv", "done"}
      /\ dPc[c] \in {"end", "detach", "done"} => dPc'[c] \in {"end", "detach", "done"}
  <2>1. CASE Look(c) \/ PopEmpty(c) \/ Raise(c) \/ Check(c) \/ Wakes(c) \/ Lower(c)
    BY <2>1 DEF Look, PopEmpty, Raise, Check, Wakes, Lower, TypeInv
  <2>2. CASE EndShut(c) \/ Detach(c)
    BY <2>2 DEF EndShut, Detach, TypeInv
  <2> QED BY <2>1, <2>2
<1>2. SameMail(c)
  <2>1. CASE UNCHANGED channel
    BY <2>1, MailKept
  <2>2. CASE Send(c, "detach") /\ dPc'[c] = "done"
    <3>1. \A M : "detach" \notin M => On(c, M)' = On(c, M)
      <4>1. ASSUME NEW M, "detach" \notin M PROVE On(c, M)' = On(c, M)
        BY <2>2, <4>1, OnSent, OnType DEF Messages
      <4> QED BY <4>1
    <3>2. /\ On(c, {"attach"})' = On(c, {"attach"}) /\ On(c, {"refusal"})' = On(c, {"refusal"})
          /\ On(c, {"authenticated"})' = On(c, {"authenticated"})
          /\ On(c, {"attach", "answer", "result", "refusal"})'
               = On(c, {"attach", "answer", "result", "refusal"})
      BY <3>1
    <3> QED BY <2>2, <3>2 DEF SameMail, Pending
  <2>3. Detach(c) => dPc'[c] = "done"
    BY DEF Detach, TypeInv
  <2> QED BY <2>1, <2>2, <2>3 DEF Look, PopEmpty, Raise, Check, Wakes, Lower, EndShut, Detach
<1>3. socket'[c] = "none" <=> socket[c] = "none"
  BY <1>1 DEF Look, PopEmpty, Raise, Check, Wakes, Lower, EndShut, Detach, TypeInv
<1>4. SameStart(c)
  BY <1>1, <1>3, StartKept DEF ConnInv
<1> QED BY <1>1, <1>2, <1>4 DEF Still, SameBook, SamePlace

LEMMA ConsumerStill ==
  ASSUME TypeInv, NEW c \in Conns, ConnInv(c), NEW d \in Conns, PeerGoes(d) \/ Expire(d)
  PROVE  Still(c)
<1> USE DEF listener, dropping, writer, reader, history, drainer, At
<1>1. /\ UNCHANGED <<attached, queue, records, answered, pings, session, frame, written, wire, rPc,
                     dPc, unlifted, flushed, channel>>
      /\ UNCHANGED listener
      /\ socket'[c] = "none" <=> socket[c] = "none"
  BY DEF PeerGoes, Expire, TypeInv
<1>2. SameStart(c)
  BY <1>1, StartKept DEF ConnInv
<1> QED BY <1>1, <1>2, MailKept DEF Still, SameBook, SamePlace

-----------------------------------------------------------------------------
(* Steps that change what is under way to a connection. *)

LEMMA Sums ==
  ASSUME TypeInv, TypeInv', NEW c \in Conns
  PROVE  /\ Ledger(c) = written[c] + Held(c) + Len(queue[c]) + Pending(c)
         /\ Ledger(c)' = written'[c] + Held(c)' + Len(queue'[c]) + Pending(c)'
         /\ written[c] \in Nat /\ written'[c] \in Nat
         /\ Len(queue[c]) \in Nat /\ Len(queue'[c]) \in Nat
         /\ Pending(c) \in Nat /\ Pending(c)' \in Nat /\ Ledger(c) \in Nat /\ Ledger(c)' \in Nat
         /\ pings[c] \in Nat /\ pings'[c] \in Nat /\ records[c] \in Nat /\ records'[c] \in Nat
         /\ answered[c] \in Nat /\ answered'[c] \in Nat
         /\ Held(c) \in 0..1 /\ Held(c)' \in 0..1 /\ Begun(c) \in 0..1 /\ Begun(c)' \in 0..1
         /\ Auths(c) \in 0..1 /\ Auths(c)' \in 0..1
<1>1. /\ Held(c) \in 0..1 /\ Held(c)' \in 0..1 /\ Begun(c) \in 0..1 /\ Begun(c)' \in 0..1
      /\ Auths(c) \in 0..1 /\ Auths(c)' \in 0..1
  BY DEF Held, Begun, Auths
<1>2. /\ Ledger(c) = written[c] + Held(c) + Len(queue[c]) + Pending(c)
      /\ Ledger(c)' = written'[c] + Held(c)' + Len(queue'[c]) + Pending(c)'
  BY DEF Ledger
<1>3. {written[c], Len(queue[c]), Pending(c), Ledger(c), pings[c], records[c], answered[c]} \subseteq Nat
  BY LedgerType
<1>4. {written'[c], Len(queue'[c]), pings'[c], records'[c], answered'[c]} \subseteq Nat
  <2>1. /\ queue'[c] \in Seq(Frames) /\ written'[c] \in Nat /\ answered'[c] \in Nat
        /\ pings'[c] \in 0..MaxPings /\ records'[c] \in 0..MaxRecords
    BY DEF TypeInv
  <2> QED BY <2>1, ConnectionAssumption
<1>5. Pending(c)' \in Nat
  <2>1. channel' \in Seq(Conns \X Messages)
    BY DEF TypeInv
  <2>2. Cardinality(Places(channel', {c} \X {"attach", "answer", "result", "refusal"})) \in Nat
    BY <2>1, PlacesAreFinite
  <2> QED BY <2>2 DEF Pending, On
<1>6. Ledger(c)' \in Nat
  <2>1. PICK h \in 0..1 : h = Held(c)'
    BY <1>1
  <2> QED BY <1>2, <1>4, <1>5, <2>1
<1> QED BY <1>1, <1>2, <1>3, <1>4, <1>5, <1>6

(* Its mail, when one message is sent to it or taken. *)
Frame(m)  == IF m \in {"attach", "answer", "result", "refusal"} THEN 1 ELSE 0
One(m, n) == IF m = n THEN 1 ELSE 0

LEMMA MailSent ==
  ASSUME TypeInv, NEW c \in Conns, NEW m \in Messages, Send(c, m)
  PROVE  /\ On(c, {"attach"})' = On(c, {"attach"}) + One(m, "attach")
         /\ On(c, {"detach"})' = On(c, {"detach"}) + One(m, "detach")
         /\ On(c, {"authenticated"})' = On(c, {"authenticated"}) + One(m, "authenticated")
         /\ On(c, {"refusal"})' = On(c, {"refusal"}) + One(m, "refusal")
         /\ Pending(c)' = Pending(c) + Frame(m)
         /\ {On(c, {"attach"}), On(c, {"detach"}), On(c, {"authenticated"}), On(c, {"refusal"}),
             Pending(c)} \subseteq Nat
<1>1. \A M : On(c, M)' = On(c, M) + (IF m \in M THEN 1 ELSE 0) /\ On(c, M) \in Nat
  <2>1. ASSUME NEW M PROVE On(c, M)' = On(c, M) + (IF m \in M THEN 1 ELSE 0) /\ On(c, M) \in Nat
    BY OnSent, OnType
  <2> QED BY <2>1
<1> QED BY <1>1 DEF One, Frame, Pending

LEMMA MailTaken ==
  ASSUME TypeInv, TypeInv', NEW c \in Conns, NEW m \in Messages, Taken(c, m)
  PROVE  /\ On(c, {"attach"}) = On(c, {"attach"})' + One(m, "attach")
         /\ On(c, {"detach"}) = On(c, {"detach"})' + One(m, "detach")
         /\ On(c, {"authenticated"}) = On(c, {"authenticated"})' + One(m, "authenticated")
         /\ On(c, {"refusal"}) = On(c, {"refusal"})' + One(m, "refusal")
         /\ Pending(c) = Pending(c)' + Frame(m)
         /\ {On(c, {"attach"})', On(c, {"detach"})', On(c, {"authenticated"})', On(c, {"refusal"})',
             Pending(c)'} \subseteq Nat
<1>1. \A M : On(c, M) = On(c, M)' + (IF m \in M THEN 1 ELSE 0) /\ On(c, M)' \in Nat
  <2>1. ASSUME NEW M PROVE On(c, M) = On(c, M)' + (IF m \in M THEN 1 ELSE 0) /\ On(c, M)' \in Nat
    <3>1. channel' \in Seq(Conns \X Messages)
      BY DEF TypeInv
    <3>2. Cardinality(Places(channel', {c} \X M)) \in Nat
      BY <3>1, PlacesAreFinite
    <3>3. On(c, M) = On(c, M)' + (IF c = c /\ m \in M THEN 1 ELSE 0)
      BY OnTaken DEF Taken
    <3> QED BY <3>2, <3>3 DEF On
  <2> QED BY <2>1
<1> QED BY <1>1 DEF One, Frame, Pending

(* A connection a reader or a drainer is at work on is past its Attach.    *)
LEMMA Underway ==
  ASSUME NEW c \in Conns, TypeInv, StartInv(c),
         \/ rPc[c] # "none"
         \/ dPc[c] \notin {"none", "recv"}
         \/ attached[c] # "no"
  PROVE  ~Unsent(c) /\ socket[c] # "none"
BY DEF StartInv, Unsent, TypeInv

LEMMA AcceptStill ==
  ASSUME TypeInv, NEW c \in Conns, ConnInv(c), Accept(c)
  PROVE  Still(c)
<1> USE DEF At, dropping, writer, reader, history, drainer
<1>1. SameMail(c)
  BY MailKept DEF Accept
<1>2. SameBook(c) /\ SamePlace(c)
  BY DEF Accept, SameBook, SamePlace, TypeInv
<1>3. Unsent(c) /\ Unsent(c)' /\ socket'[c] = "open" /\ dPc'[c] = "recv" /\ rPc' = rPc
  BY DEF Accept, Unsent, TypeInv
<1>4. rPc[c] = "none"
  BY <1>3 DEF ConnInv, StartInv
<1> QED BY <1>1, <1>2, <1>3, <1>4 DEF Still, SameStart

LEMMA AttachConn ==
  ASSUME TypeInv, TypeInv', NEW c \in Conns, ConnInv(c), Attach(c)
  PROVE  ConnInv(c)'
<1> USE DEF AtWork
<1>1. /\ lPc = "attach" /\ lPc' = "read" /\ current = {c} /\ current' = {c} /\ open' = open
      /\ UNCHANGED <<socket, attached, queue, records, frame, written, wire, dPc, rPc, unlifted,
                     flushed, answered, pings, session>>
      /\ Send(c, "attach")
  BY DEF Attach, listener, writer, reader, history, drainer
<1>2. /\ Unsent(c) /\ On(c, {"attach"}) = 0 /\ Ledger(c) = 0 /\ attached[c] = "no"
      /\ rPc[c] = "none" /\ socket[c] # "none" /\ dPc[c] = "recv"
  BY <1>1 DEF Unsent, ConnInv, StartInv
<1>3. /\ On(c, {"attach"})' = 1 /\ Pending(c)' = Pending(c) + 1
      /\ On(c, {"authenticated"})' = On(c, {"authenticated"})
      /\ On(c, {"refusal"})' = On(c, {"refusal"}) /\ On(c, {"detach"})' = On(c, {"detach"})
  <2>1. "attach" \in Messages
    BY DEF Messages
  <2> QED BY <1>1, <1>2, <2>1, MailSent DEF One, Frame
<1>4. ~Unsent(c)'
  BY <1>1, <1>2 DEF Unsent
<1>5. Ledger(c)' = 1
  <2>1. Held(c)' = Held(c)
    BY <1>1 DEF Held
  <2> QED BY SMTT(30), <1>1, <1>2, <1>3, <2>1, Sums
<1>6. StartInv(c)'
  <2>1. c \in open' => socket'[c] # "none"
    BY <1>1 DEF ConnInv, StartInv
  <2>2. On(c, {"detach"})' > 0 => dPc'[c] = "done"
    BY <1>1, <1>3 DEF ConnInv, StartInv
  <2> QED BY <1>1, <1>2, <1>3, <1>4, <2>1, <2>2 DEF StartInv
<1>7. CountInv(c)'
  <2>1. Ledger(c)' <= answered'[c]
    BY <1>1, <1>5, LedgerType
  <2>2. Opened(c)' <=> Opened(c)
    BY <1>1 DEF Opened
  <2> QED BY <1>1, <1>2, <1>3, <2>1, <2>2 DEF ConnInv, CountInv
<1>8. RefusalInv(c)'
  BY <1>1, <1>2 DEF ConnInv, RefusalInv
<1>9. ASSUME Room PROVE FirstInv(c)'
  <2>1. FirstInv(c) /\ queue[c] = <<>>
    BY <1>2, <1>9 DEF ConnInv, FirstInv
  <2>2. Begun(c)' = 1
    BY <1>4 DEF Begun
  <2>3. Ledger(c)' <= Begun(c)' + pings'[c] + Auths(c)' + records'[c]
    <3>1. pings'[c] \in Nat /\ Auths(c)' \in 0..1 /\ records'[c] \in Nat
      BY Sums
    <3> QED BY <1>5, <2>2, <3>1
  <2> QED BY <1>1, <1>2, <2>1, <2>3 DEF FirstInv, Foremost
<1> QED BY <1>6, <1>7, <1>8, <1>9 DEF ConnInv, Room

LEMMA StartReaderConn ==
  ASSUME TypeInv, TypeInv', NEW c \in Conns, ConnInv(c), StartReader(c)
  PROVE  ConnInv(c)'
<1> USE DEF AtWork
<1>1. /\ lPc = "read" /\ lPc' = "open" /\ current = {c} /\ current' = {c} /\ open' = open
      /\ UNCHANGED <<socket, channel, attached, queue, records, frame, written, wire, dPc, unlifted,
                     flushed, answered, pings, session>>
      /\ rPc'[c] = "read"
  BY DEF StartReader, At, listener, writer, reader, history, drainer, TypeInv
<1>2. rPc[c] = "none" /\ socket[c] # "none" /\ dPc[c] = "recv" /\ ~Unsent(c) /\ ~Unsent(c)'
  BY <1>1 DEF Unsent, ConnInv, StartInv
<1>3. SameMail(c)
  BY <1>1, MailKept
<1>4. Ledger(c)' = Ledger(c)
  BY <1>1, <1>3 DEF Ledger, Held, SameMail
<1>5. (Opened(c)' <=> Opened(c)) /\ (Authed(c)' <=> Authed(c)) /\ c \notin unlifted
  BY <1>1, <1>2 DEF Opened, Authed, ConnInv, CountInv
<1>6. StartInv(c)'
  BY <1>1, <1>2, <1>3 DEF StartInv, ConnInv, SameMail
<1>7. CountInv(c)'
  BY <1>1, <1>3, <1>4, <1>5 DEF CountInv, ConnInv, SameMail
<1>8. RefusalInv(c)'
  BY <1>1 DEF ConnInv, RefusalInv
<1>9. ASSUME Room PROVE FirstInv(c)'
  <2>1. FirstInv(c)
    BY <1>9 DEF ConnInv
  <2>2. Begun(c)' = Begun(c) /\ Auths(c)' = Auths(c)
    BY <1>2, <1>5 DEF Begun, Auths
  <2> QED BY <1>1, <1>3, <1>4, <2>1, <2>2 DEF FirstInv, Foremost, SameMail
<1> QED BY <1>6, <1>7, <1>8, <1>9 DEF ConnInv, Room

(* Every answer a reader sends makes room for itself in its own count. *)
LEMMA ReadSendsConn ==
  ASSUME TypeInv, TypeInv', NEW c \in Conns, ConnInv(c), ReadPing(c) \/ ReadAuth(c) \/ ReadBadAuth(c)
  PROVE  ConnInv(c)'
<1> USE DEF listener, writer, history, drainer, At, OtherThan, Reads
<1>1. PICK m \in {"answer", "result", "refusal"} :
        /\ Send(c, m) /\ UNCHANGED listener
        /\ UNCHANGED <<socket, attached, queue, records, frame, written, wire, dPc, unlifted, flushed,
                       session>>
        /\ rPc[c] = "read"
        /\ \/ m = "answer" /\ rPc'[c] = "read" /\ pings'[c] = pings[c] + 1
              /\ answered'[c] = answered[c] + (IF session[c] THEN 0 ELSE 1)
           \/ m = "result" /\ rPc'[c] = "announce" /\ ~session[c] /\ pings'[c] = pings[c]
              /\ answered'[c] = answered[c]
           \/ m = "refusal" /\ rPc'[c] = "flush" /\ ~session[c] /\ pings'[c] = pings[c]
              /\ answered'[c] = answered[c] + 1
  <2>1. CASE ReadPing(c)
    BY <2>1 DEF ReadPing, TypeInv
  <2>2. CASE ReadAuth(c)
    BY <2>2 DEF ReadAuth, TypeInv
  <2>3. CASE ReadBadAuth(c)
    BY <2>3 DEF ReadBadAuth, TypeInv
  <2> QED BY <2>1, <2>2, <2>3
<1>2. ~Unsent(c) /\ socket[c] # "none" /\ ~Unsent(c)' /\ c \notin unlifted
  <2>1. ~Unsent(c) /\ socket[c] # "none"
    BY <1>1, Underway DEF ConnInv
  <2>2. c \notin unlifted
    BY <1>1 DEF ConnInv, CountInv
  <2> QED BY <1>1, <2>1, <2>2 DEF Unsent
<1>3. /\ On(c, {"attach"})' = On(c, {"attach"}) /\ Pending(c)' = Pending(c) + 1
      /\ On(c, {"authenticated"})' = On(c, {"authenticated"})
      /\ On(c, {"detach"})' = On(c, {"detach"})
      /\ m = "refusal" => On(c, {"refusal"})' > 0
  <2>1. m \in Messages
    BY DEF Messages
  <2> QED BY <1>1, <2>1, MailSent DEF One, Frame
<1>4. Ledger(c)' = Ledger(c) + 1
  <2>1. Held(c)' = Held(c) /\ written'[c] = written[c] /\ Len(queue'[c]) = Len(queue[c])
    BY <1>1 DEF Held
  <2>2. Pending(c)' = Pending(c) + 1
    BY <1>3
  <2>3. /\ Ledger(c) = written[c] + Held(c) + Len(queue[c]) + Pending(c)
        /\ Ledger(c)' = written'[c] + Held(c)' + Len(queue'[c]) + Pending(c)'
        /\ written[c] \in Nat /\ Held(c) \in 0..1 /\ Len(queue[c]) \in Nat /\ Pending(c) \in Nat
    BY Sums
  <2>4. PICK w \in Nat, h \in Nat, q \in Nat, p \in Nat :
          /\ w = written[c] /\ h = Held(c) /\ q = Len(queue[c]) /\ p = Pending(c)
          /\ w = written'[c] /\ h = Held(c)' /\ q = Len(queue'[c]) /\ p + 1 = Pending(c)'
    BY <2>1, <2>2, <2>3
  <2>5. Ledger(c) = w + h + q + p /\ Ledger(c)' = w + h + q + (p + 1)
    BY <2>3, <2>4
  <2> QED BY <2>5
<1>5. StartInv(c)'
  BY <1>1, <1>2, <1>3 DEF StartInv, ConnInv
<1>6. CountInv(c)'
  <2>1. Opened(c)' <=> session[c] \/ m = "result"
    BY <1>1, <1>2 DEF Opened
  <2>2. Opened(c) <=> session[c]
    BY <1>1, <1>2 DEF Opened
  <2>3. ~Opened(c)' => Ledger(c)' <= answered'[c]
    BY <1>1, <1>4, <2>1, <2>2, LedgerType DEF ConnInv, CountInv
  <2> QED BY <1>1, <1>2, <1>3, <2>1, <2>2, <2>3 DEF ConnInv, CountInv
<1>7. RefusalInv(c)'
  BY <1>1, <1>3 DEF ConnInv, RefusalInv, Refused
<1>8. ASSUME Room PROVE FirstInv(c)'
  <2>1. FirstInv(c)
    BY <1>8 DEF ConnInv
  <2>2. Begun(c) = 1 /\ Begun(c)' = 1
    BY <1>2 DEF Begun
  <2>3. Ledger(c)' <= Begun(c)' + pings'[c] + Auths(c)' + records'[c]
    <3>1. Ledger(c) <= 1 + pings[c] + Auths(c) + records[c]
      BY <2>1, <2>2 DEF FirstInv
    <3>2. pings'[c] + Auths(c)' = pings[c] + Auths(c) + 1
      <4>1. session'[c] = session[c] /\ session[c] \in BOOLEAN
        BY <1>1 DEF TypeInv
      <4>2. pings[c] \in Nat
        BY Sums
      <4>3. CASE m = "answer"
        <5>1. Auths(c)' = Auths(c)
          BY <1>1, <4>1, <4>3 DEF Auths, Authed
        <5> QED BY <1>1, <4>2, <4>3, <5>1, Sums
      <4>4. CASE m # "answer"
        <5>1. Auths(c)' = 1 /\ Auths(c) = 0
          BY <1>1, <4>1, <4>4 DEF Auths, Authed
        <5> QED BY <1>1, <4>2, <4>4, <5>1
      <4> QED BY <4>3, <4>4
    <3>3. records'[c] = records[c]
      BY <1>1
    <3>4. /\ Ledger(c) \in Nat /\ pings[c] \in Nat /\ pings'[c] \in Nat /\ records[c] \in Nat
          /\ Auths(c) \in 0..1 /\ Auths(c)' \in 0..1
      BY Sums
    <3> QED BY <1>4, <2>2, <3>1, <3>2, <3>3, <3>4
  <2> QED BY <1>1, <1>3, <2>1, <2>3 DEF FirstInv, Foremost
<1> QED BY <1>5, <1>6, <1>7, <1>8 DEF ConnInv, Room

(* The steps that open a session, once its answer is sent. *)
LEMMA ReadOpensConn ==
  ASSUME TypeInv, TypeInv', NEW c \in Conns, ConnInv(c), Announce(c) \/ Lift(c) \/ LiftFails(c)
  PROVE  ConnInv(c)'
<1> USE DEF listener, writer, history, drainer, At, OtherThan
<1>1. /\ UNCHANGED listener
      /\ UNCHANGED <<socket, attached, queue, records, frame, written, wire, dPc, flushed, answered,
                     pings>>
      /\ rPc[c] \in {"announce", "lift"} /\ rPc'[c] \in {"lift", "read", "shut"}
      /\ c \in unlifted' => c \in unlifted \/ rPc'[c] = "shut"
      /\ UNCHANGED channel \/ Send(c, "authenticated")
  BY DEF Announce, Lift, LiftFails, TypeInv
<1>2. Opened(c) /\ Authed(c) /\ Opened(c)' /\ Authed(c)' /\ c \notin unlifted
  <2>1. Opened(c) /\ Authed(c)
    BY <1>1 DEF Opened, Authed
  <2>2. Opened(c)' /\ Authed(c)'
    BY DEF Announce, Lift, LiftFails, TypeInv, Opened, Authed
  <2> QED BY <1>1, <2>1, <2>2 DEF ConnInv, CountInv
<1>3. ~Unsent(c) /\ socket[c] # "none" /\ ~Unsent(c)'
  <2>1. ~Unsent(c) /\ socket[c] # "none"
    BY <1>1, Underway DEF ConnInv
  <2> QED BY <1>1, <2>1 DEF Unsent
<1>4. /\ On(c, {"attach"})' = On(c, {"attach"}) /\ Pending(c)' = Pending(c)
      /\ On(c, {"detach"})' = On(c, {"detach"})
  <2>1. "authenticated" \in Messages
    BY DEF Messages
  <2>2. CASE UNCHANGED channel
    BY <2>2 DEF On, Pending
  <2>3. CASE Send(c, "authenticated")
    BY <2>1, <2>3, MailSent DEF One, Frame
  <2> QED BY <1>1, <2>2, <2>3
<1>5. Ledger(c)' = Ledger(c)
  BY <1>1, <1>4 DEF Ledger, Held
<1>6. StartInv(c)'
  BY <1>1, <1>3, <1>4 DEF StartInv, ConnInv
<1>7. CountInv(c)' /\ RefusalInv(c)'
  BY <1>1, <1>2 DEF CountInv, RefusalInv, ConnInv
<1>8. ASSUME Room PROVE FirstInv(c)'
  <2>1. FirstInv(c)
    BY <1>8 DEF ConnInv
  <2>2. Begun(c)' = Begun(c) /\ Auths(c)' = Auths(c)
    BY <1>2, <1>3 DEF Begun, Auths
  <2> QED BY <1>1, <1>4, <1>5, <2>1, <2>2 DEF FirstInv, Foremost
<1> QED BY <1>6, <1>7, <1>8 DEF ConnInv, Room

(* A control message taken leaves no more under way than there was. *)
LEMMA TakenConn ==
  ASSUME TypeInv, TypeInv', NEW c \in Conns, ConnInv(c), NEW m \in Messages, Taken(c, m),
         Ledger(c)' <= Ledger(c),
         attached'[c] = "caps" => attached[c] = "caps" \/ m = "authenticated",
         ~Unsent(c),
         rPc[c] = "flush" => Refused(c)',
         Room => /\ attached'[c] = "no" => queue'[c] = <<>>
                 /\ On(c, {"attach"})' > 0 => attached'[c] = "no" \/ dPc[c] = "done"
                 /\ Foremost(c)'
  PROVE  ConnInv(c)'
<1>1. /\ UNCHANGED listener
      /\ UNCHANGED <<socket, records, rPc, answered, session, pings, unlifted, flushed, frame, written,
                     wire, dPc>>
  BY DEF Taken, reader, history, drainer
<1>2. /\ On(c, {"attach"})' <= On(c, {"attach"}) /\ On(c, {"attach"})' \in Nat
      /\ On(c, {"detach"})' <= On(c, {"detach"}) /\ On(c, {"detach"})' \in Nat
      /\ On(c, {"authenticated"})' <= On(c, {"authenticated"}) /\ On(c, {"authenticated"})' \in Nat
      /\ m = "authenticated" => On(c, {"authenticated"}) # 0
  BY MailTaken DEF One
<1>3. /\ On(c, {"attach"}) \in Nat /\ On(c, {"detach"}) \in Nat /\ On(c, {"authenticated"}) \in Nat
  BY OnType
<1>4. ~Unsent(c)' /\ (Opened(c)' <=> Opened(c)) /\ (Authed(c)' <=> Authed(c))
  BY <1>1 DEF Unsent, Opened, Authed, listener
<1>5. StartInv(c)'
  <2>1. On(c, {"attach"})' <= 1
    BY <1>2, <1>3 DEF ConnInv, StartInv
  <2>2. On(c, {"detach"})' > 0 => dPc'[c] = "done"
    BY <1>1, <1>2, <1>3 DEF ConnInv, StartInv
  <2> QED BY <1>1, <1>4, <2>1, <2>2 DEF StartInv, ConnInv, listener
<1>6. CountInv(c)'
  <2>1. ~Opened(c)' => Ledger(c)' <= answered'[c]
    <3>1. Ledger(c) \in Nat /\ Ledger(c)' \in Nat /\ answered[c] \in Nat
      BY Sums
    <3> QED BY <1>1, <1>4, <3>1 DEF ConnInv, CountInv
  <2>2. ~Opened(c)' => attached'[c] # "caps" /\ On(c, {"authenticated"})' = 0
    BY <1>2, <1>3, <1>4 DEF ConnInv, CountInv
  <2> QED BY <1>1, <1>4, <2>1, <2>2 DEF CountInv, ConnInv
<1>7. RefusalInv(c)'
  BY <1>1 DEF RefusalInv, ConnInv
<1>8. ASSUME Room PROVE FirstInv(c)'
  <2>1. FirstInv(c)
    BY <1>8 DEF ConnInv
  <2>2. Begun(c)' = Begun(c) /\ Auths(c)' = Auths(c)
    BY <1>4 DEF Begun, Auths
  <2>3. Ledger(c)' <= Begun(c)' + pings'[c] + Auths(c)' + records'[c]
    <3>1. Ledger(c) <= Begun(c) + pings[c] + Auths(c) + records[c]
      BY <2>1 DEF FirstInv
    <3>2. pings'[c] = pings[c] /\ records'[c] = records[c]
      BY <1>1
    <3>3. /\ Ledger(c) \in Nat /\ Ledger(c)' \in Nat /\ pings[c] \in Nat /\ records[c] \in Nat
          /\ Auths(c) \in 0..1 /\ Begun(c) \in 0..1
      BY Sums
    <3> QED BY <2>2, <3>1, <3>2, <3>3
  <2> QED BY <1>1, <1>8, <2>1, <2>3 DEF FirstInv
<1> QED BY <1>5, <1>6, <1>7, <1>8 DEF ConnInv, Room

(* A frame put in for a message: one less to come, one more at most queued, *)
(* and what was queued is there unless it was the oldest of a full queue.   *)
LEMMA EnqueueConn ==
  ASSUME TypeInv, TypeInv', NEW c \in Conns, ConnInv(c), NEW m \in Messages, Taken(c, m),
         NEW f \in Frames, Enqueue(c, f), Frame(m) = 1, f = "refusal" <=> m = "refusal"
  PROVE  /\ Ledger(c)' <= Ledger(c)
         /\ rPc[c] = "flush" => Refused(c)'
         /\ Room => Len(queue[c]) < Capacity
<1>1. UNCHANGED <<rPc, answered, frame, written, wire, unlifted, session>>
  BY DEF Taken, reader, history, drainer
<1>2. Pending(c) = Pending(c)' + 1
  BY MailTaken
<1>3. Held(c)' = Held(c)
  BY <1>1 DEF Held
<1>4. PICK w \in Nat, h \in Nat, q \in Nat, p \in Nat, k \in 0..1 :
        /\ w = written[c] /\ h = Held(c) /\ q = Len(queue[c]) /\ p + 1 = Pending(c)
        /\ w = written'[c] /\ h = Held(c)' /\ q + k = Len(queue'[c]) /\ p = Pending(c)'
        /\ k = 0 <=> q = Capacity
  <2>1. \/ Len(queue[c]) = Capacity /\ Len(queue'[c]) = Len(queue[c]) + 0
        \/ Len(queue[c]) < Capacity /\ Len(queue'[c]) = Len(queue[c]) + 1
    BY EnqueueFacts, Sums
  <2>2. \E k \in 0..1 : Len(queue'[c]) = Len(queue[c]) + k /\ (k = 0 <=> Len(queue[c]) = Capacity)
    BY <2>1, ConnectionAssumption
  <2>3. /\ written[c] \in Nat /\ Held(c) \in Nat /\ Len(queue[c]) \in Nat /\ Pending(c)' \in Nat
        /\ written'[c] = written[c]
    BY <1>1, Sums
  <2> QED BY <1>2, <1>3, <2>2, <2>3
<1>5. Ledger(c) = w + h + q + (p + 1) /\ Ledger(c)' = w + h + (q + k) + p
  BY <1>4, Sums
<1>6. ASSUME rPc[c] = "flush" PROVE Refused(c)'
  <2>1. Ledger(c) <= answered[c] /\ Refused(c)
    BY <1>6 DEF ConnInv, CountInv, RefusalInv
  <2>2. CASE q = Capacity
    <3>1. Ledger(c)' < answered[c]
      <4>1. answered[c] \in Nat
        BY Sums
      <4> QED BY <1>4, <1>5, <2>1, <2>2, <4>1
    <3> QED BY <1>1, <3>1 DEF Refused
  <2>3. CASE q # Capacity
    <3>1. /\ \A i \in DOMAIN queue[c] : i \in DOMAIN queue'[c] /\ queue'[c][i] = queue[c][i]
          /\ \E i \in DOMAIN queue'[c] : queue'[c][i] = f
      BY <1>4, <2>3, EnqueueFacts
    <3>2. CASE m = "refusal"
      BY <3>1, <3>2 DEF Refused
    <3>3. CASE m # "refusal"
      <4>1. On(c, {"refusal"})' = On(c, {"refusal"})
        BY <3>3, MailTaken DEF One
      <4>2. Ledger(c)' = Ledger(c)
        <5>1. k = 1
          BY <1>4, <2>3
        <5>2. w + h + (q + 1) + p = w + h + q + (p + 1)
          OBVIOUS
        <5> QED BY <1>5, <5>1, <5>2
      <4> QED BY <1>1, <2>1, <3>1, <4>1, <4>2 DEF Refused
    <3> QED BY <3>2, <3>3
  <2> QED BY <2>2, <2>3
<1>7. ASSUME Room PROVE q < Capacity
  <2>1. Ledger(c) <= Begun(c) + pings[c] + Auths(c) + records[c]
    BY <1>7 DEF ConnInv, FirstInv
  <2>2. /\ pings[c] \in Nat /\ records[c] \in Nat /\ Auths(c) \in 0..1 /\ Begun(c) \in 0..1
    BY Sums
  <2>3. pings[c] <= MaxPings /\ records[c] <= MaxRecords
    BY DEF TypeInv
  <2>4. q + 1 <= 1 + MaxPings + 1 + MaxRecords
    <3>1. PICK b \in 0..1, i \in Nat, u \in 0..1, r \in Nat :
            b = Begun(c) /\ i = pings[c] /\ u = Auths(c) /\ r = records[c]
      BY <2>2
    <3>2. w + h + q + (p + 1) <= b + i + u + r /\ i <= MaxPings /\ r <= MaxRecords
      BY <1>5, <2>1, <2>3, <3>1
    <3> QED BY <3>2, ConnectionAssumption
  <2> QED BY <1>4, <1>7, <2>4, ConnectionAssumption DEF Room
<1> QED BY <1>4, <1>5, <1>6, <1>7

LEMMA TakenAttachConn ==
  ASSUME TypeInv, TypeInv', NEW c \in Conns, ConnInv(c), Taken(c, "attach")
  PROVE  ConnInv(c)'
<1>1. /\ "attach" \in Messages /\ "handshake" \in Frames /\ Enqueue(c, "handshake")
      /\ Frame("attach") = 1 /\ attached'[c] = "yes"
      /\ UNCHANGED <<frame, written, dPc>>
  BY DEF Taken, Messages, Frames, Frame, TypeInv, drainer
<1>2. /\ Ledger(c)' <= Ledger(c)
      /\ rPc[c] = "flush" => Refused(c)'
  BY <1>1, EnqueueConn
<1>3. On(c, {"attach"}) = On(c, {"attach"})' + 1 /\ On(c, {"attach"})' \in Nat
  BY <1>1, MailTaken DEF One
<1>4. ~Unsent(c) /\ ~(On(c, {"attach"})' > 0)
  BY <1>3 DEF ConnInv, StartInv
<1>5. ASSUME Room PROVE Foremost(c)'
  <2>1. On(c, {"attach"}) > 0
    BY <1>3
  <2>2. (attached[c] = "no" /\ queue[c] = <<>>) \/ dPc[c] = "done"
    BY <1>5, <2>1 DEF ConnInv, FirstInv
  <2>3. queue[c] = <<>> => queue'[c] # <<>> /\ Head(queue'[c]) = "handshake"
    <3>1. queue[c] = <<>> => Len(queue[c]) # Capacity
      BY ConnectionAssumption
    <3> QED BY <1>1, <3>1, EnqueueFacts
  <2>4. Foremost(c)
    BY <1>5 DEF ConnInv, FirstInv
  <2> QED BY <1>1, <2>2, <2>3, <2>4 DEF Foremost
<1> QED BY <1>1, <1>2, <1>4, <1>5, TakenConn

LEMMA TakenDetachConn ==
  ASSUME TypeInv, TypeInv', NEW c \in Conns, ConnInv(c), Taken(c, "detach")
  PROVE  ConnInv(c)'
<1>1. /\ "detach" \in Messages /\ attached'[c] = "gone" /\ queue'[c] = <<>>
      /\ UNCHANGED <<frame, written, dPc, answered, wire, rPc>>
  BY DEF Taken, Messages, TypeInv, drainer, reader
<1>2. /\ Pending(c)' = Pending(c) /\ On(c, {"refusal"})' = On(c, {"refusal"})
      /\ On(c, {"detach"}) = On(c, {"detach"})' + 1 /\ On(c, {"detach"})' \in Nat
  BY <1>1, MailTaken DEF One, Frame
<1>3. dPc[c] = "done"
  BY <1>2 DEF ConnInv, StartInv
<1>4. ~Unsent(c)
  BY <1>3, Underway DEF ConnInv
<1>5. PICK w \in Nat, h \in Nat, q \in Nat, p \in Nat :
        /\ w = written[c] /\ h = Held(c) /\ q = Len(queue[c]) /\ p = Pending(c)
        /\ w = written'[c] /\ h = Held(c)' /\ 0 = Len(queue'[c]) /\ p = Pending(c)'
  <2>1. Held(c)' = Held(c) /\ Len(<<>>) = 0
    BY <1>1 DEF Held
  <2>2. written[c] \in Nat /\ Held(c) \in 0..1 /\ Len(queue[c]) \in Nat /\ Pending(c) \in Nat
    BY Sums
  <2>3. Held(c) \in Nat
    BY <2>2
  <2>4. /\ written'[c] = written[c] /\ Held(c)' = Held(c) /\ Len(queue'[c]) = 0
        /\ Pending(c)' = Pending(c)
    BY <1>1, <1>2, <2>1
  <2> QED BY <2>2, <2>3, <2>4
<1>6. Ledger(c) = w + h + q + p /\ Ledger(c)' = w + h + 0 + p
  BY <1>5, Sums
<1>7. ASSUME rPc[c] = "flush" PROVE Refused(c)'
  <2>1. Ledger(c) <= answered[c] /\ Refused(c) /\ answered[c] \in Nat
    BY <1>7, Sums DEF ConnInv, CountInv, RefusalInv
  <2>2. CASE \E i \in DOMAIN queue[c] : queue[c][i] = "refusal"
    <3>1. q # 0
      <4>1. queue[c] \in Seq(Frames)
        BY DEF TypeInv
      <4> QED BY <1>5, <2>2, <4>1
    <3>2. Ledger(c)' < answered'[c]
      BY <1>1, <1>5, <1>6, <2>1, <3>1
    <3> QED BY <3>2 DEF Refused
  <2>3. CASE ~(\E i \in DOMAIN queue[c] : queue[c][i] = "refusal")
    <3>1. Ledger(c) < answered[c] => Ledger(c)' < answered'[c]
      <4>1. PICK a \in Nat : a = answered[c] /\ a = answered'[c]
        BY <1>1, <2>1
      <4>2. w + h + q + p < a => w + h + 0 + p < a
        OBVIOUS
      <4> QED BY <1>6, <4>1, <4>2
    <3> QED BY <1>1, <1>2, <2>1, <2>3, <3>1 DEF Refused
  <2> QED BY <2>2, <2>3
<1>8. Ledger(c)' <= Ledger(c)
  BY <1>5, <1>6
<1>9. Foremost(c)'
  BY <1>1, <1>3 DEF Foremost
<1> QED BY <1>1, <1>3, <1>4, <1>7, <1>8, <1>9, TakenConn

(* A message for a connection the writer does not hold is a frame fewer.   *)
LEMMA TakenLostConn ==
  ASSUME TypeInv, TypeInv', NEW c \in Conns, ConnInv(c), NEW m \in Messages, Taken(c, m),
         m \notin {"attach", "detach"}, UNCHANGED <<attached, queue>>
  PROVE  ConnInv(c)'
<1>1. UNCHANGED <<frame, written, dPc, answered, wire, rPc, attached, queue>>
  BY DEF Taken, drainer, reader
<1>2. /\ Pending(c) = Pending(c)' + Frame(m) /\ Pending(c)' \in Nat /\ Frame(m) \in 0..1
      /\ On(c, {"refusal"}) = On(c, {"refusal"})' + One(m, "refusal")
      /\ On(c, {"refusal"})' \in Nat /\ One(m, "refusal") \in 0..1
      /\ One(m, "refusal") = 1 => Frame(m) = 1
      /\ On(c, {"attach"}) = On(c, {"attach"})'
      /\ m = "authenticated" => On(c, {"authenticated"}) # 0
  BY MailTaken DEF One, Frame
<1>3. PICK b \in Nat, p \in Nat, k \in 0..1 :
        /\ Ledger(c) = b + p + k /\ Ledger(c)' = b + p /\ k = Frame(m)
  <2>1. PICK w \in Nat, h \in 0..1, q \in Nat, p \in Nat, k \in 0..1 :
          /\ w = written[c] /\ h = Held(c) /\ q = Len(queue[c]) /\ p = Pending(c)' /\ k = Frame(m)
          /\ w = written'[c] /\ h = Held(c)' /\ q = Len(queue'[c]) /\ p + k = Pending(c)
    <3>1. Held(c)' = Held(c) /\ written'[c] = written[c] /\ Len(queue'[c]) = Len(queue[c])
      BY <1>1 DEF Held
    <3>2. written[c] \in Nat /\ Held(c) \in 0..1 /\ Len(queue[c]) \in Nat
      BY Sums
    <3> QED BY <1>2, <3>1, <3>2
  <2>2. Ledger(c) = w + h + q + (p + k) /\ Ledger(c)' = w + h + q + p
    BY <2>1, Sums
  <2>3. PICK b \in Nat : b = w + h + q
    BY <2>1
  <2>4. w + h + q + (p + k) = b + p + k /\ w + h + q + p = b + p
    BY <2>3
  <2> QED BY <2>1, <2>2, <2>4
<1>4. Ledger(c)' <= Ledger(c)
  BY <1>3
<1>5. ~Unsent(c)
  <2>1. CASE m = "authenticated"
    <3>1. Opened(c)
      BY <1>2, <2>1 DEF ConnInv, CountInv
    <3>2. rPc[c] # "none" \/ session[c]
      BY <3>1 DEF Opened, ConnInv, CountInv
    <3> QED BY <3>2 DEF ConnInv, StartInv
  <2>2. CASE m # "authenticated"
    <3>1. Frame(m) = 1
      BY <2>2 DEF Frame, Messages
    <3>2. Ledger(c) # 0
      BY <1>3, <3>1
    <3> QED BY <3>2 DEF ConnInv, StartInv
  <2> QED BY <2>1, <2>2
<1>6. ASSUME rPc[c] = "flush" PROVE Refused(c)'
  <2>1. Ledger(c) <= answered[c] /\ Refused(c)
    BY <1>6 DEF ConnInv, CountInv, RefusalInv
  <2>2. PICK a \in Nat : a = answered[c] /\ a = answered'[c]
    BY <1>1, Sums
  <2>3. CASE m = "refusal"
    <3>1. Frame(m) = 1
      BY <2>3 DEF Frame
    <3>2. Ledger(c)' < a
      BY <1>3, <2>1, <2>2, <3>1
    <3> QED BY <2>2, <3>2 DEF Refused
  <2>4. CASE m # "refusal"
    <3>1. On(c, {"refusal"})' = On(c, {"refusal"})
      BY <1>2, <2>4 DEF One
    <3>2. Ledger(c) < a => Ledger(c)' < a
      BY <1>3, <2>2
    <3> QED BY <1>1, <2>1, <2>2, <3>1, <3>2 DEF Refused
  <2> QED BY <2>3, <2>4
<1>7. ASSUME Room
      PROVE  /\ attached'[c] = "no" => queue'[c] = <<>>
             /\ On(c, {"attach"})' > 0 => attached'[c] = "no" \/ dPc[c] = "done"
             /\ Foremost(c)'
  BY <1>1, <1>2, <1>7 DEF ConnInv, FirstInv, Foremost
<1> QED BY <1>1, <1>4, <1>5, <1>6, <1>7, TakenConn

LEMMA TakenAuthenticatedConn ==
  ASSUME TypeInv, TypeInv', NEW c \in Conns, ConnInv(c), Taken(c, "authenticated"),
         attached[c] \in {"yes", "caps"}, attached'[c] = "caps", UNCHANGED queue
  PROVE  ConnInv(c)'
<1>1. UNCHANGED <<frame, written, dPc, answered, wire, rPc, queue>> /\ "authenticated" \in Messages
  BY DEF Taken, drainer, reader, Messages
<1>2. /\ Pending(c)' = Pending(c) /\ On(c, {"refusal"})' = On(c, {"refusal"})
      /\ On(c, {"attach"})' = On(c, {"attach"})
  BY <1>1, MailTaken DEF One, Frame
<1>3. Ledger(c)' = Ledger(c)
  BY <1>1, <1>2 DEF Ledger, Held
<1>4. ~Unsent(c)
  BY Underway DEF ConnInv
<1>5. rPc[c] = "flush" => Refused(c)'
  BY <1>1, <1>2, <1>3 DEF ConnInv, RefusalInv, Refused
<1>6. ASSUME Room
      PROVE  /\ attached'[c] = "no" => queue'[c] = <<>>
             /\ On(c, {"attach"})' > 0 => attached'[c] = "no" \/ dPc[c] = "done"
             /\ Foremost(c)'
  BY <1>1, <1>2, <1>6 DEF ConnInv, FirstInv, Foremost
<1>7. Ledger(c)' <= Ledger(c)
  BY <1>3, Sums
<1> QED BY <1>1, <1>4, <1>5, <1>6, <1>7, TakenConn

LEMMA TakenAnswerConn ==
  ASSUME TypeInv, TypeInv', NEW c \in Conns, ConnInv(c), NEW m \in {"answer", "result", "refusal"},
         Taken(c, m), attached[c] \in {"yes", "caps"}, UNCHANGED attached, Enqueue(c, m)
  PROVE  ConnInv(c)'
<1>1. /\ m \in Messages /\ m \in Frames /\ Frame(m) = 1
      /\ UNCHANGED <<frame, written, dPc, answered, wire, rPc>>
  BY DEF Taken, drainer, reader, Messages, Frames, Frame
<1>2. /\ Ledger(c)' <= Ledger(c)
      /\ rPc[c] = "flush" => Refused(c)'
      /\ Room => Len(queue[c]) < Capacity
  BY <1>1, EnqueueConn
<1>3. On(c, {"attach"})' = On(c, {"attach"})
  BY <1>1, MailTaken DEF One
<1>4. ~Unsent(c)
  BY Underway DEF ConnInv
<1>5. ASSUME Room
      PROVE  /\ attached'[c] = "no" => queue'[c] = <<>>
             /\ On(c, {"attach"})' > 0 => attached'[c] = "no" \/ dPc[c] = "done"
             /\ Foremost(c)'
  <2>1. queue'[c] # <<>> /\ (queue[c] # <<>> => Head(queue'[c]) = Head(queue[c]))
    <3>1. Len(queue[c]) # Capacity
      BY <1>2, <1>5, Sums, ConnectionAssumption
    <3> QED BY <1>1, <3>1, EnqueueFacts
  <2> QED BY <1>1, <1>3, <1>5, <2>1 DEF ConnInv, FirstInv, Foremost
<1> QED BY <1>1, <1>2, <1>4, <1>5, TakenConn

LEMMA ControlConn ==
  ASSUME TypeInv, TypeInv', NEW c \in Conns, ConnInv(c), NEW m \in Messages, Taken(c, m)
  PROVE  ConnInv(c)'
<1>1. CASE m = "attach"
  BY <1>1, TakenAttachConn
<1>2. CASE m = "detach"
  BY <1>2, TakenDetachConn
<1>3. CASE m \notin {"attach", "detach"} /\ UNCHANGED <<attached, queue>>
  BY <1>3, TakenLostConn
<1>4. CASE /\ m = "authenticated" /\ attached' = [attached EXCEPT ![c] = "caps"]
           /\ attached[c] \in {"yes", "caps"} /\ UNCHANGED <<queue, toWake>>
  <2>1. attached'[c] = "caps"
    BY <1>4 DEF TypeInv
  <2> QED BY <1>4, <2>1, TakenAuthenticatedConn
<1>5. CASE /\ m \in {"answer", "result", "refusal"} /\ attached[c] \in {"yes", "caps"}
           /\ UNCHANGED attached /\ Enqueue(c, m)
  BY <1>5, TakenAnswerConn
<1> QED BY <1>1, <1>2, <1>3, <1>4, <1>5 DEF Taken

(* A record goes to a connection whose session is open, into a queue that  *)
(* has room for it where no frame was ever refused one.                    *)
LEMMA FanOutConn ==
  ASSUME TypeInv, TypeInv', NEW c \in Conns, ConnInv(c), FanOut(c)
  PROVE  ConnInv(c)'
<1>1. /\ UNCHANGED listener
      /\ UNCHANGED <<socket, rPc, answered, session, pings, unlifted, flushed, frame, written,
                     wire, dPc, attached, channel>>
      /\ attached[c] = "caps" /\ records'[c] = records[c] + 1 /\ records[c] < MaxRecords
      /\ Enqueue(c, "record") /\ "record" \in Frames
  BY DEF FanOut, At, TypeInv, reader, history, drainer, Frames
<1>2. /\ Opened(c) /\ Opened(c)' /\ rPc[c] # "flush" /\ (Authed(c)' <=> Authed(c))
  BY <1>1 DEF ConnInv, CountInv, Opened, Authed
<1>3. ~Unsent(c) /\ ~Unsent(c)'
  <2>1. ~Unsent(c)
    BY <1>1, Underway DEF ConnInv
  <2> QED BY <1>1, <2>1 DEF Unsent, listener
<1>4. SameMail(c)
  BY <1>1, MailKept
<1>5. StartInv(c)'
  BY <1>1, <1>3, <1>4 DEF ConnInv, StartInv, SameMail, listener
<1>6. CountInv(c)' /\ RefusalInv(c)'
  BY <1>1, <1>2 DEF ConnInv, CountInv, RefusalInv
<1>7. ASSUME Room PROVE FirstInv(c)'
  <2>1. FirstInv(c) /\ Begun(c)' = Begun(c) /\ Auths(c)' = Auths(c)
    BY <1>2, <1>3, <1>7 DEF ConnInv, Begun, Auths
  <2>2. PICK w \in Nat, h \in 0..1, q \in Nat, p \in Nat, b \in 0..1, i \in Nat, u \in 0..1, r \in Nat :
          /\ w = written[c] /\ h = Held(c) /\ q = Len(queue[c]) /\ p = Pending(c)
          /\ b = Begun(c) /\ i = pings[c] /\ u = Auths(c) /\ r = records[c]
    BY Sums
  <2>3. Ledger(c) = w + h + q + p /\ Ledger(c) <= b + i + u + r /\ i <= MaxPings /\ r < MaxRecords
    <3>1. Ledger(c) = w + h + q + p
      BY <2>2, Sums
    <3>2. Ledger(c) <= b + i + u + r
      BY <2>1, <2>2 DEF FirstInv
    <3>3. pings[c] \in 0..MaxPings
      BY DEF TypeInv
    <3> QED BY <1>1, <2>2, <3>1, <3>2, <3>3
  <2>4. q < Capacity
    BY <1>7, <2>3, ConnectionAssumption DEF Room
  <2>5. /\ Len(queue'[c]) = q + 1 /\ queue'[c] # <<>>
        /\ queue[c] # <<>> => Head(queue'[c]) = Head(queue[c])
    BY <1>1, <2>2, <2>4, EnqueueFacts, ConnectionAssumption
  <2>6. Ledger(c)' = w + h + (q + 1) + p
    <3>1. written'[c] = w /\ Held(c)' = h /\ Pending(c)' = p
      BY <1>1, <1>4, <2>2 DEF Held, SameMail
    <3> QED BY <2>5, <3>1, Sums
  <2>7. Ledger(c)' <= Begun(c)' + pings'[c] + Auths(c)' + records'[c]
    <3>1. Begun(c)' = b /\ pings'[c] = i /\ Auths(c)' = u /\ records'[c] = r + 1
      BY <1>1, <2>1, <2>2
    <3>2. w + h + (q + 1) + p <= b + i + u + (r + 1)
      BY <2>3
    <3> QED BY <2>6, <3>1, <3>2
  <2> QED BY <1>1, <1>4, <2>1, <2>5, <2>7 DEF FirstInv, Foremost, SameMail
<1> QED BY <1>5, <1>6, <1>7 DEF ConnInv, Room

LEMMA CloseFullConn ==
  ASSUME TypeInv, TypeInv', NEW c \in Conns, ConnInv(c), CloseFull(c)
  PROVE  ConnInv(c)'
<1>1. /\ UNCHANGED listener
      /\ UNCHANGED <<rPc, answered, session, pings, unlifted, flushed, frame, written,
                     wire, dPc, queue, records, channel>>
      /\ attached[c] = "caps" /\ attached'[c] = "gone" /\ socket'[c] = "down"
  BY DEF CloseFull, At, TypeInv, reader, history, drainer
<1>2. ~Unsent(c) /\ ~Unsent(c)'
  <2>1. ~Unsent(c)
    BY <1>1, Underway DEF ConnInv
  <2> QED BY <1>1, <2>1 DEF Unsent, listener
<1>3. SameMail(c)
  BY <1>1, MailKept
<1>4. Ledger(c)' = Ledger(c) /\ (Opened(c)' <=> Opened(c)) /\ (Authed(c)' <=> Authed(c))
  BY <1>1, <1>3 DEF Ledger, Held, Opened, Authed, SameMail
<1>5. StartInv(c)'
  BY <1>1, <1>2, <1>3 DEF ConnInv, StartInv, SameMail, listener
<1>6. CountInv(c)' /\ RefusalInv(c)'
  BY <1>1, <1>3, <1>4 DEF ConnInv, CountInv, RefusalInv, Refused, SameMail
<1>7. ASSUME Room PROVE FirstInv(c)'
  <2>1. FirstInv(c) /\ Begun(c)' = Begun(c) /\ Auths(c)' = Auths(c)
    BY <1>2, <1>4, <1>7 DEF ConnInv, Begun, Auths
  <2> QED BY <1>1, <1>3, <1>4, <2>1 DEF FirstInv, Foremost, SameMail
<1> QED BY <1>5, <1>6, <1>7 DEF ConnInv, Room

(* The drainer moves a frame on, and a write that fails loses one.         *)
LEMMA PopConn ==
  ASSUME TypeInv, TypeInv', NEW c \in Conns, ConnInv(c), Pop(c)
  PROVE  ConnInv(c)'
<1> USE DEF Goes, Others, At
<1>1. /\ UNCHANGED listener
      /\ UNCHANGED <<socket, channel, attached, rPc, answered, session, pings, unlifted, flushed,
                     records, written, wire>>
      /\ dPc[c] = "pop" /\ dPc'[c] = "write" /\ queue[c] # <<>> /\ queue[c] \in Seq(Frames)
      /\ frame'[c] = Head(queue[c]) /\ queue'[c] = Tail(queue[c])
      /\ frame[c] = "none"
  BY DEF Pop, TypeInv, reader, history
<1>2. /\ Len(queue'[c]) = Len(queue[c]) - 1 /\ Head(queue[c]) \in Frames
      /\ DOMAIN queue[c] = 1..Len(queue[c]) /\ Head(queue[c]) = queue[c][1]
      /\ DOMAIN queue'[c] = 1..(Len(queue[c]) - 1)
      /\ \A i \in DOMAIN queue'[c] : queue'[c][i] = queue[c][i + 1]
  BY <1>1, TailFacts
<1>3. SameMail(c)
  BY <1>1, MailKept
<1>4. ~Unsent(c) /\ ~Unsent(c)'
  <2>1. ~Unsent(c)
    BY <1>1, Underway DEF ConnInv
  <2> QED BY <1>1, <2>1 DEF Unsent, listener
<1>5. Ledger(c)' = Ledger(c)
  <2>1. Held(c) = 0 /\ Held(c)' = 1
    BY <1>1, <1>2 DEF Held, Frames
  <2>2. PICK w \in Nat, q \in Nat, p \in Nat :
          /\ w = written[c] /\ q = Len(queue[c]) /\ p = Pending(c)
          /\ w = written'[c] /\ q - 1 = Len(queue'[c]) /\ p = Pending(c)'
    BY <1>1, <1>2, <1>3, Sums DEF SameMail
  <2>3. Ledger(c) = w + 0 + q + p /\ Ledger(c)' = w + 1 + (q - 1) + p
    BY <2>1, <2>2, Sums
  <2>4. w + 0 + q + p = w + 1 + (q - 1) + p
    OBVIOUS
  <2> QED BY <2>3, <2>4
<1>6. (Opened(c)' <=> Opened(c)) /\ (Authed(c)' <=> Authed(c))
  BY <1>1 DEF Opened, Authed
<1>7. StartInv(c)'
  BY <1>1, <1>3, <1>4 DEF ConnInv, StartInv, SameMail, listener
<1>8. CountInv(c)'
  BY <1>1, <1>3, <1>5, <1>6 DEF ConnInv, CountInv, SameMail
<1>9. RefusalInv(c)'
  <2>1. ASSUME NEW i \in DOMAIN queue[c], queue[c][i] = "refusal" PROVE Refused(c)'
    <3>1. CASE i = 1
      BY <1>1, <1>2, <2>1, <3>1 DEF Refused
    <3>2. CASE i # 1
      <4>1. i - 1 \in DOMAIN queue'[c] /\ queue'[c][i - 1] = "refusal"
        <5>1. i - 1 \in 1..(Len(queue[c]) - 1) /\ (i - 1) + 1 = i
          BY <1>1, <1>2, <3>2
        <5> QED BY <1>2, <2>1, <5>1
      <4> QED BY <4>1 DEF Refused
    <3> QED BY <3>1, <3>2
  <2>2. Refused(c) => Refused(c)'
    BY <1>1, <1>3, <1>5, <2>1 DEF Refused, SameMail
  <2> QED BY <1>1, <2>2 DEF ConnInv, RefusalInv
<1>10. ASSUME Room PROVE FirstInv(c)'
  <2>1. FirstInv(c) /\ Begun(c)' = Begun(c) /\ Auths(c)' = Auths(c)
    BY <1>4, <1>6, <1>10 DEF ConnInv, Begun, Auths
  <2>2. Ledger(c)' <= Begun(c)' + pings'[c] + Auths(c)' + records'[c]
    BY <1>1, <1>5, <2>1 DEF FirstInv
  <2>3. Foremost(c)'
    BY <1>1, <1>2, <2>1 DEF FirstInv, Foremost, Frames
  <2> QED BY <1>1, <1>3, <2>1, <2>2, <2>3 DEF FirstInv, SameMail
<1> QED BY <1>7, <1>8, <1>9, <1>10 DEF ConnInv, Room

LEMMA WrittenConn ==
  ASSUME TypeInv, TypeInv', NEW c \in Conns, ConnInv(c), Written(c)
  PROVE  ConnInv(c)'
<1> USE DEF Goes, Others, At
<1>1. /\ UNCHANGED listener
      /\ UNCHANGED <<socket, channel, attached, rPc, answered, session, pings, unlifted, flushed,
                     records, queue>>
      /\ dPc[c] = "write" /\ dPc'[c] = "look" /\ frame[c] # "none" /\ frame'[c] = "none"
      /\ written'[c] = written[c] + 1
      /\ wire'[c].first = (IF written[c] = 0 THEN frame[c] ELSE wire[c].first)
      /\ wire'[c].all = wire[c].all \cup {frame[c]}
  BY DEF Written, TypeInv, reader, history
<1>2. SameMail(c)
  BY <1>1, MailKept
<1>3. ~Unsent(c) /\ ~Unsent(c)'
  <2>1. ~Unsent(c)
    BY <1>1, Underway DEF ConnInv
  <2> QED BY <1>1, <2>1 DEF Unsent, listener
<1>4. Ledger(c)' = Ledger(c)
  <2>1. Held(c) = 1 /\ Held(c)' = 0
    BY <1>1 DEF Held
  <2>2. PICK w \in Nat, q \in Nat, p \in Nat :
          /\ w = written[c] /\ q = Len(queue[c]) /\ p = Pending(c)
          /\ w + 1 = written'[c] /\ q = Len(queue'[c]) /\ p = Pending(c)'
    BY <1>1, <1>2, Sums DEF SameMail
  <2>3. Ledger(c) = w + 1 + q + p /\ Ledger(c)' = (w + 1) + 0 + q + p
    BY <2>1, <2>2, Sums
  <2> QED BY <2>2, <2>3
<1>5. (Opened(c)' <=> Opened(c)) /\ (Authed(c)' <=> Authed(c))
  BY <1>1 DEF Opened, Authed
<1>6. StartInv(c)'
  BY <1>1, <1>2, <1>3 DEF ConnInv, StartInv, SameMail, listener
<1>7. CountInv(c)'
  BY <1>1, <1>2, <1>4, <1>5 DEF ConnInv, CountInv, SameMail
<1>8. RefusalInv(c)'
  BY <1>1, <1>2, <1>4 DEF ConnInv, RefusalInv, Refused, SameMail
<1>9. ASSUME Room PROVE FirstInv(c)'
  <2>1. FirstInv(c) /\ Begun(c)' = Begun(c) /\ Auths(c)' = Auths(c)
    BY <1>3, <1>5, <1>9 DEF ConnInv, Begun, Auths
  <2>2. Ledger(c)' <= Begun(c)' + pings'[c] + Auths(c)' + records'[c]
    BY <1>1, <1>4, <2>1 DEF FirstInv
  <2>3. written'[c] # 0 /\ written[c] \in Nat
    BY <1>1, Sums
  <2>4. wire'[c].first = "handshake"
    BY <1>1, <2>1 DEF FirstInv, Foremost
  <2> QED BY <1>1, <1>2, <2>1, <2>2, <2>3, <2>4 DEF FirstInv, Foremost, SameMail
<1> QED BY <1>6, <1>7, <1>8, <1>9 DEF ConnInv, Room

LEMMA WriteFailsConn ==
  ASSUME TypeInv, TypeInv', NEW c \in Conns, ConnInv(c), WriteFails(c)
  PROVE  ConnInv(c)'
<1> USE DEF Goes, Others, At
<1>1. /\ UNCHANGED listener
      /\ UNCHANGED <<socket, channel, attached, rPc, answered, session, pings, unlifted, flushed,
                     records, queue, written, wire>>
      /\ dPc[c] = "write" /\ dPc'[c] = "end" /\ frame[c] # "none" /\ frame'[c] = "none"
  BY DEF WriteFails, TypeInv, reader, history
<1>2. SameMail(c)
  BY <1>1, MailKept
<1>3. ~Unsent(c) /\ ~Unsent(c)'
  <2>1. ~Unsent(c)
    BY <1>1, Underway DEF ConnInv
  <2> QED BY <1>1, <2>1 DEF Unsent, listener
<1>4. Ledger(c) = Ledger(c)' + 1 /\ Ledger(c)' \in Nat
  <2>1. Held(c) = 1 /\ Held(c)' = 0
    BY <1>1 DEF Held
  <2>2. PICK w \in Nat, q \in Nat, p \in Nat :
          /\ w = written[c] /\ q = Len(queue[c]) /\ p = Pending(c)
          /\ w = written'[c] /\ q = Len(queue'[c]) /\ p = Pending(c)'
    BY <1>1, <1>2, Sums DEF SameMail
  <2>3. Ledger(c) = w + 1 + q + p /\ Ledger(c)' = w + 0 + q + p
    BY <2>1, <2>2, Sums
  <2> QED BY SMTT(30), <2>2, <2>3
<1>5. (Opened(c)' <=> Opened(c)) /\ (Authed(c)' <=> Authed(c))
  BY <1>1 DEF Opened, Authed
<1>6. StartInv(c)'
  BY <1>1, <1>2, <1>3 DEF ConnInv, StartInv, SameMail, listener
<1>7. PICK a \in Nat, l \in Nat : a = answered[c] /\ l = Ledger(c)' /\ l + 1 = Ledger(c)
  BY <1>4, Sums
<1>8. CountInv(c)'
  <2>1. l + 1 <= a => l <= a
    OBVIOUS
  <2> QED BY <1>1, <1>2, <1>5, <1>7, <2>1 DEF ConnInv, CountInv, SameMail
<1>9. RefusalInv(c)'
  <2>1. l + 1 <= a => l < a
    OBVIOUS
  <2>2. rPc[c] = "flush" => Ledger(c)' < answered'[c]
    BY <1>1, <1>7, <2>1 DEF ConnInv, CountInv
  <2> QED BY <1>1, <2>2 DEF ConnInv, RefusalInv, Refused
<1>10. ASSUME Room PROVE FirstInv(c)'
  <2>1. FirstInv(c) /\ Begun(c)' = Begun(c) /\ Auths(c)' = Auths(c)
    BY <1>3, <1>5, <1>10 DEF ConnInv, Begun, Auths
  <2>2. Ledger(c)' <= Begun(c)' + pings'[c] + Auths(c)' + records'[c]
    <3>1. PICK b \in 0..1, i \in Nat, u \in 0..1, r \in Nat :
            b = Begun(c) /\ i = pings[c] /\ u = Auths(c) /\ r = records[c]
      BY Sums
    <3>2. l + 1 <= b + i + u + r
      BY <1>7, <2>1, <3>1 DEF FirstInv
    <3>3. l <= b + i + u + r
      BY <3>2
    <3> QED BY <1>1, <1>7, <2>1, <3>1, <3>3
  <2> QED BY <1>1, <1>2, <2>1, <2>2 DEF FirstInv, Foremost, SameMail
<1> QED BY <1>6, <1>8, <1>9, <1>10 DEF ConnInv, Room

-----------------------------------------------------------------------------
(* The invariant holds, and what it is for follows. *)

LEMMA ConnStep ==
  ASSUME TypeInv, TypeInv', NEW c \in Conns, ConnInv(c), [Next]_vars
  PROVE  ConnInv(c)'
<1>1. CASE Listen
  <2>1. CASE Accept(c)
    BY <2>1, AcceptStill, Kept
  <2>2. CASE Attach(c)
    BY <2>2, AttachConn
  <2>3. CASE StartReader(c)
    BY <2>3, StartReaderConn
  <2>4. CASE ~Accept(c) /\ ~Attach(c) /\ ~StartReader(c)
    BY <1>1, <2>4, ListenStill, Kept
  <2> QED BY <2>1, <2>2, <2>3, <2>4
<1>2. CASE Drop
  BY <1>2, DropStill, Kept
<1>3. CASE Write
  <2>1. ASSUME NEW d \in Conns, NEW m \in Messages, Taken(d, m) PROVE ConnInv(c)'
    <3>1. CASE d = c
      BY <2>1, <3>1, ControlConn
    <3>2. CASE d # c
      BY <2>1, <3>2, WriteStill, Kept
    <3> QED BY <3>1, <3>2
  <2>2. CASE Control
    BY <2>1, <2>2, ControlFacts
  <2>3. ASSUME NEW d \in Conns, d # c, FanOut(d) \/ CloseFull(d) PROVE ConnInv(c)'
    BY <2>3, WriteStill, Kept
  <2>4. ASSUME NEW d \in Conns, WakeDrainer(d) PROVE ConnInv(c)'
    BY <2>4, WriteStill, Kept
  <2>5. CASE FanOut(c)
    BY <2>5, FanOutConn
  <2>6. CASE CloseFull(c)
    BY <2>6, CloseFullConn
  <2> QED BY <1>3, <2>2, <2>3, <2>4, <2>5, <2>6 DEF Write
<1>4. ASSUME NEW d \in Conns, Read(d) PROVE ConnInv(c)'
  <2>1. CASE d # c
    BY <1>4, <2>1, ReadElsewhere, Kept
  <2>2. CASE ReadPing(c) \/ ReadAuth(c) \/ ReadBadAuth(c)
    BY <2>2, ReadSendsConn
  <2>3. CASE Announce(c) \/ Lift(c) \/ LiftFails(c)
    BY <2>3, ReadOpensConn
  <2>4. CASE Flush(c)
    BY <2>4, FlushStill, Kept
  <2>5. CASE Ends(c) \/ FlushWait(c) \/ Shut(c) \/ Free(c) \/ RaiseClosing(c) \/ ReaderWake(c)
    BY <2>5, ReadQuietly, Kept
  <2> QED BY <1>4, <2>1, <2>2, <2>3, <2>4, <2>5
          DEF Read, ReaderRuns, ReadRefused, ReadClosed, ReadTimesOut
<1>5. ASSUME NEW d \in Conns, Drain(d) PROVE ConnInv(c)'
  <2>1. CASE d # c
    BY <1>5, <2>1, DrainElsewhere, Kept
  <2>2. CASE Pop(c)
    BY <2>2, PopConn
  <2>3. CASE Written(c)
    BY <2>3, WrittenConn
  <2>4. CASE WriteFails(c)
    BY <2>4, WriteFailsConn
  <2>5. CASE \/ Look(c) \/ PopEmpty(c) \/ Raise(c) \/ Check(c) \/ Wakes(c) \/ Lower(c)
             \/ EndShut(c) \/ Detach(c)
    BY <2>5, DrainQuietly, Kept
  <2> QED BY <1>5, <2>1, <2>2, <2>3, <2>4, <2>5 DEF Drain, DrainerRuns
<1>6. ASSUME NEW d \in Conns, PeerGoes(d) \/ Expire(d) PROVE ConnInv(c)'
  BY <1>6, ConsumerStill, Kept
<1>7. CASE UNCHANGED vars
  BY <1>7 DEF vars, listener, dropping, writer, reader, history, drainer, ConnInv, StartInv,
       CountInv, RefusalInv, Refused, FirstInv, Foremost, Room, Unsent, Ledger, Held, Pending, On,
       Opened, Authed, Begun, Auths
<1> QED BY <1>1, <1>2, <1>3, <1>4, <1>5, <1>6, <1>7 DEF Next

LEMMA ConnInit ==
  ASSUME Init, NEW c \in Conns
  PROVE  ConnInv(c)
<1>1. /\ channel = <<>> /\ queue[c] = <<>> /\ frame[c] = "none" /\ written[c] = 0
      /\ socket[c] = "none" /\ answered[c] = 1 /\ attached[c] = "no" /\ rPc[c] = "none"
      /\ session[c] = FALSE /\ pings[c] = 0 /\ records[c] = 0 /\ dPc[c] = "none"
      /\ wire[c].first = "none" /\ open = {} /\ current = {} /\ unlifted = {} /\ flushed = {}
  BY DEF Init, All
<1>2. \A M : On(c, M) = 0
  <2>1. ASSUME NEW M PROVE On(c, M) = 0
    <3>1. Places(channel, {c} \X M) = {}
      BY <1>1 DEF Places
    <3> QED BY <3>1, FS_EmptySet DEF On
  <2> QED BY <2>1
<1>3. Ledger(c) = 0
  <2>1. Len(<<>>) = 0
    OBVIOUS
  <2> QED BY <1>1, <1>2, <2>1 DEF Ledger, Held, Pending
<1>4. Unsent(c) /\ ~Opened(c) /\ Begun(c) = 0 /\ Auths(c) = 0
  BY <1>1 DEF Unsent, Opened, Begun, Auths, Authed
<1>5. StartInv(c) /\ CountInv(c) /\ RefusalInv(c)
  BY <1>1, <1>2, <1>3, <1>4 DEF StartInv, CountInv, RefusalInv
<1>6. FirstInv(c)
  BY <1>1, <1>2, <1>3, <1>4 DEF FirstInv, Foremost
<1> QED BY <1>5, <1>6 DEF ConnInv

(* Every connection's threads, its mail and its frames keep the invariant  *)
(* ConnectionInvariant.                                                    *)
THEOREM ConnectionIsSafe == Spec => []ConnectionInvariant
<1>1. Init => ConnectionInvariant
  BY TypeInit, ConnInit DEF ConnectionInvariant
<1>2. ConnectionInvariant /\ [Next]_vars => ConnectionInvariant'
  <2> SUFFICES ASSUME ConnectionInvariant, [Next]_vars PROVE ConnectionInvariant'
    OBVIOUS
  <2>1. TypeInv'
    BY TypeStep DEF ConnectionInvariant, ConnInv
  <2>2. ASSUME NEW c \in Conns PROVE ConnInv(c)'
    BY <2>1, <2>2, ConnStep DEF ConnectionInvariant
  <2> QED BY <2>1, <2>2 DEF ConnectionInvariant
<1> QED BY <1>1, <1>2, PTL DEF Spec

(* A reader that closes its connection over a failed authentication        *)
(* without waiting FLUSH_WAIT out has seen its refusal written, for a      *)
(* queue of any capacity: an answer that is evicted, or finds the          *)
(* connection gone, is one more the drainer never counts.                  *)
THEOREM ConnectionRefusalIsOut == Spec => []RefusalIsOut
<1>1. ConnectionInvariant => RefusalIsOut
  BY DEF ConnectionInvariant, ConnInv, RefusalInv, RefusalIsOut, TypeInv
<1> QED BY <1>1, ConnectionIsSafe, PTL

(* Where the queue holds all that can come for a connection before its     *)
(* drainer starts, the first frame a consumer reads is the handshake, and  *)
(* one that is refused and closed at once has read the refusal.  (A        *)
(* smaller queue may evict the handshake: the drainer waits for its queue  *)
(* while the reader already answers.)                                      *)
THEOREM ConnectionStreamHasBothEnds == Room => (Spec => []StreamHasBothEnds)
<1> SUFFICES ASSUME Room PROVE Spec => []StreamHasBothEnds
  OBVIOUS
<1>1. ConnectionInvariant => StreamHasBothEnds
  <2> SUFFICES ASSUME ConnectionInvariant PROVE StreamHasBothEnds
    OBVIOUS
  <2>1. TypeOK
    BY DEF ConnectionInvariant, TypeInv, TypeOK
  <2>2. HandshakeFirst
    BY DEF ConnectionInvariant, ConnInv, FirstInv, HandshakeFirst
  <2>3. RefusalIsOut
    BY DEF ConnectionInvariant, ConnInv, RefusalInv, RefusalIsOut, TypeInv
  <2> QED BY <2>1, <2>2, <2>3 DEF StreamHasBothEnds
<1> QED BY <1>1, ConnectionIsSafe, PTL
=============================================================================
