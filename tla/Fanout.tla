------------------------------- MODULE Fanout -------------------------------
(***************************************************************************)
(* What the writer thread of crates/broker/src/fanout.rs does with what it *)
(* takes: it numbers and pushes records into connections' queues, applies  *)
(* capability sets and topic filters, keeps the latest LIFECYCLE record of *)
(* every slot and replays the set to a connection that authenticates.      *)
(*                                                                         *)
(* Three kinds of thread meet here: the reader of each connection, which   *)
(* sends control messages in an order of its own; the logic thread, which  *)
(* commits; and the writer thread, which takes every control message it    *)
(* finds, then a batch of records, and again.  What happens inside a       *)
(* connection's queue is Outbox; here a queue is the stream of records     *)
(* pushed to it, by position, and how full its LIFECYCLE ring is.          *)
(***************************************************************************)
EXTENDS Integers, Sequences, SequencesExt, FiniteSets

CONSTANTS
  Connections,  (* The connections that may attach, each once.             *)
  Bits,         (* How many bits a Capabilities mask has: u64::BITS.       *)
  Setups        (* The broker's settings, and what its callers do under    *)
                (* them: one is chosen at the start.  Its fields follow.   *)

VARIABLES
  setup,       (* The setup chosen.                                        *)
  channel,     (* The control channel.                                     *)
  ring,        (* The commit ring, oldest first.                           *)
  committed,   (* How many records were committed, each its own number.    *)
  replies,     (* How many of them to one connection.                      *)
  lifecycle_evicted,  (* The count of the same name.                       *)
  reader,      (* [Connections -> where its reader thread is].             *)
  grant,       (* [Connections -> the capability set its token grants].    *)
  asked,       (* [Connections -> the filters it has asked for, in order]. *)
  pings,       (* [Connections -> how many Pings it has sent].             *)
  detached,    (* Connections whose drainer has sent Detach.               *)
  wPc,         (* The writer thread: at its inbox, in a batch or a replay. *)
  taken,       (* The records of that batch or replay that are behind it.  *)
  newcomer,    (* The connection it replays the retained set to.           *)
  held,        (* The connections the writer thread holds.                 *)
  caps, filter,(* [Connections -> what the writer thread holds of it].     *)
  retained,    (* The retained set, oldest emit first.                     *)
  stream,      (* [Connections -> the records numbered for it, in order].  *)
  boundaries,  (* [Connections -> records in its LIFECYCLE ring].          *)
  closed,      (* Connections closed over a full LIFECYCLE ring.           *)
  unaddressed, (* The count of the same name.                              *)
  evictions,   (* History: the records the commit ring evicted.            *)
  refusals     (* History: the records it turned away as they came.        *)

NoSlot == -1
NoOne  == "no one"
NoCaps == {}   (* Capabilities::NONE.                                      *)

Topics            == setup.topics     (* Topic names.                      *)
Kinds             == setup.kinds      (* What the logic thread commits.    *)
Grants            == setup.grants     (* The capability sets tokens grant. *)
Filters           == setup.filters    (* The topic sets consumers ask for. *)
RetainedSlots     == setup.retained   (* max_lifecycle_topics as frozen.   *)
CommitCapacity    == setup.commit     (* The commit ring.                  *)
LifecycleCapacity == setup.lifecycle  (* A connection's LIFECYCLE ring.    *)
RecordsPerPass    == setup.batch      (* Records between looks at control. *)

(* Bounds: the connections that attach, the records committed to all and   *)
(* to one, the Pings and the topic filters of a connection.                *)
MaxAttached == setup.maxAttached
MaxCommits  == setup.maxCommits
MaxReplies  == setup.maxReplies
MaxPings    == setup.maxPings
MaxFilters  == setup.maxFilters

All == Topics

(* Capabilities, as the set of its bits: a number past the last is neither *)
(* added nor covered, so a record that needs one goes to no one.           *)
With(mask, number)    == mask \cup (IF number < Bits THEN {number} ELSE {})
Covers(mask, number)  == number < Bits /\ number \in mask
Capabilities(numbers) == UNION {With(NoCaps, number) : number \in numbers}

ASSUME ConnectionsAssumption == Bits \in Nat /\ NoOne \notin Connections

(* A kind is [class, need, slot, topic].  "A slot comes with a LIFECYCLE   *)
(* class, since registration binds one to nothing else."                   *)
ASSUME SetupsAssumption ==
  \A s \in Setups :
    /\ s.kinds \subseteq [class : {"Lossy", "Durable", "Lifecycle"}, need : Nat,
                          slot : Nat \cup {NoSlot}, topic : s.topics]
    /\ \A kind \in s.kinds : kind.slot # NoSlot => kind.class = "Lifecycle"
    /\ s.grants \subseteq SUBSET Nat /\ {} \notin s.grants
    /\ {s.commit, s.lifecycle, s.batch} \subseteq Nat \ {0}
    /\ {s.retained, s.maxFilters} \subseteq Nat

logicVars  == <<ring, committed, replies, lifecycle_evicted, evictions, refusals>>
readerVars == <<reader, grant, asked, pings, detached>>
writerVars == <<wPc, taken, newcomer, held, caps, filter, retained, unaddressed>>
queueVars  == <<stream, boundaries, closed>>
vars       == <<setup, channel, logicVars, readerVars, writerVars, queueVars>>

Init ==
  /\ setup \in Setups
  /\ channel = <<>> /\ ring = <<>> /\ committed = 0 /\ replies = 0
  /\ lifecycle_evicted = 0 /\ evictions = {} /\ refusals = {}
  /\ reader = [c \in Connections |-> "none"]
  /\ grant = [c \in Connections |-> NoCaps]
  /\ asked = [c \in Connections |-> <<>>]
  /\ pings = [c \in Connections |-> 0] /\ detached = {}
  /\ wPc = "control" /\ taken = 0 /\ newcomer = NoOne
  /\ held = {} /\ caps = [c \in Connections |-> NoCaps]
  /\ filter = [c \in Connections |-> All]
  /\ retained = <<>> /\ unaddressed = 0
  /\ stream = [c \in Connections |-> <<>>]
  /\ boundaries = [c \in Connections |-> 0] /\ closed = {}

(* Control messages, and the broker's own records.                          *)
AttachMsg(c)     == [type |-> "Attach", id |-> c]
DetachMsg(c)     == [type |-> "Detach", id |-> c]
AnswerMsg(c, r)  == [type |-> "Answer", id |-> c, record |-> r]
AuthedMsg(c, g)  == [type |-> "Authenticated", id |-> c, caps |-> g]
FilterMsg(c, f)  == [type |-> "TopicFilter", id |-> c, topics |-> f]

Handshake        == [what |-> "Handshake"]
Pong             == [what |-> "Pong"]
AuthResult       == [what |-> "AuthResult"]
FilterResult(k)  == [what |-> "FilterResult", ask |-> k]

Send(message) == channel' = Append(channel, message)

-----------------------------------------------------------------------------
(* The accept thread and a connection's reader and drainer.                *)

Attach(c) ==
  /\ reader[c] = "none" /\ reader' = [reader EXCEPT ![c] = "open"]
  /\ Cardinality({d \in Connections : reader[d] # "none"}) < MaxAttached
  /\ Send(AttachMsg(c))
  /\ UNCHANGED <<grant, asked, pings, detached, logicVars, writerVars, queueVars>>

(* A Ping is answered whether or not there is a session; so, within one,   *)
(* is a question that changes nothing, a refused SetTopicFilter included.  *)
Ping(c) ==
  /\ reader[c] \in {"open", "session"} /\ pings[c] < MaxPings
  /\ pings' = [pings EXCEPT ![c] = @ + 1]
  /\ Send(AnswerMsg(c, Pong))
  /\ UNCHANGED <<reader, grant, asked, detached, logicVars, writerVars, queueVars>>

(* A good token: the answer first, then the report. *)
Authenticate(c) ==
  /\ reader[c] = "open" /\ reader' = [reader EXCEPT ![c] = "answered"]
  /\ Send(AnswerMsg(c, AuthResult))
  /\ UNCHANGED <<grant, asked, pings, detached, logicVars, writerVars, queueVars>>

Report(c, g) ==
  /\ reader[c] = "answered" /\ reader' = [reader EXCEPT ![c] = "session"]
  /\ grant' = [grant EXCEPT ![c] = g]
  /\ Send(AuthedMsg(c, Capabilities(g)))
  /\ UNCHANGED <<asked, pings, detached, logicVars, writerVars, queueVars>>

(* Mutant: the answer is sent before the filter. *)
FilterSends_AnswerFirst(c, f, k) == <<AnswerMsg(c, FilterResult(k)), FilterMsg(c, f)>>

(* A good SetTopicFilter, the k-th: the filter goes to the writer thread,  *)
(* then the answer to it.                                                  *)
FilterSends(c, f, k) == <<FilterMsg(c, f), AnswerMsg(c, FilterResult(k))>>

SetTopicFilter(c, f) ==
  /\ reader[c] = "session" /\ Len(asked[c]) < MaxFilters
  /\ reader' = [reader EXCEPT ![c] = "filtering"]
  /\ asked' = [asked EXCEPT ![c] = Append(@, f)]
  /\ Send(FilterSends(c, f, Len(asked'[c]))[1])
  /\ UNCHANGED <<grant, pings, detached, logicVars, writerVars, queueVars>>

AnswerFilter(c) ==
  /\ reader[c] = "filtering" /\ reader' = [reader EXCEPT ![c] = "session"]
  /\ Send(FilterSends(c, Last(asked[c]), Len(asked[c]))[2])
  /\ UNCHANGED <<grant, asked, pings, detached, logicVars, writerVars, queueVars>>

(* The drainer is done with its socket, whatever its reader is doing. *)
Detach(c) ==
  /\ reader[c] # "none" /\ c \notin detached
  /\ detached' = detached \cup {c}
  /\ Send(DetachMsg(c))
  /\ UNCHANGED <<reader, grant, asked, pings, logicVars, writerVars, queueVars>>

(* The drainer takes a record out of the LIFECYCLE ring. *)
Drain(c) ==
  /\ boundaries[c] > 0 /\ c \notin closed \cup detached
  /\ boundaries' = [boundaries EXCEPT ![c] = @ - 1]
  /\ UNCHANGED <<channel, logicVars, readerVars, writerVars, stream, closed>>

-----------------------------------------------------------------------------
(* The logic thread: Commit::push_addressed.  A full ring evicts its       *)
(* oldest record, or turns the new one away while that one is being read.  *)

Record(n, kind, to) == [what |-> "record", n |-> n, kind |-> kind, to |-> to]

PushAddressed(r) ==
  /\ committed' = r.n
  /\ \/ /\ Len(ring) < CommitCapacity
        /\ ring' = Append(ring, r)
        /\ UNCHANGED <<lifecycle_evicted, evictions, refusals>>
     \/ /\ Len(ring) = CommitCapacity
        /\ ring' = Append(Tail(ring), r)
        /\ evictions' = evictions \cup {Head(ring)}
        /\ lifecycle_evicted' =
             lifecycle_evicted + (IF Head(ring).kind.slot # NoSlot THEN 1 ELSE 0)
        /\ UNCHANGED refusals
     \/ /\ Len(ring) = CommitCapacity
        /\ refusals' = refusals \cup {r}
        /\ UNCHANGED <<ring, lifecycle_evicted, evictions>>
  /\ UNCHANGED <<channel, readerVars, writerVars, queueVars>>

Commit(kind) ==
  /\ committed - replies < MaxCommits
  /\ PushAddressed(Record(committed + 1, kind, NoOne))
  /\ UNCHANGED replies

(* A reply to a command, which only a reader with a session passes on. *)
ReplyKind == [class |-> "Durable", need |-> 0, slot |-> NoSlot, topic |-> NoOne]

CommitTo(c) ==
  /\ reader[c] \in {"session", "filtering"}
  /\ replies < MaxReplies /\ replies' = replies + 1
  /\ PushAddressed(Record(committed + 1, ReplyKind, c))

-----------------------------------------------------------------------------
(* The writer thread's pushes: Connection::push.                           *)

IsBoundary(r) == r.what = "record" /\ r.kind.class = "Lifecycle"
Room(c)       == LifecycleCapacity - boundaries[c]

(* One record to each of some connections; a boundary that the ring of one *)
(* has no room for closes it instead.                                      *)
Push(to, r) ==
  LET full == {c \in to : IsBoundary(r) /\ Room(c) = 0} IN
  /\ stream' = [c \in Connections |->
       IF c \in to \ full THEN Append(stream[c], r) ELSE stream[c]]
  /\ boundaries' = [c \in Connections |->
       boundaries[c] + (IF IsBoundary(r) /\ c \in to \ full THEN 1 ELSE 0)]
  /\ closed' = closed \cup full

(* deliver, addressed: into one queue, or counted. *)
DeliverTo(c, r) ==
  IF c \in held
    THEN Push({c}, r) /\ UNCHANGED unaddressed
    ELSE unaddressed' = unaddressed + 1 /\ UNCHANGED queueVars

Admits(topics, kind) == topics = All \/ kind.class = "Lifecycle" \/ kind.topic \in topics

(* Mutant: a connection with no session receives what needs nothing. *)
Receivers_NoSession(kind) ==
  {c \in held : Admits(filter[c], kind) /\ (caps[c] = NoCaps \/ Covers(caps[c], kind.need))}

Receivers(kind) ==
  {c \in held : Covers(caps[c], kind.need) /\ Admits(filter[c], kind)}

-----------------------------------------------------------------------------
(* The writer thread's loop: Writer::run. *)

Take(type) ==
  /\ wPc = "control" /\ channel # <<>> /\ Head(channel).type = type
  /\ channel' = Tail(channel)
  /\ UNCHANGED <<logicVars, readerVars>>

InBatch == <<wPc, taken, newcomer>>

TakeAttach ==
  /\ Take("Attach")
  /\ LET c == Head(channel).id IN held' = held \cup {c} /\ Push({c}, Handshake)
  /\ UNCHANGED <<InBatch, caps, filter, retained, unaddressed>>

TakeDetach ==
  /\ Take("Detach")
  /\ held' = held \ {Head(channel).id}
  /\ UNCHANGED <<InBatch, caps, filter, retained, unaddressed, queueVars>>

TakeAnswer ==
  /\ Take("Answer")
  /\ DeliverTo(Head(channel).id, Head(channel).record)
  /\ UNCHANGED <<InBatch, held, caps, filter, retained>>

(* Mutant: a connection is told of its session and not of the world. *)
TakeAuthenticated_NoReplay ==
  /\ Take("Authenticated")
  /\ LET c == Head(channel).id IN
     caps' = IF c \in held THEN [caps EXCEPT ![c] = Head(channel).caps] ELSE caps
  /\ UNCHANGED <<InBatch, held, filter, retained, unaddressed, queueVars>>

(* The capabilities are noted and the retained set is to be replayed. *)
TakeAuthenticated ==
  LET c == Head(channel).id IN
  /\ Take("Authenticated")
  /\ IF c \in held
       THEN /\ caps' = [caps EXCEPT ![c] = Head(channel).caps]
            /\ wPc' = "replay" /\ taken' = 0 /\ newcomer' = c
       ELSE UNCHANGED <<InBatch, caps>>
  /\ UNCHANGED <<held, filter, retained, unaddressed, queueVars>>

(* Retained::replay: the kept records in emit order, less what the         *)
(* capabilities do not cover, until one of them closes the connection.     *)
Replay ==
  LET r == retained[taken + 1] IN
  /\ wPc = "replay" /\ newcomer \notin closed /\ taken < Len(retained)
  /\ taken' = taken + 1
  /\ IF Covers(caps[newcomer], r.kind.need) THEN Push({newcomer}, r) ELSE UNCHANGED queueVars
  /\ UNCHANGED <<channel, logicVars, readerVars, wPc, newcomer, held, caps, filter,
                 retained, unaddressed>>

(* The connection is forgotten if it was closed. *)
ReplayEnds ==
  /\ wPc = "replay" /\ (newcomer \in closed \/ taken = Len(retained))
  /\ wPc' = "control" /\ taken' = 0 /\ newcomer' = NoOne
  /\ held' = held \ closed
  /\ UNCHANGED <<channel, logicVars, readerVars, caps, filter, retained, unaddressed,
                 queueVars>>

TakeTopicFilter ==
  /\ Take("TopicFilter")
  /\ filter' = IF Head(channel).id \in held
                 THEN [filter EXCEPT ![Head(channel).id] = Head(channel).topics] ELSE filter
  /\ UNCHANGED <<InBatch, held, caps, retained, unaddressed, queueVars>>

(* Every control message is taken before a batch begins. *)
ControlEmpty ==
  /\ wPc = "control" /\ channel = <<>> /\ ring # <<>>
  /\ wPc' = "batch"
  /\ UNCHANGED <<channel, logicVars, readerVars, taken, newcomer, held, caps, filter,
                 retained, unaddressed, queueVars>>

(* Mutant: a replaced slot keeps its place. *)
Keep_InPlace(r) ==
  IF \E i \in DOMAIN retained : retained[i].kind.slot = r.kind.slot
    THEN [i \in DOMAIN retained |-> IF retained[i].kind.slot = r.kind.slot THEN r ELSE retained[i]]
    ELSE Append(retained, r)

(* Retained::keep: the latest of its slot, after every other. *)
Keep(r) ==
  LET old == {i \in DOMAIN retained : retained[i].kind.slot = r.kind.slot} IN
  IF old = {} THEN Append(retained, r)
              ELSE Append(RemoveAt(retained, CHOOSE i \in old : TRUE), r)

(* One record of a batch: kept if it has a slot of the set, then fanned out. *)
Fan ==
  LET r == Head(ring) IN
  /\ wPc = "batch" /\ ring # <<>>
  /\ ring' = Tail(ring)
  /\ retained' = IF r.kind.slot \in 0..(RetainedSlots - 1) THEN Keep(r) ELSE retained
  /\ IF r.to # NoOne
       THEN DeliverTo(r.to, r)
       ELSE Push(Receivers(r.kind), r) /\ UNCHANGED unaddressed
  /\ held' = held \ closed'
  /\ IF taken + 1 = RecordsPerPass
       THEN wPc' = "control" /\ taken' = 0
       ELSE wPc' = "batch" /\ taken' = taken + 1
  /\ UNCHANGED <<channel, committed, replies, lifecycle_evicted, evictions,
                 refusals, readerVars, newcomer, caps, filter>>

(* The batch ends where the ring does. *)
BatchEnds ==
  /\ wPc = "batch" /\ ring = <<>> /\ wPc' = "control" /\ taken' = 0
  /\ UNCHANGED <<channel, logicVars, readerVars, newcomer, held, caps, filter, retained,
                 unaddressed, queueVars>>

-----------------------------------------------------------------------------
WriterThread ==
  \/ TakeAttach \/ TakeDetach \/ TakeAnswer \/ TakeAuthenticated \/ TakeTopicFilter
  \/ Replay \/ ReplayEnds \/ ControlEmpty \/ Fan \/ BatchEnds

Next ==
  /\ UNCHANGED setup
  /\ \/ \E c \in Connections :
          \/ Attach(c) \/ Ping(c) \/ Authenticate(c) \/ \E g \in Grants : Report(c, g)
          \/ \E f \in Filters : SetTopicFilter(c, f)
          \/ AnswerFilter(c) \/ Detach(c) \/ Drain(c) \/ CommitTo(c)
     \/ \E kind \in Kinds : Commit(kind)
     \/ WriterThread

Spec == Init /\ [][Next]_vars

-----------------------------------------------------------------------------
(* What the properties speak of. *)

IsFannedOut(r) == r.what = "record" /\ r.to = NoOne
AnswersIn(messages) == {i \in DOMAIN messages : messages[i].type = "Answer"}

Message ==
  [type : {"Attach", "Detach"}, id : Connections]
    \cup [type : {"Answer"}, id : Connections,
          record : {Pong, AuthResult} \cup {FilterResult(k) : k \in 1..MaxFilters}]
    \cup [type : {"Authenticated"}, id : Connections, caps : {Capabilities(g) : g \in Grants}]
    \cup [type : {"TopicFilter"}, id : Connections, topics : Filters]

(* Every variable ranges over the values its field can hold; no queue is   *)
(* over its capacity, and the retained set has one record a slot.          *)
TypeOK ==
  /\ \A i \in DOMAIN channel : channel[i] \in Message
  /\ Len(ring) <= CommitCapacity /\ committed \in Nat /\ replies \in 0..committed
  /\ reader \in [Connections -> {"none", "open", "answered", "session", "filtering"}]
  /\ grant \in [Connections -> Grants \cup {NoCaps}]
  /\ \A c \in Connections : \A i \in DOMAIN asked[c] : asked[c][i] \in Filters
  /\ wPc \in {"control", "batch", "replay"} /\ taken \in Nat
  /\ newcomer \in (IF wPc = "replay" THEN held ELSE {NoOne})
  /\ held \subseteq Connections /\ held \cap closed \subseteq {newcomer}
  /\ \A c \in Connections : caps[c] \in {NoCaps, Capabilities(grant[c])}
  /\ filter \in [Connections -> Filters \cup {All}]
  /\ Len(retained) <= RetainedSlots
  /\ \A i, j \in DOMAIN retained : retained[i].kind.slot = retained[j].kind.slot => i = j
  /\ boundaries \in [Connections -> 0..LifecycleCapacity]
  /\ detached \subseteq Connections /\ closed \subseteq Connections
  /\ lifecycle_evicted \in Nat /\ unaddressed \in Nat

(* A record fanned out or replayed reaches a connection only after its     *)
(* AuthResult, and only when its token covers the record.                  *)
OnlyEntitled ==
  \A c \in Connections : \A i \in DOMAIN stream[c] :
    IsFannedOut(stream[c][i]) =>
      /\ stream[c][i].kind.need \in grant[c] \cap 0..(Bits - 1)
      /\ \E j \in 1..(i - 1) : stream[c][j] = AuthResult

(* "So no record the answer follows escapes it": a record after the answer *)
(* to a SetTopicFilter is one that filter, or one asked for since, admits. *)
NothingEscapesTheFilter ==
  \A c \in Connections : \A i, j \in DOMAIN stream[c] :
    i < j /\ stream[c][i].what = "FilterResult" /\ IsFannedOut(stream[c][j]) =>
      \E k \in stream[c][i].ask..Len(asked[c]) : Admits(asked[c][k], stream[c][j].kind)

(* The handshake is the first thing numbered for a connection and is       *)
(* numbered once; what is fanned out or replayed after it comes in commit  *)
(* order, each record once, the replay of a set kept before it included.   *)
InCommitOrder ==
  \A c \in Connections : \A i, j \in DOMAIN stream[c] :
    /\ stream[c][i] = Handshake <=> i = 1
    /\ i < j /\ IsFannedOut(stream[c][i]) /\ IsFannedOut(stream[c][j])
         => stream[c][i].n < stream[c][j].n

(* A connection with a session that is still held has been told the world  *)
(* as the retained set has it: for every slot its token covers, the last   *)
(* boundary it was sent is the one retained, whenever it authenticated and *)
(* whatever its filter.                                                    *)
SeesTheWorld ==
  \A c \in held \ {newcomer} :
    \A k \in DOMAIN retained : Covers(caps[c], retained[k].kind.need) =>
      \E i \in DOMAIN stream[c] :
        /\ stream[c][i] = retained[k]
        /\ \A j \in (i + 1)..Len(stream[c]) :
             IsFannedOut(stream[c][j]) => stream[c][j].kind.slot # retained[k].kind.slot

(* Every answer a reader sent and every reply committed is on its way, in  *)
(* its connection's stream, turned away by the commit ring, or counted as  *)
(* having had nowhere to go; and a boundary the commit ring evicted, lost  *)
(* to the retained set, is counted too.                                    *)
Answered(c) ==
  pings[c] + (IF reader[c] \in {"none", "open"} THEN 0 ELSE 1)
    + Len(asked[c]) - (IF reader[c] = "filtering" THEN 1 ELSE 0)

Sent     == UNION {{c} \X (1..Answered(c)) : c \in Connections}
Waiting  == {r \in ToSet(ring) \cup evictions \cup refusals : r.to # NoOne}
Numbered == UNION {{c} \X {i \in DOMAIN stream[c] :
                      stream[c][i] # Handshake /\ ~IsFannedOut(stream[c][i])} : c \in Connections}

AddressedIsAccounted ==
  /\ Cardinality(Sent) + replies
       = Cardinality(AnswersIn(channel)) + Cardinality(Waiting)
           + Cardinality(Numbered) + unaddressed
  /\ lifecycle_evicted = Cardinality({r \in evictions : r.kind.slot # NoSlot})

(* Who is sent what: records go to those entitled to them, and answers and *)
(* replies to the one they are for, or are counted.                        *)
ReachesWhoItIsFor == TypeOK /\ OnlyEntitled /\ AddressedIsAccounted

(* The comment on Connections::authenticated: "Sent after the answer that  *)
(* says so, on the same channel, so the consumer reads its AuthResult      *)
(* before the first record."                                               *)
ResultBeforeRecords ==
  \A c \in Connections : \A i \in DOMAIN stream[c] :
    stream[c][i].what = "record" => \E j \in 1..(i - 1) : stream[c][j] = AuthResult

=============================================================================
