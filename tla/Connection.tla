----------------------------- MODULE Connection -----------------------------
(***************************************************************************)
(* The threads of a consumer connection, from accept to the join:          *)
(* crates/broker/src/transport.rs and the reader of inbound.rs.            *)
(*                                                                         *)
(* The listener thread accepts a socket and starts two threads on it.  The *)
(* drainer pops the connection's queue and writes frames; the reader reads *)
(* frames and answers them through the writer thread, which fills the      *)
(* queue.  Whichever ends first shuts the socket down, which ends the      *)
(* other.  Dropping the Listener ends them all and waits for them.         *)
(*                                                                         *)
(* The queue is Outbox, here the frames in order, all of the DURABLE class *)
(* as broker answers are; parking is WriterLoop's protocol, with a wake in *)
(* one step.  A shutdown returns a blocked write, as it does off Windows.  *)
(***************************************************************************)
EXTENDS Integers, Sequences, FiniteSets

CONSTANTS
  Conns,        (* The connections consumers open, in any order.           *)
  MaxSessions,  (* max_connections.                                        *)
  Capacity,     (* ring_out_durable_records.                               *)
  MaxPings,     (* Bound: frames a consumer sends that are only answered.  *)
  MaxRecords    (* Bound: records fanned out to a connection.              *)

ASSUME ConnectionAssumption ==
  /\ Capacity \in Nat \ {0} /\ MaxSessions \in Nat \ {0}
  /\ MaxPings \in Nat /\ MaxRecords \in Nat

VARIABLES
  lPc, current,   (* The listener thread, and the connection it is at.     *)
  open,           (* Listener.open: what dropping it shuts down.           *)
  stop, xPc,      (* Listener.stop, and the thread that drops it.          *)
  socket,         (* Each: "none", "open", "left" by its consumer, "down".  *)
  channel,        (* Control messages to the writer thread.                *)
  attached,       (* The writer thread's view: "no", "yes", "caps", "gone". *)
  queue,          (* Each connection's outbound queue, as frames.          *)
  toWake,         (* Connections the writer thread has yet to wake.        *)
  rPc, answered, session, expired, pings,   (* The reader.                 *)
  holds,          (* Connections counted in Bridge.authenticated.          *)
  dPc, frame, written, closing,             (* The drainer.                *)
  parked, token,  (* ParkFlag, and the drainer thread's unpark token.      *)
  wire,           (* History: the first frame on each socket, and all.     *)
  flushed,        (* History: the reader saw its failed result go out.     *)
  unlifted,       (* History: set_read_timeout(None) failed.               *)
  records         (* History: how many records were fanned out.            *)

listener == <<lPc, current, open>>
dropping == <<stop, xPc>>
writer   == <<attached, queue, toWake, records>>
history  == <<flushed, unlifted>>
reader   == <<rPc, answered, session, pings, holds, history>>
drainer  == <<dPc, frame, written, parked, wire>>
vars == <<listener, dropping, socket, channel, writer, reader, expired,
          drainer, closing, token>>

All(value) == [c \in Conns |-> value]

(* A write to a consumer that has left may still succeed. *)
Up == {"open", "left"}

At(f, c, value) == f' = [f EXCEPT ![c] = value]

Init ==
  /\ lPc = "accept" /\ current = {} /\ open = {}
  /\ stop = FALSE /\ xPc = "no"
  /\ socket = All("none")
  /\ channel = <<>> /\ attached = All("no") /\ queue = All(<<>>)
  /\ toWake = {} /\ records = All(0)
  /\ rPc = All("none") /\ answered = All(1) /\ session = All(FALSE)
  /\ expired = All(FALSE) /\ pings = All(0) /\ holds = {}
  /\ flushed = {} /\ unlifted = {}
  /\ dPc = All("none") /\ frame = All("none") /\ written = All(0)
  /\ closing = All(FALSE) /\ parked = All(FALSE) /\ token = All(FALSE)
  /\ wire = All([first |-> "none", all |-> {}])

Send(c, message) == channel' = Append(channel, <<c, message>>)

-----------------------------------------------------------------------------
(* The listener thread: accept_loop.                                       *)

AtWork(c, pc) == lPc = pc /\ current = {c}

(* The drainer is started, and waits to be handed its queue. *)
Accept(c) ==
  /\ lPc = "accept" /\ ~stop /\ socket[c] = "none"
  /\ lPc' = "attach" /\ current' = {c}
  /\ At(socket, c, "open") /\ At(dPc, c, "recv")
  /\ UNCHANGED <<open, dropping, channel, writer, reader, expired,
                 frame, written, parked, wire, closing, token>>

Attach(c) ==
  /\ AtWork(c, "attach") /\ lPc' = "read"
  /\ Send(c, "attach")
  /\ UNCHANGED <<current, open, dropping, socket, writer, reader,
                 expired, drainer, closing, token>>

StartReader(c) ==
  /\ AtWork(c, "read") /\ lPc' = "open"
  /\ At(rPc, c, "read")
  /\ UNCHANGED <<current, open, dropping, socket, channel, writer,
                 answered, session, pings, holds, history, expired, drainer,
                 closing, token>>

PushOpen(c) ==
  /\ AtWork(c, "open") /\ lPc' = "hand"
  /\ open' = open \cup {c}
  /\ UNCHANGED <<current, dropping, socket, channel, writer, reader,
                 expired, drainer, closing, token>>

Hand(c) ==
  /\ AtWork(c, "hand") /\ lPc' = "accept" /\ current' = {}
  /\ At(dPc, c, "look")
  /\ UNCHANGED <<open, dropping, socket, channel, writer, reader,
                 expired, frame, written, parked, wire, closing, token>>

(* A connection comes in after the stop: a consumer's, or drop's own. *)
AcceptStops ==
  /\ lPc = "accept" /\ stop
  /\ xPc = "join" \/ \E c \in Conns : socket[c] = "none"
  /\ lPc' = "join"
  /\ UNCHANGED <<current, open, dropping, socket, channel, writer,
                 reader, expired, drainer, closing, token>>

Joined ==
  /\ lPc = "join"
  /\ \A c \in Conns : {dPc[c], rPc[c]} \subseteq {"none", "done"}
  /\ lPc' = "done"
  /\ UNCHANGED <<current, open, dropping, socket, channel, writer,
                 reader, expired, drainer, closing, token>>

Listen ==
  \/ \E c \in Conns :
       Accept(c) \/ Attach(c) \/ StartReader(c) \/ PushOpen(c) \/ Hand(c)
  \/ AcceptStops \/ Joined

-----------------------------------------------------------------------------
(* Dropping the Listener.                                                  *)

Stop ==
  /\ xPc = "no" /\ xPc' = "close" /\ stop' = TRUE
  /\ UNCHANGED <<listener, socket, channel, writer, reader, expired,
                 drainer, closing, token>>

(* With the lock on `open` held, so none is pushed meanwhile. *)
CloseOpen ==
  /\ xPc = "close" /\ xPc' = "join"
  /\ socket' = [c \in Conns |-> IF c \in open THEN "down" ELSE socket[c]]
  /\ token' = [c \in Conns |-> token[c] \/ (c \in open)]
  /\ UNCHANGED <<stop, listener, channel, writer, reader, expired,
                 drainer, closing>>

Dropped ==
  /\ xPc = "join" /\ lPc = "done" /\ xPc' = "dropped"
  /\ UNCHANGED <<stop, listener, socket, channel, writer, reader,
                 expired, drainer, closing, token>>

Drop == Stop \/ CloseOpen \/ Dropped

-----------------------------------------------------------------------------
(* The writer thread, as a connection sees it.                             *)

(* A full ring evicts its oldest record. *)
Enqueue(c, f) ==
  /\ queue' = [queue EXCEPT ![c] =
       IF Len(@) = Capacity THEN Append(Tail(@), f) ELSE Append(@, f)]
  /\ toWake' = toWake \cup {c}

NotQueued == UNCHANGED <<queue, toWake>>

(* The control message at the head: an attach with the handshake in it, a  *)
(* detach, with which both ends of the queue are gone, an authentication,  *)
(* an answer.  One for a connection it does not hold is dropped.           *)
Control ==
  /\ channel # <<>> /\ channel' = Tail(channel)
  /\ LET c == Head(channel)[1]   m == Head(channel)[2]   holding == attached[c] \in {"yes", "caps"} IN
     \/ m = "attach" /\ At(attached, c, "yes") /\ Enqueue(c, "handshake")
     \/ m = "detach" /\ At(attached, c, "gone") /\ At(queue, c, <<>>) /\ UNCHANGED toWake
     \/ m \notin {"attach", "detach"} /\ ~holding /\ UNCHANGED attached /\ NotQueued
     \/ m = "authenticated" /\ holding /\ At(attached, c, "caps") /\ NotQueued
     \/ m \in {"answer", "result", "refusal"} /\ holding /\ UNCHANGED attached /\ Enqueue(c, m)
  /\ UNCHANGED <<listener, dropping, socket, records, reader, expired,
                 drainer, closing, token>>

FanOut(c) ==
  /\ attached[c] = "caps" /\ records[c] < MaxRecords
  /\ At(records, c, records[c] + 1) /\ Enqueue(c, "record")
  /\ UNCHANGED <<listener, dropping, socket, channel, attached, reader,
                 expired, drainer, closing, token>>

(* Waker::wake_if_parked. *)
WakeDrainer(c) ==
  /\ c \in toWake /\ toWake' = toWake \ {c}
  /\ At(token, c, token[c] \/ parked[c])
  /\ UNCHANGED <<listener, dropping, socket, channel, attached, queue,
                 records, reader, expired, drainer, closing>>

(* Its LIFECYCLE ring refused a boundary: the connection is closed. *)
CloseFull(c) ==
  /\ attached[c] = "caps"
  /\ At(attached, c, "gone") /\ At(socket, c, "down")
  /\ UNCHANGED <<listener, dropping, channel, queue, toWake, records,
                 reader, expired, drainer, closing, token>>

Write ==
  Control \/ \E c \in Conns : FanOut(c) \/ WakeDrainer(c) \/ CloseFull(c)

-----------------------------------------------------------------------------
(* The reader: inbound::serve, and inbound::run around it.                 *)

OtherThan(c) ==
  UNCHANGED <<listener, dropping, writer, expired, drainer>>

(* The consumer's frame is read whole, under the deadline before a session; *)
(* one that had arrived is read although the socket has closed since.      *)
Reads(c) ==
  /\ rPc[c] = "read"
  /\ session[c] \/ ~expired[c]
  /\ UNCHANGED <<socket, closing, token>> /\ OtherThan(c)

(* Mutant: an answer sent before the session is not counted. *)
ReadPing_NotCounted(c) ==
  /\ Reads(c) /\ pings[c] < MaxPings /\ At(pings, c, pings[c] + 1)
  /\ Send(c, "answer")
  /\ UNCHANGED <<rPc, answered, session, holds, history>>

(* A Ping, or with a session any other message the broker answers. *)
ReadPing(c) ==
  /\ Reads(c) /\ pings[c] < MaxPings /\ At(pings, c, pings[c] + 1)
  /\ Send(c, "answer")
  /\ At(answered, c, answered[c] + (IF session[c] THEN 0 ELSE 1))
  /\ UNCHANGED <<rPc, session, holds, history>>

(* An Auth that opens a session: its slot is taken, the answer and the     *)
(* authentication are sent, and the deadline is about to be lifted.        *)
ReadAuth(c) ==
  /\ Reads(c) /\ ~session[c] /\ Cardinality(holds) < MaxSessions
  /\ holds' = holds \cup {c} /\ At(rPc, c, "announce") /\ Send(c, "result")
  /\ UNCHANGED <<answered, session, pings, history>>

Announce(c) ==
  /\ rPc[c] = "announce" /\ At(rPc, c, "lift") /\ Send(c, "authenticated")
  /\ UNCHANGED <<answered, session, pings, holds, history, socket, closing,
                 token>> /\ OtherThan(c)

(* set_read_timeout(None)?, and then the session is the run's to close. *)
Lift(c) ==
  /\ rPc[c] = "lift" /\ At(session, c, TRUE) /\ At(rPc, c, "read")
  /\ UNCHANGED <<answered, pings, holds, history, channel, socket, closing,
                 token>> /\ OtherThan(c)

LiftFails(c) ==
  /\ rPc[c] = "lift" /\ At(rPc, c, "shut")
  /\ unlifted' = unlifted \cup {c}
  /\ UNCHANGED <<answered, session, pings, holds, flushed, channel, socket,
                 closing, token>> /\ OtherThan(c)

(* An Auth that is refused, for its token or because the server is full. *)
ReadBadAuth(c) ==
  /\ Reads(c) /\ ~session[c]
  /\ At(answered, c, answered[c] + 1) /\ At(rPc, c, "flush")
  /\ Send(c, "refusal") /\ UNCHANGED <<session, pings, holds, history>>

(* wait_for_flush: the drainer's count says it is out, or FLUSH_WAIT ends. *)
Flush(c) ==
  /\ rPc[c] = "flush" /\ written[c] >= answered[c]
  /\ flushed' = flushed \cup {c} /\ At(rPc, c, "shut")
  /\ UNCHANGED <<answered, session, pings, holds, unlifted, channel, socket,
                 closing, token>> /\ OtherThan(c)

FlushWait(c) ==
  /\ rPc[c] = "flush" /\ written[c] < answered[c] /\ At(rPc, c, "shut")
  /\ UNCHANGED <<answered, session, pings, holds, history, channel, socket,
                 closing, token>> /\ OtherThan(c)

Ends(c) ==
  /\ rPc[c] = "read" /\ At(rPc, c, "shut")
  /\ UNCHANGED <<answered, session, pings, holds, history, channel, socket,
                 closing, token>> /\ OtherThan(c)

(* The socket is down or the consumer has closed it. *)
ReadClosed(c) == socket[c] \in {"left", "down"} /\ Ends(c)

(* Mutant: only a consumer that has sent nothing is under the deadline. *)
ReadTimesOut_FirstFrameOnly(c) ==
  expired[c] /\ ~session[c] /\ answered[c] = 1 /\ Ends(c)

ReadTimesOut(c) == expired[c] /\ ~session[c] /\ Ends(c)

(* Mutant: a panic over a frame is not caught. *)
ReadRefused_NotCaught(c) ==
  /\ rPc[c] = "read" /\ At(rPc, c, "closing")
  /\ UNCHANGED <<answered, session, pings, holds, history, channel, socket,
                 closing, token>> /\ OtherThan(c)

(* A frame that closes the connection: too large, no envelope, a topic     *)
(* that needs a session, a second Auth, a rate over its total; or a panic. *)
ReadRefused(c) == Ends(c)

(* run, after serve has returned. *)
Shut(c) ==
  /\ rPc[c] = "shut" /\ At(rPc, c, "free") /\ At(socket, c, "down")
  /\ UNCHANGED <<answered, session, pings, holds, history, channel, closing,
                 token>> /\ OtherThan(c)

Free(c) ==
  /\ rPc[c] = "free" /\ At(rPc, c, "closing")
  /\ holds' = (IF session[c] THEN holds \ {c} ELSE holds)
  /\ UNCHANGED <<answered, session, pings, history, channel, socket, closing,
                 token>> /\ OtherThan(c)

RaiseClosing(c) ==
  /\ rPc[c] = "closing" /\ At(rPc, c, "wake") /\ At(closing, c, TRUE)
  /\ UNCHANGED <<answered, session, pings, holds, history, channel, socket,
                 token>> /\ OtherThan(c)

(* Mutant: the reader does not wake the drainer. *)
ReaderWake_None(c) ==
  /\ rPc[c] = "wake" /\ At(rPc, c, "done")
  /\ UNCHANGED <<answered, session, pings, holds, history, channel, socket,
                 closing, token>> /\ OtherThan(c)

ReaderWake(c) ==
  /\ rPc[c] = "wake" /\ At(rPc, c, "done") /\ At(token, c, TRUE)
  /\ UNCHANGED <<answered, session, pings, holds, history, channel, socket,
                 closing>> /\ OtherThan(c)

(* What the reader does by itself, whatever the consumer sends. *)
ReaderRuns(c) ==
  \/ Announce(c) \/ Lift(c) \/ LiftFails(c) \/ Flush(c) \/ FlushWait(c)
  \/ ReadClosed(c) \/ ReadTimesOut(c)
  \/ Shut(c) \/ Free(c) \/ RaiseClosing(c) \/ ReaderWake(c)

Read(c) ==
  \/ ReadPing(c) \/ ReadAuth(c) \/ ReadBadAuth(c) \/ ReadRefused(c)
  \/ ReaderRuns(c)

-----------------------------------------------------------------------------
(* The drainer: transport.rs's serve and the thread around it.             *)

Others(c) == UNCHANGED <<listener, dropping, attached, toWake, records,
                         reader, expired, closing>>
Quiet(c) == UNCHANGED <<socket, channel, queue, frame, written, wire>>
              /\ Others(c)
Goes(c, from, to) == dPc[c] = from /\ At(dPc, c, to)

(* Mutant: the drainer does not look at `stop`. *)
Look_NoStop(c) ==
  Goes(c, "look", "pop") /\ UNCHANGED <<parked, token>> /\ Quiet(c)

Look(c) ==
  /\ Goes(c, "look", IF stop THEN "end" ELSE "pop")
  /\ UNCHANGED <<parked, token>> /\ Quiet(c)

Pop(c) ==
  /\ queue[c] # <<>> /\ Goes(c, "pop", "write")
  /\ At(frame, c, Head(queue[c])) /\ At(queue, c, Tail(queue[c]))
  /\ UNCHANGED <<socket, channel, written, wire, parked, token>> /\ Others(c)

(* An empty queue: it returns, looks again for a while, or goes to park. *)
PopEmpty(c) ==
  /\ queue[c] = <<>>
  /\ \/ closing[c] /\ Goes(c, "pop", "end")
     \/ ~closing[c] /\ Goes(c, "pop", "look")
     \/ ~closing[c] /\ Goes(c, "pop", "raise")
  /\ UNCHANGED <<parked, token>> /\ Quiet(c)

(* write_frame, which waits for as long as the consumer does not read. *)
Written(c) ==
  /\ socket[c] \in Up /\ Goes(c, "write", "look")
  /\ At(written, c, written[c] + 1) /\ At(frame, c, "none")
  /\ At(wire, c, [first |-> IF written[c] = 0 THEN frame[c] ELSE wire[c].first,
                  all |-> wire[c].all \cup {frame[c]}])
  /\ UNCHANGED <<socket, channel, queue, parked, token>> /\ Others(c)

WriteFails(c) ==
  /\ socket[c] \in {"left", "down"}
  /\ Goes(c, "write", "end") /\ At(frame, c, "none")
  /\ UNCHANGED <<socket, channel, queue, written, wire, parked, token>>
  /\ Others(c)

Raise(c) ==
  /\ Goes(c, "raise", "check") /\ At(parked, c, TRUE)
  /\ UNCHANGED token /\ Quiet(c)

Check(c) ==
  /\ Goes(c, "check", IF queue[c] # <<>> \/ stop \/ closing[c]
                      THEN "lower" ELSE "asleep")
  /\ UNCHANGED <<parked, token>> /\ Quiet(c)

Wakes(c) ==
  /\ token[c] /\ Goes(c, "asleep", "lower") /\ At(token, c, FALSE)
  /\ UNCHANGED parked /\ Quiet(c)

Lower(c) ==
  /\ Goes(c, "lower", "look") /\ At(parked, c, FALSE)
  /\ UNCHANGED token /\ Quiet(c)

EndShut(c) ==
  /\ Goes(c, "end", "detach") /\ At(socket, c, "down")
  /\ UNCHANGED <<channel, queue, frame, written, wire, parked, token>>
  /\ Others(c)

Detach(c) ==
  /\ Goes(c, "detach", "done") /\ Send(c, "detach")
  /\ UNCHANGED <<socket, queue, frame, written, wire, parked, token>>
  /\ Others(c)

DrainerRuns(c) ==
  \/ Look(c) \/ Pop(c) \/ PopEmpty(c) \/ WriteFails(c) \/ Raise(c)
  \/ Check(c) \/ Wakes(c) \/ Lower(c) \/ EndShut(c) \/ Detach(c)

Drain(c) == Written(c) \/ DrainerRuns(c)

-----------------------------------------------------------------------------
(* The consumer, and the clock.                                            *)

PeerGoes(c) ==
  /\ socket[c] = "open" /\ At(socket, c, "left")
  /\ UNCHANGED <<listener, dropping, channel, writer, reader, expired, drainer,
                 closing, token>>

(* handshake_timeout_ms has passed since the reader began. *)
Expire(c) ==
  /\ rPc[c] = "read" /\ ~expired[c] /\ ~session[c] /\ At(expired, c, TRUE)
  /\ UNCHANGED <<listener, dropping, socket, channel, writer, reader,
                 drainer, closing, token>>

Next ==
  \/ Listen \/ Drop \/ Write
  \/ \E c \in Conns : Read(c) \/ Drain(c) \/ PeerGoes(c) \/ Expire(c)

Spec == Init /\ [][Next]_vars

(* Time passes and every thread runs.  No consumer has to send, to read or *)
(* to connect, and nobody has to drop the listener.                        *)
FairReaders == \A c \in Conns : WF_vars(ReaderRuns(c)) /\ WF_vars(Expire(c))

(* A drainer may all the same be blocked in its write for good, as a send  *)
(* is on Windows whose socket another thread shuts down.                   *)
ReaderSpec == Spec /\ FairReaders

OthersRun ==
  /\ WF_vars(CloseOpen) /\ WF_vars(Dropped)
  /\ WF_vars(AcceptStops) /\ WF_vars(Joined) /\ WF_vars(Control)
  /\ \A c \in Conns :
       /\ WF_vars(Attach(c) \/ StartReader(c) \/ PushOpen(c) \/ Hand(c))
       /\ WF_vars(DrainerRuns(c)) /\ WF_vars(WakeDrainer(c))

-----------------------------------------------------------------------------

TypeOK ==
  /\ lPc \in {"accept", "attach", "read", "open", "hand", "join", "done"}
  /\ current = {} <=> lPc \in {"accept", "join", "done"}
  /\ open \cup toWake \cup holds \cup flushed \subseteq Conns
  /\ xPc \in {"no", "close", "join", "dropped"} /\ (stop <=> xPc # "no")
  /\ \A c \in Conns :
       /\ Len(queue[c]) <= Capacity
       /\ Cardinality(wire[c].all) <= written[c]
       /\ parked[c] <=> dPc[c] \in {"check", "asleep", "lower"}
       /\ dPc[c] = "write" <=> frame[c] # "none"
       /\ socket[c] = "none" => dPc[c] = "none" /\ rPc[c] = "none"

(* A consumer's first frame is the handshake, although the reader may have *)
(* answered it before the drainer was handed the queue.                    *)
HandshakeFirst == \A c \in Conns : wire[c].first \in {"none", "handshake"}

(* A reader that closes over a failed Auth without waiting FLUSH_WAIT out  *)
(* has put the refusal on the wire: its count of answers and the drainer's *)
(* count of frames agree only when every answer has gone out.              *)
RefusalIsOut ==
  \A c \in flushed : "refusal" \in wire[c].all

(* What a consumer reads first and last: the handshake, and the reason it  *)
(* was closed for.                                                         *)
StreamHasBothEnds == TypeOK /\ HandshakeFirst /\ RefusalIsOut

(* The comment on inbound::run: "every way out of it ... reports the       *)
(* session closed".                                                        *)
ReturnsEverySlot == \A c \in Conns : rPc[c] = "done" => c \notin holds

(* A connection whose socket is down frees its slot, whether or not the    *)
(* drainer ever returns from the write it is in.                           *)
SlotIsFreed ==
  \A c \in Conns :
    (c \in holds /\ socket[c] = "down") ~> (c \notin holds \/ c \in unlifted)

(* A connection that does not authenticate is closed at its deadline,      *)
(* whatever it has sent by then.                                           *)
SilentIsClosed ==
  \A c \in Conns :
    (rPc[c] = "read" /\ ~session[c]) ~> (session[c] \/ rPc[c] = "done")

(* When either thread ends, the consumer leaves, or the writer thread      *)
(* closes the connection, both threads end and the writer forgets it, if   *)
(* a shutdown returns the drainer from its write.                          *)
EndsTogether ==
  OthersRun =>
    \A c \in Conns :
      socket[c] \in {"left", "down"}
        ~> (rPc[c] = "done" /\ dPc[c] = "done" /\ attached[c] = "gone")

(* Dropping the listener returns, whatever it was accepting, whichever     *)
(* thread was asleep, and with a consumer that has stopped reading.        *)
StopReturns == OthersRun => (stop ~> xPc = "dropped")
=============================================================================
