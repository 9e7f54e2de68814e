------------------------------- MODULE Encoder -------------------------------
(***************************************************************************)
(* One Lua state's record in progress: the put calls of the shim           *)
(* (crates/lua-module, module put) over the encoder of                     *)
(* crates/broker/src/encode.rs, up to the commit ring, which is Fanout's.  *)
(*                                                                         *)
(* A byte of the buffer is a cell: a field's key, a digit of a varint with *)
(* its continuation bit, or data.  A varint is in base Base, 128 in the    *)
(* code; a fixed value takes Fixed cells, eight in the code; and a key     *)
(* takes one, as those of fields 1 to 15 do.                               *)
(***************************************************************************)
EXTENDS Integers, Sequences, SequencesExt, FiniteSetsExt, TLC

CONSTANTS
  Nothing,
  Base, Fixed,
  MaxDepth,     (* MAX_DEPTH.                                              *)
  RecordTopics, (* Per topic: the length of its type URL, and whether it   *)
                (* is registered, is a reply, and is a LIFECYCLE one.      *)
  Caps,         (* Values of max_frame_bytes.                              *)
  MaxLifecycle, (* max_lifecycle_record_bytes.                             *)
  Ids,          (* Connections begin_to may be given.                      *)
  Puts,         (* The calls of integer, double, string, boolean and       *)
                (* message tried; field zero is a bad one.                 *)
  MaxCalls,     (* Puts per record.                                        *)
  MaxBegins     (* Calls of begin and begin_to.                            *)

VARIABLES
  cap,         (* max_frame_bytes in force, or Unset before configure.    *)
  epoch,       (* Bridge.epoch, zero outside one.                         *)
  encoder,     (* Pending.encoder, or NoEncoder.                          *)
  to,          (* Pending.to, or Nothing.                                 *)
  topic,       (* Pending.topic, or Nothing.                              *)
  boundary,    (* Pending.class is LIFECYCLE.                             *)
  oversize,    (* Bridge.lifecycle_oversize.                              *)
  misdirected, (* Bridge's partial_registration and misaddressed.         *)
  pushed,      (* What this call put on the commit ring, or Nothing.       *)
  meant,       (* History: how the record in progress was opened, and every *)
               (* put called since.                                       *)
  tally        (* History: calls of begin, and records opened, pushed, and *)
               (* dropped or uncounted with an encoder that was replaced. *)

pendingVars == <<encoder, to, topic, boundary>>
encoderVars == <<cap, epoch, pendingVars, oversize, misdirected, pushed, meant, tally>>

Unset == 0

-----------------------------------------------------------------------------
(* Cells.                                                                  *)

varint  == 0
fixed64 == 1
length  == 2

put_varint[v \in Nat] ==
  IF v < Base THEN <<[digit |-> v, more |-> FALSE]>>
  ELSE <<[digit |-> v % Base, more |-> TRUE]>> \o put_varint[v \div Base]

varint_len(v) == Len(put_varint[v])

padded(v, width) ==
  [i \in 1..width |-> [digit |-> (v \div Base^(i - 1)) % Base, more |-> i < width]]

Bytes(n) == [i \in 1..n |-> [data |-> i]]

-----------------------------------------------------------------------------
(* The encoder.                                                            *)

WithCapacity(bytes) ==
  [capacity |-> bytes, width |-> varint_len(bytes), buf |-> <<>>, open |-> <<>>,
   payload_gap |-> 0, value_gap |-> 0, state |-> "Idle", discarded |-> 0]

Poison(e, error) == [e EXCEPT !.state = error]

(* The check comes before anything is written.  A record already poisoned   *)
(* stays as it is.                                                         *)
Put(e, field, wire, cells) ==
  IF e.state # "Open" THEN e
  ELSE IF field = 0 THEN Poison(e, "FieldNumber")
  ELSE IF e.capacity - Len(e.buf) < 1 + Len(cells) THEN Poison(e, "Full")
  ELSE [e EXCEPT !.buf = @ \o <<[key |-> <<field, wire>>]>> \o cells]

Gap(e) == padded(0, e.width)
LastGap(e) == Len(e.buf) - e.width

Message(e, field) ==
  LET p == Put(e, field, length, Gap(e)) IN
  IF e.state = "Open" /\ Len(e.open) = MaxDepth THEN Poison(e, "Depth")
  ELSE IF p.state = "Open" THEN [p EXCEPT !.open = Append(@, LastGap(p))]
  ELSE p

(* Mutant: the length covers its own gap. *)
Filled_CountsGap(e, gap) ==
  [e EXCEPT !.buf = SubSeq(@, 1, gap) \o padded(Len(@) - gap, e.width)
                    \o SubSeq(@, gap + e.width + 1, Len(@))]

(* The cells after a gap, as the length the gap is given. *)
Filled(e, gap) ==
  [e EXCEPT !.buf = SubSeq(@, 1, gap)
                    \o padded(Len(@) - (gap + e.width), e.width)
                    \o SubSeq(@, gap + e.width + 1, Len(@))]

EndMessage(e) ==
  IF e.state # "Open" THEN e
  ELSE IF e.open = <<>> THEN Poison(e, "Unbalanced")
  ELSE [Filled(e, Last(e.open)) EXCEPT !.open = Front(@)]

Cleared(e) ==
  [e EXCEPT !.discarded = IF e.state # "Idle" THEN @ + 1 ELSE @,
            !.buf = <<>>, !.open = <<>>, !.state = "Open"]

Stamped(e, stamp) ==
  IF stamp = 0 THEN e ELSE Put(Put(e, 2, varint, put_varint[stamp]), 3, fixed64, Bytes(Fixed))

(* Encoder::begin: the wrapper, whose two gaps no end_message can close.   *)
Begin(e, url, stamp) ==
  LET outer == Put(Stamped(Cleared(e), stamp), 4, length, Gap(e))
      name  == Put(outer, 1, length, put_varint[url] \o Bytes(url))
      inner == Put(name, 2, length, Gap(e))
  IN  [inner EXCEPT
         !.payload_gap = IF outer.state = "Open" THEN LastGap(outer) ELSE @,
         !.value_gap   = IF inner.state = "Open" THEN LastGap(inner) ELSE @]

Discard(e) == [e EXCEPT !.discarded = @ + 1, !.buf = <<>>, !.state = "Idle"]

Whole(e) == e.state = "Open" /\ e.open = <<>>

EnvelopeTail(e) == Filled(Filled(e, e.value_gap), e.payload_gap).buf

(* The tail stays in the buffer until the next begin clears it.            *)
Commit(e) == IF Whole(e) THEN [e EXCEPT !.buf = <<>>, !.state = "Idle"] ELSE Discard(e)

-----------------------------------------------------------------------------
(* The shim's calls.                                                       *)

NoEncoder == [state |-> "None", discarded |-> 0]

InProgress == encoder.state \notin {"None", "Idle"}

EncoderInit ==
  /\ cap = Unset /\ epoch = 0 /\ encoder = NoEncoder
  /\ to = Nothing /\ topic = Nothing /\ boundary = FALSE
  /\ oversize = 0 /\ misdirected = 0 /\ pushed = Nothing
  /\ meant = Nothing
  /\ tally = [begins |-> 0, opened |-> 0, pushed |-> 0, forgotten |-> 0]

configure ==
  /\ cap' \in Caps \ {cap}
  /\ pushed' = Nothing /\ UNCHANGED <<epoch, pendingVars, oversize, misdirected, meant, tally>>

set_epoch ==
  /\ epoch' = 1 - epoch
  /\ pushed' = Nothing /\ UNCHANGED <<cap, pendingVars, oversize, misdirected, meant, tally>>

(* opening: an encoder of another capacity is replaced, what is in it gone. *)
Replaces == encoder = NoEncoder \/ encoder.capacity # cap
Opening  == IF Replaces THEN WithCapacity(cap) ELSE encoder

Forgets ==
  IF Replaces THEN encoder.discarded + (IF InProgress THEN 1 ELSE 0) ELSE 0

Began(opened) ==
  tally' = [tally EXCEPT !.begins = @ + 1, !.forgotten = @ + Forgets,
                         !.opened = IF opened THEN @ + 1 ELSE @]

(* Mutant: a begin leaves the address of the record it abandons. *)
Address_Kept(id) == IF id = Nothing THEN to ELSE id

Address(id) == id

(* open, or the refusal of a topic that is not registered. *)
Open(t, id) ==
  IF RecordTopics[t].registered
  THEN /\ encoder' = Begin(Opening, RecordTopics[t].url, epoch)
       /\ to' = Address(id) /\ topic' = IF id = Nothing THEN t ELSE Nothing
       /\ boundary' = RecordTopics[t].lifecycle
       /\ meant' = [topic |-> t, to |-> id, stamp |-> epoch, puts |-> <<>>]
       /\ Began(TRUE) /\ UNCHANGED misdirected
  ELSE /\ encoder' = Opening /\ misdirected' = misdirected + 1 /\ Began(FALSE)
       /\ UNCHANGED <<to, topic, boundary, meant>>

CanBegin == cap # Unset /\ tally.begins < MaxBegins

begin(t) ==
  /\ CanBegin /\ Open(t, Nothing)
  /\ pushed' = Nothing /\ UNCHANGED <<cap, epoch, oversize>>

begin_to(t, id) ==
  /\ CanBegin
  /\ IF RecordTopics[t].reply
     THEN Open(t, id)
     ELSE /\ misdirected' = misdirected + 1
          /\ tally' = [tally EXCEPT !.begins = @ + 1]
          /\ UNCHANGED <<pendingVars, meant>>
  /\ pushed' = Nothing /\ UNCHANGED <<cap, epoch, oversize>>

(* A put is tried on the encoder; it raises if the record is poisoned or   *)
(* there is none.                                                          *)
Call(put, e) ==
  /\ InProgress /\ Len(meant.puts) < MaxCalls
  /\ encoder' = e /\ meant' = [meant EXCEPT !.puts = Append(@, put)]
  /\ pushed' = Nothing
  /\ UNCHANGED <<cap, epoch, to, topic, boundary, oversize, misdirected, tally>>

CellsOf(put) ==
  CASE put.kind = "integer" -> put_varint[put.value]
    [] put.kind = "double"  -> Bytes(Fixed)
    [] put.kind = "boolean" -> <<[digit |-> put.value, more |-> FALSE]>>
    [] put.kind = "string"  -> put_varint[put.value] \o Bytes(put.value)

WireOf(put) ==
  CASE put.kind \in {"integer", "boolean"} -> varint
    [] put.kind = "double" -> fixed64
    [] put.kind \in {"string", "message"} -> length

put_call(put) ==
  Call(put, IF put.kind = "message" THEN Message(encoder, put.field)
            ELSE Put(encoder, put.field, WireOf(put), CellsOf(put)))

end_message == Call([kind |-> "end"], EndMessage(encoder))

(* With no record open it raises, the address taken all the same. *)
commit ==
  LET large == to = Nothing /\ boundary /\ Len(EnvelopeTail(encoder)) > MaxLifecycle IN
  /\ encoder # NoEncoder /\ to' = Nothing /\ topic' = Nothing /\ meant' = Nothing
  /\ IF ~InProgress THEN UNCHANGED <<encoder, oversize, tally>> /\ pushed' = Nothing
     ELSE /\ encoder' = Commit(encoder)
          /\ oversize' = IF Whole(encoder) /\ large THEN oversize + 1 ELSE oversize
          /\ IF Whole(encoder) /\ ~large
             THEN /\ pushed' = [tail |-> EnvelopeTail(encoder), to |-> to, topic |-> topic, meant |-> meant]
                  /\ tally' = [tally EXCEPT !.pushed = @ + 1]
             ELSE pushed' = Nothing /\ UNCHANGED tally
  /\ UNCHANGED <<cap, epoch, boundary, misdirected>>

EncoderNext ==
  \/ configure \/ set_epoch
  \/ \E t \in DOMAIN RecordTopics : begin(t) \/ \E id \in Ids : begin_to(t, id)
  \/ \E put \in Puts : put_call(put)
  \/ end_message \/ commit

EncoderSpec == EncoderInit /\ [][EncoderNext]_encoderVars

-----------------------------------------------------------------------------
(* What a decoder that was told the fields to expect makes of a tail.      *)

IsDigit(cells, at) == at <= Len(cells) /\ "digit" \in DOMAIN cells[at]

IsVarint(cells, at, last) ==
  /\ \A i \in at..last : IsDigit(cells, i) /\ cells[i].more = (i < last)
  /\ at <= last

(* The number at a place, and the place after it. *)
VarintAt(cells, at) ==
  LET last == {l \in at..Len(cells) : IsVarint(cells, at, l)}
      end  == Max(last)
  IN  IF last = {} THEN [value |-> -1, next |-> at]
      ELSE [value |-> MapThenSumSet(LAMBDA i : cells[i].digit * Base^(i - at), at..end),
            next |-> end + 1]

IsKey(cells, at, field, wire) == at <= Len(cells) /\ cells[at] = [key |-> <<field, wire>>]

(* One field read, or a message entered or left.  A message ends where its  *)
(* length says.                                                            *)
ReadField(cells, r, put) ==
  LET v   == VarintAt(cells, r.at + 1)
      end == v.next + v.value
      is(cond, at) == [r EXCEPT !.ok = @ /\ cond, !.at = at]
  IN
  IF put.kind = "end"
  THEN [r EXCEPT !.ok = @ /\ Last(r.ends) = r.at, !.ends = Front(@)]
  ELSE IF ~r.ok \/ ~IsKey(cells, r.at, put.field, WireOf(put)) THEN [r EXCEPT !.ok = FALSE]
  ELSE CASE put.kind = "message" -> [is(v.value >= 0, v.next) EXCEPT !.ends = Append(@, end)]
         [] put.kind = "double"  ->
              is(SubSeq(cells, r.at + 1, r.at + Fixed) = Bytes(Fixed), r.at + 1 + Fixed)
         [] put.kind = "string"  ->
              is(v.value = put.value /\ SubSeq(cells, v.next, end - 1) = Bytes(put.value), end)
         [] OTHER -> is(v.value = put.value, v.next)

Decodes(cells, puts) ==
  LET r == FoldLeft(LAMBDA acc, put : ReadField(cells, acc, put),
                    [at |-> 1, ends |-> <<>>, ok |-> TRUE], puts)
  IN  r.ok /\ r.at = Len(cells) + 1 /\ r.ends = <<>>

Field(kind, field, value) == [kind |-> kind, field |-> field, value |-> value]

(* The envelope a record opened so, with these puts, stands for. *)
Envelope(m) ==
  (IF m.stamp = 0 THEN <<>>
   ELSE <<Field("integer", 2, m.stamp), Field("double", 3, 0)>>)
  \o <<Field("message", 4, 0), Field("string", 1, RecordTopics[m.topic].url), Field("message", 2, 0)>>
  \o m.puts \o <<[kind |-> "end"], [kind |-> "end"]>>

-----------------------------------------------------------------------------
(* A tail handed to the commit ring decodes to the epoch and topic its     *)
(* record was opened with and to every put called on it, nested as they    *)
(* were called: lengths patched into gaps reserved before the body was     *)
(* known are right at any depth, and a record that any put failed on is    *)
(* not there.                                                              *)
TailSaysWhatWasPut == pushed # Nothing => Decodes(pushed.tail, Envelope(pushed.meant))

(* "A record left open and abandoned cannot mis-address the next one": a   *)
(* record goes to the connection its own begin_to named, or to those a     *)
(* filter of its own topic admits, whatever was begun, refused, abandoned  *)
(* or raised on before it.                                                 *)
AddressIsItsOwn ==
  pushed # Nothing =>
    /\ pushed.to = pushed.meant.to
    /\ pushed.topic = IF pushed.to = Nothing THEN pushed.meant.topic ELSE Nothing

(* Every record opened is in progress, was pushed, or is counted: as       *)
(* discarded, as oversize, or (for nobody to read) in an encoder that a    *)
(* change of the frame cap replaced.                                       *)
EveryRecordCounted ==
  tally.opened =
    tally.pushed + oversize + tally.forgotten + encoder.discarded
      + (IF InProgress THEN 1 ELSE 0)

(* A record is its own from begin to commit: it goes where it was begun    *)
(* for, and comes to one counted end.                                      *)
RecordsAreTheirOwn == AddressIsItsOwn /\ EveryRecordCounted

(* "Raises ... on a topic with no class or no capability registered,       *)
(* counted, with the record in progress left as it was."                   *)
RefusedBeginLeavesIt ==
  [][misdirected' > misdirected /\ InProgress => pendingVars' = pendingVars]_encoderVars

=============================================================================
