------------------------------- MODULE Decoder -------------------------------
(***************************************************************************)
(* The wire reader of a generated file (crates/generator/src/wire.lua), on *)
(* the shapes and the depth Generator writes beside it, reading what a     *)
(* consumer's protobuf library sent: every order of fields, messages in    *)
(* pieces, lists packed or not, lengths longer than they need be, fields   *)
(* of a later schema, and a body cut short.                                *)
(*                                                                         *)
(* A step is one turn of the reader's loops, its recursion a stack.  A     *)
(* byte holds Digit bits of a varint and the bit that says more follow, 7  *)
(* in the code, and a word has Word bits, 32 in the code; Word is a        *)
(* multiple of Digit + 1 and, as there, none of Digit.                     *)
(***************************************************************************)
EXTENDS Generator

CONSTANTS
  Digit, Word,
  MAX_ELEMENTS,   (* Values one repeated field or map holds.               *)
  Items,          (* [topics of commands -> the fields a consumer may write]. *)
  MaxItems        (* Fields of one body.                                   *)

ASSUME DecoderAssumption == Word % (Digit + 1) = 0 /\ Word % Digit # 0 /\ Digit > 2

VARIABLES
  command,   (* The topic of the command under way, or None.               *)
  items,     (* What the consumer means: fields, and fields inside them.   *)
  padded,    (* Its lengths take one byte more than they need.             *)
  bytes,     (* The body, or None before it is sent.                       *)
  pos,       (* The reader's position.                                     *)
  stack,     (* The messages it is inside, innermost last.                 *)
  result     (* What decode answers: a table, Failed, or None.           *)

readerVars == <<command, items, padded, bytes, pos, stack, result>>
vars       == <<generatorVars, registryVars, openVars, readerVars>>

-----------------------------------------------------------------------------
(* A consumer's library: external.                                         *)

Base == 2^Digit

varint_bytes[n \in Nat] ==
  IF n < Base THEN <<n>> ELSE <<Base + (n % Base)>> \o varint_bytes[n \div Base]

LengthOf(n) ==
  LET least == varint_bytes[n] IN
  IF padded THEN Append([least EXCEPT ![Len(least)] = @ + Base], 0) ELSE least

Width == Word \div (Digit + 1)
fixed_bytes(n, width) == [i \in 1..width |-> (n \div (2 * Base)^(i - 1)) % (2 * Base)]

Delimited(b) == LengthOf(Len(b)) \o b

RECURSIVE Encoded(_)
Encoded(fields) ==
  LET Payload(f) ==
        IF "bits" \in DOMAIN f
        THEN (IF f.w = 0 THEN varint_bytes[f.bits] ELSE fixed_bytes(f.bits, IF f.w = 1 THEN 2 * Width ELSE Width))
        ELSE IF "text" \in DOMAIN f THEN Delimited(f.text)
        ELSE IF "pack" \in DOMAIN f
             THEN Delimited(FoldLeft(LAMBDA b, n : b \o varint_bytes[n], <<>>, f.pack))
        ELSE IF "sub" \in DOMAIN f THEN Delimited(Encoded(f.sub))
        ELSE <<>>
  IN  FoldLeft(LAMBDA b, f : b \o varint_bytes[8 * f.n + f.w] \o Payload(f), <<>>, fields)

Choose ==
  /\ registered = Everything /\ command = None
  /\ \E at \in DOMAIN owner : command' \in DOMAIN owner[at].decode
  /\ padded' \in BOOLEAN
  /\ UNCHANGED <<generatorVars, registryVars, openVars, items, bytes, pos, stack, result>>

WriteField ==
  /\ command # None /\ bytes = None /\ Len(items) < MaxItems
  /\ \E f \in Items[command] : items' = Append(items, f)
  /\ UNCHANGED <<generatorVars, registryVars, openVars, command, padded, bytes, pos, stack, result>>

-----------------------------------------------------------------------------
(* wire.lua: reading bytes.  A read that raises is not ok.                 *)

Longest == (2 * Word + Digit - 1) \div Digit
Split   == Word \div Digit   (* The byte the low word ends inside.         *)

Bad == [ok |-> FALSE]

varint(at, limit) ==
  LET ends  == {i \in 0..(Longest - 1) : at + i <= limit /\ bytes[at + i] < Base}
      last  == Min(ends)
      v(i)  == bytes[at + i] % Base
      spare == 2^(Word - Digit * Split)
      low   == MapThenSumSet(LAMBDA i : v(i) * 2^(Digit * i), 0..Min({last, Split - 1}))
      high  == MapThenSumSet(LAMBDA i : v(i) * 2^(Digit * i - Word), (Split + 1)..last)
  IN  IF ends = {} THEN Bad
      ELSE [ok |-> TRUE, after |-> at + last + 1,
            lo |-> low + (IF last < Split THEN 0 ELSE (v(Split) % spare) * 2^(Digit * Split)),
            hi |-> (high + (IF last < Split THEN 0 ELSE v(Split) \div spare)) % 2^Word]

(* Mutant: a length is taken at its word. *)
length_Unchecked(at, limit) ==
  LET n == varint(at, limit) IN
  IF ~n.ok THEN Bad ELSE [ok |-> TRUE, start |-> n.after, stop |-> n.after + n.lo - 1]

length(at, limit) ==
  LET n == varint(at, limit) IN
  IF ~n.ok THEN Bad
  ELSE IF n.hi # 0 \/ n.after + n.lo - 1 > limit THEN Bad
  ELSE [ok |-> TRUE, start |-> n.after, stop |-> n.after + n.lo - 1]

fixed(at, limit, width) ==
  IF at + width - 1 > limit THEN Bad ELSE [ok |-> TRUE, after |-> at + width]

le32(at) == MapThenSumSet(LAMBDA i : bytes[at + i] * (2 * Base)^i, 0..(Width - 1))

(* The position after a value nobody reads. *)
skip(at, limit, wire) ==
  LET end == IF wire = 0 THEN (LET n == varint(at, limit) IN IF n.ok THEN n.after ELSE limit + 2)
             ELSE IF wire = 1 THEN at + 2 * Width
             ELSE IF wire = 2 THEN (LET n == length(at, limit) IN IF n.ok THEN n.stop + 1 ELSE limit + 2)
             ELSE IF wire = 5 THEN at + Width
             ELSE limit + 2
  IN  IF end > limit + 1 THEN Bad ELSE [ok |-> TRUE, after |-> end]

signed32(n) == IF n >= 2^(Word - 1) THEN n - 2^Word ELSE n

WireOf(kind) ==
  CASE kind = "string" -> 2
    [] kind \in {"fixed32", "sfixed32"} -> 5
    [] kind \in {"fixed64", "sfixed64"} -> 1
    [] OTHER -> 0

zero(kind) == IF kind = "string" THEN <<>> ELSE IF kind = "boolean" THEN FALSE ELSE 0

Number(kind, lo, hi) ==
  CASE kind = "uint32"  -> lo
    [] kind = "uint64"  -> hi * 2^Word + lo
    [] kind \in {"int32", "enum"} -> signed32(lo)
    [] kind = "int64"   -> signed32(hi) * 2^Word + lo
    [] kind = "boolean" -> lo # 0 \/ hi # 0
    [] kind = "sint32"  -> IF lo % 2 = 1 THEN -((lo + 1) \div 2) ELSE lo \div 2
    [] kind = "sint64"  -> LET half == hi * 2^(Word - 1) + lo \div 2
                           IN  IF lo % 2 = 1 THEN -half - 1 ELSE half

Fixed_number(kind, at) ==
  CASE kind = "fixed32"  -> le32(at)
    [] kind = "sfixed32" -> signed32(le32(at))
    [] kind = "fixed64"  -> le32(at + Width) * 2^Word + le32(at)
    [] kind = "sfixed64" -> signed32(le32(at + Width)) * 2^Word + le32(at)

Read(kind, at, limit) ==
  CASE WireOf(kind) = 0 -> LET n == varint(at, limit) IN
                           IF n.ok THEN [ok |-> TRUE, value |-> Number(kind, n.lo, n.hi), after |-> n.after] ELSE Bad
    [] WireOf(kind) \in {1, 5} ->
                           LET n == fixed(at, limit, IF WireOf(kind) = 1 THEN 2 * Width ELSE Width) IN
                           IF n.ok THEN [ok |-> TRUE, value |-> Fixed_number(kind, at), after |-> n.after] ELSE Bad
    [] OTHER            -> LET n == length(at, limit) IN
                           IF n.ok THEN [ok |-> TRUE, value |-> SubSeq(bytes, n.start, n.stop),
                                         after |-> n.stop + 1] ELSE Bad

-----------------------------------------------------------------------------
(* wire.lua: message.  A frame is a message being read, of its type, with  *)
(* the field of the one around it that it is for; or a packed list, of     *)
(* None, whose values go to the message below it.                          *)

decode   == LET at == CHOOSE a \in DOMAIN owner : command \in DOMAIN owner[a].decode
            IN  owner[at].decode[command]
shape(t) == decode.shape[t]

Top   == Last(stack)
Inner == pos <= Top.limit
Depth_of(frames) == Cardinality({i \in DOMAIN frames : frames[i].of # None})

Unknown_field == [kind |-> "unknown", label |-> "single"]

key    == varint(pos, Top.limit)
number == key.lo \div 8
wire   == key.lo % 8
field  == IF number \in DOMAIN shape(Top.of) THEN shape(Top.of)[number] ELSE Unknown_field

IsScalar(f)   == f.kind \notin {"message", "map", "unknown"}
IsRepeated(f) == f.label = "repeated"

(* A message nothing was read of. *)
Blank(t) ==
  LET fs   == {shape(t)[n] : n \in DOMAIN shape(t)}
      kept == {f \in fs : IsRepeated(f) \/ (f.kind # "message" /\ f.label # "optional")}
      of(f) == IF IsRepeated(f) THEN <<>>
               ELSE IF f.kind = "map" THEN [of |-> <<>>, took |-> 0]
               ELSE zero(f.kind)
  IN  [name \in {f.name : f \in kept} |-> of(CHOOSE f \in kept : f.name = name)]

With(out, f, value) ==
  (f.name :> IF IsRepeated(f) THEN Append(out[f.name], value) ELSE value) @@ out

Full(out, f) == IsRepeated(f) /\ Len(out[f.name]) >= MAX_ELEMENTS

StillReading ==
  UNCHANGED <<generatorVars, registryVars, openVars, command, items, padded, bytes>>

Raise ==
  /\ result' = Failed /\ stack' = <<>>
  /\ UNCHANGED pos /\ StillReading

Go(frames, at) ==
  /\ stack' = frames /\ pos' = at
  /\ UNCHANGED result /\ StillReading

(* The stack with a value in a field of the message at i; what is above i  *)
(* and done is gone.                                                       *)
Stored(frames, f, value, at) ==
  LET i == Len(frames) IN
  IF Full(frames[i].out, f) THEN Raise
  ELSE Go([frames EXCEPT ![i].out = With(@, f, value)], at)

(* The whole body is there, or it was cut anywhere. *)
Send ==
  /\ command # None /\ bytes = None
  /\ \E n \in 0..Len(Encoded(items)) : bytes' = SubSeq(Encoded(items), 1, n)
  /\ stack' = <<[of |-> command, for |-> Unknown_field, limit |-> Len(bytes'), out |-> Blank(command)]>>
  /\ pos' = 1
  /\ UNCHANGED <<generatorVars, registryVars, openVars, command, items, padded, result>>

AtField   == stack # <<>> /\ Top.of # None /\ Inner
GoodKey   == AtField /\ key.ok /\ key.hi = 0 /\ number # 0
Wanted    == IsScalar(field) /\ wire = WireOf(field.kind)
IsPacked  == IsScalar(field) /\ IsRepeated(field) /\ wire = 2 /\ ~Wanted
Nests     == field.kind = "message" /\ wire = 2
IsEntry   == field.kind = "map" /\ wire = 2

BadKey == AtField /\ ~(key.ok /\ key.hi = 0 /\ number # 0) /\ Raise

ReadScalar ==
  /\ GoodKey /\ Wanted
  /\ LET v == Read(field.kind, key.after, Top.limit) IN
     IF v.ok THEN Stored(stack, field, v.value, v.after) ELSE Raise

OpenPacked ==
  /\ GoodKey /\ IsPacked
  /\ LET n == length(key.after, Top.limit) IN
     IF n.ok THEN Go(Append(stack, [of |-> None, for |-> field, limit |-> n.stop, out |-> <<>>]), n.start)
     ELSE Raise

ReadPacked ==
  /\ stack # <<>> /\ Top.of = None /\ Inner
  /\ LET v     == Read(Top.for.kind, pos, Top.limit)
         below == Len(stack) - 1
     IN  IF ~v.ok \/ Full(stack[below].out, Top.for) THEN Raise
         ELSE Go([stack EXCEPT ![below].out = With(@, Top.for, v.value)], v.after)

ClosePacked ==
  /\ stack # <<>> /\ Top.of = None /\ ~Inner
  /\ Go(Front(stack), pos)

Enter(frames, out) ==
  LET n == length(key.after, Top.limit) IN
  IF n.ok /\ Depth_of(frames) <= decode.max_depth
  THEN Go(Append(frames, [of |-> field.type, for |-> field, limit |-> n.stop, out |-> out]), n.start)
  ELSE Raise

(* Mutant: a message that comes in pieces is its last piece. *)
OpenMessage_Afresh ==
  GoodKey /\ Nests /\ Enter(stack, Blank(field.type))

(* A single message seen before goes on where it was. *)
OpenMessage ==
  /\ GoodKey /\ Nests
  /\ Enter(stack, IF ~IsRepeated(field) /\ field.name \in DOMAIN Top.out
                  THEN Top.out[field.name] ELSE Blank(field.type))

OpenEntry ==
  /\ GoodKey /\ IsEntry
  /\ LET counted == [stack EXCEPT ![Len(stack)].out[field.name].took = @ + 1] IN
     IF Last(counted).out[field.name].took > MAX_ELEMENTS THEN Raise
     ELSE Enter(counted, Blank(field.type))

Done(kind) == Len(stack) > 1 /\ Top.of # None /\ ~Inner /\ Top.for.kind = kind

CloseMessage ==
  /\ Done("message")
  /\ Stored(Front(stack), Top.for, Top.out, Top.limit + 1)

(* An entry without a value takes its key out of the map. *)
CloseEntry ==
  /\ Done("map")
  /\ LET e     == Top.out
         below == Len(stack) - 1
         rest(of) == [k \in DOMAIN of \ {e.key} |-> of[k]]
     IN  Go([Front(stack) EXCEPT ![below].out[Top.for.name].of =
               IF "value" \in DOMAIN e THEN (e.key :> e.value) @@ @ ELSE rest(@)],
            Top.limit + 1)

SkipField ==
  /\ GoodKey /\ ~Wanted /\ ~IsPacked /\ ~Nests /\ ~IsEntry
  /\ LET n == skip(key.after, Top.limit, wire) IN
     IF n.ok THEN Go(stack, n.after) ELSE Raise

Return ==
  /\ Len(stack) = 1 /\ ~Inner
  /\ result' = Top.out /\ stack' = <<>>
  /\ UNCHANGED pos /\ StillReading

Reader ==
  \/ BadKey \/ ReadScalar \/ SkipField \/ Return
  \/ OpenPacked \/ ReadPacked \/ ClosePacked
  \/ OpenMessage \/ CloseMessage \/ OpenEntry \/ CloseEntry

-----------------------------------------------------------------------------
Init ==
  /\ RegistryInit
  /\ request \in Requests /\ files = None /\ owner = <<>>
  /\ loaded = {} /\ registered = {} /\ record = None
  /\ command = None /\ items = <<>> /\ padded = FALSE
  /\ bytes = None /\ pos = 0 /\ stack = <<>> /\ result = None

Build ==
  /\ \/ Generate
     \/ \E set \in Sets, side \in Sides : Load(set, side)
     \/ \E set \in Sets, side \in Sides, table \in {"classes", "routes", "caps", "replies"} :
          RegisterTable(set, side, table)
  /\ UNCHANGED readerVars

(* A script's first record, once everything is in. *)
Script ==
  /\ registered = Everything /\ record = None /\ command = None
  /\ \E at \in DOMAIN owner : \E name \in DOMAIN owner[at].emit :
       \E args \in request.args[owner[at].emit[name].topic] : Emit(at, name, args)
  /\ UNCHANGED readerVars

Next == Build \/ Script \/ Choose \/ WriteField \/ Send \/ Reader

Spec == Init /\ [][Next]_vars

-----------------------------------------------------------------------------
(* What a body means to a protobuf library.                                *)

(* The number of a kind that the bits stand for: the one congruent to them *)
(* in its range, or the one whose zigzag they are.                         *)
Means(kind, bits) ==
  LET range(n) == (-(2^(n - 1)))..(2^(n - 1) - 1)
      signed(n) == CHOOSE v \in range(n) : (v - bits) % 2^n = 0
      zigzag(n) == CHOOSE v \in range(n) : (IF v < 0 THEN -2 * v - 1 ELSE 2 * v) = bits % 2^n
  IN  CASE kind \in {"int32", "enum", "sfixed32"} -> signed(Word)
        [] kind \in {"int64", "sfixed64"} -> signed(2 * Word)
        [] kind = "sint32"  -> zigzag(Word)
        [] kind = "sint64"  -> zigzag(2 * Word)
        [] kind = "boolean" -> bits # 0
        [] kind \in {"uint64", "fixed64"} -> bits
        [] OTHER            -> bits % 2^Word

Raised == [ok |-> FALSE]

RECURSIVE Meaning(_, _, _, _)

(* One more field to a message that means m so far. *)
Adds(t, m, item, depth) ==
  LET f == IF item.n \in DOMAIN shape(t) THEN shape(t)[item.n] ELSE Unknown_field
      full(out) == IsRepeated(f) /\ Len(out[f.name]) = MAX_ELEMENTS
      put_in(out, v) == IF full(out) THEN Raised ELSE [ok |-> TRUE, out |-> With(out, f, v)]
      nested(out) == Meaning(f.type, item.sub, out, depth + 1)
  IN  IF item.w \in {3, 4, 6, 7} \/ item.n = 0 THEN Raised
      ELSE IF "bits" \in DOMAIN item /\ IsScalar(f) /\ item.w = WireOf(f.kind)
      THEN put_in(m.out, Means(f.kind, item.bits))
      ELSE IF "text" \in DOMAIN item /\ f.kind = "string"
      THEN put_in(m.out, item.text)
      ELSE IF "text" \in DOMAIN item /\ IsScalar(f) /\ IsRepeated(f)
      THEN Raised   \* Only a list that ends inside a value is written so.
      ELSE IF "pack" \in DOMAIN item /\ IsScalar(f) /\ IsRepeated(f)
      THEN FoldLeft(LAMBDA p, b : IF p.ok THEN put_in(p.out, Means(f.kind, b)) ELSE p, m, item.pack)
      ELSE IF "sub" \in DOMAIN item /\ f.kind = "message"
      THEN LET sub == nested(IF ~IsRepeated(f) /\ f.name \in DOMAIN m.out
                             THEN m.out[f.name] ELSE Blank(f.type))
           IN  IF sub.ok THEN put_in(m.out, sub.out) ELSE Raised
      ELSE IF "sub" \in DOMAIN item /\ f.kind = "map"
      THEN LET e     == nested(Blank(f.type))
               map   == m.out[f.name]
               value == IF "value" \in DOMAIN e.out THEN e.out.value
                        ELSE Blank((CHOOSE v \in Range(shape(f.type)) : v.name = "value").type)
           IN  IF map.took = MAX_ELEMENTS \/ ~e.ok THEN Raised
               ELSE [ok |-> TRUE,
                     out |-> (f.name :> [of |-> (e.out.key :> value) @@ map.of,
                                         took |-> map.took + 1]) @@ m.out]
      ELSE m

Meaning(t, fields, out, depth) ==
  IF depth > decode.max_depth THEN Raised
  ELSE FoldLeft(LAMBDA m, item : IF m.ok THEN Adds(t, m, item, depth) ELSE m,
                [ok |-> TRUE, out |-> out], fields)

(* The fields that came whole. *)
Whole ==
  LET ends == {n \in 0..Len(items) : Encoded(SubSeq(items, 1, n)) = bytes} IN
  IF ends = {} THEN None ELSE SubSeq(items, 1, Max(ends))

(* The reader's answer is what a protobuf library makes of the body, merged *)
(* messages, mixed lists, foreign fields, padded lengths and all; and it   *)
(* raises exactly on a body or a list that is cut inside a value, on one   *)
(* that passes either bound, and on a wire type nobody may skip.           *)
ReadsWhatWasSent ==
  result # None =>
    LET meant == IF Whole = None THEN Raised ELSE Meaning(command, Whole, Blank(command), 0) IN
    IF meant.ok THEN result = meant.out ELSE result = Failed

(* However lengths are nested, padded or cut, no message of the body is    *)
(* read past the end of the one around it.                                 *)
StaysInside ==
  /\ \A i \in DOMAIN stack :
       /\ stack[i].limit <= Len(bytes)
       /\ i > 1 => stack[i].limit <= stack[i - 1].limit
  /\ stack # <<>> => pos <= Top.limit + 1

(* The reader answers rightly, and from inside the body it was given.      *)
ReadsInside == ReadsWhatWasSent /\ StaysInside

(* The table a script gave, as the puts of it read back. *)
RECURSIVE Given(_, _)
Given(fields, puts) ==
  LET of(f)  == SelectSeq(puts, LAMBDA p : p.n = f.number)
      one(f, p) == IF f.kind = "message" THEN Given(Fields(f.type), p.v) ELSE p.v
      said   == {f \in ToSet(fields) : of(f) # <<>>}
      all(f) == [i \in DOMAIN of(f) |-> one(f, of(f)[i])]
  IN  [name \in {f.name : f \in said} |->
         LET f == CHOOSE g \in said : g.name = name
         IN  IF IsRepeated(f) THEN all(f) ELSE all(f)[1]]

(* Whatever fields a script leaves out, and however deep its lists and     *)
(* tables go, the puts its emitter makes say each value it gave, once, in  *)
(* order, in the message it was given for, and through a call the shim has. *)
EmitsWhatItWasGiven ==
  record # None =>
    LET nothing == {f.name : f \in {g \in ToSet(record.fields) : /\ IsRepeated(g)
                                                                 /\ g.name \in DOMAIN record.args
                                                                 /\ record.args[g.name] = <<>>}}
    IN  /\ Given(record.fields, record.puts)
             = [name \in DOMAIN record.args \ nothing |-> record.args[name]]
        /\ \A i \in DOMAIN record.puts : record.puts[i].call # None

(* The generated files agree with one another, and emit what they are given. *)
GeneratedIsRight == FilesAgree /\ EmitsWhatItWasGiven

=============================================================================
