------------------------------ MODULE Envelope ------------------------------
(***************************************************************************)
(* What crates/broker/src/inbound.rs reads out of a frame's body: the walk *)
(* that holds the type URL under its cap before the decoder allocates for  *)
(* one, beside the decoder.                                                *)
(*                                                                         *)
(* A body is a sequence of pieces, as the bytes name them one after the    *)
(* other: [field, wire, length, cut, inner].  A piece is cut where its     *)
(* varint is too long or its bytes run past the end, and inner is what its *)
(* bytes are, read as a message's.                                         *)
(***************************************************************************)
EXTENDS Integers, Sequences, FiniteSets

VARINT == 0
LEN == 2
START_GROUP == 3
END_GROUP == 4

PAYLOAD_FIELD  == 4
TYPE_URL_FIELD == 1

(* A body is a sequence of pieces, and so is what is inside each. *)
IsBody(body)  == Len(body) \in Nat /\ DOMAIN body = 1..Len(body)
IsFrame(body) == IsBody(body) /\ \A i \in DOMAIN body : IsBody(body[i].inner)

(* How many groups are open where piece i begins. *)
Depth(body, i) ==
  Cardinality({j \in 1..(i - 1) : body[j].wire = START_GROUP})
    - Cardinality({j \in 1..(i - 1) : body[j].wire = END_GROUP})

IsGroupTag(piece) == piece.wire \in {START_GROUP, END_GROUP}

-----------------------------------------------------------------------------
(* The walk: check_type_url over Fields. *)

Readable(piece) == ~piece.cut /\ piece.wire \in 0..5

(* An end with no start stops the walk, as a piece it cannot read does. *)
StepsOver(body, i) ==
  Readable(body[i]) /\ (body[i].wire = END_GROUP => Depth(body, i) > 0)

(* Fields::next gives the pieces outside any group, up to where it stops.  *)
Fields(body) ==
  {body[i] : i \in {i \in DOMAIN body :
                      /\ \A j \in 1..i : StepsOver(body, j)
                      /\ Depth(body, i) = 0 /\ ~IsGroupTag(body[i])}}

Spans(pieces, field) == {p \in pieces : p.field = field /\ p.wire = LEN}

check_type_url(body, cap) ==
  \A payload \in Spans(Fields(body), PAYLOAD_FIELD) :
    \A url \in Spans(Fields(payload.inner), TYPE_URL_FIELD) : url.length <= cap

-----------------------------------------------------------------------------
(* The decoder: a group ends with the field it began with, whole ones are  *)
(* skipped, and a field of the message has its own wire type.              *)

EndsAt(body, i, j) ==
  /\ i < j /\ body[i].wire = START_GROUP /\ body[j].wire = END_GROUP
  /\ body[i].field = body[j].field
  /\ Depth(body, j) = Depth(body, i) + 1
  /\ \A k \in (i + 1)..j : Depth(body, k) > Depth(body, i)

IsGrouped(body, i) == \E s, e \in DOMAIN body : EndsAt(body, s, e) /\ i \in s..e

Outside(body) == {body[i] : i \in {i \in DOMAIN body : ~IsGrouped(body, i)}}

(* types: [known fields -> their wire type]. *)
IsMessage(body, types) ==
  /\ \A i \in DOMAIN body : Readable(body[i]) /\ body[i].field \in 1..(2^29 - 1)
  /\ \A i \in DOMAIN body :
       /\ body[i].wire = START_GROUP => \E e \in DOMAIN body : EndsAt(body, i, e)
       /\ body[i].wire = END_GROUP   => \E s \in DOMAIN body : EndsAt(body, s, i)
  /\ \A p \in Outside(body) : p.field \in DOMAIN types => p.wire = types[p.field]
  /\ \A i \in DOMAIN body : IsGroupTag(body[i]) /\ body[i].field \in DOMAIN types =>
       \E s, e \in DOMAIN body : s < i /\ i < e /\ EndsAt(body, s, e)

EnvelopeTypes == [f \in {1, PAYLOAD_FIELD} |-> IF f = 1 THEN VARINT ELSE LEN]
AnyTypes      == [f \in {TYPE_URL_FIELD, 2} |-> LEN]

Payloads(body) == {p \in Outside(body) : p.field = PAYLOAD_FIELD}

Decodes(body) ==
  IsMessage(body, EnvelopeTypes) /\ \A p \in Payloads(body) : IsMessage(p.inner, AnyTypes)

(* The type URLs read of a frame that decodes; of several the last is kept. *)
TypeUrls(body) ==
  UNION {{p \in Outside(payload.inner) : p.field = TYPE_URL_FIELD} : payload \in Payloads(body)}

=============================================================================
