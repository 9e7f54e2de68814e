------------------------------ MODULE MCDecoder ------------------------------
(* Requests, bodies and arguments for Generator and Decoder.               *)
EXTENDS Decoder

Field(number_, name, kind, type, label) ==
  [number |-> number_, name |-> name, kind |-> kind, type |-> type, label |-> label]
One(n, name, kind)  == Field(n, name, kind, None, "single")
List(n, name, kind) == Field(n, name, kind, None, "repeated")

Acme == <<"acme">>
Sim  == <<"dcsbridge", "sim">>

Record_(package, name, class, cap, target, reply, fields) ==
  [topic |-> <<package, name>>, class |-> class, cap |-> cap, target |-> target,
   reply |-> reply, fields |-> fields]
Type_(name, fields) == Record_(Acme, name, "none", "none", "none", None, fields)

TheAck == <<Broker, "CommandAck">>
AckMessage == Record_(Broker, "CommandAck", "durable", "none", "none", None, <<One(1, "key", "string")>>)
Point  == Type_("Point", <<One(1, "x", "int32"), List(2, "tags", "uint32")>>)
PointT == Field(2, "at", "message", Point.topic, "single")

Chat     == Record_(Sim, "Chat", "durable", "read", "hook_driver", None, <<One(1, "text", "string")>>)
World    == Record_(Acme, "World", "lifecycle", "read", "sim_driver", None, <<>>)
Get      == Record_(Acme, "Get", "command", "command", "none", <<<<>>, "Position">>, <<One(1, "id", "uint64")>>)
Position == Record_(Acme, "Position", "durable", "read", "hook_driver", None, <<One(1, "id", "uint64"), PointT>>)
Impact   == Record_(Acme, "Impact", "lossy", "read", "sim_driver", None,
              <<List(1, "hits", "int32"), Field(2, "craters", "message", Point.topic, "repeated"),
                Field(3, "fused", "boolean", None, "optional")>>)

Node == Type_("Node", <<Field(1, "children", "message", <<Acme, "Node">>, "repeated"), One(2, "v", "int32")>>)
Tag  == Type_("TagsEntry", <<One(1, "key", "uint32"), One(2, "value", "int32")>>)
Spot == Type_("SpotsEntry", <<One(1, "key", "uint32"), Field(2, "value", "message", Point.topic, "single")>>)
Path == Record_(Acme, "Path", "command", "command", "hook_driver", None,
          <<One(1, "count", "int32"), List(2, "ids", "uint32"),
            Field(3, "tree", "message", Node.topic, "single"),
            Field(4, "tags", "map", Tag.topic, "single"),
            Field(5, "limit", "boolean", None, "optional"), One(6, "offset", "int64"),
            One(7, "dx", "sint32"), One(8, "mask", "fixed32"), One(9, "name", "string"),
            Field(10, "pick", "group", None, "optional"), One(11, "dy", "sint64"),
            Field(12, "spots", "map", Spot.topic, "single"),
            One(13, "serial", "fixed64"), One(14, "drift", "sfixed64")>>)

Request(packages, messages) ==
  [packages |-> packages, messages |-> messages \cup {AckMessage, Point}, broker |-> TRUE,
   args |-> [t \in {m.topic : m \in messages \cup {AckMessage}} |->
      CASE t = Impact.topic   -> {<<>>, [hits |-> <<>>, fused |-> FALSE],
                                  [hits |-> <<4, 0>>, craters |-> <<[x |-> 1], [tags |-> <<2, 3>>], <<>>>>]}
        [] t = Position.topic -> {[id |-> 7, at |-> [x |-> 0, tags |-> <<5>>]]}
        [] t = Chat.topic     -> {[text |-> <<1, 2>>]}
        [] OTHER              -> {<<>>}]]

Reads    == Request({Acme}, {Path, Node, Tag, Spot})
SomeRequests ==
  {Reads,
   Request({Acme, Sim}, {Chat, World, Get, Position, Impact}),
   Request({Acme, Broker}, {Get, Position}),
   [Request({Acme}, {Get, Position}) EXCEPT !.broker = FALSE],
   \* refused: no capability, a shared name, a reply that is a field type,
   \* a kind no put writes behind a field type
   Request({Acme}, {[World EXCEPT !.cap = "none"]}),
   Request({Acme, Sim}, {World, [World EXCEPT !.topic = <<Sim, "World">>]}),
   Request({Acme}, {[Get EXCEPT !.reply = <<<<>>, "Point">>]}),
   Request({Acme}, {Tag, [Impact EXCEPT !.fields = <<Field(1, "tag", "message", <<Acme, "Deep">>, "single")>>],
                    Type_("Deep", <<List(1, "n", "sint32")>>)})}

AllTopics == UNION {{m.topic : m \in r.messages} : r \in SomeRequests} \ {TheAck}

Bits(n, b)   == [n |-> n, w |-> 0, bits |-> b]
Fixed(n, b)  == [n |-> n, w |-> 5, bits |-> b]
Wide(n, b)   == [n |-> n, w |-> 1, bits |-> b]
Text(n, b)   == [n |-> n, w |-> 2, text |-> b]
Packed(n, p) == [n |-> n, w |-> 2, pack |-> p]
Sub(n, s)    == [n |-> n, w |-> 2, sub |-> s]
Grp(n, w_)   == [n |-> n, w |-> w_, none |-> 0]

Leaf == Sub(1, <<Bits(2, 1)>>)
PathItems ==
  {Bits(1, 2^16 - 3), Bits(1, 200), Bits(2, 7), Packed(2, <<1, 300>>), Packed(2, <<>>),
   Sub(3, <<Bits(2, 4), Leaf>>), Sub(3, <<Leaf, Sub(1, <<Leaf>>)>>), Sub(3, <<Sub(1, <<Sub(1, <<Leaf>>)>>)>>),
   Sub(4, <<Bits(1, 1), Bits(2, 9)>>), Sub(4, <<Bits(2, 2^16 - 1)>>), Sub(4, <<Bits(1, 1)>>),
   Bits(5, 0), Bits(6, 2^16 - 1), Bits(7, 5), Bits(11, 300), Fixed(8, 200), Text(9, <<1, 2>>),
   Bits(20, 300), Text(20, <<9>>), Fixed(20, 3), Text(1, <<1>>), Text(2, <<1, 9>>), Bits(9, 3), Grp(10, 3), Grp(20, 6),
   Sub(12, <<Bits(1, 3), Sub(2, <<Bits(1, 6)>>)>>), Wide(13, 2^15 + 5), Wide(14, 2^15 + 5), Wide(20, 3)}

SomeItems == [t \in {Path.topic, Get.topic} |->
  IF t = Path.topic THEN PathItems ELSE {Bits(1, 2^16 - 2), Bits(2, 1)}]

(* A map whose entry leaves its message out, as one that is all zero may.  *)
OneRequest == {Reads}
EntryItems == [t \in {Path.topic} |-> {Sub(12, <<Bits(1, 3)>>)}]

=============================================================================
