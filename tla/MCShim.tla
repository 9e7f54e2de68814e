------------------------------- MODULE MCShim -------------------------------
(* The shim's calls with the arguments that take each of their ways.        *)
EXTENDS Shim

Position(n) == Number(n, "whole")
True  == Boolean(TRUE)
Other == <<"function">>
List(s)     == Table([k \in {Position(n) : n \in DOMAIN s} |-> s[k[2]]])
Fields(f)   == Table([k \in {Str(name) : name \in DOMAIN f} |-> f[k[2]]])
Without(v, k) == Table([x \in DOMAIN v[2] \ {k} |-> v[2][x]])

Reads    == List(<<Str("read"), Position(2)>>)
Token(c) == Fields([id |-> Str("map"), secret |-> Str("s"), caps |-> c])
Three    == List(<<Token(Reads), Token(Reads), Token(Reads)>>)

(* Every way a capability list, an entry and the list can be wrong. *)
CapLists == {Reads, True, List(<<Str("rule")>>), List(<<Number(1, "half")>>), List(<<Position(0)>>),
             Without(List(<<Str("read"), Str("read"), Str("read")>>), Position(2)),
             Table(List(<<Str("read"), Str("reload")>>)[2] @@ [k \in {Str("x")} |-> True])}
Entries  == {Token(c) : c \in CapLists}
            \cup {True, Without(Token(Reads), Str("id")), Without(Token(Reads), Str("caps")),
                  Fields([id |-> Str("map"), secret |-> Str(""), caps |-> Reads])}
TokenLists ==
  {List(<<Token(Reads), e>>) : e \in Entries}
  \cup {List(<<>>), True, Three, Without(Three, Position(2)), Without(Three, Position(1)),
        Table(Three[2] @@ [k \in {Str("x")} |-> True])}

TheCalls ==
  [configure |-> {<<Fields([port |-> Position(1), tokens |-> t])>> : t \in TokenLists}
                 \cup {<<Fields([port |-> Other, enabled |-> True])>>,
                       <<Fields([port |-> Three, enabled |-> True])>>,
                       <<Table([k \in {Position(1), Str("port")} |-> True])>>, <<True>>},
   schema  |-> {<<Str("set")>>, <<Position(1)>>},
   tick    |-> {<<Position(1)>>, <<Number(0, "nan")>>, <<Str("1")>>},
   epoch   |-> {<<>>, <<Nil>>, <<Position(0)>>, <<Position(1)>>, <<Number(1, "half")>>,
                <<Position(MaxEpoch + 1)>>, <<Str("1")>>},
   classes |-> {<<Fields([fire |-> Str("durable"), chat |-> Position(2)])>> \o h :
                  h \in {<<>>, <<Nil>>, <<Str("hash")>>, <<Str("hex")>>, <<Position(1)>>}},
   routes  |-> {<<Fields([fire |-> v, chat |-> Position(1)])>> :
                  v \in {Str("hook_driver"), Str("nowhere"), Position(3), True}}
               \cup {<<Table([k \in {Position(1), Str("fire")} |-> Str("sim_driver")])>>, <<>>},
   caps    |-> {<<Fields([fire |-> Str("reload")])>>, <<Fields([fire |-> Number(2, "half")])>>},
   replies |-> {<<List(<<Str("fire"), Str("chat")>>)>>, <<List(<<Str("fire"), Position(1)>>)>>,
                <<Without(List(<<Str("fire"), Str("chat")>>), Position(1))>>,
                <<Fields([fire |-> Str("chat")])>>},
   poll    |-> {<<Str("hook_driver")>>, <<Position(1)>>, <<Position(3)>>, <<>>}]
=============================================================================
