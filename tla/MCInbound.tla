------------------------------ MODULE MCInbound ------------------------------
(* Inbound under the setups that bring its hazards about.                   *)
EXTENDS Inbound, TLC

CONSTANTS c1, c2

Quiet == [rate |-> 2, total |-> 3, rejected |-> 1, busy |-> 1, filter |-> 1,
          frame |-> 2, url |-> 2, interval |-> 1, threshold |-> 2]

(* The pieces of a frame's body: a field, a type URL of a length, a        *)
(* payload, a group's tags, and a field whose bytes run past the end.      *)
Piece(field, wire) == [field |-> field, wire |-> wire, length |-> 1, cut |-> FALSE, inner |-> <<>>]
Url(length)        == [Piece(TYPE_URL_FIELD, LEN) EXCEPT !.length = length]
Payload(inner)     == [Piece(PAYLOAD_FIELD, LEN) EXCEPT !.inner = inner]
Open(field)        == Piece(field, START_GROUP)
Close(field)       == Piece(field, END_GROUP)
Cut                == [Piece(9, LEN) EXCEPT !.cut = TRUE]

Sent(kind, body) == [kind |-> kind, decodes |-> TRUE, frame |-> 1, body |-> body]
Message(kind)    == Sent(kind, <<Payload(<<Url(1)>>)>>)
Record(t)      == Message("record") @@ [topic |-> t]
Filter(mode, topics) == Message("filter") @@ [mode |-> mode, topics |-> topics]
Switch(to)     == Message("enabled") @@ [enabled |-> to]
Broken(m)      == [m EXCEPT !.decodes = FALSE]
Each(n, m)     == c1 :> n @@ c2 :> m
Table(map, rows) == [map |-> map, rows |-> rows]

Mission == {Table("routes", {<<"fire", "sim_driver">>, <<"chat", "hook_driver">>}),
            Table("caps", {<<"fire", "command">>, <<"chat", "read">>})}

(* Records for both targets from two connections of two strengths, while   *)
(* the tables come in and the logic thread polls.                          *)
Lanes ==
  [session |-> TRUE, tokens |-> (c1 :> {"read", "command"} @@ c2 :> {"read"}),
   tables |-> Mission, messages |-> {Record("fire"), Record("chat")},
   sends |-> Each(2, 2), limits |-> <<[Quiet EXCEPT !.total = 4]>>, maxClock |-> 0,
   capacity |-> [t \in Targets |-> IF t = "sim_driver" THEN 1 ELSE 2], opens |-> 0, ticks |-> FALSE]

(* Records for no one, and the caps of two configurations over more than   *)
(* a second.                                                               *)
Rates ==
  [Lanes EXCEPT !.messages = {Record("fire")}, !.tables = {},
                !.sends = Each(3, 2), !.maxClock = 3,
                !.limits = <<[Quiet EXCEPT !.rate = 1, !.total = 2],
                             [Quiet EXCEPT !.rate = 1, !.total = 1]>>]

(* A session yet to be opened, and every other thing one may ask.          *)
Answers ==
  [Lanes EXCEPT !.session = FALSE, !.sends = Each(3, 3),
     !.tokens = (c1 :> {"read", "reload"} @@ c2 :> {"read"}),
     !.limits = <<Quiet, [Quiet EXCEPT !.frame = 1]>>,
     !.tables = {Table("classes", {<<"chat", "durable">>}), Table("caps", {<<"chat", "read">>})},
     !.messages = {Message("auth") @@ [good |-> TRUE], Message("auth") @@ [good |-> FALSE],
                   Sent("garbage", <<Cut>>), Message("schema"), Message("ack"), Message("topics"),
                   Broken(Message("ack")), Switch(FALSE), Switch(TRUE),
                   [Switch(TRUE) EXCEPT !.frame = 2]}]

(* Every table a mission, a reload or a careless script may register, while *)
(* records are opened and filters asked for.                                *)
Tables ==
  [Lanes EXCEPT !.sends = Each(1, 1), !.opens = 1,
     !.tables = {Table("classes", {<<"fire", "command">>, <<"chat", "durable">>}),
                 Table("classes", {<<"chat", "lossy">>, <<"world", "lifecycle">>}),
                 Table("classes", {<<"world", "lifecycle">>}),
                 Table("classes", {<<"world", "lifecycle">>, <<"fire", "lifecycle">>}),
                 Table("classes", {<<"fire", "durable">>, <<"fire", "lossy">>}),
                 Table("caps", {<<"fire", "command">>, <<"chat", "read">>}),
                 Table("caps", {<<"world", "read">>, <<"chat", "reload">>}),
                 Table("routes", {<<"fire", "sim_driver">>, <<"fire", "hook_driver">>}),
                 Table("routes", {<<"fire", "sim_driver">>}),
                 Table("replies", {"chat"})},
     !.messages = {Filter("all", {}), Filter("all", {"chat"}), Filter("only", {"chat"}),
                   Filter("only", {}), Filter("only", {"chat", "fire"}), Filter("none", {}),
                   Filter("unheard-of", {}), Broken(Filter("only", {})), Message("topics")}]

(* Pings beside ticks, while the heartbeat's keys are moved. *)
Beats ==
  [Lanes EXCEPT !.messages = {Message("ping")}, !.tables = {}, !.ticks = TRUE,
     !.sends = Each(2, 0), !.maxClock = 4,
     !.limits = <<[Quiet EXCEPT !.interval = 2, !.threshold = 3], Quiet>>]

(* Frames of up to three pieces, and payloads of as many, laid out in every *)
(* way: with groups, broken off, of no payload or several.                 *)
UpTo3(pieces) == UNION {[1..n -> pieces] : n \in 0..3}

Frames ==
  [Beats EXCEPT !.sends = Each(1, 0), !.maxClock = 0, !.ticks = FALSE,
     !.messages = {Sent("ping", body) : body \in
       UpTo3({Payload(<<Url(1)>>), Payload(<<Url(3)>>), Open(9), Close(9), Close(8), Piece(9, 0), Cut})
         \cup {<<Payload(inner)>> : inner \in
                 UpTo3({Url(1), Url(3), Open(2), Open(9), Close(2), Close(9), Piece(2, LEN), Piece(9, 6)})}}]

AllSetups == {Lanes, Rates, Answers, Tables, Beats, Frames}

=============================================================================
