------------------------------ MODULE MCClient ------------------------------
(* Client under the situations that bring its hazards about.                *)
EXTENDS Client, TLC

(* Two runs of record onto one file, stopped anywhere, then the capture    *)
(* served to a tail.                                                       *)
Captures ==
  [runs |-> <<"record", "record", "replay", "tail">>, strange |-> {"garbage"},
   frames |-> 3, kills |-> TRUE, installs |-> FALSE, hands |-> FALSE]

(* tail against a bridge that falls behind, and one that sends anything. *)
Watch ==
  [Captures EXCEPT !.runs = <<"tail">>, !.frames = 4,
                   !.strange = {"garbage", "too-long", "bad-answer"}]

(* Each question asked of a bridge, and of a peer that is none. *)
Ask(v, odd) ==
  [runs |-> <<v>>, strange |-> odd \cup {"garbage", "drip"}, frames |-> 3,
   kills |-> FALSE, installs |-> FALSE, hands |-> v = "schema"]

Asks == {Ask("ping", {"bad-pong", "too-long"}), Ask("schema", {"other-set", "bad-set", "bad-answer"}),
         Ask("send", {"bad-answer"})}

(* doctor, over an install that changes between DCS's starts. *)
Doctors == [runs |-> <<"doctor">>, strange |-> {}, frames |-> 2,
            kills |-> FALSE, installs |-> TRUE, hands |-> FALSE]

AllSetups == {Captures, Watch, Doctors} \cup Asks

(* A build from before interfaces were named, and a later one. *)
TwoBuilds == 1 :> 0 @@ 2 :> 1

=============================================================================
