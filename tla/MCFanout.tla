------------------------------ MODULE MCFanout ------------------------------
(* Fanout under the setups that bring its hazards about.                    *)
EXTENDS Fanout, TLC

CONSTANTS c1, c2

Boundary(s, n, t) == [class |-> "Lifecycle", need |-> n, slot |-> s, topic |-> t]
Sample(n, t)      == [class |-> "Lossy", need |-> n, slot |-> NoSlot, topic |-> t]

(* Two connections, tokens of two strengths, and boundaries of two slots,  *)
(* one of which the lesser token does not cover.                           *)
World ==
  [topics |-> {"mission"},
   kinds |-> {Boundary(0, 1, "mission"), Boundary(1, 2, "mission")},
   grants |-> {{1}, {1, 2}}, filters |-> {},
   retained |-> 2, commit |-> 2, lifecycle |-> 3, batch |-> 2,
   maxAttached |-> 2, maxCommits |-> 3, maxReplies |-> 0, maxPings |-> 0,
   maxFilters |-> 0]

(* One slot and the smallest ring that holds it, which fills.              *)
Behind ==
  [World EXCEPT !.kinds = {Boundary(0, 1, "mission")}, !.grants = {{1}},
                !.retained = 1, !.lifecycle = 2, !.maxCommits = 4]

(* Two topics a filter tells apart, and a boundary no filter withholds.     *)
Filtered ==
  [Behind EXCEPT !.topics = {"pos", "chat", "mission"},
                 !.kinds = {Sample(1, "pos"), Sample(1, "chat"), Boundary(0, 1, "mission")},
                 !.filters = {{"pos"}, {"chat"}},
                 !.maxAttached = 1, !.maxCommits = 3, !.maxFilters = 2]

(* Answers and replies, past a commit ring of one.                         *)
Replies ==
  [Behind EXCEPT !.commit = 1, !.lifecycle = 3, !.batch = 1,
                 !.maxCommits = 0, !.maxReplies = 2, !.maxPings = 1]

(* A number no mask has a bit for, which nothing registers today: the type *)
(* still promises to withhold such a record from everyone.                 *)
PastTheMask ==
  [Behind EXCEPT !.kinds = {Boundary(0, 1, "mission"), Boundary(0, Bits, "mission")},
                 !.grants = {{1, Bits}}, !.maxAttached = 1, !.maxCommits = 2]

AllSetups  == {World, Behind, Filtered, Replies, PastTheMask}

(* A command's reply while a record is being fanned out. *)
OneReply   == {[World EXCEPT !.maxAttached = 1, !.maxCommits = 1, !.maxReplies = 1]}

Both       == Permutations({c1, c2})

=============================================================================
