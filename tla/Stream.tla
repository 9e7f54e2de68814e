------------------------------- MODULE Stream -------------------------------
(***************************************************************************)
(* What one connection is promised of its outbound queue: records numbered *)
(* from one are handed on in the order of their numbers, and a number that *)
(* never comes is a record that was lost.                                  *)
(***************************************************************************)
EXTENDS Integers

VARIABLES
  seq,      (* The number the next record takes.                           *)
  live,     (* Records numbered and neither lost nor handed on.            *)
  lost,     (* Records the queue turned away.                              *)
  handed    (* Records handed on.                                          *)

vars == <<seq, live, lost, handed>>

Init == seq = 1 /\ live = {} /\ lost = {} /\ handed = {}

(* A record is numbered, and may find no room at once. *)
Number ==
  /\ seq' = seq + 1
  /\ \/ live' = live \cup {seq} /\ UNCHANGED lost
     \/ lost' = lost \cup {seq} /\ UNCHANGED live
  /\ UNCHANGED handed

(* A record is numbered and another gives way to it. *)
Replace ==
  /\ seq' = seq + 1
  /\ \E r \in live : live' = (live \ {r}) \cup {seq} /\ lost' = lost \cup {r}
  /\ UNCHANGED handed

(* The lowest number there is is handed on. *)
HandOn ==
  /\ \E r \in live :
       /\ \A s \in live : r <= s
       /\ live' = live \ {r} /\ handed' = handed \cup {r}
  /\ UNCHANGED <<seq, lost>>

Next == Number \/ Replace \/ HandOn

Spec == Init /\ [][Next]_vars

=============================================================================
