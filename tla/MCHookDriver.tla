----------------------------- MODULE MCHookDriver -----------------------------
(* The hook driver with the files that tell its properties apart.           *)
EXTENDS HookDriver

TheDefaults == [reads |-> TRUE, taken |-> TRUE, on |-> TRUE, cap |-> 2, route |-> "stock",
                memory |-> 2, ring |-> 2]

TheFiles ==
  {[TheDefaults EXCEPT !.on = FALSE, !.cap = 1, !.memory = 3],
   (* Deep enough for the ring it names, and not for the one allocated. *)
   [TheDefaults EXCEPT !.route = "modified", !.ring = 1, !.memory = 1],
   [TheDefaults EXCEPT !.on = FALSE, !.taken = FALSE],
   [TheDefaults EXCEPT !.on = FALSE, !.cap = 0],
   [TheDefaults EXCEPT !.on = FALSE, !.reads = FALSE]}
==============================================================================
