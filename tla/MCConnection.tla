---------------------------- MODULE MCConnection ----------------------------
(* Connection with one consumer, which may leave at any moment, while the  *)
(* listener may be dropped at any moment too.                              *)
EXTENDS Connection

CONSTANTS c1
=============================================================================
