---------------------------- MODULE MCConfigure ----------------------------
(* Configure with three consumers and the tables a file edited between     *)
(* calls gives: another secret, other sizes, an address in use, rules that *)
(* do not hold, a value that is none, a key of someone else's.             *)
EXTENDS Configure, TLC

CONSTANTS c1, c2, c3, t1, t2, h1, h2

MCDefault ==
  [enabled |-> TRUE, tokens |-> {}, max_unauthenticated_connections |-> 1,
   max_connections |-> 2, max_lifecycle_topics |-> 2,
   bind_address |-> "free", ring_out_lifecycle_records |-> 4,
   ring_in_hook_driver_records |-> 2]

Shrunk == "max_lifecycle_topics" :> 1 @@ "tokens" :> Conns
Small  == Shrunk @@ "ring_out_lifecycle_records" :> 2
Grown  == "max_lifecycle_topics" :> 3 @@ "bind_address" :> "taken"
Off    == "enabled" :> FALSE @@ "unheard_of" :> 1
Even   == "ring_out_lifecycle_records" :> 2
Wide   == "max_connections" :> 3 @@ "max_unauthenticated_connections" :> 2
            @@ "ring_in_hook_driver_records" :> 1 @@ "tokens" :> Conns
Zero   == "max_connections" :> 0

(* Each table with the hash of either generated file, with none, and one   *)
(* with a value that is no hash.                                           *)
Hashed(t)       == {t} \cup {"schema_sha256" :> h @@ t : h \in Hashes}
Malformed       == "schema_sha256" :> "not 64 digits" @@ Wide
Carrying(tables) == UNION {Hashed(t) : t \in tables} \cup {Malformed}

SomeTables    == Carrying({Shrunk, Grown, Even, Wide, Zero, Off})
TablesOfRules == Carrying({Small, Off})

(* Sessions and registrations meet nowhere but in the configuration, so    *)
(* more than one consumer is there only while nothing is registered.       *)
Apart ==
  \/ Cardinality({c \in Conns : rPc[c] # "off"}) <= 1
  \/ slots = {} /\ schema = None /\ expected = None /\ hash = None

Alike         == Permutations(Conns) \cup Permutations(Topics)
=============================================================================
