--------------------------- MODULE ConfigureProofs ---------------------------
(***************************************************************************)
(* For any set of consumers and any tables, what Configure has in force is *)
(* what was allocated, obeys its rules, and loses no writer's part.        *)
(***************************************************************************)
EXTENDS Configure, FiniteSetTheorems, TLAPS

(* The initial configuration is the default one, and nothing is bound.     *)
LEMMA ConfigureInit == Init => ConfigureInv
<1> SUFFICES ASSUME Init PROVE ConfigureInv
  OBVIOUS
<1> USE DefaultAssumption, ConnsAssumption DEF Init, None
<1>1. Sessions = {}
  BY DEF Sessions
<1>2. LocalsInv
  <2>1. TypeOK
    <3>1. \A c \in Conns : rPc[c] = "off" /\ lock # c
      OBVIOUS
    <3>2. pending \subseteq Restart /\ slots \subseteq Topics
      OBVIOUS
    <3>3. lock \in Conns \cup {"logic", None} /\ (lock = "logic" <=> lPc # "idle")
      OBVIOUS
    <3>4. DOMAIN config = Live \cup Restart /\ {expected, schema} \subseteq Hashes \cup {None}
      OBVIOUS
    <3>5. {lifecycle_cap, inbound, authenticated, mismatches} \subseteq Nat
      OBVIOUS
    <3>6. /\ unknown \in Nat /\ configured \in BOOLEAN
          /\ lPc \in {"idle", "merge", "bind", "swap"}
      OBVIOUS
    <3>7. \A c \in Conns : /\ rPc[c] \in {"off", "connected", "counting", "open", "setting", "leaving"}
                           /\ lock = c <=> rPc[c] = "setting"
      BY <3>1
    <3>. QED
      BY <3>2, <3>3, <3>4, <3>5, <3>6, <3>7 DEF TypeOK
  <2>2. DOMAIN rPc = Conns /\ DOMAIN copy = Conns /\ DOMAIN seen = Conns
    OBVIOUS
  <2>3. told = [enabled |-> config.enabled, tokens |-> config.tokens]
    OBVIOUS
  <2>. QED
    BY <2>1, <2>2, <2>3 DEF LocalsInv
<1>3. CallInv
  BY DEF CallInv
<1>4. AllocatedInv
  BY FS_EmptySet DEF AllocatedInv
<1>5. SessionsInv
  BY <1>1, FS_EmptySet DEF SessionsInv, SessionsAreCounted, Counts, Live, Restart
<1>. QED
  BY <1>2, <1>3, <1>4, <1>5 DEF ConfigureInv

(* Without its hash a table is a table still, and finite. *)
LEMMA RestIsATable ==
  ASSUME NEW t \in Tables
  PROVE  /\ IsFiniteSet(DOMAIN Rest(t))
         /\ \A k \in DOMAIN Rest(t) \cap Counts : Rest(t)[k] \in Int
<1>1. IsFiniteSet(DOMAIN t \ {SCHEMA_SHA256})
  BY TablesAssumption, FS_Difference
<1>. QED
  BY <1>1, TablesAssumption DEF Rest

(* What a table is merged into passes every count's check, and takes a     *)
(* later call's restart-tier keys from the configuration in force.         *)
LEMMA MergeIsChecked ==
  ASSUME LocalsInv, table \in {Rest(t) : t \in Tables}, IsChecked(table)
  PROVE  /\ DOMAIN Merge(table) = Live \cup Restart
         /\ \A k \in Counts : Merge(table)[k] \in Nat \ {0}
         /\ configured => \A k \in Restart : Merge(table)[k] = config[k]
<1>1. \A k \in Live \cup Restart :
        Merge(table)[k] = IF k \in Live \/ ~configured THEN Given(table, k, Default) ELSE config[k]
  BY DEF Merge
<1>2. DOMAIN Merge(table) = Live \cup Restart
  BY DEF Merge
<1>3. ASSUME NEW k \in Counts PROVE Merge(table)[k] \in Nat \ {0}
  <2>1. k \in Live \cup Restart
    BY DEF Counts
  <2>2. Given(table, k, Default) \in Nat \ {0}
    BY DefaultAssumption, RestIsATable DEF Given, IsChecked
  <2>3. config[k] \in Nat \ {0}
    BY DEF LocalsInv
  <2>. QED
    BY <1>1, <2>1, <2>2, <2>3
<1>4. ASSUME configured, NEW k \in Restart PROVE Merge(table)[k] = config[k]
  BY <1>1, <1>4 DEF Live, Restart
<1>. QED
  BY <1>2, <1>3, <1>4

(* A call that starts has found what is in force. *)
LEMMA LockKeeps ==
  ASSUME ConfigureInv, NEW t \in Tables, Lock(t)
  PROVE  ConfigureInv'
<1> USE DEF Lock, force, once, registry, readers
<1>1. TypeOK'
  BY ConnsAssumption DEF ConfigureInv, LocalsInv, TypeOK, None
<1>2. hash' \in Hashes \cup {None}
  BY DEF Splits, Carried, sha256_from_hex
<1>3. LocalsInv'
  BY <1>1, <1>2 DEF ConfigureInv, LocalsInv
<1>4. CallInv'
  BY DEF ConfigureInv, CallInv
<1>5. AllocatedInv'
  BY DEF ConfigureInv, AllocatedInv, ObeysRules
<1>6. SessionsInv'
  BY DEF ConfigureInv, SessionsInv, Sessions, SessionsAreCounted
<1>. QED
  BY <1>3, <1>4, <1>5, <1>6 DEF ConfigureInv

(* A call that is refused leaves all but the frozen cap and the inbound    *)
(* rings as they were.                                                     *)
LEMMA RefuseKeeps ==
  ASSUME ConfigureInv, lPc # "idle", Refuse, UNCHANGED once
  PROVE  ConfigureInv'
<1> USE DEF Refuse, Return, force, once, registry, readers
<1>1. TypeOK'
  BY ConnsAssumption DEF ConfigureInv, LocalsInv, TypeOK, None
<1>2. LocalsInv'
  BY <1>1 DEF ConfigureInv, LocalsInv
<1>3. CallInv'
  BY DEF CallInv
<1>4. AllocatedInv'
  BY DEF ConfigureInv, AllocatedInv, ObeysRules
<1>5. SessionsInv'
  BY DEF ConfigureInv, SessionsInv, Sessions, SessionsAreCounted
<1>. QED
  BY <1>2, <1>3, <1>4, <1>5 DEF ConfigureInv

(* A later call is to swap in its live keys, and the restart-tier ones as  *)
(* they are.                                                               *)
LEMMA MergeLaterKeeps ==
  ASSUME ConfigureInv, MergeLater
  PROVE  ConfigureInv'
<1> USE DEF MergeLater, force, once, registry, readers
<1>1. TypeOK'
  BY DEF ConfigureInv, LocalsInv, TypeOK
<1>2. LocalsInv'
  BY <1>1 DEF ConfigureInv, LocalsInv
<1>3. CallInv'
  <2>1. table \in {Rest(t) : t \in Tables} /\ LocalsInv
    BY DEF ConfigureInv, LocalsInv
  <2>2. /\ DOMAIN next' = Live \cup Restart
        /\ \A k \in Counts : next'[k] \in Nat \ {0}
        /\ \A k \in Restart : next'[k] = config[k]
    BY <2>1, MergeIsChecked
  <2>3. ObeysRules(next')
    OBVIOUS
  <2>. QED
    BY <2>2, <2>3 DEF CallInv, ObeysRules
<1>4. AllocatedInv'
  BY DEF ConfigureInv, AllocatedInv, ObeysRules
<1>5. SessionsInv'
  BY DEF ConfigureInv, SessionsInv, Sessions, SessionsAreCounted
<1>. QED
  BY <1>2, <1>3, <1>4, <1>5 DEF ConfigureInv

(* The first call freezes the cap, or takes the frozen one for its own. *)
LEMMA MergeFirstKeeps ==
  ASSUME ConfigureInv, MergeFirst
  PROVE  ConfigureInv'
<1> USE DEF MergeFirst, force, once, registry, readers
<1> DEFINE merged == Merge(table)
<1>1. /\ DOMAIN merged = Live \cup Restart
      /\ \A k \in Counts : merged[k] \in Nat \ {0}
  BY MergeIsChecked DEF ConfigureInv, LocalsInv
<1>2. /\ lifecycle_cap \in Nat
      /\ lifecycle_cap' = IF lifecycle_cap = 0 THEN merged.max_lifecycle_topics ELSE lifecycle_cap
  BY DEF ConfigureInv, LocalsInv, TypeOK, Frozen
<1>3. lifecycle_cap' \in Nat \ {0}
  BY <1>1, <1>2 DEF Counts, Live, Restart
<1>4. next' = [merged EXCEPT !.max_lifecycle_topics = lifecycle_cap']
  OBVIOUS
<1>5. /\ DOMAIN next' = Live \cup Restart
      /\ next'.max_lifecycle_topics = lifecycle_cap'
      /\ \A k \in (Live \cup Restart) \ {"max_lifecycle_topics"} : next'[k] = merged[k]
  BY <1>1, <1>4 DEF Live, Restart
<1>6. \A k \in Counts : next'[k] \in Nat \ {0}
  BY <1>1, <1>3, <1>5 DEF Counts
<1>7. inbound' \in Nat
  BY <1>6 DEF ConfigureInv, LocalsInv, TypeOK, Counts, Live, Restart
<1>8. ObeysRules(next') \/ froze'
  <2>1. CASE lifecycle_cap' = merged.max_lifecycle_topics
    BY <1>1, <1>5, <2>1 DEF ObeysRules, Live, Restart
  <2>2. CASE lifecycle_cap' # merged.max_lifecycle_topics
    BY <2>2
  <2>. QED
    BY <2>1, <2>2
<1>. HIDE DEF merged
<1>9. TypeOK'
  BY <1>3, <1>7 DEF ConfigureInv, LocalsInv, TypeOK
<1>10. LocalsInv'
  BY <1>9 DEF ConfigureInv, LocalsInv
<1>11. CallInv'
  <2>1. entered' = force'
    BY DEF ConfigureInv, CallInv
  <2>2. ObeysRules(next)' \/ froze'
    BY <1>8 DEF ObeysRules
  <2>. QED
    BY <1>5, <1>6, <2>1, <2>2 DEF CallInv
<1>12. AllocatedInv'
  BY <1>2, <1>3, FS_EmptySet DEF ConfigureInv, AllocatedInv
<1>13. SessionsInv'
  BY DEF ConfigureInv, SessionsInv, Sessions, SessionsAreCounted
<1>. QED
  BY <1>10, <1>11, <1>12, <1>13 DEF ConfigureInv

(* The first call allocates what it is to swap in. *)
LEMMA BindKeeps ==
  ASSUME ConfigureInv, Bind
  PROVE  ConfigureInv'
<1> USE DEF Bind, once, registry, readers
<1>1. TypeOK'
  BY DEF ConfigureInv, LocalsInv, TypeOK
<1>2. LocalsInv'
  BY <1>1 DEF ConfigureInv, LocalsInv
<1>3. ~configured
  BY DEF ConfigureInv, CallInv
<1>4. CallInv'
  BY <1>3 DEF ConfigureInv, CallInv, ObeysRules
<1>5. AllocatedInv'
  BY <1>3 DEF ConfigureInv, AllocatedInv
<1>6. SessionsInv'
  BY DEF ConfigureInv, SessionsInv, Sessions, SessionsAreCounted
<1>. QED
  BY <1>2, <1>4, <1>5, <1>6 DEF ConfigureInv

(* A swap puts in force what the call allocated or left alone, and no      *)
(* reader holds a copy of what it replaces.                                *)
LEMMA SwapKeeps ==
  ASSUME ConfigureInv, Swap
  PROVE  ConfigureInv'
<1> USE DEF Swap, Return, once, registry, readers
<1>1. /\ DOMAIN next = Live \cup Restart
      /\ \A k \in Counts : next[k] \in Nat \ {0}
      /\ ObeysRules(next) \/ (~configured /\ froze)
      /\ ~configured => next.max_lifecycle_topics = lifecycle_cap
      /\ configured => \A k \in Restart : next[k] = config[k]
      /\ ~configured =>
           outbound = [slots |-> lifecycle_cap, ring |-> next.ring_out_lifecycle_records]
  BY DEF ConfigureInv, CallInv
<1>2. table \in {Rest(t) : t \in Tables} /\ lock = "logic"
  BY DEF ConfigureInv, LocalsInv, TypeOK
<1>3. unknown' \in Nat
  <2>1. IsFiniteSet(DOMAIN table \ (Live \cup Restart))
    BY <1>2, RestIsATable, FS_Difference
  <2>. QED
    BY <2>1, FS_CardinalityType
<1>4. pending' \subseteq Restart
  BY DEF Waiting, Restart
<1>5. TypeOK'
  BY <1>1, <1>2, <1>3, <1>4, ConnsAssumption DEF ConfigureInv, LocalsInv, TypeOK, None
<1>6. LocalsInv'
  BY <1>1, <1>5 DEF ConfigureInv, LocalsInv
<1>7. CallInv'
  BY DEF CallInv
<1>8. AllocatedInv'
  <2>1. next.max_lifecycle_topics \in Nat \ {0}
    BY <1>1 DEF Counts, Live, Restart
  <2>2. /\ lifecycle_cap # 0 /\ next.max_lifecycle_topics = lifecycle_cap
        /\ outbound = [slots |-> lifecycle_cap, ring |-> next.ring_out_lifecycle_records]
    BY <1>1, <2>1 DEF ConfigureInv, AllocatedInv, Restart
  <2>3. ObeysRules(config)' \/ froze'
    BY <1>1 DEF ObeysRules
  <2>. QED
    BY <2>2, <2>3 DEF ConfigureInv, AllocatedInv
<1>9. SessionsInv'
  <2>1. \A c \in Conns : rPc[c] # "setting"
    BY <1>2, ConnsAssumption DEF ConfigureInv, LocalsInv, TypeOK
  <2>2. \A c \in Conns : rPc[c] = "counting" => copy[c].max_connections = next.max_connections
    BY <1>1 DEF ConfigureInv, SessionsInv, Restart
  <2>3. authenticated <= next.max_connections
    <3>1. CASE configured
      BY <1>1, <3>1 DEF ConfigureInv, SessionsInv, SessionsAreCounted, Restart
    <3>2. CASE ~configured
      <4>1. Sessions = {}
        BY <3>2 DEF ConfigureInv, SessionsInv, Sessions
      <4>2. authenticated = 0
        BY <4>1, FS_EmptySet DEF ConfigureInv, SessionsInv, SessionsAreCounted
      <4>. QED
        BY <1>1, <4>2 DEF Counts, Live, Restart
    <3>. QED
      BY <3>1, <3>2
  <2>. QED
    BY <2>1, <2>2, <2>3 DEF ConfigureInv, SessionsInv, Sessions, SessionsAreCounted
<1>. QED
  BY <1>6, <1>7, <1>8, <1>9 DEF ConfigureInv

(* The schema is held between calls of configure, and nothing in force     *)
(* depends on it.                                                          *)
LEMMA HoldSchemaKeeps ==
  ASSUME ConfigureInv, NEW h \in Hashes, HoldSchema(h)
  PROVE  ConfigureInv'
<1> USE DEF HoldSchema, force, once, logic, readers
<1>1. mismatches' \in Nat
  BY DEF ConfigureInv, LocalsInv, TypeOK, Counted
<1>2. TypeOK'
  BY <1>1 DEF ConfigureInv, LocalsInv, TypeOK
<1>3. LocalsInv'
  BY <1>2 DEF ConfigureInv, LocalsInv
<1>4. CallInv'
  BY DEF ConfigureInv, CallInv
<1>5. AllocatedInv'
  BY DEF ConfigureInv, AllocatedInv, ObeysRules
<1>6. SessionsInv'
  BY DEF ConfigureInv, SessionsInv, Sessions, SessionsAreCounted
<1>. QED
  BY <1>3, <1>4, <1>5, <1>6 DEF ConfigureInv

(* A registration freezes the cap before it binds a topic, between calls   *)
(* of configure.                                                           *)
LEMMA RegisterKeeps ==
  ASSUME ConfigureInv, NEW rows \in SUBSET Topics, NEW conflict \in BOOLEAN,
         NEW h \in Hashes \cup {None}, RegisterClasses(rows, conflict, h)
  PROVE  ConfigureInv'
<1> USE DEF RegisterClasses, force, logic, readers
<1>1. mismatches' \in Nat
  BY DEF ConfigureInv, LocalsInv, TypeOK, Counted, CountAgainstHeld
<1>2. /\ lifecycle_cap \in Nat /\ lifecycle_cap' \in Nat \ {0}
      /\ lifecycle_cap # 0 => lifecycle_cap' = lifecycle_cap
  BY DEF ConfigureInv, LocalsInv, TypeOK, Frozen, Counts, Live, Restart
<1>3. slots' \subseteq Topics
  BY DEF ConfigureInv, LocalsInv, TypeOK
<1>4. TypeOK'
  BY <1>1, <1>2, <1>3 DEF ConfigureInv, LocalsInv, TypeOK
<1>5. LocalsInv'
  BY <1>4 DEF ConfigureInv, LocalsInv
<1>6. CallInv'
  BY DEF ConfigureInv, CallInv
<1>7. Cardinality(slots') <= lifecycle_cap'
  <2>1. CASE slots' = slots
    BY <1>2, <2>1, FS_EmptySet DEF ConfigureInv, AllocatedInv
  <2>2. CASE slots' # slots
    BY <2>2
  <2>. QED
    BY <2>1, <2>2
<1>8. AllocatedInv'
  BY <1>2, <1>7 DEF ConfigureInv, AllocatedInv, ObeysRules
<1>9. SessionsInv'
  BY DEF ConfigureInv, SessionsInv, Sessions, SessionsAreCounted
<1>. QED
  BY <1>5, <1>6, <1>8, <1>9 DEF ConfigureInv

(* The steps of a reader that leave the session count and the              *)
(* configuration as they are.                                              *)
LEMMA ReaderMovesKeep ==
  ASSUME ConfigureInv, NEW c \in Conns,
         Connect(c) \/ Match(c) \/ ServerFull(c) \/ Retry(c) \/ Closed(c)
  PROVE  ConfigureInv'
<1> USE DEF Connect, Match, ServerFull, Retry, Closed, Goes, Forgets, Others
<1>1. /\ UNCHANGED <<lock, force, once, registry, logic, told, froze, authenticated>>
      /\ DOMAIN rPc' = Conns /\ DOMAIN copy' = Conns /\ DOMAIN seen' = Conns
      /\ \A d \in Conns \ {c} : rPc'[d] = rPc[d] /\ copy'[d] = copy[d]
  BY DEF ConfigureInv, LocalsInv
<1>2. rPc[c] # "setting" /\ rPc'[c] # "setting"
  BY DEF ConfigureInv, LocalsInv
<1>3. /\ rPc'[c] \in {"off", "connected", "counting", "open", "leaving"}
      /\ rPc[c] \in {"open", "leaving"} <=> rPc'[c] \in {"open", "leaving"}
      /\ rPc'[c] = "counting" =>
           configured /\ copy'[c].max_connections = config.max_connections
      /\ ~configured => rPc'[c] \in {"off", "connected"}
  BY DEF ConfigureInv, LocalsInv, SessionsInv
<1>. USE DEF force, once, registry, logic
<1>4. TypeOK'
  BY <1>1, <1>2, <1>3 DEF ConfigureInv, LocalsInv, TypeOK
<1>5. LocalsInv'
  BY <1>1, <1>4 DEF ConfigureInv, LocalsInv
<1>6. CallInv'
  BY <1>1 DEF ConfigureInv, CallInv, ObeysRules
<1>7. AllocatedInv'
  BY <1>1 DEF ConfigureInv, AllocatedInv, ObeysRules
<1>8. SessionsInv'
  <2>1. Sessions' = Sessions
    BY <1>1, <1>2, <1>3 DEF Sessions
  <2>. QED
    BY <1>1, <1>2, <1>3, <2>1 DEF ConfigureInv, SessionsInv, SessionsAreCounted
<1>. QED
  BY <1>5, <1>6, <1>7, <1>8 DEF ConfigureInv

(* A session is counted where the count that was compared with the limit   *)
(* is still the count.                                                     *)
LEMMA CountInKeeps ==
  ASSUME ConfigureInv, NEW c \in Conns, CountIn(c)
  PROVE  ConfigureInv'
<1> USE DEF CountIn, Goes, Forgets, Others
<1>1. /\ UNCHANGED <<lock, force, once, registry, logic, told, froze>>
      /\ DOMAIN rPc' = Conns /\ DOMAIN copy' = Conns /\ DOMAIN seen' = Conns
      /\ rPc[c] = "counting" /\ rPc'[c] = "open"
      /\ \A d \in Conns \ {c} : rPc'[d] = rPc[d] /\ copy'[d] = copy[d]
  BY DEF ConfigureInv, LocalsInv
<1>. USE DEF force, once, registry, logic
<1>2. authenticated \in Nat /\ authenticated' = authenticated + 1
  BY DEF ConfigureInv, LocalsInv, TypeOK
<1>3. TypeOK'
  BY <1>1, <1>2 DEF ConfigureInv, LocalsInv, TypeOK
<1>4. LocalsInv'
  BY <1>1, <1>3 DEF ConfigureInv, LocalsInv
<1>5. CallInv'
  BY <1>1 DEF ConfigureInv, CallInv, ObeysRules
<1>6. AllocatedInv'
  BY <1>1 DEF ConfigureInv, AllocatedInv, ObeysRules
<1>7. SessionsInv'
  <2>1. Sessions' = Sessions \cup {c} /\ c \notin Sessions
    BY <1>1 DEF Sessions
  <2>2. IsFiniteSet(Sessions)' /\ Cardinality(Sessions') = Cardinality(Sessions) + 1
    BY <2>1, FS_AddElement DEF ConfigureInv, SessionsInv
  <2>3. authenticated' <= config.max_connections
    <3>1. authenticated < config.max_connections /\ config.max_connections \in Nat
      BY DEF ConfigureInv, SessionsInv, LocalsInv, Counts, Live, Restart
    <3>. QED
      BY <1>2, <3>1
  <2>4. authenticated' = Cardinality(Sessions')
    BY <1>2, <2>2 DEF ConfigureInv, SessionsInv, SessionsAreCounted
  <2>5. configured
    BY <1>1 DEF ConfigureInv, SessionsInv
  <2>. QED
    BY <1>1, <2>2, <2>3, <2>4, <2>5 DEF ConfigureInv, SessionsInv, SessionsAreCounted
<1>. QED
  BY <1>4, <1>5, <1>6, <1>7 DEF ConfigureInv

(* A session that ends was counted, so its slot comes off the count.       *)
LEMMA CountOutKeeps ==
  ASSUME ConfigureInv, NEW c \in Conns, CountOut(c)
  PROVE  ConfigureInv'
<1> USE DEF CountOut, Goes, Forgets, Others
<1>1. /\ UNCHANGED <<lock, force, once, registry, logic, told, froze>>
      /\ DOMAIN rPc' = Conns /\ DOMAIN copy' = Conns /\ DOMAIN seen' = Conns
      /\ rPc[c] = "leaving" /\ rPc'[c] = "off"
      /\ \A d \in Conns \ {c} : rPc'[d] = rPc[d] /\ copy'[d] = copy[d]
  BY DEF ConfigureInv, LocalsInv
<1>. USE DEF force, once, registry, logic
<1>2. authenticated \in Nat \ {0} /\ authenticated' = authenticated - 1
  BY DEF ConfigureInv, LocalsInv, TypeOK
<1>3. TypeOK'
  BY <1>1, <1>2 DEF ConfigureInv, LocalsInv, TypeOK
<1>4. LocalsInv'
  BY <1>1, <1>3 DEF ConfigureInv, LocalsInv
<1>5. CallInv'
  BY <1>1 DEF ConfigureInv, CallInv, ObeysRules
<1>6. AllocatedInv'
  BY <1>1 DEF ConfigureInv, AllocatedInv, ObeysRules
<1>7. SessionsInv'
  <2>1. Sessions' = Sessions \ {c} /\ c \in Sessions
    BY <1>1 DEF Sessions
  <2>2. IsFiniteSet(Sessions)' /\ Cardinality(Sessions') = Cardinality(Sessions) - 1
    BY <2>1, FS_RemoveElement DEF ConfigureInv, SessionsInv
  <2>3. authenticated' <= config.max_connections
    <3>1. authenticated <= config.max_connections /\ config.max_connections \in Nat
      BY DEF ConfigureInv, SessionsInv, SessionsAreCounted, LocalsInv, Counts, Live, Restart
    <3>. QED
      BY <1>2, <3>1
  <2>4. authenticated' = Cardinality(Sessions')
    BY <1>2, <2>2 DEF ConfigureInv, SessionsInv, SessionsAreCounted
  <2>. QED
    BY <1>1, <2>2, <2>3, <2>4 DEF ConfigureInv, SessionsInv, SessionsAreCounted
<1>. QED
  BY <1>4, <1>5, <1>6, <1>7 DEF ConfigureInv

(* The lock is taken before the configuration is copied. *)
LEMMA SetEnabledKeeps ==
  ASSUME ConfigureInv, NEW c \in Conns, NEW to \in BOOLEAN, SetEnabled(c, to)
  PROVE  ConfigureInv'
<1> USE DEF SetEnabled, Goes, Others
<1>1. /\ UNCHANGED <<force, once, registry, logic, told, froze, authenticated>>
      /\ DOMAIN rPc' = Conns /\ DOMAIN copy' = Conns /\ DOMAIN seen' = Conns
      /\ lock = None /\ lock' = c
      /\ rPc[c] = "open" /\ rPc'[c] = "setting"
      /\ copy'[c] = [config EXCEPT !.enabled = to]
      /\ \A d \in Conns \ {c} : rPc'[d] = rPc[d] /\ copy'[d] = copy[d]
  BY DEF ConfigureInv, LocalsInv
<1>. USE DEF force, once, registry, logic
<1>2. TypeOK'
  <2>1. \A d \in Conns : rPc[d] # "setting"
    BY <1>1, ConnsAssumption DEF ConfigureInv, LocalsInv, TypeOK
  <2>. QED
    BY <1>1, <2>1, ConnsAssumption DEF ConfigureInv, LocalsInv, TypeOK, None
<1>3. LocalsInv'
  BY <1>1, <1>2 DEF ConfigureInv, LocalsInv
<1>4. CallInv'
  BY <1>1 DEF ConfigureInv, CallInv, ObeysRules
<1>5. AllocatedInv'
  BY <1>1 DEF ConfigureInv, AllocatedInv, ObeysRules
<1>6. SessionsInv'
  <2>1. Sessions' = Sessions
    BY <1>1 DEF Sessions
  <2>2. copy'[c] = [config EXCEPT !.enabled = copy'[c].enabled]
    BY <1>1 DEF ConfigureInv, LocalsInv, TypeOK, Live
  <2>3. configured
    BY <1>1 DEF ConfigureInv, SessionsInv
  <2>. QED
    BY <1>1, <2>1, <2>2, <2>3 DEF ConfigureInv, SessionsInv, SessionsAreCounted
<1>. QED
  BY <1>3, <1>4, <1>5, <1>6 DEF ConfigureInv

(* Of all that is in force, the swap of a copy moves the switch alone. *)
LEMMA SetSwapKeeps ==
  ASSUME ConfigureInv, NEW c \in Conns, SetSwap(c)
  PROVE  ConfigureInv'
<1> USE DEF SetSwap, Goes, Forgets
<1>1. /\ UNCHANGED <<configured, pending, unknown, expected, outbound, once, registry,
                    logic, authenticated, froze>>
      /\ DOMAIN rPc' = Conns /\ DOMAIN copy' = Conns /\ DOMAIN seen' = Conns
      /\ rPc[c] = "setting" /\ rPc'[c] = "open"
      /\ \A d \in Conns \ {c} : rPc'[d] = rPc[d] /\ copy'[d] = copy[d]
  BY DEF ConfigureInv, LocalsInv
<1>2. lock = c /\ lock' = None /\ lPc = "idle"
  BY ConnsAssumption DEF ConfigureInv, LocalsInv, TypeOK
<1>3. /\ DOMAIN config = Live \cup Restart /\ DOMAIN config' = Live \cup Restart
      /\ \A k \in (Live \cup Restart) \ {"enabled"} : config'[k] = config[k]
  BY <1>1 DEF ConfigureInv, LocalsInv, TypeOK, SessionsInv
<1>4. \A d \in Conns \ {c} : rPc[d] # "setting"
  BY <1>2 DEF ConfigureInv, LocalsInv, TypeOK
<1>. USE DEF once, registry, logic
<1>5. TypeOK'
  BY <1>1, <1>2, <1>3, <1>4, ConnsAssumption DEF ConfigureInv, LocalsInv, TypeOK, None
<1>6. LocalsInv'
  <2>1. \A k \in Counts : config'[k] \in Nat \ {0}
    BY <1>3 DEF ConfigureInv, LocalsInv, Counts
  <2>2. told' = [enabled |-> config'.enabled, tokens |-> config'.tokens]
    BY <1>3 DEF ConfigureInv, LocalsInv, Live
  <2>. QED
    BY <1>1, <1>2, <1>5, <2>1, <2>2 DEF ConfigureInv, LocalsInv
<1>7. CallInv'
  BY <1>1, <1>2 DEF CallInv
<1>8. AllocatedInv'
  BY <1>1, <1>3 DEF ConfigureInv, AllocatedInv, ObeysRules, Live, Restart
<1>9. SessionsInv'
  <2>1. Sessions' = Sessions
    BY <1>1 DEF Sessions
  <2>2. config'.max_connections = config.max_connections /\ config'.tokens = config.tokens
    BY <1>3 DEF Live, Restart
  <2>3. configured
    BY <1>1 DEF ConfigureInv, SessionsInv
  <2>. QED
    BY <1>1, <1>4, <2>1, <2>2, <2>3 DEF ConfigureInv, SessionsInv, SessionsAreCounted
<1>. QED
  BY <1>6, <1>7, <1>8, <1>9 DEF ConfigureInv

(* Every step, whoever takes it, keeps the invariant. *)
LEMMA ConfigureStep == ConfigureInv /\ [Next]_vars => ConfigureInv'
<1> SUFFICES ASSUME ConfigureInv, [Next]_vars PROVE ConfigureInv'
  OBVIOUS
<1>1. CASE UNCHANGED vars
  BY <1>1 DEF vars, force, once, registry, logic, readers, ConfigureInv, LocalsInv, TypeOK,
              CallInv, AllocatedInv, SessionsInv, SessionsAreCounted, Sessions, ObeysRules
<1>2. CASE \E t \in Tables : Lock(t)
  BY <1>2, LockKeeps
<1>3. CASE MergeRefused \/ BindRefused
  BY <1>3, RefuseKeeps DEF MergeRefused, BindRefused
<1>4. CASE MergeLater
  BY <1>4, MergeLaterKeeps
<1>5. CASE MergeFirst
  BY <1>5, MergeFirstKeeps
<1>6. CASE Bind
  BY <1>6, BindKeeps
<1>7. CASE Swap
  BY <1>7, SwapKeeps
<1>8. CASE \E h \in Hashes : HoldSchema(h)
  BY <1>8, HoldSchemaKeeps
<1>9. CASE \E rows \in SUBSET Topics, conflict \in BOOLEAN, h \in Hashes \cup {None} :
             RegisterClasses(rows, conflict, h)
  BY <1>9, RegisterKeeps
<1>10. ASSUME NEW c \in Conns, Reader(c) PROVE ConfigureInv'
  <2>1. CASE Connect(c) \/ Match(c) \/ ServerFull(c) \/ Retry(c) \/ Closed(c)
    BY <2>1, ReaderMovesKeep
  <2>2. CASE CountIn(c)
    BY <2>2, CountInKeeps
  <2>3. CASE CountOut(c)
    BY <2>3, CountOutKeeps
  <2>4. CASE \E to \in BOOLEAN : SetEnabled(c, to)
    BY <2>4, SetEnabledKeeps
  <2>5. CASE SetSwap(c)
    BY <2>5, SetSwapKeeps
  <2>. QED
    BY <1>10, <2>1, <2>2, <2>3, <2>4, <2>5 DEF Reader
<1>. QED
  BY <1>1, <1>2, <1>3, <1>4, <1>5, <1>6, <1>7, <1>8, <1>9, <1>10 DEF Next, Logic

(* The inductive invariant of configure and of all that races it holds at  *)
(* every step of every behavior.                                           *)
THEOREM ConfigureInductive == Spec => []ConfigureInv
<1>. QED
  BY ConfigureInit, ConfigureStep, PTL DEF Spec

(* What is in force is sound, however many consumers authenticate, leave   *)
(* and move the switch while configure is called with whatever tables.     *)
THEOREM ConfigureIsSound == Spec => []InForceIsSound
<1>1. ConfigureInv => InForceIsSound
  <2> SUFFICES ASSUME ConfigureInv PROVE InForceIsSound
    OBVIOUS
  <2>1. TypeOK /\ NoSwapIsLost
    BY DEF ConfigureInv, LocalsInv, NoSwapIsLost
  <2>2. SlotsAreAllocated
    BY DEF ConfigureInv, AllocatedInv, SlotsAreAllocated
  <2>3. RulesHoldInForce
    <3> SUFFICES ASSUME configured, ~froze
                 PROVE  /\ config.max_unauthenticated_connections < config.max_connections
                        /\ config.max_lifecycle_topics < config.ring_out_lifecycle_records
      BY DEF RulesHoldInForce
    <3>1. ObeysRules(config)
      BY DEF ConfigureInv, AllocatedInv
    <3>2. config.max_lifecycle_topics \in Nat /\ config.ring_out_lifecycle_records \in Nat
      BY DEF ConfigureInv, LocalsInv, Counts, Live, Restart
    <3>. QED
      BY <3>1, <3>2 DEF ObeysRules
  <2>4. SessionsAreCounted
    BY DEF ConfigureInv, SessionsInv
  <2>. QED
    BY <2>1, <2>2, <2>3, <2>4 DEF InForceIsSound
<1>. QED
  BY <1>1, ConfigureInductive, PTL

(* A configure that is refused, whatever the reason, leaves in force what  *)
(* it found there.                                                         *)
THEOREM ConfigureRefusalChangesNothing == Spec => RefusalChangesNothing
<1> DEFINE A == lPc # "idle" /\ lPc' = "idle" /\ ~(lPc = "swap") => force' = entered
<1>1. ConfigureInv /\ [Next]_vars => [A]_vars
  <2> SUFFICES ASSUME ConfigureInv, Next, lPc # "idle", lPc' = "idle", lPc # "swap"
               PROVE  force' = entered
    OBVIOUS
  <2>1. lPc \in {"merge", "bind"} /\ entered = force
    BY DEF ConfigureInv, LocalsInv, TypeOK, CallInv
  <2>2. ASSUME NEW c \in Conns PROVE ~Reader(c)
    BY <2>2 DEF Reader, Connect, Match, CountIn, ServerFull, Retry, SetEnabled, SetSwap, Closed,
                CountOut, Others, logic
  <2>3. MergeRefused \/ BindRefused
    BY <2>1, <2>2 DEF Next, Logic, Lock, MergeLater, MergeFirst, Bind, Swap, HoldSchema,
                      RegisterClasses
  <2>. QED
    BY <2>1, <2>3 DEF MergeRefused, BindRefused, Refuse
<1>. QED
  BY <1>1, ConfigureInductive, PTL DEF Spec, RefusalChangesNothing

=============================================================================
