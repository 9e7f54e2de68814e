--------------------------- MODULE InboundProofs ---------------------------
(***************************************************************************)
(* For any consumers, tables, messages and keys: a record a consumer sends *)
(* for Lua has one end, which is counted and told; what Lua is handed is   *)
(* what a token covered; what was looked up in the registry stays true;    *)
(* what a consumer is answered is so; no type URL over its cap is in a     *)
(* frame that is served; and a rate's window turns away what is over its   *)
(* cap, and nothing else.                                                  *)
(***************************************************************************)
EXTENDS Inbound, FiniteSetTheorems, SequenceTheorems, TLAPS

-----------------------------------------------------------------------------
(* Groups: as many are open before a piece as began and have not ended.    *)

Begun(body, i) == {j \in 1..(i - 1) : body[j].wire = START_GROUP}
Ended(body, i) == {j \in 1..(i - 1) : body[j].wire = END_GROUP}

LEMMA DepthFacts ==
  ASSUME NEW body, NEW i \in Nat \ {0}
  PROVE  /\ IsFiniteSet(Begun(body, i)) /\ Cardinality(Begun(body, i)) \in Nat
         /\ IsFiniteSet(Ended(body, i)) /\ Cardinality(Ended(body, i)) \in Nat
         /\ Depth(body, i) = Cardinality(Begun(body, i)) - Cardinality(Ended(body, i))
         /\ Depth(body, i) \in Int
<1>1. IsFiniteSet(1..(i - 1))
  BY FS_Interval
<1>2. IsFiniteSet(Begun(body, i)) /\ IsFiniteSet(Ended(body, i))
  BY <1>1, FS_Subset DEF Begun, Ended
<1>3. Cardinality(Begun(body, i)) \in Nat /\ Cardinality(Ended(body, i)) \in Nat
  BY <1>2, FS_CardinalityType
<1>4. Depth(body, i) = Cardinality(Begun(body, i)) - Cardinality(Ended(body, i))
  BY DEF Depth, Begun, Ended
<1> QED
  BY <1>2, <1>3, <1>4

LEMMA DepthPastEnd ==
  ASSUME NEW body, NEW i \in Nat \ {0}, body[i].wire = END_GROUP
  PROVE  Depth(body, i + 1) = Depth(body, i) - 1
<1>1. Begun(body, i + 1) = Begun(body, i) /\ Ended(body, i + 1) = Ended(body, i) \cup {i}
      /\ i \notin Ended(body, i)
  BY DEF Begun, Ended, START_GROUP, END_GROUP
<1>2. IsFiniteSet(Ended(body, i)) /\ Cardinality(Ended(body, i)) \in Nat
      /\ Cardinality(Begun(body, i)) \in Nat
      /\ Depth(body, i) = Cardinality(Begun(body, i)) - Cardinality(Ended(body, i))
  BY DepthFacts
<1>3. Depth(body, i + 1) = Cardinality(Begun(body, i + 1)) - Cardinality(Ended(body, i + 1))
  BY DepthFacts, i + 1 \in Nat \ {0}
<1>4. Cardinality(Ended(body, i) \cup {i}) = Cardinality(Ended(body, i)) + 1
  BY <1>1, <1>2, FS_AddElement
<1>5. PICK b \in Nat, e \in Nat :
        /\ b = Cardinality(Begun(body, i)) /\ e = Cardinality(Ended(body, i))
  BY <1>2
<1>6. Depth(body, i) = b - e /\ Depth(body, i + 1) = b - (e + 1)
  BY <1>1, <1>2, <1>3, <1>4, <1>5
<1> QED
  BY <1>6

(* Two groups do not share their ends. *)
LEMMA EndsAtFacts ==
  ASSUME NEW body, NEW s \in Nat \ {0}, NEW e \in Nat \ {0}, EndsAt(body, s, e),
         NEW t \in Nat \ {0}, NEW f \in Nat \ {0}, EndsAt(body, t, f)
  PROVE  s = t <=> e = f
<1> USE DEF EndsAt
<1>1. ASSUME NEW a \in Nat \ {0}, NEW b \in Nat \ {0}, NEW c \in Nat \ {0},
             EndsAt(body, a, b), EndsAt(body, a, c), b < c
      PROVE  FALSE
  <2>1. Depth(body, b + 1) = Depth(body, b) - 1
    BY <1>1, DepthPastEnd
  <2>2. Depth(body, b) = Depth(body, a) + 1 /\ Depth(body, b + 1) > Depth(body, a)
    BY <1>1
  <2>3. Depth(body, a) \in Int /\ Depth(body, b) \in Int
    BY DepthFacts
  <2> QED
    BY <2>1, <2>2, <2>3
<1>2. ASSUME NEW a \in Nat \ {0}, NEW b \in Nat \ {0}, NEW c \in Nat \ {0},
             EndsAt(body, a, c), EndsAt(body, b, c), a < b
      PROVE  FALSE
  <2>1. Depth(body, c) = Depth(body, a) + 1 /\ Depth(body, c) = Depth(body, b) + 1
        /\ Depth(body, b) > Depth(body, a)
    BY <1>2
  <2>2. Depth(body, a) \in Int /\ Depth(body, b) \in Int
    BY DepthFacts
  <2> QED
    BY <2>1, <2>2
<1>3. s = t => e = f
  BY <1>1
<1>4. e = f => s = t
  BY <1>2
<1> QED
  BY <1>3, <1>4

(* In a message, no piece ends a group that did not begin. *)
LEMMA DepthIsNatural ==
  ASSUME NEW body, IsBody(body), NEW i \in DOMAIN body,
         \A j \in DOMAIN body : body[j].wire = END_GROUP => \E s \in DOMAIN body : EndsAt(body, s, j)
  PROVE  Depth(body, i) \in Nat
<1>1. PICK n \in Nat : DOMAIN body = 1..n
  BY DEF IsBody
<1> DEFINE B == Begun(body, i)
           E == Ended(body, i)
           g == [j \in E |-> CHOOSE s \in DOMAIN body : EndsAt(body, s, j)]
<1>2. \A j \in E : g[j] \in 1..n /\ EndsAt(body, g[j], j) /\ j \in 1..n /\ j < i
  BY <1>1 DEF Ended
<1>3. g \in [E -> B]
  BY <1>1, <1>2 DEF Begun, EndsAt
<1>4. \A a, b \in E : g[a] = g[b] => a = b
  BY <1>2, EndsAtFacts
<1> HIDE DEF g
<1>5. g \in Injection(E, B)
  BY <1>3, <1>4 DEF Injection, IsInjective
<1>6. IsFiniteSet(B) /\ Cardinality(B) \in Nat /\ Cardinality(E) \in Nat
      /\ Depth(body, i) = Cardinality(B) - Cardinality(E)
  BY <1>1, DepthFacts
<1>7. Cardinality(E) <= Cardinality(B)
  BY <1>5, <1>6, FS_Injection
<1> QED
  BY <1>6, <1>7

(* In a message, a piece outside every group is at no depth. *)
LEMMA OutsideIsAtNoDepth ==
  ASSUME NEW body, IsBody(body), NEW i \in DOMAIN body, ~IsGrouped(body, i),
         \A j \in DOMAIN body : body[j].wire = START_GROUP => \E e \in DOMAIN body : EndsAt(body, j, e),
         \A j \in DOMAIN body : body[j].wire = END_GROUP => \E s \in DOMAIN body : EndsAt(body, s, j)
  PROVE  Depth(body, i) = 0 /\ ~IsGroupTag(body[i])
<1>1. PICK n \in Nat : DOMAIN body = 1..n
  BY DEF IsBody
<1> DEFINE B == Begun(body, i)
           E == Ended(body, i)
           g == [j \in B |-> CHOOSE e \in DOMAIN body : EndsAt(body, j, e)]
<1>2. \A j \in B : g[j] \in 1..n /\ EndsAt(body, j, g[j]) /\ j \in 1..n /\ j < i
  BY <1>1 DEF Begun
<1>3. ASSUME NEW s \in 1..n, NEW e \in 1..n, EndsAt(body, s, e) PROVE i < s \/ e < i
  <2>1. i \notin s..e
    BY <1>1, <1>3 DEF IsGrouped
  <2> QED
    BY <1>1, <2>1
<1>4. g \in [B -> E]
  <2>1. ASSUME NEW j \in B, NEW e \in 1..n, EndsAt(body, j, e), j \in 1..n, j < i
        PROVE  e \in E
    <3>1. e < i
      BY <1>1, <1>3, <2>1
    <3>2. body[e].wire = END_GROUP
      BY <2>1 DEF EndsAt
    <3> QED
      BY <1>1, <2>1, <3>1, <3>2 DEF Ended
  <2> QED
    BY <1>2, <2>1
<1>5. \A a, b \in B : g[a] = g[b] => a = b
  BY <1>2, EndsAtFacts
<1> HIDE DEF g
<1>6. g \in Injection(B, E)
  BY <1>4, <1>5 DEF Injection, IsInjective
<1>7. IsFiniteSet(E) /\ Cardinality(B) \in Nat /\ Cardinality(E) \in Nat
      /\ Depth(body, i) = Cardinality(B) - Cardinality(E)
  BY <1>1, DepthFacts
<1>8. Cardinality(B) <= Cardinality(E)
  BY <1>6, <1>7, FS_Injection
<1>9. Depth(body, i) \in Nat
  BY DepthIsNatural
<1>10. ~IsGroupTag(body[i])
  <2>1. ASSUME NEW s \in 1..n, NEW e \in 1..n, EndsAt(body, s, e) PROVE i # s /\ i # e
    <3>1. s < e /\ (i < s \/ e < i)
      BY <1>3, <2>1 DEF EndsAt
    <3> QED
      BY <1>1, <3>1
  <2>2. IsGroupTag(body[i]) => \E s, e \in 1..n : EndsAt(body, s, e) /\ (i = s \/ i = e)
    BY <1>1 DEF IsGroupTag
  <2> QED
    BY <2>1, <2>2
<1> QED
  BY <1>7, <1>8, <1>9, <1>10

(* Of a message, the walk gives every piece that the decoder keeps. *)
LEMMA WalkGivesWhatIsRead ==
  ASSUME NEW body, IsBody(body), NEW types, IsMessage(body, types)
  PROVE  Outside(body) \subseteq Fields(body)
<1> SUFFICES ASSUME NEW i \in DOMAIN body, ~IsGrouped(body, i) PROVE body[i] \in Fields(body)
  BY DEF Outside
<1>1. PICK n \in Nat : DOMAIN body = 1..n
  BY DEF IsBody
<1>2. Depth(body, i) = 0 /\ ~IsGroupTag(body[i])
  BY OutsideIsAtNoDepth DEF IsMessage
<1>3. ASSUME NEW j \in 1..i PROVE StepsOver(body, j)
  <2>1. j \in DOMAIN body /\ Readable(body[j])
    BY <1>1 DEF IsMessage
  <2>2. ASSUME body[j].wire = END_GROUP PROVE Depth(body, j) > 0
    <3>1. PICK s \in DOMAIN body : EndsAt(body, s, j)
      BY <2>1, <2>2 DEF IsMessage
    <3>2. Depth(body, s) \in Nat
      BY DepthIsNatural DEF IsMessage
    <3> QED
      BY <3>1, <3>2 DEF EndsAt
  <2> QED
    BY <2>1, <2>2 DEF StepsOver
<1> QED
  BY <1>2, <1>3 DEF Fields

(* And so the walk holds every type URL of a frame under its cap. *)
LEMMA CheckedUrls ==
  ASSUME NEW body, IsFrame(body), Decodes(body), NEW cap, check_type_url(body, cap)
  PROVE  \A url \in TypeUrls(body) : url.length <= cap
<1> SUFFICES ASSUME NEW p \in Payloads(body), NEW url \in Outside(p.inner), url.field = TYPE_URL_FIELD
             PROVE  url.length <= cap
  BY DEF TypeUrls
<1>1. IsMessage(body, EnvelopeTypes) /\ IsMessage(p.inner, AnyTypes)
  BY DEF Decodes
<1>2. IsBody(body) /\ IsBody(p.inner)
  BY DEF IsFrame, Payloads, Outside
<1>3. p \in Fields(body) /\ p.field = PAYLOAD_FIELD /\ p.wire = LEN
  <2>1. p \in Outside(body) /\ p.field = PAYLOAD_FIELD
    BY DEF Payloads
  <2>2. PAYLOAD_FIELD \in DOMAIN EnvelopeTypes /\ EnvelopeTypes[PAYLOAD_FIELD] = LEN
    BY DEF EnvelopeTypes, PAYLOAD_FIELD
  <2> QED
    BY <1>1, <1>2, <2>1, <2>2, WalkGivesWhatIsRead DEF IsMessage
<1>4. url \in Fields(p.inner) /\ url.wire = LEN
  <2>1. TYPE_URL_FIELD \in DOMAIN AnyTypes /\ AnyTypes[TYPE_URL_FIELD] = LEN
    BY DEF AnyTypes
  <2> QED
    BY <1>1, <1>2, <2>1, WalkGivesWhatIsRead DEF IsMessage
<1> QED
  BY <1>3, <1>4 DEF check_type_url, Spans

-----------------------------------------------------------------------------
(* The registry: maps that only grow, and slots bound to LIFECYCLE topics. *)

IsMap(map, V) == DOMAIN map \subseteq Topics /\ map \in [DOMAIN map -> V]

IsRows(rows, V) == rows \subseteq Topics \X V

(* The map to is from with more in it. *)
Grows(from, to) == DOMAIN from \subseteq DOMAIN to /\ \A t \in DOMAIN from : to[t] = from[t]

(* And that more is the rows. *)
Holds(map, rows) == \A r \in rows : r[1] \in DOMAIN map /\ map[r[1]] = r[2]

Lifecycle == {t \in DOMAIN classes : classes[t] = "lifecycle"}

MapsInv ==
  /\ IsMap(classes, Classes) /\ IsMap(routes, Targets) /\ IsMap(caps, Capabilities)
  /\ DOMAIN slots = Lifecycle /\ slots \in [DOMAIN slots -> Nat]
  /\ {slots[t] : t \in DOMAIN slots} = 1..Cardinality(DOMAIN slots)
  /\ \A t, u \in DOMAIN slots : slots[t] = slots[u] => t = u
  /\ Cardinality(DOMAIN slots) <= LifecycleCap
  /\ replies \subseteq Topics

OpenedInv ==
  \A o \in opened :
    /\ IsComplete(o.topic)
    /\ o.need # "none" /\ o.class = Required(o.topic).class /\ o.need = Required(o.topic).need
    /\ o.slot \in {NoSlot, Required(o.topic).slot}

RegistryInv == MapsInv /\ OpenedInv

LEMMA RegistryIsRegistered == RegistryInv => OpenedAsRegistered
<1> SUFFICES ASSUME RegistryInv PROVE OpenedAsRegistered
  OBVIOUS
<1>1. ASSUME NEW o \in opened, NEW p \in opened, o.slot = p.slot, o.slot # NoSlot
      PROVE  o.topic = p.topic
  <2>1. ASSUME NEW q \in opened, q.slot # NoSlot
        PROVE  q.topic \in DOMAIN slots /\ q.slot = slots[q.topic]
    BY <2>1 DEF RegistryInv, OpenedInv, Required, NoSlot
  <2> QED
    BY <1>1, <2>1 DEF RegistryInv, MapsInv
<1> QED
  BY <1>1 DEF OpenedAsRegistered, RegistryInv, MapsInv, OpenedInv, Lifecycle

LEMMA RegistryStarts == RegistryInit => RegistryInv
<1> SUFFICES ASSUME RegistryInit PROVE RegistryInv
  OBVIOUS
<1>1. DOMAIN slots = {} /\ DOMAIN classes = {}
  BY DEF RegistryInit
<1>2. Cardinality(DOMAIN slots) = 0
  BY <1>1, FS_EmptySet
<1>3. 1..Cardinality(DOMAIN slots) = {}
  BY <1>2
<1> QED
  BY <1>1, <1>2, <1>3, RegistryAssumption DEF RegistryInit, RegistryInv, MapsInv, OpenedInv, IsMap, Lifecycle

-----------------------------------------------------------------------------
(* A merge keeps every row there is, and adds the others.                  *)

LEMMA MergedFacts ==
  ASSUME NEW V, NEW map, IsMap(map, V), NEW rows, IsRows(rows, V), Agrees(map, rows)
  PROVE  /\ IsMap(Merged(map, rows), V)
         /\ DOMAIN Merged(map, rows) = DOMAIN map \cup Named(rows)
         /\ Grows(map, Merged(map, rows)) /\ Holds(Merged(map, rows), rows)
<1> DEFINE g == [t \in Named(rows) |-> (CHOOSE r \in rows : r[1] = t)[2]]
<1>1. \A t \in Named(rows) : t \in Topics /\ \E r \in rows : r[1] = t
  BY DEF Named, IsRows
<1>2. \A r \in rows : r[1] \in Named(rows) /\ r[2] \in V
  BY DEF Named, IsRows
<1>3. \A r \in rows : g[r[1]] = r[2]
  BY <1>1, <1>2 DEF Agrees
<1>4. g \in [Named(rows) -> V]
  BY <1>1, <1>2
<1> HIDE DEF g
<1>5. Beside(map, g) = [t \in DOMAIN map \cup Named(rows) |-> IF t \in DOMAIN map THEN map[t] ELSE g[t]]
  BY <1>4 DEF Beside
<1>6. Merged(map, rows) = Beside(map, g)
  BY DEF Merged, g
<1> QED
  BY <1>1, <1>2, <1>3, <1>4, <1>5, <1>6 DEF IsMap, Agrees, Grows, Holds

(* What a complete topic was looked up to be, it is in any later registry. *)
LEMMA LookedUpStays ==
  ASSUME OpenedInv, opened' = opened,
         Grows(classes, classes'), Grows(caps, caps'), Grows(slots, slots'),
         DOMAIN slots' \cap DOMAIN classes \subseteq DOMAIN slots
  PROVE  OpenedInv'
<1>1. ASSUME NEW t, IsComplete(t) PROVE IsComplete(t)' /\ Required(t)' = Required(t)
  BY <1>1 DEF IsComplete, Required, CapOf, Grows
<1> QED
  BY <1>1 DEF OpenedInv

LEMMA ClassesKept ==
  ASSUME RegistryInv, NEW rows, IsRows(rows, Classes), RegisterClasses(rows)
  PROVE  RegistryInv' /\ Grows(caps, caps') /\ Grows(routes, routes')
<1> USE DEF RegistryInv, MapsInv, openVars
<1>1. UNCHANGED <<routes, caps, replies, opened>>
  BY DEF RegisterClasses
<1>2. CASE UNCHANGED <<classes, slots>>
  BY <1>1, <1>2 DEF OpenedInv, IsComplete, Required, CapOf, Lifecycle, Grows
<1>3. CASE /\ Agrees(classes, rows)
           /\ Cardinality(DOMAIN slots) + Cardinality(Offered(rows)) <= LifecycleCap
           /\ classes' = Merged(classes, rows)
           /\ \E b \in Bindings(Offered(rows)) : slots' = Beside(slots, b)
  <2> DEFINE new == Offered(rows)
             old == DOMAIN slots
             k == Cardinality(DOMAIN slots)
             m == Cardinality(Offered(rows))
  <2>1. PICK b \in Bindings(new) : slots' = Beside(slots, b)
    BY <1>3
  <2>2. /\ IsMap(classes', Classes) /\ DOMAIN classes' = DOMAIN classes \cup Named(rows)
        /\ \A t \in DOMAIN classes : classes'[t] = classes[t]
        /\ \A r \in rows : classes'[r[1]] = r[2]
    <3>1. IsMap(classes, Classes)
      OBVIOUS
    <3>2. /\ IsMap(Merged(classes, rows), Classes)
          /\ DOMAIN Merged(classes, rows) = DOMAIN classes \cup Named(rows)
          /\ Grows(classes, Merged(classes, rows)) /\ Holds(Merged(classes, rows), rows)
      BY <1>3, <3>1, MergedFacts
    <3> QED
      BY <1>3, <3>2 DEF Grows, Holds
  <2>3. new \subseteq Topics /\ new \cap DOMAIN classes = {}
    BY DEF Offered, Named, IsRows
  <2>4. new = {t \in DOMAIN classes' \ DOMAIN classes : classes'[t] = "lifecycle"}
    <3>1. \A t \in Named(rows) : \E r \in rows : r[1] = t /\ r = <<t, r[2]>>
      BY DEF Named, IsRows
    <3>2. \A t \in Named(rows) : <<t, "lifecycle">> \in rows <=> classes'[t] = "lifecycle"
      BY <2>2, <3>1
    <3> QED
      BY <2>2, <3>2 DEF Offered
  <2>5. IsFiniteSet(new) /\ IsFiniteSet(old)
    BY <2>3, InboundAssumption, FS_Subset DEF IsMap, Lifecycle
  <2>6. k \in Nat /\ m \in Nat
    BY <2>5, FS_CardinalityType
  <2>7. b \in [new -> (k + 1)..(k + m)] /\ \A t, u \in new : b[t] = b[u] => t = u
    <3>1. (k + 1) + m - 1 = k + m
      BY <2>6
    <3> QED
      BY <2>1, <3>1 DEF Bindings
  <2> HIDE DEF new, old, k, m
  <2>8. \A n \in (k + 1)..(k + m) : \E t \in new : b[t] = n
    <3>1. IsFiniteSet((k + 1)..(k + m)) /\ Cardinality((k + 1)..(k + m)) = m
      <4>1. k + 1 \in Int /\ k + m \in Int
        BY <2>6
      <4>2. IsFiniteSet((k + 1)..(k + m))
            /\ Cardinality((k + 1)..(k + m)) = IF k + 1 > k + m THEN 0 ELSE (k + m) - (k + 1) + 1
        BY <4>1, FS_Interval
      <4> QED
        BY <2>6, <4>2
    <3>2. b \in Injection(new, (k + 1)..(k + m))
      BY <2>7 DEF Injection, IsInjective
    <3>3. b \in Surjection(new, (k + 1)..(k + m))
      BY <3>1, <3>2, FS_Injection DEF m, new
    <3> QED
      BY <3>3 DEF Surjection
  <2>9. slots' = [t \in old \cup new |-> IF t \in old THEN slots[t] ELSE b[t]]
    BY <2>1, <2>7 DEF Beside, old
  <2>10. old \cap new = {} /\ old \subseteq DOMAIN classes
    BY <2>3 DEF old, Lifecycle
  <2>11. slots \in [old -> Nat] /\ {slots[t] : t \in old} = 1..k
         /\ \A t, u \in old : slots[t] = slots[u] => t = u
    BY DEF old, k
  <2>12. IsFiniteSet(old \cup new) /\ Cardinality(old \cup new) = k + m
    <3>1. IsFiniteSet(old \cup new)
          /\ Cardinality(old \cup new) = Cardinality(old) + Cardinality(new) - Cardinality(old \cap new)
      BY <2>5, FS_Union
    <3>2. Cardinality(old) = k /\ Cardinality(new) = m /\ Cardinality(old \cap new) = 0
      BY <2>10, FS_EmptySet DEF k, m, old, new
    <3> QED
      BY <2>6, <3>1, <3>2
  <2>13. DOMAIN slots' = old \cup new /\ slots' \in [old \cup new -> Nat]
    BY <2>6, <2>7, <2>9, <2>11
  <2>14. {slots'[t] : t \in old \cup new} = 1..(k + m)
    <3>1. \A t \in old : slots'[t] = slots[t] /\ slots[t] \in 1..k
      BY <2>9, <2>11
    <3>2. \A t \in new : slots'[t] = b[t] /\ b[t] \in (k + 1)..(k + m)
      BY <2>7, <2>9, <2>10
    <3>3. \A n \in 1..k : \E t \in old : slots[t] = n
      BY <2>11
    <3>4. \A n \in 1..(k + m) : \E t \in old \cup new : slots'[t] = n
      BY <2>6, <2>8, <3>1, <3>2, <3>3
    <3>5. \A t \in old \cup new : slots'[t] \in 1..(k + m)
      BY <2>6, <3>1, <3>2
    <3> QED
      BY <3>4, <3>5
  <2>15. \A t, u \in old \cup new : slots'[t] = slots'[u] => t = u
    <3>1. \A t \in old : slots'[t] = slots[t] /\ slots[t] \in 1..k
      BY <2>9, <2>11
    <3>2. \A t \in new : slots'[t] = b[t] /\ b[t] \in (k + 1)..(k + m)
      BY <2>7, <2>9, <2>10
    <3> QED
      BY <2>6, <2>7, <2>11, <3>1, <3>2
  <2>16. Lifecycle' = old \cup new
    <3>1. old = {t \in DOMAIN classes : classes[t] = "lifecycle"}
      BY DEF old, Lifecycle
    <3> QED
      BY <2>2, <2>4, <3>1 DEF Lifecycle, new
  <2>17. Cardinality(DOMAIN slots') <= LifecycleCap
    BY <1>3, <2>12, <2>13 DEF k, m, new
  <2>18. MapsInv'
    BY <1>1, <2>2, <2>12, <2>13, <2>14, <2>15, <2>16, <2>17 DEF IsMap
  <2>19. OpenedInv'
    <3>1. DOMAIN slots' \cap DOMAIN classes \subseteq DOMAIN slots
      BY <2>3, <2>13 DEF old, new
    <3>2. Grows(slots, slots') /\ Grows(classes, classes') /\ Grows(caps, caps')
      BY <1>1, <2>2, <2>9, <2>13 DEF old, Grows
    <3> QED
      BY <1>1, <3>1, <3>2, LookedUpStays
  <2> QED
    BY <1>1, <2>18, <2>19 DEF Grows
<1> QED
  BY <1>2, <1>3, <1>1 DEF RegisterClasses

LEMMA CapsKept ==
  ASSUME RegistryInv, NEW rows, IsRows(rows, Capabilities), RegisterCaps(rows)
  PROVE  RegistryInv' /\ Grows(caps, caps') /\ Grows(routes, routes')
<1>1. UNCHANGED <<classes, routes, replies, slots, opened>>
  BY DEF RegisterCaps, openVars
<1>2. IsMap(caps', Capabilities) /\ Grows(caps, caps')
  <2>1. CASE Agrees(caps, rows)
    <3>1. IsMap(caps, Capabilities) /\ caps' = Merged(caps, rows)
      BY <2>1 DEF RegisterCaps, RegistryInv, MapsInv
    <3>2. IsMap(Merged(caps, rows), Capabilities) /\ Grows(caps, Merged(caps, rows))
      BY <2>1, <3>1, MergedFacts
    <3> QED
      BY <3>1, <3>2
  <2>2. CASE ~Agrees(caps, rows)
    BY <2>2 DEF RegisterCaps, RegistryInv, MapsInv, Grows
  <2> QED
    BY <2>1, <2>2
<1>3. OpenedInv'
  BY <1>1, <1>2, LookedUpStays DEF RegistryInv, Grows
<1> QED
  BY <1>1, <1>2, <1>3 DEF RegistryInv, MapsInv, Lifecycle, Grows

LEMMA RoutesKept ==
  ASSUME RegistryInv, NEW rows, IsRows(rows, Targets), RegisterRoutes(rows)
  PROVE  RegistryInv' /\ Grows(caps, caps') /\ Grows(routes, routes')
<1>1. UNCHANGED <<classes, caps, replies, slots, opened>>
  BY DEF RegisterRoutes, openVars
<1>2. IsMap(routes', Targets) /\ Grows(routes, routes')
  <2>1. CASE Agrees(routes, rows)
    <3>1. IsMap(routes, Targets) /\ routes' = Merged(routes, rows)
      BY <2>1 DEF RegisterRoutes, RegistryInv, MapsInv
    <3>2. IsMap(Merged(routes, rows), Targets) /\ Grows(routes, Merged(routes, rows))
      BY <2>1, <3>1, MergedFacts
    <3> QED
      BY <3>1, <3>2
  <2>2. CASE ~Agrees(routes, rows)
    BY <2>2 DEF RegisterRoutes, RegistryInv, MapsInv, Grows
  <2> QED
    BY <2>1, <2>2
<1>3. OpenedInv'
  BY <1>1, LookedUpStays DEF RegistryInv, Grows
<1> QED
  BY <1>1, <1>2, <1>3 DEF RegistryInv, MapsInv, Lifecycle, Grows

LEMMA RepliesKept ==
  ASSUME RegistryInv, NEW topics \in SUBSET Topics, RegisterReplies(topics)
  PROVE  RegistryInv' /\ Grows(caps, caps') /\ Grows(routes, routes')
<1>1. UNCHANGED <<classes, routes, caps, slots, opened>> /\ replies' = replies \cup topics
  BY DEF RegisterReplies, openVars
<1>2. OpenedInv'
  BY <1>1, LookedUpStays DEF RegistryInv, Grows
<1> QED
  BY <1>1, <1>2 DEF RegistryInv, MapsInv, Lifecycle, Grows

(* A record is opened with what the registry says of its topic. *)
LEMMA OpenKept ==
  ASSUME RegistryInv, NEW t \in Topics \cup {Ack}, Begin(t) \/ BeginTo(t)
  PROVE  RegistryInv' /\ Grows(caps, caps') /\ Grows(routes, routes')
<1>1. UNCHANGED registryVars
  BY DEF Begin, BeginTo
<1>2. MapsInv'
  BY <1>1 DEF registryVars, RegistryInv, MapsInv, Lifecycle
<1>3. ASSUME NEW addressed \in BOOLEAN, OpenOrRefuse(t, addressed) PROVE OpenedInv'
  <2> DEFINE o == [Required(t) EXCEPT !.slot = IF addressed THEN NoSlot ELSE @]
  <2>1. CASE UNCHANGED opened
    BY <1>1, <2>1, LookedUpStays DEF registryVars, RegistryInv, Grows
  <2>2. CASE IsComplete(t) /\ opened' = opened \cup {o}
    <3>1. /\ DOMAIN Required(t) = {"topic", "need", "class", "slot"} /\ Required(t).topic = t
          /\ Required(t).need # "none"
      BY <2>2 DEF Required, IsComplete, CapOf, RegistryInv, MapsInv, IsMap, Capabilities
    <3>2. o.topic = t /\ o.need = Required(t).need /\ o.class = Required(t).class
          /\ o.slot \in {NoSlot, Required(t).slot}
      BY <3>1
    <3> HIDE DEF o
    <3>3. ASSUME NEW u PROVE IsComplete(u)' = IsComplete(u) /\ Required(u)' = Required(u)
      BY <1>1 DEF registryVars, IsComplete, Required, CapOf
    <3> QED
      BY <2>2, <3>1, <3>2, <3>3 DEF RegistryInv, OpenedInv
  <2> QED
    BY <1>3, <2>1, <2>2 DEF OpenOrRefuse
<1>4. ASSUME UNCHANGED opened PROVE OpenedInv'
  BY <1>1, <1>4, LookedUpStays DEF registryVars, RegistryInv, Grows
<1>5. OpenedInv'
  BY <1>3, <1>4 DEF Begin, BeginTo
<1> QED
  BY <1>1, <1>2, <1>5 DEF RegistryInv, registryVars, Grows

-----------------------------------------------------------------------------
(* The invariant of the reader threads and the logic thread.               *)

InFlight(c) == reader[c].pc \in {"total", "lookup", "offer", "refuse"}

Pcs   == {"reading", "total", "lookup", "offer", "refuse", "heart", "pong", "closed"}
Fates == Reasons \cup {"pending", "stored", "closed"}
Ticks == [at : Int, interval : Nat]
Msgs  == (UNION {s.messages : s \in Setups}) \cup {NoMsg}
Cmds  == Consumers \X Nat

Readers ==
  [pc : Pcs, session : BOOLEAN, seq : Nat, msg : Msgs, now : Nat, cap : Nat,
   reason : Reasons \cup {""}, heart : Nat, tick : Ticks]

IsSeq(s) == Len(s) \in Nat /\ s = [i \in 1..Len(s) |-> s[i]]

SetupTypes ==
  /\ setup \in Setups /\ clock \in 0..setup.maxClock /\ inForce \in DOMAIN setup.limits
  /\ enabled \in BOOLEAN

RecordTypes ==
  /\ counts \in [unrouted : Nat, busy : [Targets -> Nat], suppressed : Nat, acks : Nat,
                 rejected : [Reasons -> Nat]]
  /\ DOMAIN answers = Consumers /\ \A c \in Consumers : IsSeq(answers[c])
  /\ fate \in [Consumers -> Seq(Fates)]

LaneTypes ==
  /\ lane \in [Targets -> [queue : Seq(Cmds), leaving : BOOLEAN]]
  /\ polled \in [Targets -> Seq(Cmds)]
  /\ \A t \in Targets : InLane(t) <= setup.capacity[t]

BeatTypes ==
  /\ heartbeat \in Nat /\ ticked \in Ticks
  /\ logic.pc \in {"idle", "poll", "tick"}
  /\ logic.pc = "poll" => logic.target \in Targets
  /\ logic.pc = "tick" => logic.now \in Nat

TypeInv == SetupTypes /\ reader \in [Consumers -> Readers] /\ RecordTypes /\ LaneTypes /\ BeatTypes

(* The record a reader has in hand is the last of its connection, and the  *)
(* only one whose end is open.                                             *)
InHand(c) ==
  /\ \A n \in DOMAIN fate[c] : fate[c][n] = "pending" <=> (n = Len(fate[c]) /\ InFlight(c))
  /\ InFlight(c) => Len(fate[c]) # 0
  /\ reader[c].pc = "refuse" <=> reader[c].reason # ""

LookedUp(c) ==
  reader[c].pc = "offer" =>
    Covers(Caps(c), reader[c].msg.topic) /\ reader[c].msg.topic \in DOMAIN routes

PendingInv == \A c \in Consumers : InHand(c) /\ LookedUp(c)

(* A ring's records, taken out of it or not, are the records with that end. *)
IsStored(command) ==
  command \in Cmds /\ command[2] \in Records(command[1], {"stored"})

InOrder(s) ==
  \A i, j \in DOMAIN s : i < j /\ s[i][1] = s[j][1] => s[i][2] < s[j][2]

OnOneRing(command) ==
  \E t \in Targets : /\ command \in Range(Taken(t))
                     /\ \A other \in Targets \ {t} : command \notin Range(Taken(other))

TakenInv ==
  /\ \A t \in Targets : InOrder(Taken(t)) /\ \A x \in Range(Taken(t)) : IsStored(x)
  /\ \A c \in Consumers : \A n \in Records(c, {"stored"}) : OnOneRing(<<c, n>>)

(* What a connection was told, it was told of a record that had ended so. *)
ToldOf(c) ==
  \A i \in Told(c) :
    /\ answers[c][i].why \in Reasons
    /\ answers[c][i].record \in Records(c, {answers[c][i].why})
    /\ \A j \in Told(c) : i < j => answers[c][i].record < answers[c][j].record

ToldInv == \A c \in Consumers : ToldOf(c)

(* And the counters hold as many as there are, less what is being refused. *)
RefusedCounted ==
  /\ \A why \in Reasons :
       IsFiniteSet(Refused({why})) /\ counts.rejected[why] = Cardinality(Refused({why}))
  /\ IsFiniteSet(Refused(Reasons)) /\ IsFiniteSet(AllTold)
  /\ Cardinality(Refused(Reasons)) = counts.suppressed + Cardinality(AllTold)

TurnedCounted ==
  /\ counts.unrouted = counts.rejected["UnknownTopic"] + Cardinality(At("refuse", "UnknownTopic"))
  /\ counts.busy["sim_driver"] + counts.busy["hook_driver"]
       = counts.rejected["Busy"] + Cardinality(At("refuse", "Busy"))

CountsInv == RefusedCounted /\ TurnedCounted

(* The stamp beside the tick it was made for, or was still good at. *)
StampOf(stamp, tick) ==
  /\ stamp = 0 <=> tick = Never
  /\ stamp # 0 => /\ stamp - 1 <= tick.at /\ tick.interval # 0
                  /\ stamp - 1 = tick.at \/ tick.at - (stamp - 1) < tick.interval

BeatInv ==
  /\ StampOf(heartbeat, ticked) /\ heartbeat - 1 <= clock
  /\ logic.pc = "tick" => heartbeat - 1 <= logic.now /\ logic.now <= clock
  /\ \A c \in Consumers : reader[c].pc = "pong" => StampOf(reader[c].heart, reader[c].tick)
  /\ PongIsTrue

InboundInv ==
  TypeInv /\ RegistryInv /\ PendingInv /\ TakenInv /\ ToldInv /\ CountsInv /\ BeatInv

-----------------------------------------------------------------------------
(* What the invariant says to the properties.                              *)

LEMMA FilterAnswersAreTrue ==
  ASSUME RegistryInv, NEW tokenCaps, NEW filter
  PROVE  /\ AdmittedTopics(tokenCaps, filter) = SentUnder(tokenCaps, filter)
         /\ ~filter.all => Unknown(tokenCaps, filter) = filter.topics \ SentUnder(tokenCaps, filter)
<1> USE RegistryAssumption DEF RegistryInv, MapsInv, IsMap
<1>1. ASSUME NEW t \in Topics
      PROVE  /\ IsComplete(t) <=> t \in DOMAIN classes /\ t \in DOMAIN caps
             /\ IsComplete(t) => /\ Required(t).need = caps[t]
                                 /\ Required(t).class = "lifecycle" <=> classes[t] = "lifecycle"
  BY DEF IsComplete, Required, CapOf, Outbound
<1>2. ASSUME NEW t
      PROVE  t \in SentUnder(tokenCaps, filter) <=>
               /\ Admissible(tokenCaps, t)
               /\ filter.all \/ classes[t] = "lifecycle" \/ t \in filter.topics
  BY <1>1 DEF SentUnder, Admissible, Covers
<1>3. AdmittedTopics(tokenCaps, filter) = SentUnder(tokenCaps, filter)
  <2>1. ASSUME NEW t
        PROVE  t \in AdmittedTopics(tokenCaps, filter) <=>
                 /\ Admissible(tokenCaps, t)
                 /\ filter.all \/ classes[t] = "lifecycle" \/ t \in filter.topics
    BY DEF AdmittedTopics, Admissible
  <2> QED
    BY <1>2, <2>1
<1>4. ASSUME ~filter.all
      PROVE  Unknown(tokenCaps, filter) = filter.topics \ SentUnder(tokenCaps, filter)
  BY <1>2, <1>4 DEF Unknown
<1> QED
  BY <1>3, <1>4

LEMMA ServedUrlsAreCapped == setup \in Setups => NoUrlPastTheCap
<1> SUFFICES ASSUME setup \in Setups, NEW m \in setup.messages, Fits(m), Decodes(m.body)
             PROVE  \A url \in TypeUrls(m.body) : url.length <= limits.url
  BY DEF NoUrlPastTheCap
<1>1. IsFrame(m.body)
  BY InboundAssumption
<1> QED
  BY <1>1, CheckedUrls DEF Fits

LEMMA InvariantIsEnough ==
  InboundInv => DeliveredAsEntitled /\ AnswersAreTrue /\ OpenedAsRegistered
<1> SUFFICES ASSUME InboundInv PROVE DeliveredAsEntitled /\ AnswersAreTrue /\ OpenedAsRegistered
  OBVIOUS
<1> USE DEF InboundInv
<1>1. DeliveredAsEntitled
  <2>1. \A t \in Targets : \A i \in DOMAIN Taken(t) : IsStored(Taken(t)[i])
    BY DEF TakenInv, Range
  <2> QED
    BY <2>1 DEF TakenInv, IsStored, InOrder, OnOneRing, Cmds, Records, PendingInv, LookedUp,
                DeliveredAsEntitled
<1>2. OpenedAsRegistered
  BY RegistryIsRegistered
<1>3. TypeOK
  <2>1. \A c \in Consumers : reader[c] \in Readers /\ fate[c] \in Seq(Fates)
    BY DEF TypeInv, RecordTypes
  <2>2. Range(classes) \subseteq Classes /\ Range(routes) \subseteq Targets /\ Range(caps) \subseteq Capabilities
    BY DEF RegistryInv, MapsInv, IsMap, Range
  <2>3. Fates = Reasons \cup {"pending", "stored", "closed"}
    BY DEF Fates
  <2> QED
    BY <2>1, <2>2, <2>3 DEF TypeInv, SetupTypes, RecordTypes, LaneTypes, BeatTypes, TypeOK, Readers, Pcs
<1>4. OneEndEach
  <2>1. \A c \in Consumers : \A n \in Records(c, {"pending"}) :
          n = Len(fate[c]) /\ reader[c].pc \in {"total", "lookup", "offer", "refuse"}
    BY DEF PendingInv, InHand, LookedUp, Records, InFlight
  <2>2. \A c \in Consumers : \A i \in Told(c) :
          /\ fate[c][answers[c][i].record] = answers[c][i].why
          /\ \A j \in Told(c) : i < j => answers[c][i].record < answers[c][j].record
    BY DEF ToldInv, ToldOf, Records
  <2> QED
    BY <2>1, <2>2 DEF OneEndEach, CountsInv, RefusedCounted, TurnedCounted
<1>5. AnswerIsWhatIsSent
  BY FilterAnswersAreTrue DEF AnswerIsWhatIsSent
<1>6. PongIsTrue /\ NoUrlPastTheCap
  BY ServedUrlsAreCapped DEF BeatInv, TypeInv, SetupTypes
<1> QED
  BY <1>1, <1>2, <1>3, <1>4, <1>5, <1>6 DEF AnswersAreTrue

-----------------------------------------------------------------------------
(* Sequences that grow at their end. *)

LEMMA SeqIsSeq ==
  ASSUME NEW S, NEW s \in Seq(S)
  PROVE  IsSeq(s) /\ DOMAIN s = 1..Len(s) /\ Len(s) \in Nat
BY DEF IsSeq

LEMMA AppendFacts ==
  ASSUME NEW s, IsSeq(s), NEW a
  PROVE  /\ IsSeq(Append(s, a)) /\ Len(Append(s, a)) = Len(s) + 1 /\ Len(s) \in Nat
         /\ DOMAIN s = 1..Len(s) /\ DOMAIN Append(s, a) = 1..(Len(s) + 1)
         /\ \A i \in DOMAIN s : Append(s, a)[i] = s[i]
         /\ Append(s, a)[Len(s) + 1] = a
<1> DEFINE S == {s[i] : i \in 1..Len(s)} \cup {a}
<1>1. s \in Seq(S) /\ a \in S /\ Len(s) \in Nat
  BY SeqDef DEF IsSeq
<1> HIDE DEF S
<1>2. /\ Append(s, a) \in Seq(S) /\ Len(Append(s, a)) = Len(s) + 1
      /\ DOMAIN s = 1..Len(s) /\ DOMAIN Append(s, a) = 1..(Len(s) + 1)
      /\ \A i \in 1..Len(s) : Append(s, a)[i] = s[i]
      /\ Append(s, a)[Len(s) + 1] = a
  BY <1>1
<1>3. IsSeq(Append(s, a))
  BY <1>2, SeqIsSeq
<1> QED
  BY <1>1, <1>2, <1>3

-----------------------------------------------------------------------------
LEMMA InboundStarts == Init => InboundInv
<1> SUFFICES ASSUME Init PROVE InboundInv
  OBVIOUS
<1>1. /\ setup \in Setups /\ clock = 0 /\ inForce = 1 /\ enabled = TRUE
      /\ reader = [c \in Consumers |-> [AtRest EXCEPT !.session = setup.session]]
      /\ lane = [t \in Targets |-> [queue |-> <<>>, leaving |-> FALSE]]
      /\ polled = [t \in Targets |-> <<>>] /\ answers = [c \in Consumers |-> <<>>]
      /\ fate = [c \in Consumers |-> <<>>]
      /\ heartbeat = 0 /\ ticked = Never /\ logic = [pc |-> "idle"]
  BY DEF Init
<1>2. counts = [unrouted |-> 0, busy |-> [t \in Targets |-> 0], suppressed |-> 0, acks |-> 0,
                rejected |-> [r \in Reasons |-> 0]]
  BY DEF Init
<1>3. /\ setup.session \in BOOLEAN /\ setup.maxClock \in Nat /\ setup.capacity \in [Targets -> Nat]
      /\ 1 \in DOMAIN setup.limits
  BY <1>1, InboundAssumption
<1>4. \A c \in Consumers : reader[c].pc = "reading" /\ reader[c].reason = ""
  BY <1>1 DEF AtRest
<1>5. TypeInv
  <2>1. reader \in [Consumers -> Readers]
    <3>1. Never \in Ticks
      BY DEF Never, Ticks
    <3>2. NoMsg \in Msgs
      BY DEF Msgs
    <3> QED
      BY <1>1, <1>3, <3>1, <3>2 DEF Readers, AtRest, Pcs
  <2>2. \A t \in Targets : InLane(t) <= setup.capacity[t]
    BY <1>1, <1>3 DEF InLane
  <2>3. lane \in [Targets -> [queue : Seq(Cmds), leaving : BOOLEAN]] /\ polled \in [Targets -> Seq(Cmds)]
    BY <1>1
  <2>4. DOMAIN answers = Consumers /\ \A c \in Consumers : IsSeq(answers[c])
    BY <1>1 DEF IsSeq
  <2>5. fate \in [Consumers -> Seq(Fates)] /\ ticked \in Ticks
    BY <1>1 DEF Ticks, Never
  <2>6. counts \in [unrouted : Nat, busy : [Targets -> Nat], suppressed : Nat, acks : Nat,
                    rejected : [Reasons -> Nat]]
    BY <1>2
  <2>7. clock \in 0..setup.maxClock /\ inForce \in DOMAIN setup.limits /\ enabled \in BOOLEAN
    BY <1>1, <1>3
  <2>8. heartbeat \in Nat /\ logic.pc = "idle" /\ setup \in Setups
    BY <1>1
  <2> QED
    BY <2>1, <2>2, <2>3, <2>4, <2>5, <2>6, <2>7, <2>8
       DEF TypeInv, SetupTypes, RecordTypes, LaneTypes, BeatTypes
<1>6. RegistryInv
  BY RegistryStarts DEF Init
<1>7. PendingInv
  <2>1. \A c \in Consumers : DOMAIN fate[c] = {}
    BY <1>1
  <2> QED
    BY <1>4, <2>1 DEF PendingInv, InHand, LookedUp, InFlight
<1>8. ToldInv
  <2>1. \A c \in Consumers : Told(c) = {}
    BY <1>1 DEF Told
  <2> QED
    BY <2>1 DEF ToldInv, ToldOf
<1>9. TakenInv
  <2>1. \A t \in Targets : DOMAIN Taken(t) = {}
    BY <1>1 DEF Taken
  <2>2. \A c \in Consumers : Records(c, {"stored"}) = {}
    BY <1>1 DEF Records
  <2> QED
    BY <2>1, <2>2 DEF TakenInv, InOrder, Range
<1>10. CountsInv
  <2>1. \A whys : Refused(whys) = {}
    BY <1>1 DEF Refused, Records
  <2>2. AllTold = {}
    BY <1>1 DEF AllTold, Told
  <2>3. \A why \in Reasons : At("refuse", why) = {}
    BY <1>4 DEF At
  <2>4. IsFiniteSet({}) /\ Cardinality({}) = 0
    BY FS_EmptySet
  <2>5. \A why \in Reasons : counts.rejected[why] = 0
    BY <1>2
  <2>6. counts.unrouted = 0 /\ counts.suppressed = 0
        /\ counts.busy["sim_driver"] = 0 /\ counts.busy["hook_driver"] = 0
    BY <1>2 DEF Targets
  <2>7. "Busy" \in Reasons /\ "UnknownTopic" \in Reasons
    BY DEF Reasons
  <2> QED
    BY <2>1, <2>2, <2>3, <2>4, <2>5, <2>6, <2>7 DEF CountsInv, RefusedCounted, TurnedCounted
<1>11. BeatInv
  <2>1. PongIsTrue
    BY <1>1 DEF PongIsTrue
  <2>2. StampOf(heartbeat, ticked)
    BY <1>1 DEF StampOf
  <2>3. heartbeat - 1 <= clock /\ logic.pc = "idle"
    BY <1>1
  <2> QED
    BY <1>4, <2>1, <2>2, <2>3 DEF BeatInv
<1> QED
  BY <1>5, <1>6, <1>7, <1>8, <1>9, <1>10, <1>11 DEF InboundInv


-----------------------------------------------------------------------------
(* What a step leaves of the registry, and of the types.                   *)

LEMMA RegistryKept ==
  ASSUME InboundInv, [Next]_vars
  PROVE  RegistryInv' /\ Grows(caps, caps') /\ Grows(routes, routes')
<1>1. RegistryInv /\ setup \in Setups
  BY DEF InboundInv, TypeInv, SetupTypes
<1>2. ASSUME UNCHANGED <<registryVars, openVars>>
      PROVE  RegistryInv' /\ Grows(caps, caps') /\ Grows(routes, routes')
  <2>1. OpenedInv'
    BY <1>1, <1>2, LookedUpStays DEF registryVars, openVars, RegistryInv, Grows
  <2> QED
    BY <1>1, <1>2, <2>1 DEF registryVars, RegistryInv, MapsInv, Lifecycle, Grows
<1>3. ASSUME NEW table \in setup.tables, Register(table)
      PROVE  RegistryInv' /\ Grows(caps, caps') /\ Grows(routes, routes')
  <2>1. IsTable(table)
    BY <1>1, InboundAssumption
  <2>2. CASE table.map = "classes"
    BY <1>1, <1>3, <2>1, <2>2, ClassesKept DEF Register, IsTable, IsRows
  <2>3. CASE table.map = "routes"
    BY <1>1, <1>3, <2>1, <2>3, RoutesKept DEF Register, IsTable, IsRows
  <2>4. CASE table.map = "caps"
    BY <1>1, <1>3, <2>1, <2>4, CapsKept DEF Register, IsTable, IsRows
  <2>5. CASE table.map = "replies"
    BY <1>1, <1>3, <2>1, <2>5, RepliesKept DEF Register, IsTable
  <2> QED
    BY <1>3, <2>2, <2>3, <2>4, <2>5 DEF Register
<1>4. ASSUME NEW t \in Topics \cup {Ack}, OpenRecord(t)
      PROVE  RegistryInv' /\ Grows(caps, caps') /\ Grows(routes, routes')
  BY <1>1, <1>4, OpenKept DEF OpenRecord
<1>5. ASSUME NEW c \in Consumers, ReaderStep(c) PROVE UNCHANGED <<registryVars, openVars>>
  BY <1>5 DEF ReaderStep, ReadAndClose, ReadAuth, ReadGetSchema, ReadSeqAck, ReadGetTopics,
              ReadSetTopicFilter, ReadSetEnabled, ReadRecord, ReadPing, Quick, Total, Lookup, Offer,
              Refuse, LoadHeartbeat, Pong
<1>6. ASSUME LogicStep
      PROVE  RegistryInv' /\ Grows(caps, caps') /\ Grows(routes, routes')
  <2>1. ASSUME NEW t \in Targets, PollTake(t) PROVE UNCHANGED <<registryVars, openVars>>
    BY <2>1 DEF PollTake
  <2>2. PollReturn \/ TickCall \/ TickStamp => UNCHANGED <<registryVars, openVars>>
    BY DEF PollReturn, TickCall, TickStamp
  <2> QED
    BY <1>2, <1>3, <1>4, <1>6, <2>1, <2>2 DEF LogicStep
<1>7. TimePasses \/ Configure \/ UNCHANGED vars => UNCHANGED <<registryVars, openVars>>
  BY DEF TimePasses, Configure, vars
<1> QED
  BY <1>2, <1>5, <1>6, <1>7 DEF Next

(* A reader's record, as the steps change it. *)
LEMMA ReaderRecords ==
  ASSUME TypeInv, NEW c \in Consumers, NEW m \in setup.messages \cup {NoMsg}
  PROVE  /\ TakenIn(c, m) \in Readers /\ TakenIn(c, m).pc = reader[c].pc
         /\ TakenIn(c, m).reason = reader[c].reason
         /\ [AtRest EXCEPT !.session = reader[c].session, !.seq = reader[c].seq] \in Readers
         /\ setup.messages \subseteq Msgs
<1>1. reader[c] \in Readers /\ setup \in Setups
  BY DEF TypeInv, SetupTypes
<1>2. m \in Msgs /\ setup.messages \subseteq Msgs /\ NoMsg \in Msgs
  BY <1>1 DEF Msgs
<1>3. Never \in Ticks
  BY DEF Never, Ticks
<1>4. TakenIn(c, m) \in Readers /\ TakenIn(c, m).pc = reader[c].pc
      /\ TakenIn(c, m).reason = reader[c].reason
  <2>1. PICK r \in Readers : r = reader[c]
    BY <1>1
  <2>2. PICK n \in Nat : n = r.seq + 1
    <3>1. r.seq \in Nat
      BY DEF Readers
    <3> QED
      BY <3>1
  <2>3. TakenIn(c, m) = [r EXCEPT !.seq = n, !.msg = m]
    BY <2>1, <2>2 DEF TakenIn
  <2>4. [r EXCEPT !.seq = n, !.msg = m] \in Readers
    BY <1>2 DEF Readers
  <2> QED
    BY <2>1, <2>3, <2>4 DEF Readers
<1>5. [AtRest EXCEPT !.session = reader[c].session, !.seq = reader[c].seq] \in Readers
  <2>1. reader[c].session \in BOOLEAN /\ reader[c].seq \in Nat
    BY <1>1 DEF Readers
  <2> QED
    BY <1>2, <1>3, <2>1 DEF AtRest, Readers, Pcs
<1> QED
  BY <1>2, <1>4, <1>5

LEMMA LimitsInForce == TypeInv => limits \in Limits
BY InboundAssumption DEF TypeInv, SetupTypes, limits

(* What a step does to a reader's record leaves it one. *)
LEMMA ReadersKept ==
  ASSUME TypeInv, NEW c \in Consumers, ReaderStep(c)
  PROVE  reader' \in [Consumers -> Readers]
<1>1. /\ reader \in [Consumers -> Readers] /\ setup \in Setups
      /\ clock \in Nat /\ heartbeat \in Nat /\ ticked \in Ticks
  BY InboundAssumption DEF TypeInv, SetupTypes, BeatTypes
<1>2. limits.total \in Nat
  BY LimitsInForce DEF Limits
<1>3. \A r \in Readers : reader' = [reader EXCEPT ![c] = r] => reader' \in [Consumers -> Readers]
  BY <1>1
<1>4. ASSUME NEW m \in setup.messages,
             ReadAndClose(c, m) \/ ReadAuth(c, m) \/ ReadGetSchema(c, m) \/ ReadSeqAck(c, m)
               \/ ReadGetTopics(c, m) \/ ReadSetTopicFilter(c, m) \/ ReadSetEnabled(c, m)
               \/ ReadRecord(c, m) \/ ReadPing(c, m)
      PROVE  reader' \in [Consumers -> Readers]
  <2>1. PICK r \in Readers : r = TakenIn(c, m)
    BY ReaderRecords
  <2>2. PICK q \in Readers : q = TakenIn(c, NoMsg)
    BY ReaderRecords
  <2>3. NoMsg \in Msgs
    BY DEF Msgs
  <2>4. CASE ReadAndClose(c, m)
    <3>1. [r EXCEPT !.pc = "closed"] \in Readers
      BY <2>1 DEF Readers, Pcs
    <3> QED
      BY <1>3, <2>1, <2>4, <3>1 DEF ReadAndClose
  <2>5. CASE ReadAuth(c, m)
    <3>1. m.good \in BOOLEAN
      BY <1>1, <2>5, InboundAssumption DEF ReadAuth, Accepted
    <3>2. [q EXCEPT !.session = m.good, !.pc = IF m.good THEN "reading" ELSE "closed"] \in Readers
      BY <2>2, <3>1 DEF Readers, Pcs
    <3> QED
      BY <1>3, <2>2, <2>5, <3>2 DEF ReadAuth
  <2>6. CASE Quick(c, m)
    <3>1. [r EXCEPT !.msg = NoMsg] \in Readers
      BY <2>1, <2>3 DEF Readers
    <3> QED
      BY <1>3, <2>1, <2>6, <3>1 DEF Quick
  <2>7. CASE ReadSetEnabled(c, m) /\ ~Quick(c, m)
    <3>1. [r EXCEPT !.pc = "refuse", !.reason = "NoCapability"] \in Readers
      BY <2>1 DEF Readers, Pcs, Reasons
    <3> QED
      BY <1>3, <2>1, <2>7, <3>1 DEF ReadSetEnabled
  <2>8. CASE ReadRecord(c, m)
    <3>1. PICK cap \in Nat : cap = limits.total
      BY <1>2
    <3>2. PICK pc \in {"total", "refuse"}, reason \in {"", "RateLimited"} :
            reader' = [reader EXCEPT ![c] =
                         [r EXCEPT !.pc = pc, !.reason = reason, !.now = clock, !.cap = cap]]
      BY <2>1, <2>8, <3>1 DEF ReadRecord
    <3>3. [r EXCEPT !.pc = pc, !.reason = reason, !.now = clock, !.cap = cap] \in Readers
      BY <1>1 DEF Readers, Pcs, Reasons
    <3> QED
      BY <1>3, <3>2, <3>3
  <2>9. CASE ReadPing(c, m)
    <3>1. [r EXCEPT !.pc = "heart", !.now = clock] \in Readers
      BY <1>1, <2>1 DEF Readers, Pcs
    <3> QED
      BY <1>3, <2>1, <2>9, <3>1 DEF ReadPing
  <2> QED
    BY <1>4, <2>4, <2>5, <2>6, <2>7, <2>8, <2>9
       DEF ReadGetSchema, ReadSeqAck, ReadGetTopics, ReadSetTopicFilter
<1>5. ASSUME NEW pc \in Pcs, To(c, pc) PROVE reader' \in [Consumers -> Readers]
  BY <1>1, <1>5 DEF To, Readers
<1>6. ASSUME NEW why \in Reasons, Refusing(c, why) PROVE reader' \in [Consumers -> Readers]
  <2>1. PICK r \in Readers : r = reader[c]
    BY <1>1
  <2>2. reader' = [reader EXCEPT ![c] = [r EXCEPT !.pc = "refuse", !.reason = why]]
    BY <1>1, <1>6, <2>1 DEF Refusing
  <2>3. [r EXCEPT !.pc = "refuse", !.reason = why] \in Readers
    BY DEF Readers, Pcs
  <2> QED
    BY <1>3, <2>2, <2>3
<1>7. ASSUME ReadOn(c) PROVE reader' \in [Consumers -> Readers]
  BY <1>3, <1>7, ReaderRecords DEF ReadOn
<1>8. ASSUME LoadHeartbeat(c) PROVE reader' \in [Consumers -> Readers]
  <2>1. PICK r \in Readers : r = reader[c]
    BY <1>1
  <2>2. reader' = [reader EXCEPT ![c] = [r EXCEPT !.pc = "pong", !.heart = heartbeat, !.tick = ticked]]
    BY <1>1, <1>8, <2>1 DEF LoadHeartbeat
  <2>3. [r EXCEPT !.pc = "pong", !.heart = heartbeat, !.tick = ticked] \in Readers
    BY <1>1 DEF Readers, Pcs
  <2> QED
    BY <1>3, <2>2, <2>3
<1>9. Total(c) \/ Lookup(c) \/ Offer(c) \/ Refuse(c) \/ Pong(c) => reader' \in [Consumers -> Readers]
  <2>1. {"lookup", "closed", "offer"} \subseteq Pcs /\ {"UnknownTopic", "NoCapability", "Busy"} \subseteq Reasons
    BY DEF Pcs, Reasons
  <2>2. Total(c) => To(c, "lookup") \/ To(c, "closed")
    BY DEF Total
  <2>3. Lookup(c) => Refusing(c, "UnknownTopic") \/ Refusing(c, "NoCapability") \/ To(c, "offer")
    BY DEF Lookup
  <2>4. Offer(c) => ReadOn(c) \/ Refusing(c, "Busy")
    BY DEF Offer
  <2>5. Refuse(c) \/ Pong(c) => ReadOn(c)
    BY DEF Refuse, Pong
  <2> QED
    BY <1>5, <1>6, <1>7, <2>1, <2>2, <2>3, <2>4, <2>5
<1> QED
  BY <1>4, <1>8, <1>9 DEF ReaderStep

-----------------------------------------------------------------------------
(* Whose state a step leaves alone. *)

LEMMA ReaderFrame ==
  ASSUME NEW c \in Consumers, ReaderStep(c)
  PROVE  /\ UNCHANGED <<setup, clock, inForce, polled, logicVars>>
         /\ UNCHANGED lane \/ Offer(c)
BY DEF ReaderStep, ReadAndClose, ReadAuth, ReadGetSchema, ReadSeqAck, ReadGetTopics,
       ReadSetTopicFilter, ReadSetEnabled, ReadRecord, ReadPing, Quick, Total, Lookup, Offer,
       Refuse, LoadHeartbeat, Pong, logicVars

LEMMA LogicFrame == LogicStep => UNCHANGED Others
<1>1. \A table : Register(table) => UNCHANGED Others
  BY DEF Register
<1>2. \A t : OpenRecord(t) \/ PollTake(t) => UNCHANGED Others
  BY DEF OpenRecord, PollTake
<1>3. PollReturn \/ TickCall \/ TickStamp => UNCHANGED Others
  BY DEF PollReturn, TickCall, TickStamp
<1> QED
  BY <1>1, <1>2, <1>3 DEF LogicStep

LEMMA SetupTypesKept ==
  ASSUME TypeInv, [Next]_vars
  PROVE  SetupTypes' /\ setup' = setup
<1>1. SetupTypes /\ setup.maxClock \in Nat /\ setup.limits \in Seq(Limits)
  BY InboundAssumption DEF TypeInv, SetupTypes
<1>2. ASSUME NEW c \in Consumers, ReaderStep(c) PROVE SetupTypes' /\ setup' = setup
  <2>1. ASSUME NEW m \in setup.messages, ReadSetEnabled(c, m) PROVE enabled' \in BOOLEAN
    <3>1. ~(m.kind = "enabled" /\ ~m.decodes)
      BY <2>1 DEF ReadSetEnabled, Accepted, Closes
    <3>2. m.kind = "enabled" /\ (enabled' = m.enabled \/ enabled' = enabled)
      BY <2>1 DEF ReadSetEnabled, Accepted
    <3> QED
      BY <1>1, <3>1, <3>2, InboundAssumption DEF SetupTypes
  <2>2. (\E m \in setup.messages : ReadSetEnabled(c, m)) \/ enabled' = enabled
    BY <1>2 DEF ReaderStep, ReadAndClose, ReadAuth, ReadGetSchema, ReadSeqAck, ReadGetTopics,
                ReadSetTopicFilter, ReadRecord, ReadPing, Total, Lookup, Offer, Refuse,
                LoadHeartbeat, Pong
  <2> QED
    BY <1>1, <1>2, <2>1, <2>2, ReaderFrame DEF SetupTypes
<1>3. LogicStep \/ UNCHANGED vars => SetupTypes' /\ setup' = setup
  BY <1>1, LogicFrame DEF Others, vars, SetupTypes
<1>4. TimePasses \/ Configure => SetupTypes' /\ setup' = setup
  BY <1>1 DEF TimePasses, Configure, SetupTypes
<1> QED
  BY <1>2, <1>3, <1>4 DEF Next

-----------------------------------------------------------------------------
(* The six ways in which a reader's step goes on with a record, or without. *)

Rests(c) == ~InFlight(c) /\ reader[c].reason = ""

ToldSame(c) == Told(c)' = Told(c) /\ \A i \in Told(c) : answers'[c][i] = answers[c][i]

Alone(c) == \A d \in Consumers \ {c} : reader'[d] = reader[d]

Apart(c) ==
  /\ Alone(c)
  /\ \A d \in Consumers \ {c} : fate'[d] = fate[d] /\ answers'[d] = answers[d]

tallies == <<counts.rejected, counts.suppressed, counts.unrouted, counts.busy>>

(* It has none in hand. *)
Quietly(c) ==
  /\ Apart(c) /\ Rests(c) /\ Rests(c)' /\ fate'[c] = fate[c] /\ ToldSame(c)
  /\ reader'[c].pc = "pong" => LoadHeartbeat(c)
  /\ UNCHANGED tallies /\ UNCHANGED lane

(* It takes one in. *)
Begins(c) ==
  /\ Apart(c) /\ Rests(c) /\ fate'[c] = Append(fate[c], "pending") /\ answers'[c] = answers[c]
  /\ \/ reader'[c].pc = "total" /\ reader'[c].reason = ""
     \/ reader'[c].pc = "refuse" /\ reader'[c].reason \in {"NoCapability", "RateLimited"}
  /\ UNCHANGED tallies /\ UNCHANGED lane

(* It goes on with it, or will refuse it. *)
Turned(c, why) == reader'[c].pc = "refuse" /\ reader'[c].reason = why

MovesOn(c) ==
  /\ reader'[c].pc \in {"lookup", "offer"} /\ reader'[c].reason = ""
  /\ reader'[c].pc = "offer" =>
       Covers(Caps(c), reader'[c].msg.topic) /\ reader'[c].msg.topic \in DOMAIN routes

Moves(c) ==
  /\ Apart(c) /\ InFlight(c) /\ reader[c].reason = "" /\ fate'[c] = fate[c] /\ answers'[c] = answers[c]
  /\ UNCHANGED lane /\ counts'.rejected = counts.rejected /\ counts'.suppressed = counts.suppressed
  /\ \/ /\ MovesOn(c) \/ Turned(c, "NoCapability")
        /\ counts'.unrouted = counts.unrouted /\ counts'.busy = counts.busy
     \/ /\ Turned(c, "UnknownTopic")
        /\ counts'.unrouted = counts.unrouted + 1 /\ counts'.busy = counts.busy
     \/ /\ Turned(c, "Busy") /\ counts'.unrouted = counts.unrouted
        /\ \E t \in Targets : counts'.busy = [counts.busy EXCEPT ![t] = @ + 1]

(* And it is done with it. *)
Settles(c, what) ==
  /\ Apart(c) /\ InFlight(c) /\ Rests(c)' /\ reader'[c].pc # "pong"
  /\ fate'[c] = [fate[c] EXCEPT ![Len(fate[c])] = what]

Loses(c) ==
  /\ Settles(c, "closed") /\ reader[c].reason = "" /\ answers'[c] = answers[c]
  /\ UNCHANGED tallies /\ UNCHANGED lane

Stores(c) ==
  /\ Settles(c, "stored") /\ reader[c].reason = "" /\ answers'[c] = answers[c]
  /\ UNCHANGED tallies
  /\ \E t \in Targets : lane' = [lane EXCEPT ![t].queue = Append(@, Command(c))]

Refuses(c) ==
  LET why == reader[c].reason IN
  /\ Settles(c, why) /\ reader[c].pc = "refuse"
  /\ UNCHANGED lane /\ counts'.unrouted = counts.unrouted /\ counts'.busy = counts.busy
  /\ counts'.rejected = [counts.rejected EXCEPT ![why] = @ + 1]
  /\ \/ answers'[c] = answers[c] /\ counts'.suppressed = counts.suppressed + 1
     \/ /\ counts'.suppressed = counts.suppressed
        /\ \E a : /\ a.kind = "rejected" /\ a.record = Len(fate[c]) /\ a.why = why
                  /\ answers'[c] = Append(answers[c], a)

(* An answer that is no refusal tells of none. *)
LEMMA AnswersTellNothing ==
  ASSUME RecordTypes, NEW c \in Consumers, NEW a, a.kind # "rejected", Answer(c, a)
  PROVE  ToldSame(c) /\ \A d \in Consumers \ {c} : answers'[d] = answers[d]
<1>1. IsSeq(answers[c]) /\ DOMAIN answers = Consumers
  BY DEF RecordTypes
<1>2. answers'[c] = Append(answers[c], a) /\ \A d \in Consumers \ {c} : answers'[d] = answers[d]
  BY <1>1 DEF Answer
<1> DEFINE s == answers[c]
<1>3. /\ Len(s) \in Nat /\ DOMAIN s = 1..Len(s) /\ DOMAIN Append(s, a) = 1..(Len(s) + 1)
      /\ \A i \in DOMAIN s : Append(s, a)[i] = s[i]
      /\ Append(s, a)[Len(s) + 1] = a
  BY <1>1, AppendFacts
<1> HIDE DEF s
<1>4. answers[c] = s /\ answers'[c] = Append(s, a)
  BY <1>2 DEF s
<1>5. ToldSame(c)
  BY <1>3, <1>4 DEF ToldSame, Told
<1> QED
  BY <1>2, <1>5

LEMMA ReaderMoves ==
  ASSUME TypeInv, NEW c \in Consumers
  PROVE  /\ \A r : reader' = [reader EXCEPT ![c] = r] => Alone(c) /\ reader'[c] = r
         /\ \A pc : To(c, pc) => /\ Alone(c) /\ reader'[c].pc = pc
                                 /\ reader'[c].reason = reader[c].reason
                                 /\ reader'[c].msg = reader[c].msg
         /\ \A why : Refusing(c, why) => Alone(c) /\ Turned(c, why)
         /\ ReadOn(c) => Alone(c) /\ Rests(c)' /\ reader'[c].pc = "reading"
<1>1. reader \in [Consumers -> Readers]
  BY DEF TypeInv
<1>2. PICK r \in Readers : r = reader[c]
  BY <1>1
<1>3. DOMAIN r = {"pc", "session", "seq", "msg", "now", "cap", "reason", "heart", "tick"}
  BY DEF Readers
<1>4. \A q : reader' = [reader EXCEPT ![c] = q] => Alone(c) /\ reader'[c] = q
  BY <1>1 DEF Alone
<1>5. ASSUME NEW pc, To(c, pc)
      PROVE  Alone(c) /\ reader'[c].pc = pc /\ reader'[c].reason = reader[c].reason
             /\ reader'[c].msg = reader[c].msg
  <2>1. reader' = [reader EXCEPT ![c] = [r EXCEPT !.pc = pc]]
    BY <1>1, <1>2, <1>5 DEF To
  <2>2. reader'[c] = [r EXCEPT !.pc = pc] /\ Alone(c)
    BY <1>4, <2>1
  <2> QED
    BY <1>2, <1>3, <2>2
<1>6. ASSUME NEW why, Refusing(c, why) PROVE Alone(c) /\ Turned(c, why)
  <2>1. reader' = [reader EXCEPT ![c] = [r EXCEPT !.pc = "refuse", !.reason = why]]
    BY <1>1, <1>2, <1>6 DEF Refusing
  <2>2. reader'[c] = [r EXCEPT !.pc = "refuse", !.reason = why] /\ Alone(c)
    BY <1>4, <2>1
  <2> QED
    BY <1>3, <2>2 DEF Turned
<1>7. ASSUME ReadOn(c) PROVE Alone(c) /\ Rests(c)' /\ reader'[c].pc = "reading"
  <2>1. reader'[c] = [AtRest EXCEPT !.session = reader[c].session, !.seq = reader[c].seq] /\ Alone(c)
    BY <1>4, <1>7 DEF ReadOn
  <2>2. reader'[c].pc = "reading" /\ reader'[c].reason = ""
    BY <2>1 DEF AtRest
  <2> QED
    BY <2>1, <2>2 DEF Rests, InFlight
<1> QED
  BY <1>4, <1>5, <1>6, <1>7

(* A frame that is no record for Lua leaves the reader with none. *)
LEMMA FrameSteps ==
  ASSUME TypeInv, PendingInv, NEW c \in Consumers, NEW m \in setup.messages,
         ReadAndClose(c, m) \/ ReadAuth(c, m) \/ ReadGetSchema(c, m) \/ ReadSeqAck(c, m)
           \/ ReadGetTopics(c, m) \/ ReadSetTopicFilter(c, m) \/ ReadSetEnabled(c, m)
           \/ ReadRecord(c, m) \/ ReadPing(c, m)
  PROVE  Quietly(c) \/ Begins(c)
<1>1. /\ fate \in [Consumers -> Seq(Fates)] /\ RecordTypes
  BY DEF TypeInv, RecordTypes
<1>2. Rests(c)
  <2>1. reader[c].pc = "reading"
    BY DEF ReadAndClose, ReadAuth, ReadGetSchema, ReadSeqAck, ReadGetTopics, ReadSetTopicFilter,
           ReadSetEnabled, ReadRecord, ReadPing, Accepted, Arrives
  <2> QED
    BY <2>1 DEF PendingInv, InHand, LookedUp, Rests, InFlight
<1>3. PICK r \in Readers : r = TakenIn(c, m) /\ r.pc = reader[c].pc /\ r.reason = reader[c].reason
  BY ReaderRecords
<1>4. PICK q \in Readers : q = TakenIn(c, NoMsg) /\ q.pc = reader[c].pc /\ q.reason = reader[c].reason
  BY ReaderRecords
<1>5. \A x \in Readers : DOMAIN x = {"pc", "session", "seq", "msg", "now", "cap", "reason", "heart", "tick"}
  BY DEF Readers
<1>6. ASSUME UNCHANGED answers PROVE ToldSame(c) /\ \A d \in Consumers : answers'[d] = answers[d]
  BY <1>6 DEF ToldSame, Told
<1>7. ASSUME NEW x, reader' = [reader EXCEPT ![c] = x], x.pc \in {"reading", "closed", "heart"},
             x.reason = "", UNCHANGED <<fate, lane, tallies>>,
             ToldSame(c) /\ \A d \in Consumers \ {c} : answers'[d] = answers[d]
      PROVE  Quietly(c)
  <2>1. Alone(c) /\ reader'[c] = x
    BY <1>7, ReaderMoves
  <2>2. Rests(c)' /\ reader'[c].pc # "pong"
    BY <1>7, <2>1 DEF Rests, InFlight
  <2> QED
    BY <1>2, <1>7, <2>1, <2>2 DEF Quietly, Apart, tallies
<1>8. reader[c].pc = "reading" /\ reader[c].reason = ""
  BY DEF ReadAndClose, ReadAuth, ReadGetSchema, ReadSeqAck, ReadGetTopics, ReadSetTopicFilter,
         ReadSetEnabled, ReadRecord, ReadPing, Accepted, Arrives, PendingInv, InHand
<1>9. CASE ReadAndClose(c, m)
  <2>1. reader' = [reader EXCEPT ![c] = [r EXCEPT !.pc = "closed"]] /\ UNCHANGED <<fate, lane, answers, counts>>
    BY <1>3, <1>9 DEF ReadAndClose, countVars
  <2>2. [r EXCEPT !.pc = "closed"].pc = "closed" /\ [r EXCEPT !.pc = "closed"].reason = ""
    BY <1>3, <1>5, <1>8
  <2> QED
    BY <1>6, <1>7, <2>1, <2>2 DEF tallies
<1>10. CASE ReadAuth(c, m)
  <2>1. PICK x : x = [q EXCEPT !.session = m.good, !.pc = IF m.good THEN "reading" ELSE "closed"]
    OBVIOUS
  <2>2. reader' = [reader EXCEPT ![c] = x] /\ UNCHANGED <<fate, lane, counts>>
    BY <1>4, <1>10, <2>1 DEF ReadAuth, countVars
  <2>3. x.pc \in {"reading", "closed"} /\ x.reason = ""
    BY <1>4, <1>5, <1>8, <2>1
  <2>4. ToldSame(c) /\ \A d \in Consumers \ {c} : answers'[d] = answers[d]
    <3>1. [kind |-> "auth", ok |-> m.good].kind # "rejected" /\ Answer(c, [kind |-> "auth", ok |-> m.good])
      BY <1>10 DEF ReadAuth
    <3> QED
      BY <1>1, <3>1, AnswersTellNothing
  <2> QED
    BY <1>7, <2>2, <2>3, <2>4 DEF tallies
<1>11. CASE Quick(c, m) /\ (ReadGetSchema(c, m) \/ ReadSeqAck(c, m) \/ ReadGetTopics(c, m)
                            \/ ReadSetTopicFilter(c, m) \/ ReadSetEnabled(c, m))
  <2>1. PICK x : x = [r EXCEPT !.msg = NoMsg]
    OBVIOUS
  <2>2. reader' = [reader EXCEPT ![c] = x] /\ UNCHANGED <<fate, lane>>
    BY <1>3, <1>11, <2>1 DEF Quick
  <2>3. x.pc = "reading" /\ x.reason = ""
    BY <1>3, <1>5, <1>8, <2>1
  <2>4. UNCHANGED answers \/ \E a : a.kind # "rejected" /\ Answer(c, a)
    <3>1. ReadGetSchema(c, m) => Answer(c, [kind |-> "schema"])
      BY DEF ReadGetSchema
    <3>2. ReadSeqAck(c, m) => UNCHANGED answers
      BY DEF ReadSeqAck
    <3>3. ReadGetTopics(c, m) => Answer(c, [kind |-> "topics", listed |-> Listed(Caps(c))])
      BY DEF ReadGetTopics
    <3>4. ReadSetTopicFilter(c, m) => \E a : a.kind # "rejected" /\ Answer(c, a)
      <4>1. ASSUME ReadSetTopicFilter(c, m), FilterRefusal(m) # "nothing"
            PROVE  Answer(c, [kind |-> "filter", refusal |-> FilterRefusal(m)])
        BY <4>1 DEF ReadSetTopicFilter
      <4>2. ASSUME ReadSetTopicFilter(c, m), FilterRefusal(m) = "nothing"
            PROVE  \E f, n, u : Answer(c, [kind |-> "filter", refusal |-> "nothing", filter |-> f,
                                          admitted |-> n, unknown |-> u])
        BY <4>2, Zenon DEF ReadSetTopicFilter
      <4> QED
        BY <4>1, <4>2
    <3>5. Quick(c, m) /\ ReadSetEnabled(c, m) => UNCHANGED answers
      BY <1>2, <1>3, <1>5 DEF Quick, ReadSetEnabled
    <3> QED
      BY <1>11, <3>1, <3>2, <3>3, <3>4, <3>5
  <2>5. UNCHANGED tallies
    <3>1. ReadSeqAck(c, m) => counts' = [counts EXCEPT !.acks = @ + 1]
      BY DEF ReadSeqAck
    <3>2. ~ReadSeqAck(c, m) => UNCHANGED counts
      BY <1>11 DEF ReadGetSchema, ReadGetTopics, ReadSetTopicFilter, ReadSetEnabled, countVars
    <3> QED
      BY <1>1, <3>1, <3>2 DEF tallies, RecordTypes
  <2>6. ToldSame(c) /\ \A d \in Consumers \ {c} : answers'[d] = answers[d]
    BY <1>1, <1>6, <2>4, AnswersTellNothing
  <2> QED
    BY <1>7, <2>2, <2>3, <2>5, <2>6
<1>12. CASE ReadSetEnabled(c, m) /\ ~Quick(c, m)
  <2>1. PICK x : x = [r EXCEPT !.pc = "refuse", !.reason = "NoCapability"]
    OBVIOUS
  <2>2. /\ reader' = [reader EXCEPT ![c] = x] /\ UNCHANGED <<lane, answers, counts>>
        /\ fate' = [fate EXCEPT ![c] = Append(@, "pending")]
    BY <1>3, <1>12, <2>1 DEF ReadSetEnabled, countVars
  <2>3. x.pc = "refuse" /\ x.reason = "NoCapability"
    BY <1>5, <2>1
  <2> QED
    BY <1>1, <1>2, <2>2, <2>3, ReaderMoves DEF Begins, Apart, tallies
<1>13. CASE ReadRecord(c, m)
  <2>1. PICK pc, reason, cap :
          /\ reader' = [reader EXCEPT ![c] = [r EXCEPT !.pc = pc, !.reason = reason, !.now = clock, !.cap = cap]]
          /\ (pc = "total" /\ reason = "") \/ (pc = "refuse" /\ reason = "RateLimited")
    BY <1>3, <1>13 DEF ReadRecord
  <2>2. PICK x : x = [r EXCEPT !.pc = pc, !.reason = reason, !.now = clock, !.cap = cap]
    OBVIOUS
  <2>3. x.pc = pc /\ x.reason = reason
    BY <1>5, <2>2
  <2>4. fate' = [fate EXCEPT ![c] = Append(@, "pending")] /\ UNCHANGED <<lane, answers, counts>>
    BY <1>13 DEF ReadRecord
  <2> QED
    BY <1>1, <1>2, <2>1, <2>2, <2>3, <2>4, ReaderMoves DEF Begins, Apart, tallies
<1>14. CASE ReadPing(c, m)
  <2>1. PICK x : x = [r EXCEPT !.pc = "heart", !.now = clock]
    OBVIOUS
  <2>2. reader' = [reader EXCEPT ![c] = x] /\ UNCHANGED <<fate, lane, answers, counts>>
    BY <1>3, <1>14, <2>1 DEF ReadPing, countVars
  <2>3. x.pc = "heart" /\ x.reason = ""
    BY <1>3, <1>5, <1>8, <2>1
  <2> QED
    BY <1>6, <1>7, <2>2, <2>3 DEF tallies
<1> QED
  BY <1>9, <1>10, <1>11, <1>12, <1>13, <1>14
     DEF ReadGetSchema, ReadSeqAck, ReadGetTopics, ReadSetTopicFilter

LEMMA ReaderSteps ==
  ASSUME TypeInv, PendingInv, RegistryInv, NEW c \in Consumers, ReaderStep(c)
  PROVE  Quietly(c) \/ Begins(c) \/ Moves(c) \/ Loses(c) \/ Stores(c) \/ Refuses(c)
<1>1. /\ RecordTypes /\ fate \in [Consumers -> Seq(Fates)] /\ DOMAIN answers = Consumers
      /\ \A d \in Consumers : IsSeq(answers[d])
      /\ counts \in [unrouted : Nat, busy : [Targets -> Nat], suppressed : Nat, acks : Nat,
                     rejected : [Reasons -> Nat]]
  BY DEF TypeInv, RecordTypes
<1>2. reader[c].pc = "refuse" <=> reader[c].reason # ""
  BY DEF PendingInv, InHand, LookedUp
<1>3. ASSUME UNCHANGED answers PROVE ToldSame(c) /\ \A d \in Consumers : answers'[d] = answers[d]
  BY <1>3 DEF ToldSame, Told
<1>4. ASSUME NEW what, Became(c, what)
      PROVE  /\ fate'[c] = [fate[c] EXCEPT ![Len(fate[c])] = what]
             /\ \A d \in Consumers \ {c} : fate'[d] = fate[d]
  BY <1>1, <1>4 DEF Became
<1>5. CASE Total(c)
  <2>1. InFlight(c) /\ reader[c].reason = "" /\ UNCHANGED <<lane, answers, counts>>
    BY <1>2, <1>5 DEF Total, InFlight
  <2>2. CASE To(c, "lookup") /\ UNCHANGED fate
    <3>1. Alone(c) /\ reader'[c].pc = "lookup" /\ reader'[c].reason = ""
      BY <2>1, <2>2, ReaderMoves
    <3> QED
      BY <2>1, <2>2, <3>1 DEF Moves, MovesOn, Apart
  <2>3. CASE To(c, "closed") /\ Became(c, "closed")
    <3>1. Alone(c) /\ reader'[c].pc = "closed" /\ reader'[c].reason = ""
      BY <2>1, <2>3, ReaderMoves
    <3>2. Rests(c)'
      BY <3>1 DEF Rests, InFlight
    <3> QED
      BY <1>4, <2>1, <2>3, <3>1, <3>2 DEF Loses, Settles, Apart, tallies
  <2> QED
    BY <1>5, <2>2, <2>3 DEF Total
<1>6. CASE Lookup(c)
  <2>1. InFlight(c) /\ reader[c].reason = "" /\ UNCHANGED <<lane, answers, fate>>
    BY <1>2, <1>6 DEF Lookup, InFlight
  <2>2. CASE Refusing(c, "UnknownTopic") /\ counts' = [counts EXCEPT !.unrouted = @ + 1]
    <3>1. Alone(c) /\ Turned(c, "UnknownTopic")
      BY <2>2, ReaderMoves
    <3>2. /\ counts'.unrouted = counts.unrouted + 1 /\ counts'.busy = counts.busy
          /\ counts'.rejected = counts.rejected /\ counts'.suppressed = counts.suppressed
      BY <1>1, <2>2
    <3> QED
      BY <2>1, <3>1, <3>2 DEF Moves, Apart
  <2>3. CASE Refusing(c, "NoCapability") /\ UNCHANGED counts
    <3>1. Alone(c) /\ Turned(c, "NoCapability")
      BY <2>3, ReaderMoves
    <3> QED
      BY <2>1, <2>3, <3>1 DEF Moves, Apart
  <2>4. CASE /\ To(c, "offer") /\ UNCHANGED counts
             /\ reader[c].msg.topic \in DOMAIN routes /\ Covers(Caps(c), reader[c].msg.topic)
    <3>1. Alone(c) /\ reader'[c].pc = "offer" /\ reader'[c].reason = "" /\ reader'[c].msg = reader[c].msg
      BY <2>1, <2>4, ReaderMoves
    <3> QED
      BY <2>1, <2>4, <3>1 DEF Moves, MovesOn, Apart
  <2> QED
    BY <1>6, <2>2, <2>3, <2>4 DEF Lookup
<1>7. CASE Offer(c)
  <2>1. InFlight(c) /\ reader[c].reason = "" /\ UNCHANGED answers
    BY <1>2, <1>7 DEF Offer, InFlight
  <2>2. PICK t : t = routes[reader[c].msg.topic]
    OBVIOUS
  <2>3. t \in Targets
    BY <1>7, <2>2 DEF Offer, PendingInv, InHand, LookedUp, RegistryInv, MapsInv, IsMap
  <2>4. CASE /\ lane' = [lane EXCEPT ![t].queue = Append(@, Command(c))]
             /\ ReadOn(c) /\ Became(c, "stored") /\ UNCHANGED counts
    BY <1>4, <2>1, <2>3, <2>4, ReaderMoves DEF Stores, Settles, Apart, tallies
  <2>5. CASE /\ counts' = [counts EXCEPT !.busy[t] = @ + 1]
             /\ Refusing(c, "Busy") /\ UNCHANGED <<lane, fate>>
    <3>1. Alone(c) /\ Turned(c, "Busy")
      BY <2>5, ReaderMoves
    <3>2. /\ counts'.unrouted = counts.unrouted /\ counts'.busy = [counts.busy EXCEPT ![t] = @ + 1]
          /\ counts'.rejected = counts.rejected /\ counts'.suppressed = counts.suppressed
      BY <1>1, <2>5
    <3> QED
      BY <2>1, <2>3, <2>5, <3>1, <3>2 DEF Moves, Apart
  <2> QED
    BY <1>7, <2>2, <2>4, <2>5 DEF Offer
<1>8. CASE Refuse(c)
  <2>1. PICK why \in Reasons : why = reader[c].reason
    <3>1. reader[c] \in Readers /\ reader[c].reason # ""
      BY <1>2, <1>8 DEF Refuse, TypeInv
    <3> QED
      BY <3>1 DEF Readers
  <2>2. /\ InFlight(c) /\ reader[c].pc = "refuse" /\ UNCHANGED lane /\ ReadOn(c)
        /\ Became(c, why)
    BY <1>8, <2>1 DEF Refuse, InFlight
  <2>3. Settles(c, why)
    <3>1. \A d \in Consumers \ {c} : answers'[d] = answers[d]
      BY <1>1, <1>8 DEF Refuse, Answer
    <3> QED
      BY <1>4, <2>2, <3>1, ReaderMoves DEF Settles, Apart
  <2> DEFINE ok == Admits(windows[c][Kind(why)], clock, limits[Kind(why)])
  <2>4. CASE ok
    <3>1. counts' = [counts EXCEPT !.rejected[why] = @ + 1]
      <4>1. counts' = [counts EXCEPT !.rejected[why] = @ + 1, !.suppressed = @]
        BY <1>8, <2>1, <2>4, Zenon DEF Refuse, Tally
      <4> QED
        BY <1>1, <4>1
    <3>2. PICK a : /\ a.kind = "rejected" /\ a.record = Len(fate[c]) /\ a.why = why
                   /\ Answer(c, a)
      BY <1>8, <2>1, <2>4 DEF Refuse
    <3>3. answers'[c] = Append(answers[c], a)
      BY <1>1, <3>2 DEF Answer
    <3>4. /\ counts'.unrouted = counts.unrouted /\ counts'.busy = counts.busy
          /\ counts'.rejected = [counts.rejected EXCEPT ![why] = @ + 1]
          /\ counts'.suppressed = counts.suppressed
      BY <1>1, <3>1
    <3> QED
      BY <2>1, <2>2, <2>3, <3>2, <3>3, <3>4 DEF Refuses
  <2>5. CASE ~ok
    <3>1. counts' = [counts EXCEPT !.rejected[why] = @ + 1, !.suppressed = @ + 1]
      BY <1>8, <2>1, <2>5, Zenon DEF Refuse, Tally
    <3>2. answers'[c] = answers[c]
      BY <1>8, <2>1, <2>5 DEF Refuse
    <3>3. /\ counts'.unrouted = counts.unrouted /\ counts'.busy = counts.busy
          /\ counts'.rejected = [counts.rejected EXCEPT ![why] = @ + 1]
          /\ counts'.suppressed = counts.suppressed + 1
      BY <1>1, <3>1
    <3> QED
      BY <2>1, <2>2, <2>3, <3>2, <3>3 DEF Refuses
  <2> QED
    BY <2>4, <2>5
<1>9. CASE LoadHeartbeat(c)
  <2>1. PICK r \in Readers : r = reader[c]
    BY DEF TypeInv
  <2>2. PICK x : x = [r EXCEPT !.pc = "pong", !.heart = heartbeat, !.tick = ticked]
    OBVIOUS
  <2>3. reader' = [reader EXCEPT ![c] = x]
    BY <1>9, <2>1, <2>2 DEF LoadHeartbeat, TypeInv
  <2>4. x.pc = "pong" /\ x.reason = reader[c].reason
    BY <2>1, <2>2 DEF Readers
  <2>5. reader[c].pc = "heart" /\ UNCHANGED <<lane, answers, fate, counts>>
    BY <1>9 DEF LoadHeartbeat, countVars
  <2>6. Alone(c) /\ reader'[c] = x
    BY <2>3, ReaderMoves
  <2>7. Rests(c) /\ Rests(c)'
    BY <1>2, <2>4, <2>5, <2>6 DEF Rests, InFlight
  <2> QED
    BY <1>3, <1>9, <2>5, <2>6, <2>7 DEF Quietly, Apart, tallies
<1>10. CASE Pong(c)
  <2>1. PICK a : a.kind # "rejected" /\ Answer(c, a)
    BY <1>10 DEF Pong
  <2>2. reader[c].pc = "pong" /\ ReadOn(c) /\ UNCHANGED <<lane, fate, counts>>
    BY <1>10 DEF Pong, countVars
  <2>3. Rests(c) /\ Rests(c)' /\ Alone(c) /\ reader'[c].pc # "pong"
    BY <1>2, <2>2, ReaderMoves DEF Rests, InFlight
  <2> QED
    BY <1>1, <2>1, <2>2, <2>3, AnswersTellNothing DEF Quietly, Apart, tallies
<1> QED
  BY <1>5, <1>6, <1>7, <1>8, <1>9, <1>10, FrameSteps DEF ReaderStep

-----------------------------------------------------------------------------
(* The record in hand. *)

(* The fates of a connection's records, as one is taken in or settled.     *)
LEMMA FateFacts ==
  ASSUME NEW s \in Seq(Fates), NEW what
  PROVE  /\ Len(s) \in Nat /\ DOMAIN s = 1..Len(s)
         /\ Len(Append(s, what)) = Len(s) + 1 /\ DOMAIN Append(s, what) = 1..(Len(s) + 1)
         /\ \A n \in DOMAIN s : Append(s, what)[n] = s[n]
         /\ Append(s, what)[Len(s) + 1] = what
         /\ DOMAIN [s EXCEPT ![Len(s)] = what] = DOMAIN s
         /\ Len(s) # 0 => Len(s) \in DOMAIN s /\ [s EXCEPT ![Len(s)] = what][Len(s)] = what
         /\ \A n \in DOMAIN s : n # Len(s) => [s EXCEPT ![Len(s)] = what][n] = s[n]
         /\ Len([s EXCEPT ![Len(s)] = what]) = Len(s)
<1>1. IsSeq(s) /\ DOMAIN s = 1..Len(s) /\ Len(s) \in Nat
  BY SeqIsSeq
<1>2. Len([s EXCEPT ![Len(s)] = what]) = Len(s) /\ DOMAIN [s EXCEPT ![Len(s)] = what] = DOMAIN s
  BY <1>1, LenProperties
<1> QED
  BY <1>1, <1>2, AppendFacts

(* What a lookup said, a later table does not take back. *)
LEMMA LookedUpStaysSo ==
  ASSUME NEW c \in Consumers, LookedUp(c), reader'[c] = reader[c], setup' = setup,
         Grows(caps, caps'), Grows(routes, routes')
  PROVE  LookedUp(c)'
BY DEF LookedUp, Covers, Caps, Grows

LEMMA PendingKept ==
  ASSUME InboundInv, [Next]_vars
  PROVE  PendingInv'
<1>1. /\ TypeInv /\ PendingInv /\ RegistryInv /\ setup' = setup
      /\ Grows(caps, caps') /\ Grows(routes, routes')
  BY SetupTypesKept, RegistryKept DEF InboundInv
<1>2. ASSUME NEW c \in Consumers, reader'[c] = reader[c], fate'[c] = fate[c]
      PROVE  InHand(c)' /\ LookedUp(c)'
  BY <1>1, <1>2, LookedUpStaysSo DEF PendingInv, InHand, InFlight
<1>3. ASSUME NEW c \in Consumers, ReaderStep(c) PROVE PendingInv'
  <2>1. Alone(c) /\ \A d \in Consumers \ {c} : fate'[d] = fate[d]
    BY <1>1, <1>3, ReaderSteps DEF Quietly, Begins, Moves, Loses, Stores, Refuses, Settles, Apart
  <2>2. \A d \in Consumers \ {c} : InHand(d)' /\ LookedUp(d)'
    BY <1>2, <2>1 DEF Alone
  <2>3. PICK s \in Seq(Fates) : s = fate[c]
    BY <1>1 DEF TypeInv, RecordTypes
  <2>4. InHand(c)
    BY <1>1 DEF PendingInv
  <2>5. ASSUME Quietly(c) PROVE InHand(c)' /\ LookedUp(c)'
    BY <2>4, <2>5 DEF Quietly, Rests, InHand, LookedUp, InFlight
  <2>6. ASSUME Begins(c) PROVE InHand(c)' /\ LookedUp(c)'
    <3>1. fate'[c] = Append(s, "pending") /\ ~InFlight(c) /\ InFlight(c)'
      BY <2>3, <2>6 DEF Begins, Rests, InFlight
    <3>2. \A n \in DOMAIN s : s[n] # "pending"
      BY <2>3, <2>4, <3>1 DEF InHand
    <3>3. \A n \in DOMAIN fate'[c] : fate'[c][n] = "pending" <=> (n = Len(fate'[c]) /\ InFlight(c)')
      BY <3>1, <3>2, FateFacts
    <3>4. Len(fate'[c]) # 0
      BY <3>1, FateFacts
    <3>5. LookedUp(c)' /\ (reader'[c].pc = "refuse" <=> reader'[c].reason # "")
      BY <2>6 DEF Begins, LookedUp
    <3> QED
      BY <3>3, <3>4, <3>5 DEF InHand
  <2>7. ASSUME Moves(c) PROVE InHand(c)' /\ LookedUp(c)'
    <3>1. InFlight(c)' /\ fate'[c] = fate[c] /\ InFlight(c)
      BY <2>7 DEF Moves, MovesOn, Turned, InFlight
    <3>2. reader'[c].pc = "refuse" <=> reader'[c].reason # ""
      BY <2>7 DEF Moves, MovesOn, Turned
    <3>3. LookedUp(c)'
      BY <1>1, <2>7 DEF Moves, MovesOn, Turned, LookedUp, Covers, Caps, Grows
    <3> QED
      BY <2>4, <3>1, <3>2, <3>3 DEF InHand
  <2>8. ASSUME \E what \in Fates \ {"pending"} : Settles(c, what) PROVE InHand(c)' /\ LookedUp(c)'
    <3>1. PICK what \in Fates \ {"pending"} : Settles(c, what)
      BY <2>8
    <3>2. fate'[c] = [s EXCEPT ![Len(s)] = what] /\ ~InFlight(c)' /\ InFlight(c) /\ reader'[c].reason = ""
      BY <2>3, <3>1 DEF Settles, Rests
    <3>3. \A n \in DOMAIN s : s[n] = "pending" <=> n = Len(s)
      BY <2>3, <2>4, <3>2 DEF InHand
    <3>4. \A n \in DOMAIN fate'[c] : fate'[c][n] # "pending"
      <4>1. /\ DOMAIN [s EXCEPT ![Len(s)] = what] = DOMAIN s /\ DOMAIN s = 1..Len(s) /\ Len(s) \in Nat
            /\ Len(s) # 0 => [s EXCEPT ![Len(s)] = what][Len(s)] = what
            /\ \A n \in DOMAIN s : n # Len(s) => [s EXCEPT ![Len(s)] = what][n] = s[n]
        BY FateFacts
      <4> QED
        BY <3>1, <3>2, <3>3, <4>1
    <3> QED
      BY <3>2, <3>4 DEF InHand, LookedUp, InFlight
  <2>9. Loses(c) \/ Stores(c) \/ Refuses(c) => \E what \in Fates \ {"pending"} : Settles(c, what)
    <3>1. "closed" \in Fates \ {"pending"} /\ "stored" \in Fates \ {"pending"}
      BY DEF Fates
    <3>2. ASSUME Refuses(c) PROVE reader[c].reason \in Fates \ {"pending"}
      <4>1. reader[c] \in Readers /\ reader[c].reason # ""
        BY <1>1, <2>4, <3>2 DEF Refuses, InHand, TypeInv
      <4> QED
        BY <4>1 DEF Readers, Fates, Reasons
    <3> QED
      BY <3>1, <3>2 DEF Loses, Stores, Refuses
  <2>10. InHand(c)' /\ LookedUp(c)'
    BY <1>1, <1>3, <2>5, <2>6, <2>7, <2>8, <2>9, ReaderSteps
  <2> QED
    BY <2>2, <2>10 DEF PendingInv
<1>4. LogicStep \/ TimePasses \/ Configure \/ UNCHANGED vars => UNCHANGED <<reader, fate>>
  BY LogicFrame DEF Others, readVars, TimePasses, Configure, vars
<1>5. UNCHANGED <<reader, fate>> => PendingInv'
  BY <1>2 DEF PendingInv
<1> QED
  BY <1>3, <1>4, <1>5 DEF Next

-----------------------------------------------------------------------------
(* The records that have ended, and the rings.                             *)

LEMMA RecordsStay ==
  ASSUME TypeInv, PendingInv, NEW c \in Consumers, NEW whys, "pending" \notin whys,
         fate'[c] = fate[c] \/ fate'[c] = Append(fate[c], "pending")
  PROVE  Records(c, whys)' = Records(c, whys)
<1>1. CASE fate'[c] = fate[c]
  BY <1>1 DEF Records
<1>2. CASE fate'[c] = Append(fate[c], "pending")
  <2>1. PICK s \in Seq(Fates) : s = fate[c]
    BY DEF TypeInv, RecordTypes
  <2>2. /\ Len(s) \in Nat /\ DOMAIN s = 1..Len(s)
        /\ DOMAIN Append(s, "pending") = 1..(Len(s) + 1)
        /\ \A n \in DOMAIN s : Append(s, "pending")[n] = s[n]
        /\ Append(s, "pending")[Len(s) + 1] = "pending"
    BY FateFacts
  <2>3. Records(c, whys)' = {n \in DOMAIN Append(s, "pending") : Append(s, "pending")[n] \in whys}
    BY <1>2, <2>1 DEF Records
  <2>4. Records(c, whys) = {n \in DOMAIN s : s[n] \in whys}
    BY <2>1 DEF Records
  <2> QED
    BY <2>2, <2>3, <2>4
<1> QED
  BY <1>1, <1>2

LEMMA RecordsSettle ==
  ASSUME TypeInv, PendingInv, NEW c \in Consumers, NEW whys, "pending" \notin whys,
         NEW what, Settles(c, what)
  PROVE  /\ Records(c, whys)' = IF what \in whys THEN Records(c, whys) \cup {Len(fate[c])}
                                ELSE Records(c, whys)
         /\ Len(fate[c]) \in Nat /\ \A n \in Records(c, whys) : n \in Nat /\ n < Len(fate[c])
<1>1. PICK s \in Seq(Fates) : s = fate[c]
  BY DEF TypeInv, RecordTypes
<1>2. fate'[c] = [s EXCEPT ![Len(s)] = what] /\ Len(s) # 0 /\ InFlight(c)
  BY <1>1 DEF Settles, PendingInv, InHand
<1>3. /\ Len(s) \in Nat /\ DOMAIN s = 1..Len(s)
      /\ DOMAIN [s EXCEPT ![Len(s)] = what] = DOMAIN s
      /\ [s EXCEPT ![Len(s)] = what][Len(s)] = what
      /\ \A n \in DOMAIN s : n # Len(s) => [s EXCEPT ![Len(s)] = what][n] = s[n]
  BY <1>2, FateFacts
<1>4. s[Len(s)] = "pending"
  <2>1. InHand(c) /\ Len(s) \in DOMAIN s
    BY <1>2, <1>3 DEF PendingInv
  <2> QED
    BY <1>1, <1>2, <2>1 DEF InHand
<1>5. PICK f : f = [s EXCEPT ![Len(s)] = what]
  OBVIOUS
<1>6. Records(c, whys)' = {n \in DOMAIN f : f[n] \in whys}
  BY <1>2, <1>5 DEF Records
<1>7. Records(c, whys) = {n \in DOMAIN s : s[n] \in whys}
  BY <1>1 DEF Records
<1>8. \A n \in Records(c, whys) : n \in 1..Len(s) /\ n # Len(s)
  BY <1>3, <1>4, <1>7
<1>9. CASE what \in whys
  BY <1>1, <1>2, <1>3, <1>4, <1>5, <1>6, <1>7, <1>8, <1>9
<1>10. CASE what \notin whys
  BY <1>1, <1>2, <1>3, <1>4, <1>5, <1>6, <1>7, <1>8, <1>10
<1> QED
  BY <1>9, <1>10

(* What moves from the front of a ring to the end of what Lua was handed. *)
LEMMA HeadAndTail ==
  ASSUME NEW S, NEW a \in Seq(S), NEW s \in Seq(S), s # <<>>
  PROVE  /\ Head(s) \in S /\ Tail(s) \in Seq(S) /\ Len(Tail(s)) = Len(s) - 1 /\ Len(s) \in Nat
         /\ Append(a, Head(s)) \o Tail(s) = a \o s
<1>1. Head(s) \in S /\ Tail(s) \in Seq(S)
  BY HeadTailProperties
<1>2. <<Head(s)>> \in Seq(S) /\ Len(<<Head(s)>>) = 1
  BY <1>1
<1>3. Len(s) \in Nat /\ Len(s) # 0 /\ Len(Tail(s)) = Len(s) - 1
      /\ \A i \in 1..Len(Tail(s)) : Tail(s)[i] = s[i + 1]
  BY HeadTailProperties, EmptySeq, LenProperties
<1>4. <<Head(s)>> \o Tail(s) = s
  <2>1. DOMAIN s = 1..Len(s)
    BY LenProperties
  <2> QED
    BY <1>1, <1>2, <1>3, <2>1, ConcatProperties, SeqEqual
<1>5. Append(a, Head(s)) = a \o <<Head(s)>>
  BY <1>1, AppendIsConcat
<1>6. (a \o <<Head(s)>>) \o Tail(s) = a \o (<<Head(s)>> \o Tail(s))
  BY <1>1, <1>2, ConcatAssociative
<1> QED
  BY <1>1, <1>3, <1>4, <1>5, <1>6

LEMMA AppendToConcat ==
  ASSUME NEW S, NEW a \in Seq(S), NEW s \in Seq(S), NEW e \in S
  PROVE  a \o Append(s, e) = Append(a \o s, e)
<1>1. Append(s, e) = s \o <<e>> /\ <<e>> \in Seq(S) /\ a \o s \in Seq(S)
  BY AppendIsConcat, ConcatProperties
<1>2. Append(a \o s, e) = (a \o s) \o <<e>>
  BY <1>1, AppendIsConcat
<1> QED
  BY <1>1, <1>2, ConcatAssociative

LEMMA PolledIsTaken ==
  ASSUME TypeInv, NEW t \in Targets, PollTake(t)
  PROVE  LaneTypes' /\ \A u \in Targets : Taken(u)' = Taken(u)
<1>1. /\ lane \in [Targets -> [queue : Seq(Cmds), leaving : BOOLEAN]]
      /\ polled \in [Targets -> Seq(Cmds)]
  BY DEF TypeInv, LaneTypes
<1>2. PICK s \in Seq(Cmds), a \in Seq(Cmds) : s = lane[t].queue /\ a = polled[t]
  BY <1>1
<1>3. /\ s # <<>> /\ setup' = setup
      /\ polled' = [polled EXCEPT ![t] = Append(a, Head(s))]
      /\ lane' = [lane EXCEPT ![t] = [queue |-> Tail(s), leaving |-> TRUE]]
  BY <1>1, <1>2 DEF PollTake, Others
<1>4. /\ Head(s) \in Cmds /\ Tail(s) \in Seq(Cmds) /\ Len(Tail(s)) = Len(s) - 1 /\ Len(s) \in Nat
      /\ Append(a, Head(s)) \o Tail(s) = a \o s
  BY <1>3, HeadAndTail
<1>5. Append(a, Head(s)) \in Seq(Cmds)
  BY <1>4, AppendProperties
<1>6. PICK h \in Seq(Cmds), q \in Seq(Cmds) : h = Append(a, Head(s)) /\ q = Tail(s)
  BY <1>4, <1>5
<1>7. /\ lane' \in [Targets -> [queue : Seq(Cmds), leaving : BOOLEAN]]
      /\ polled' \in [Targets -> Seq(Cmds)]
      /\ lane'[t].queue = q /\ lane'[t].leaving = TRUE /\ polled'[t] = h
      /\ \A u \in Targets \ {t} : lane'[u] = lane[u] /\ polled'[u] = polled[u]
  BY <1>1, <1>3, <1>6
<1>8. \A u \in Targets : Taken(u)' = Taken(u)
  BY <1>2, <1>4, <1>6, <1>7 DEF Taken
<1>9. InLane(t)' <= InLane(t) /\ \A u \in Targets \ {t} : InLane(u)' = InLane(u)
  <2>1. InLane(t)' = Len(q) + 1 /\ Len(q) + 1 = Len(s)
    BY <1>4, <1>6, <1>7 DEF InLane
  <2>2. InLane(t) = Len(s) \/ InLane(t) = Len(s) + 1
    <3>1. CASE lane[t].leaving
      BY <1>2, <3>1 DEF InLane
    <3>2. CASE ~lane[t].leaving
      BY <1>2, <1>4, <3>2 DEF InLane
    <3> QED
      BY <3>1, <3>2
  <2>3. InLane(t)' <= InLane(t)
    BY <1>4, <2>1, <2>2
  <2> QED
    BY <1>7, <2>3 DEF InLane
<1>10. \A u \in Targets : InLane(u)' \in Int /\ InLane(u) \in Int /\ setup.capacity[u] \in Nat
  <2>1. \A u \in Targets : Len(lane[u].queue) \in Nat /\ Len(lane'[u].queue) \in Nat
    BY <1>1, <1>7, LenProperties
  <2> QED
    BY <2>1, InboundAssumption DEF InLane, TypeInv, SetupTypes
<1>11. \A u \in Targets : InLane(u)' <= setup.capacity[u]
  <2>1. \A u \in Targets : InLane(u) <= setup.capacity[u]
    BY DEF TypeInv, LaneTypes
  <2>2. \A u \in Targets : InLane(u)' <= InLane(u)
    BY <1>9, <1>10
  <2> QED
    BY <1>10, <2>1, <2>2
<1> QED
  BY <1>3, <1>7, <1>8, <1>11 DEF LaneTypes

LEMMA OfferedIsTaken ==
  ASSUME TypeInv, NEW t \in Targets, NEW command \in Cmds,
         lane' = [lane EXCEPT ![t].queue = Append(@, command)], UNCHANGED polled
  PROVE  /\ lane' \in [Targets -> [queue : Seq(Cmds), leaving : BOOLEAN]]
         /\ InLane(t)' = InLane(t) + 1
         /\ Taken(t) \in Seq(Cmds) /\ Taken(t)' = Append(Taken(t), command)
         /\ \A u \in Targets \ {t} : Taken(u)' = Taken(u) /\ InLane(u)' = InLane(u)
<1>1. /\ lane \in [Targets -> [queue : Seq(Cmds), leaving : BOOLEAN]]
      /\ polled \in [Targets -> Seq(Cmds)]
  BY DEF TypeInv, LaneTypes
<1>2. PICK s \in Seq(Cmds), a \in Seq(Cmds) : s = lane[t].queue /\ a = polled[t]
  BY <1>1
<1>3. Append(s, command) \in Seq(Cmds) /\ Len(Append(s, command)) = Len(s) + 1 /\ Len(s) \in Nat
  BY AppendProperties, LenProperties
<1>4. PICK q \in Seq(Cmds) : q = Append(s, command)
  BY <1>3
<1>5. PICK l \in [queue : Seq(Cmds), leaving : BOOLEAN] : l = lane[t]
  BY <1>1
<1>6. /\ lane' \in [Targets -> [queue : Seq(Cmds), leaving : BOOLEAN]]
      /\ lane'[t].queue = q /\ lane'[t].leaving = l.leaving
      /\ \A u \in Targets \ {t} : lane'[u] = lane[u]
  <2>1. lane' = [lane EXCEPT ![t] = [l EXCEPT !.queue = q]]
    BY <1>1, <1>2, <1>4, <1>5
  <2>2. PICK x : x = [l EXCEPT !.queue = q]
    OBVIOUS
  <2>3. x \in [queue : Seq(Cmds), leaving : BOOLEAN] /\ x.queue = q /\ x.leaving = l.leaving
    BY <2>2
  <2> QED
    BY <1>1, <2>1, <2>2, <2>3
<1>7. a \o Append(s, command) = Append(a \o s, command) /\ a \o s \in Seq(Cmds)
  BY AppendToConcat, ConcatProperties
<1>8. Taken(t) \in Seq(Cmds) /\ Taken(t)' = Append(Taken(t), command)
  BY <1>2, <1>4, <1>6, <1>7 DEF Taken
<1>9. InLane(t)' = InLane(t) + 1
  <2>1. PICK n \in Nat : n = Len(s) /\ Len(q) = n + 1
    BY <1>3, <1>4
  <2>2. CASE l.leaving = TRUE
    BY <1>2, <1>5, <1>6, <2>1, <2>2 DEF InLane
  <2>3. CASE l.leaving = FALSE
    BY <1>2, <1>5, <1>6, <2>1, <2>3 DEF InLane
  <2> QED
    BY <2>2, <2>3
<1> QED
  BY <1>6, <1>8, <1>9 DEF Taken, InLane

(* Every other step leaves the rings' records as they are. *)
LEMMA LanesKept ==
  ASSUME InboundInv, [Next]_vars
  PROVE  LaneTypes' /\ ((\A c \in Consumers : ~Stores(c)) => \A t \in Targets : Taken(t)' = Taken(t))
<1>1. /\ TypeInv /\ PendingInv /\ RegistryInv /\ setup' = setup /\ LaneTypes
      /\ setup.capacity \in [Targets -> Nat]
  BY SetupTypesKept, InboundAssumption DEF InboundInv, TypeInv, SetupTypes
<1>2. ASSUME UNCHANGED <<lane, polled>> PROVE LaneTypes' /\ \A t \in Targets : Taken(t)' = Taken(t)
  BY <1>1, <1>2 DEF LaneTypes, InLane, Taken
<1>3. ASSUME NEW c \in Consumers, ReaderStep(c), ~Offer(c) PROVE UNCHANGED <<lane, polled>>
  BY <1>3, ReaderFrame
<1>4. ASSUME NEW c \in Consumers, Offer(c)
      PROVE  LaneTypes' /\ (~Stores(c) => \A t \in Targets : Taken(t)' = Taken(t))
  <2>1. UNCHANGED polled
    BY <1>4 DEF Offer, logicVars
  <2>2. PICK t : t = routes[reader[c].msg.topic]
    OBVIOUS
  <2>3. t \in Targets
    BY <1>1, <1>4, <2>2 DEF Offer, PendingInv, LookedUp, RegistryInv, MapsInv, IsMap
  <2>4. CASE InLane(t) < setup.capacity[t] /\ lane' = [lane EXCEPT ![t].queue = Append(@, Command(c))]
    <3>1. Command(c) \in Cmds
      BY <1>1, SeqIsSeq DEF TypeInv, RecordTypes, Command, Cmds
    <3>2. /\ lane' \in [Targets -> [queue : Seq(Cmds), leaving : BOOLEAN]]
          /\ InLane(t)' = InLane(t) + 1 /\ \A u \in Targets \ {t} : InLane(u)' = InLane(u)
      BY <1>1, <2>1, <2>3, <2>4, <3>1, OfferedIsTaken
    <3>3. InLane(t) \in Int
      <4>1. Len(lane[t].queue) \in Nat
        BY <1>1, <2>3, LenProperties DEF LaneTypes
      <4> QED
        BY <4>1 DEF InLane
    <3>4. ASSUME NEW u \in Targets PROVE InLane(u)' <= setup.capacity[u]
      <4>1. CASE u = t
        BY <1>1, <2>4, <3>2, <3>3, <4>1
      <4>2. CASE u # t
        BY <1>1, <3>2, <4>2 DEF LaneTypes
      <4> QED
        BY <4>1, <4>2
    <3>5. Stores(c)
      <4>1. lane' # lane
        <5>1. lane' = lane => InLane(t)' = InLane(t)
          BY DEF InLane
        <5> QED
          BY <3>2, <3>3, <5>1
      <4>2. Quietly(c) \/ Begins(c) \/ Moves(c) \/ Loses(c) \/ Stores(c) \/ Refuses(c)
        BY <1>1, <1>4, ReaderSteps DEF ReaderStep
      <4> QED
        BY <4>1, <4>2 DEF Quietly, Begins, Moves, Loses, Refuses
    <3> QED
      BY <1>1, <2>1, <3>2, <3>4, <3>5 DEF LaneTypes
  <2>5. CASE UNCHANGED lane
    BY <1>2, <2>1, <2>5
  <2> QED
    BY <1>4, <2>2, <2>4, <2>5 DEF Offer
<1>5. ASSUME NEW t \in Targets, PollTake(t) PROVE LaneTypes' /\ \A u \in Targets : Taken(u)' = Taken(u)
  BY <1>1, <1>5, PolledIsTaken
<1>6. ASSUME PollReturn PROVE LaneTypes' /\ \A u \in Targets : Taken(u)' = Taken(u)
  <2>1. PICK t \in Targets : t = logic.target
    BY <1>1, <1>6 DEF PollReturn, TypeInv, BeatTypes
  <2>2. lane' = [lane EXCEPT ![t].leaving = FALSE] /\ UNCHANGED polled
    BY <1>6, <2>1 DEF PollReturn
  <2>3. PICK s \in Seq(Cmds) : s = lane[t].queue /\ Len(s) \in Nat
    BY <1>1, LenProperties DEF LaneTypes
  <2>4. /\ lane' \in [Targets -> [queue : Seq(Cmds), leaving : BOOLEAN]]
        /\ lane'[t].queue = s /\ ~lane'[t].leaving
        /\ \A u \in Targets \ {t} : lane'[u] = lane[u]
    BY <1>1, <2>2, <2>3 DEF LaneTypes
  <2>5. InLane(t)' <= setup.capacity[t]
    <3>1. InLane(t)' = Len(s)
      BY <2>3, <2>4 DEF InLane
    <3>2. InLane(t) = Len(s) \/ InLane(t) = Len(s) + 1
      <4>1. CASE lane[t].leaving
        BY <2>3, <4>1 DEF InLane
      <4>2. CASE ~lane[t].leaving
        BY <2>3, <4>2 DEF InLane
      <4> QED
        BY <4>1, <4>2
    <3> QED
      BY <1>1, <2>3, <3>1, <3>2 DEF LaneTypes
  <2>6. \A u \in Targets : InLane(u)' <= setup.capacity[u]
    BY <1>1, <2>4, <2>5 DEF LaneTypes, InLane
  <2> QED
    BY <1>1, <2>2, <2>3, <2>4, <2>6 DEF LaneTypes, Taken
<1>7. ASSUME LogicStep, ~PollReturn, \A t \in Targets : ~PollTake(t) PROVE UNCHANGED <<lane, polled>>
  <2>1. \A table : Register(table) => UNCHANGED <<lane, polled>>
    BY DEF Register, logicVars
  <2>2. \A t : OpenRecord(t) => UNCHANGED <<lane, polled>>
    BY DEF OpenRecord, logicVars
  <2>3. TickCall \/ TickStamp => UNCHANGED <<lane, polled>>
    BY DEF TickCall, TickStamp
  <2> QED
    BY <1>7, <2>1, <2>2, <2>3 DEF LogicStep
<1>8. TimePasses \/ Configure \/ UNCHANGED vars => UNCHANGED <<lane, polled>>
  BY DEF TimePasses, Configure, vars, logicVars
<1> QED
  BY <1>2, <1>3, <1>4, <1>5, <1>6, <1>7, <1>8 DEF Next

(* Of the settled records nothing changes but by a settlement. *)
LEMMA NoneSettled ==
  ASSUME TypeInv, PendingInv, NEW c \in Consumers, Quietly(c) \/ Begins(c) \/ Moves(c),
         NEW whys, "pending" \notin whys, NEW d \in Consumers
  PROVE  Records(d, whys)' = Records(d, whys)
<1>1. fate'[d] = fate[d] \/ fate'[d] = Append(fate[d], "pending")
  BY DEF Quietly, Begins, Moves, Apart
<1> QED
  BY <1>1, RecordsStay

LEMMA OneSettled ==
  ASSUME TypeInv, PendingInv, NEW c \in Consumers, NEW what, Settles(c, what),
         NEW whys, "pending" \notin whys, NEW d \in Consumers, d # c \/ what \notin whys
  PROVE  Records(d, whys)' = Records(d, whys)
<1>1. CASE d # c
  BY <1>1, RecordsStay DEF Settles, Apart
<1>2. CASE d = c
  BY <1>2, RecordsSettle
<1> QED
  BY <1>1, <1>2

LEMMA TakenKept ==
  ASSUME InboundInv, [Next]_vars
  PROVE  TakenInv'
<1>1. /\ TypeInv /\ PendingInv /\ RegistryInv /\ TakenInv
      /\ fate \in [Consumers -> Seq(Fates)]
  BY DEF InboundInv, TypeInv, RecordTypes
<1>2. ASSUME \A t \in Targets : Taken(t)' = Taken(t),
             \A c \in Consumers : Records(c, {"stored"})' = Records(c, {"stored"})
      PROVE  TakenInv'
  <2>1. ASSUME NEW x PROVE (IsStored(x)' <=> IsStored(x)) /\ (OnOneRing(x)' <=> OnOneRing(x))
    <3>1. IsStored(x)' <=> IsStored(x)
      BY <1>2 DEF IsStored, Cmds
    <3>2. OnOneRing(x)' <=> OnOneRing(x)
      BY <1>2 DEF OnOneRing
    <3> QED
      BY <3>1, <3>2
  <2>2. \A t \in Targets : InOrder(Taken(t))' /\ \A x \in Range(Taken(t))' : IsStored(x)'
    BY <1>1, <1>2, <2>1 DEF TakenInv, InOrder
  <2>3. \A c \in Consumers : \A n \in Records(c, {"stored"})' : OnOneRing(<<c, n>>)'
    BY <1>1, <1>2, <2>1 DEF TakenInv
  <2> QED
    BY <2>2, <2>3 DEF TakenInv
<1>3. ASSUME NEW c \in Consumers, Stores(c), polled' = polled PROVE TakenInv'
  <2>1. PICK t \in Targets : lane' = [lane EXCEPT ![t].queue = Append(@, Command(c))]
    BY <1>3 DEF Stores
  <2>2. PICK n \in Nat : n = Len(fate[c])
    BY <1>1, SeqIsSeq
  <2>3. PICK x \in Cmds : x = <<c, n>>
    BY DEF Cmds
  <2>4. x = Command(c) /\ x[1] = c /\ x[2] = n
    BY <2>2, <2>3 DEF Command
  <2>5. PICK s \in Seq(Cmds) :
          /\ s = Taken(t) /\ Taken(t)' = Append(s, x)
          /\ \A u \in Targets \ {t} : Taken(u)' = Taken(u)
    BY <1>1, <1>3, <2>1, <2>4, OfferedIsTaken
  <2>6. /\ Records(c, {"stored"})' = Records(c, {"stored"}) \cup {n}
        /\ \A m \in Records(c, {"stored"}) : m \in Nat /\ m < n
    BY <1>1, <1>3, <2>2, RecordsSettle DEF Stores
  <2>7. \A d \in Consumers \ {c} : Records(d, {"stored"})' = Records(d, {"stored"})
    BY <1>1, <1>3, OneSettled DEF Stores
  <2>8. \A y : IsStored(y)' <=> IsStored(y) \/ y = x
    <3>1. \A y \in Cmds : y[1] \in Consumers /\ (y = x <=> y[1] = c /\ y[2] = n)
      BY <2>3 DEF Cmds
    <3> QED
      BY <2>6, <2>7, <3>1 DEF IsStored
  <2>9. /\ Len(s) \in Nat /\ DOMAIN s = 1..Len(s) /\ DOMAIN Append(s, x) = 1..(Len(s) + 1)
        /\ \A i \in DOMAIN s : Append(s, x)[i] = s[i]
        /\ Append(s, x)[Len(s) + 1] = x
    BY SeqIsSeq, AppendFacts
  <2>10. InOrder(s) /\ \A y \in Range(s) : IsStored(y)
    BY <1>1, <2>5 DEF TakenInv
  <2>11. PICK r : r = Append(s, x)
    OBVIOUS
  <2>12. Range(r) = Range(s) \cup {x}
    BY <2>9, <2>11 DEF Range
  <2>13. InOrder(r)
    <3> SUFFICES ASSUME NEW i \in DOMAIN r, NEW j \in DOMAIN r, i < j, r[i][1] = r[j][1]
                 PROVE  r[i][2] < r[j][2]
      BY DEF InOrder
    <3>1. CASE j \in DOMAIN s
      BY <2>9, <2>10, <2>11, <3>1 DEF InOrder
    <3>2. CASE j \notin DOMAIN s
      <4>1. r[j] = x /\ i \in DOMAIN s /\ r[i] = s[i]
        BY <2>9, <2>11, <3>2
      <4>2. s[i][2] \in Records(c, {"stored"})
        BY <2>4, <2>10, <4>1 DEF IsStored, Range
      <4> QED
        BY <2>4, <2>6, <4>1, <4>2
    <3> QED
      BY <3>1, <3>2
  <2>14. \A u \in Targets : Range(Taken(u))' = IF u = t THEN Range(Taken(u)) \cup {x} ELSE Range(Taken(u))
    BY <2>5, <2>11, <2>12
  <2>15. \A u \in Targets : InOrder(Taken(u))'
    BY <1>1, <2>5, <2>11, <2>13 DEF TakenInv, InOrder
  <2>16. \A u \in Targets : \A y \in Range(Taken(u))' : IsStored(y)'
    BY <1>1, <2>8, <2>14 DEF TakenInv
  <2>17. \A u \in Targets : x \notin Range(Taken(u))
    <3>1. ~IsStored(x)
      BY <2>4, <2>6 DEF IsStored
    <3> QED
      BY <1>1, <3>1 DEF TakenInv
  <2>18. OnOneRing(x)'
    BY <2>14, <2>17 DEF OnOneRing
  <2>19. \A y : y # x /\ OnOneRing(y) => OnOneRing(y)'
    BY <2>14 DEF OnOneRing
  <2>20. \A d \in Consumers : \A m \in Records(d, {"stored"})' : OnOneRing(<<d, m>>)'
    BY <1>1, <2>3, <2>6, <2>7, <2>18, <2>19 DEF TakenInv
  <2> QED
    BY <2>15, <2>16, <2>20 DEF TakenInv
<1>4. ASSUME NEW c \in Consumers, ReaderStep(c) PROVE TakenInv'
  <2>1. polled' = polled
    BY <1>4, ReaderFrame DEF logicVars
  <2>2. CASE Stores(c)
    BY <1>3, <2>1, <2>2
  <2>3. CASE ~Stores(c)
    <3>1. UNCHANGED lane
      BY <1>1, <1>4, <2>3, ReaderSteps DEF Quietly, Begins, Moves, Loses, Refuses
    <3>2. \A t \in Targets : Taken(t)' = Taken(t)
      BY <2>1, <3>1 DEF Taken
    <3>3. \A d \in Consumers : Records(d, {"stored"})' = Records(d, {"stored"})
      <4>1. CASE Quietly(c) \/ Begins(c) \/ Moves(c)
        BY <1>1, <4>1, NoneSettled
      <4>2. ASSUME NEW what, what # "stored", Settles(c, what)
            PROVE  \A d \in Consumers : Records(d, {"stored"})' = Records(d, {"stored"})
        <5>1. what \notin {"stored"} /\ "pending" \notin {"stored"}
          BY <4>2
        <5> QED
          BY <1>1, <4>2, <5>1, OneSettled
      <4>3. reader[c].reason # "stored"
        <5>1. reader[c] \in Readers
          BY <1>1 DEF TypeInv
        <5> QED
          BY <5>1 DEF Readers, Reasons
      <4>4. Loses(c) \/ Refuses(c) => \E what : what # "stored" /\ Settles(c, what)
        BY <4>3 DEF Loses, Refuses
      <4> QED
        BY <1>1, <1>4, <2>3, <4>1, <4>2, <4>4, ReaderSteps
    <3> QED
      BY <1>2, <3>2, <3>3
  <2> QED
    BY <2>2, <2>3
<1>5. ASSUME LogicStep \/ TimePasses \/ Configure \/ UNCHANGED vars PROVE TakenInv'
  <2>1. UNCHANGED <<reader, fate>>
    BY <1>5, LogicFrame DEF Others, readVars, TimePasses, Configure, vars
  <2>2. \A t \in Targets : Taken(t)' = Taken(t)
    <3>1. \A c \in Consumers : ~Stores(c)
      BY <2>1 DEF Stores, Settles, Rests, InFlight
    <3> QED
      BY <3>1, LanesKept
  <2> QED
    BY <1>2, <2>1, <2>2 DEF Records
<1> QED
  BY <1>4, <1>5 DEF Next

-----------------------------------------------------------------------------
(* What connections were told. *)

LEMMA ToldStays ==
  ASSUME NEW c \in Consumers, ToldOf(c), ToldSame(c),
         \A why \in Reasons : Records(c, {why}) \subseteq Records(c, {why})'
  PROVE  ToldOf(c)'
BY DEF ToldOf, ToldSame

LEMMA ToldKept ==
  ASSUME InboundInv, [Next]_vars
  PROVE  ToldInv'
<1>1. /\ TypeInv /\ PendingInv /\ RegistryInv /\ ToldInv
      /\ \A c \in Consumers : IsSeq(answers[c])
  BY DEF InboundInv, TypeInv, RecordTypes
<1>2. \A why \in Reasons : "pending" \notin {why}
  BY DEF Reasons
<1>3. \A c \in Consumers : answers'[c] = answers[c] => ToldSame(c)
  BY DEF ToldSame, Told
<1>4. ASSUME NEW c \in Consumers, NEW what, Settles(c, what), NEW d \in Consumers, NEW why \in Reasons
      PROVE  Records(d, {why}) \subseteq Records(d, {why})'
  <2>1. CASE d = c
    BY <1>1, <1>2, <1>4, <2>1, RecordsSettle
  <2>2. CASE d # c
    BY <1>1, <1>2, <1>4, <2>2, OneSettled
  <2> QED
    BY <2>1, <2>2
<1>5. ASSUME NEW c \in Consumers, Refuses(c),
             NEW a, a.kind = "rejected", a.record = Len(fate[c]), a.why = reader[c].reason,
             answers'[c] = Append(answers[c], a)
      PROVE  ToldOf(c)'
  <2>1. PICK s : s = answers[c] /\ IsSeq(s)
    BY <1>1
  <2>2. PICK r : r = answers'[c] /\ r = Append(s, a)
    BY <1>5, <2>1
  <2>3. /\ Len(s) \in Nat /\ DOMAIN s = 1..Len(s) /\ DOMAIN r = 1..(Len(s) + 1)
        /\ \A i \in DOMAIN s : r[i] = s[i]
        /\ r[Len(s) + 1] = a
    BY <2>1, <2>2, AppendFacts
  <2>4. PICK why \in Reasons : why = reader[c].reason
    <3>1. reader[c] \in Readers /\ reader[c].reason # ""
      BY <1>1, <1>5 DEF TypeInv, PendingInv, InHand, Refuses
    <3> QED
      BY <3>1 DEF Readers
  <2>5. /\ Settles(c, why) /\ \A w \in Reasons : Records(c, {w}) \subseteq Records(c, {w})'
    BY <1>4, <1>5, <2>4 DEF Refuses
  <2>6. /\ a.record \in Records(c, {why})'
        /\ \A w \in Reasons : \A n \in Records(c, {w}) : n < a.record
    BY <1>1, <1>2, <1>5, <2>5, RecordsSettle
  <2>7. /\ Told(c)' = {i \in DOMAIN r : r[i].kind = "rejected"}
        /\ Told(c) = {i \in DOMAIN s : s[i].kind = "rejected"}
    BY <2>1, <2>2 DEF Told
  <2>8. \A i \in DOMAIN s : s[i].kind = "rejected" =>
          /\ s[i].why \in Reasons /\ s[i].record \in Records(c, {s[i].why})
          /\ \A j \in DOMAIN s : s[j].kind = "rejected" /\ i < j => s[i].record < s[j].record
    BY <1>1, <2>1, <2>7 DEF ToldInv, ToldOf
  <2>9. \A i \in DOMAIN r : r[i].kind = "rejected" =>
          /\ r[i].why \in Reasons /\ r[i].record \in Records(c, {r[i].why})'
          /\ \A j \in DOMAIN r : r[j].kind = "rejected" /\ i < j => r[i].record < r[j].record
    <3> SUFFICES ASSUME NEW i \in DOMAIN r, r[i].kind = "rejected"
                 PROVE  /\ r[i].why \in Reasons /\ r[i].record \in Records(c, {r[i].why})'
                        /\ \A j \in DOMAIN r : r[j].kind = "rejected" /\ i < j => r[i].record < r[j].record
      OBVIOUS
    <3>1. CASE i = Len(s) + 1
      <4>1. \A j \in DOMAIN r : ~(i < j)
        BY <2>3, <3>1
      <4> QED
        BY <1>5, <2>3, <2>4, <2>6, <3>1, <4>1
    <3>2. CASE i # Len(s) + 1
      <4>1. i \in DOMAIN s /\ r[i] = s[i]
        BY <2>3, <3>2
      <4>2. s[i].why \in Reasons /\ s[i].record \in Records(c, {s[i].why})
        BY <2>8, <4>1
      <4>3. ASSUME NEW j \in DOMAIN r, r[j].kind = "rejected", i < j PROVE r[i].record < r[j].record
        <5>1. CASE j \in DOMAIN s
          BY <2>3, <2>8, <4>1, <4>3, <5>1
        <5>2. CASE j \notin DOMAIN s
          BY <2>3, <2>6, <4>1, <4>2, <5>2
        <5> QED
          BY <5>1, <5>2
      <4> QED
        BY <2>5, <4>1, <4>2, <4>3
    <3> QED
      BY <3>1, <3>2
  <2> QED
    BY <2>2, <2>7, <2>9 DEF ToldOf
<1>6. ASSUME NEW c \in Consumers, ReaderStep(c) PROVE ToldInv'
  <2>1. \A d \in Consumers \ {c} : answers'[d] = answers[d]
    BY <1>1, <1>6, ReaderSteps DEF Quietly, Begins, Moves, Loses, Stores, Refuses, Settles, Apart
  <2>2. ASSUME NEW d \in Consumers, NEW why \in Reasons PROVE Records(d, {why}) \subseteq Records(d, {why})'
    <3>1. CASE Quietly(c) \/ Begins(c) \/ Moves(c)
      BY <1>1, <1>2, <3>1, NoneSettled
    <3>2. CASE Loses(c) \/ Stores(c) \/ Refuses(c)
      BY <1>4, <3>2 DEF Loses, Stores, Refuses
    <3> QED
      BY <1>1, <1>6, <3>1, <3>2, ReaderSteps
  <2>3. \A d \in Consumers \ {c} : ToldOf(d)'
    BY <1>1, <1>3, <2>1, <2>2, ToldStays DEF ToldInv
  <2>4. ToldSame(c) \/ Refuses(c)
    BY <1>1, <1>3, <1>6, ReaderSteps DEF Quietly, Begins, Moves, Loses, Stores
  <2>5. ToldSame(c) => ToldOf(c)'
    BY <1>1, <2>2, ToldStays DEF ToldInv
  <2>6. Refuses(c) => ToldOf(c)'
    BY <1>3, <1>5, <2>5 DEF Refuses
  <2> QED
    BY <2>3, <2>4, <2>5, <2>6 DEF ToldInv
<1>7. ASSUME LogicStep \/ TimePasses \/ Configure \/ UNCHANGED vars PROVE ToldInv'
  <2>1. UNCHANGED <<answers, fate>>
    BY <1>7, LogicFrame DEF Others, readVars, TimePasses, Configure, vars
  <2> QED
    BY <1>1, <1>3, <2>1, ToldStays DEF ToldInv, Records
<1> QED
  BY <1>6, <1>7 DEF Next

-----------------------------------------------------------------------------
(* The counters. *)

LEMMA RefusedStays ==
  ASSUME NEW whys, \A d \in Consumers : Records(d, whys)' = Records(d, whys)
  PROVE  Refused(whys)' = Refused(whys)
BY DEF Refused

LEMMA RefusedGrows ==
  ASSUME TypeInv, PendingInv, NEW c \in Consumers, NEW what, Settles(c, what),
         NEW whys, "pending" \notin whys, what \in whys
  PROVE  /\ Refused(whys)' = Refused(whys) \cup {<<c, Len(fate[c])>>}
         /\ <<c, Len(fate[c])>> \notin Refused(whys)
<1>1. /\ Records(c, whys)' = Records(c, whys) \cup {Len(fate[c])}
      /\ Len(fate[c]) \in Nat /\ \A n \in Records(c, whys) : n \in Nat /\ n < Len(fate[c])
  BY RecordsSettle
<1>2. \A d \in Consumers \ {c} : Records(d, whys)' = Records(d, whys)
  BY OneSettled
<1>3. PICK n \in Nat : n = Len(fate[c]) /\ n \notin Records(c, whys)
  BY <1>1
<1>4. \A x : x \in Refused(whys) <=> \E d \in Consumers : \E m \in Records(d, whys) : x = <<d, m>>
  BY DEF Refused
<1>5. \A x : x \in Refused(whys)' <=> \E d \in Consumers : \E m \in Records(d, whys)' : x = <<d, m>>
  BY DEF Refused
<1>6. <<c, n>> \notin Refused(whys)
  BY <1>3, <1>4
<1>7. ASSUME NEW x, x \in Refused(whys)' PROVE x \in Refused(whys) \cup {<<c, n>>}
  BY <1>1, <1>2, <1>3, <1>4, <1>5, <1>7
<1>8. ASSUME NEW x, x \in Refused(whys) \cup {<<c, n>>} PROVE x \in Refused(whys)'
  BY <1>1, <1>2, <1>3, <1>4, <1>5, <1>8
<1> QED
  BY <1>3, <1>6, <1>7, <1>8

(* What is told anew is one answer more. *)
LEMMA AllToldStays ==
  (\A d \in Consumers : Told(d)' = Told(d)) => AllTold' = AllTold
BY DEF AllTold

LEMMA AllToldGrows ==
  ASSUME RecordTypes, NEW c \in Consumers, NEW a, a.kind = "rejected",
         answers'[c] = Append(answers[c], a),
         \A d \in Consumers \ {c} : answers'[d] = answers[d]
  PROVE  \E x : AllTold' = AllTold \cup {x} /\ x \notin AllTold
<1>1. PICK s : s = answers[c] /\ IsSeq(s)
  BY DEF RecordTypes
<1>2. PICK r : r = answers'[c] /\ r = Append(s, a)
  BY <1>1
<1>3. /\ Len(s) \in Nat /\ DOMAIN s = 1..Len(s) /\ DOMAIN r = 1..(Len(s) + 1)
      /\ \A i \in DOMAIN s : r[i] = s[i]
      /\ r[Len(s) + 1] = a
  BY <1>1, <1>2, AppendFacts
<1>4. PICK n \in Nat : n = Len(s) + 1 /\ n \notin DOMAIN s
  BY <1>3
<1>5. Told(c)' = Told(c) \cup {n} /\ n \notin Told(c)
  <2>1. Told(c)' = {i \in DOMAIN r : r[i].kind = "rejected"} /\ Told(c) = {i \in DOMAIN s : s[i].kind = "rejected"}
    BY <1>1, <1>2 DEF Told
  <2> QED
    BY <1>3, <1>4, <2>1
<1>6. \A d \in Consumers \ {c} : Told(d)' = Told(d)
  BY DEF Told
<1>7. \A x : x \in AllTold <=> \E d \in Consumers : \E i \in Told(d) : x = <<d, i>>
  BY DEF AllTold
<1>8. \A x : x \in AllTold' <=> \E d \in Consumers : \E i \in Told(d)' : x = <<d, i>>
  BY DEF AllTold
<1>9. <<c, n>> \notin AllTold
  BY <1>5, <1>7
<1>10. AllTold' = AllTold \cup {<<c, n>>}
  <2>1. ASSUME NEW x, x \in AllTold' PROVE x \in AllTold \cup {<<c, n>>}
    BY <1>5, <1>6, <1>7, <1>8, <2>1
  <2>2. ASSUME NEW x, x \in AllTold \cup {<<c, n>>} PROVE x \in AllTold'
    BY <1>5, <1>6, <1>7, <1>8, <2>2
  <2> QED
    BY <2>1, <2>2
<1> QED
  BY <1>9, <1>10

LEMMA RefusedKept ==
  ASSUME InboundInv, [Next]_vars
  PROVE  RefusedCounted'
<1>1. /\ TypeInv /\ PendingInv /\ RegistryInv /\ RefusedCounted /\ RecordTypes
      /\ counts.rejected \in [Reasons -> Nat] /\ counts.suppressed \in Nat
  BY DEF InboundInv, CountsInv, TypeInv, RecordTypes
<1>2. "pending" \notin Reasons /\ \A why \in Reasons : "pending" \notin {why}
  BY DEF Reasons
<1>3. ASSUME counts'.rejected = counts.rejected, counts'.suppressed = counts.suppressed,
             \A d \in Consumers : Told(d)' = Told(d),
             \A d \in Consumers : \A why \in Reasons : Records(d, {why})' = Records(d, {why}),
             \A d \in Consumers : Records(d, Reasons)' = Records(d, Reasons)
      PROVE  RefusedCounted'
  <2>1. AllTold' = AllTold /\ Refused(Reasons)' = Refused(Reasons)
    BY <1>3, AllToldStays, RefusedStays
  <2>2. \A why \in Reasons : Refused({why})' = Refused({why})
    BY <1>3, RefusedStays
  <2> QED
    BY <1>1, <1>3, <2>1, <2>2 DEF RefusedCounted
<1>4. ASSUME NEW c \in Consumers, Refuses(c) PROVE RefusedCounted'
  <2>1. PICK why \in Reasons : why = reader[c].reason
    <3>1. reader[c] \in Readers /\ reader[c].reason # ""
      BY <1>1, <1>4 DEF TypeInv, PendingInv, InHand, Refuses
    <3> QED
      BY <3>1 DEF Readers
  <2>2. Settles(c, why) /\ counts'.rejected = [counts.rejected EXCEPT ![why] = @ + 1]
    BY <1>4, <2>1 DEF Refuses
  <2>3. PICK x : /\ Refused(Reasons)' = Refused(Reasons) \cup {x} /\ x \notin Refused(Reasons)
                 /\ Refused({why})' = Refused({why}) \cup {x} /\ x \notin Refused({why})
    BY <1>1, <1>2, <2>2, RefusedGrows
  <2>4. \A w \in Reasons \ {why} : Refused({w})' = Refused({w})
    <3>1. ASSUME NEW w \in Reasons \ {why} PROVE \A d \in Consumers : Records(d, {w})' = Records(d, {w})
      <4>1. why \notin {w} /\ "pending" \notin {w}
        BY <1>2
      <4> QED
        BY <1>1, <2>2, <4>1, OneSettled
    <3> QED
      BY <3>1, RefusedStays
  <2>5. /\ IsFiniteSet(Refused({why})') /\ Cardinality(Refused({why})') = Cardinality(Refused({why})) + 1
        /\ IsFiniteSet(Refused(Reasons)')
        /\ Cardinality(Refused(Reasons)') = Cardinality(Refused(Reasons)) + 1
    <3>1. IsFiniteSet(Refused({why})) /\ IsFiniteSet(Refused(Reasons))
      BY <1>1 DEF RefusedCounted
    <3>2. /\ Cardinality(Refused({why}) \cup {x}) = Cardinality(Refused({why})) + 1
          /\ IsFiniteSet(Refused({why}) \cup {x})
      BY <2>3, <3>1, FS_AddElement
    <3>3. /\ Cardinality(Refused(Reasons) \cup {x}) = Cardinality(Refused(Reasons)) + 1
          /\ IsFiniteSet(Refused(Reasons) \cup {x})
      BY <2>3, <3>1, FS_AddElement
    <3> QED
      BY <2>3, <3>2, <3>3
  <2>6. \A w \in Reasons : IsFiniteSet(Refused({w}))' /\ counts'.rejected[w] = Cardinality(Refused({w}))'
    BY <1>1, <2>2, <2>4, <2>5 DEF RefusedCounted
  <2>7. \A d \in Consumers \ {c} : answers'[d] = answers[d]
    BY <2>2 DEF Settles, Apart
  <2>8. /\ IsFiniteSet(AllTold') /\ Cardinality(AllTold) \in Nat
        /\ counts'.suppressed + Cardinality(AllTold') = (counts.suppressed + Cardinality(AllTold)) + 1
    <3>1. IsFiniteSet(AllTold) /\ Cardinality(AllTold) \in Nat
      BY <1>1, FS_CardinalityType DEF RefusedCounted
    <3>2. CASE answers'[c] = answers[c] /\ counts'.suppressed = counts.suppressed + 1
      <4>1. AllTold' = AllTold
        BY <2>7, <3>2, AllToldStays DEF Told
      <4> QED
        BY <1>1, <3>1, <3>2, <4>1
    <3>3. CASE /\ counts'.suppressed = counts.suppressed
               /\ \E a : a.kind = "rejected" /\ answers'[c] = Append(answers[c], a)
      <4>1. PICK y : AllTold' = AllTold \cup {y} /\ y \notin AllTold
        BY <1>1, <2>7, <3>3, AllToldGrows
      <4>2. IsFiniteSet(AllTold') /\ Cardinality(AllTold') = Cardinality(AllTold) + 1
        BY <3>1, <4>1, FS_AddElement
      <4>3. PICK k \in Nat, n \in Nat : k = Cardinality(AllTold) /\ n = counts.suppressed
        BY <1>1, <3>1
      <4>4. counts'.suppressed = n /\ Cardinality(AllTold') = k + 1
        BY <3>3, <4>2, <4>3
      <4> QED
        BY <4>2, <4>3, <4>4
    <3> QED
      BY <1>4, <3>2, <3>3 DEF Refuses
  <2>9. Cardinality(Refused(Reasons)') = counts'.suppressed + Cardinality(AllTold')
    BY <1>1, <2>5, <2>8 DEF RefusedCounted
  <2> QED
    BY <2>5, <2>6, <2>8, <2>9 DEF RefusedCounted
<1>5. ASSUME NEW c \in Consumers, ReaderStep(c), ~Refuses(c) PROVE RefusedCounted'
  <2>1. counts'.rejected = counts.rejected /\ counts'.suppressed = counts.suppressed
    BY <1>1, <1>5, ReaderSteps DEF Quietly, Begins, Moves, Loses, Stores, tallies
  <2>2. \A d \in Consumers : Told(d)' = Told(d)
    BY <1>1, <1>5, ReaderSteps
       DEF Quietly, Begins, Moves, Loses, Stores, Settles, Apart, ToldSame, Told
  <2>3. ASSUME NEW d \in Consumers, NEW whys, whys \subseteq Reasons PROVE Records(d, whys)' = Records(d, whys)
    <3>1. "pending" \notin whys /\ "closed" \notin whys /\ "stored" \notin whys
      BY <2>3 DEF Reasons
    <3>2. CASE Quietly(c) \/ Begins(c) \/ Moves(c)
      BY <1>1, <3>1, <3>2, NoneSettled
    <3>3. CASE Loses(c)
      BY <1>1, <3>1, <3>3, OneSettled DEF Loses
    <3>4. CASE Stores(c)
      BY <1>1, <3>1, <3>4, OneSettled DEF Stores
    <3> QED
      BY <1>1, <1>5, <3>2, <3>3, <3>4, ReaderSteps
  <2>4. \A why \in Reasons : {why} \subseteq Reasons
    OBVIOUS
  <2> QED
    BY <1>3, <2>1, <2>2, <2>3, <2>4
<1>6. ASSUME LogicStep \/ TimePasses \/ Configure \/ UNCHANGED vars PROVE RefusedCounted'
  <2>1. UNCHANGED <<answers, fate, counts>>
    BY <1>6, LogicFrame DEF Others, readVars, countVars, TimePasses, Configure, vars
  <2> QED
    BY <1>3, <2>1 DEF Records, Told
<1> QED
  BY <1>4, <1>5, <1>6 DEF Next

(* One more is being refused, or one less, or as many. *)
LEMMA TurnedKept ==
  ASSUME InboundInv, [Next]_vars
  PROVE  TurnedCounted'
<1>1. /\ TypeInv /\ PendingInv /\ RegistryInv /\ TurnedCounted
      /\ counts.rejected \in [Reasons -> Nat] /\ counts.unrouted \in Nat
      /\ counts.busy \in [Targets -> Nat]
      /\ Targets = {"sim_driver", "hook_driver"} /\ "UnknownTopic" \in Reasons /\ "Busy" \in Reasons
  BY DEF InboundInv, CountsInv, TypeInv, RecordTypes, Targets, Reasons
<1>2. \A why : IsFiniteSet(At("refuse", why)) /\ Cardinality(At("refuse", why)) \in Nat
  <2>1. \A why : At("refuse", why) \subseteq Consumers
    BY DEF At
  <2> QED
    BY <2>1, InboundAssumption, FS_Subset, FS_CardinalityType
<1>3. ASSUME NEW why, At("refuse", why)' = At("refuse", why)
      PROVE  Cardinality(At("refuse", why)') = Cardinality(At("refuse", why))
  BY <1>3
<1>4. ASSUME NEW c \in Consumers, Alone(c), NEW why, why # "",
             Turned(c, why) <=> reader[c].pc = "refuse" /\ reader[c].reason = why
      PROVE  At("refuse", why)' = At("refuse", why)
  BY <1>4 DEF At, Alone, Turned
<1>5. ASSUME NEW c \in Consumers, ReaderStep(c) PROVE TurnedCounted'
  <2>1. CASE Quietly(c) \/ Begins(c) \/ Loses(c) \/ Stores(c)
    <3>1. UNCHANGED tallies /\ Alone(c) /\ reader[c].reason = ""
      BY <2>1 DEF Quietly, Begins, Loses, Stores, Settles, Apart, Rests
    <3>2. ~Turned(c, "UnknownTopic") /\ ~Turned(c, "Busy")
      BY <2>1 DEF Quietly, Begins, Loses, Stores, Settles, Rests, Turned
    <3>3. At("refuse", "UnknownTopic")' = At("refuse", "UnknownTopic") /\ At("refuse", "Busy")' = At("refuse", "Busy")
      BY <1>4, <3>1, <3>2
    <3> QED
      BY <1>1, <3>1, <3>3 DEF TurnedCounted, tallies
  <2>2. CASE Moves(c)
    <3>1. Alone(c) /\ reader[c].reason = "" /\ counts'.rejected = counts.rejected
      BY <2>2 DEF Moves, Apart
    <3>2. ASSUME NEW why \in Reasons, Turned(c, why)
          PROVE  /\ Cardinality(At("refuse", why)') = Cardinality(At("refuse", why)) + 1
      <4>1. At("refuse", why)' = At("refuse", why) \cup {c} /\ c \notin At("refuse", why)
        BY <3>1, <3>2 DEF At, Alone, Turned, Reasons
      <4> QED
        BY <1>2, <4>1, FS_AddElement
    <3>3. ASSUME NEW why \in Reasons, ~Turned(c, why)
          PROVE  At("refuse", why)' = At("refuse", why)
      BY <1>4, <3>1, <3>3 DEF Reasons
    <3>4. \A v, w : Turned(c, v) /\ Turned(c, w) => v = w
      BY DEF Turned
    <3>5. CASE /\ MovesOn(c) \/ Turned(c, "NoCapability")
               /\ counts'.unrouted = counts.unrouted /\ counts'.busy = counts.busy
      <4>1. ~Turned(c, "UnknownTopic") /\ ~Turned(c, "Busy")
        BY <3>5 DEF Turned, MovesOn
      <4> QED
        BY <1>1, <3>1, <3>3, <3>5, <4>1 DEF TurnedCounted
    <3>6. CASE /\ Turned(c, "UnknownTopic")
               /\ counts'.unrouted = counts.unrouted + 1 /\ counts'.busy = counts.busy
      <4>1. ~Turned(c, "Busy")
        BY <3>4, <3>6
      <4>2. At("refuse", "Busy")' = At("refuse", "Busy")
            /\ Cardinality(At("refuse", "UnknownTopic")') = Cardinality(At("refuse", "UnknownTopic")) + 1
        BY <1>1, <3>2, <3>3, <3>6, <4>1
      <4>3. PICK k \in Nat, r \in Nat : k = Cardinality(At("refuse", "UnknownTopic")) /\ r = counts.rejected["UnknownTopic"]
        BY <1>1, <1>2
      <4>4. counts.unrouted = r + k /\ counts'.unrouted = (r + k) + 1
            /\ counts'.rejected["UnknownTopic"] = r /\ Cardinality(At("refuse", "UnknownTopic")') = k + 1
        BY <1>1, <3>1, <3>6, <4>2, <4>3 DEF TurnedCounted
      <4>5. counts'.busy["sim_driver"] + counts'.busy["hook_driver"]
              = counts'.rejected["Busy"] + Cardinality(At("refuse", "Busy")')
        BY <1>1, <3>1, <3>6, <4>2 DEF TurnedCounted
      <4> QED
        BY <4>4, <4>5 DEF TurnedCounted
    <3>7. CASE /\ Turned(c, "Busy") /\ counts'.unrouted = counts.unrouted
               /\ \E t \in Targets : counts'.busy = [counts.busy EXCEPT ![t] = @ + 1]
      <4>1. ~Turned(c, "UnknownTopic")
        BY <3>4, <3>7
      <4>2. At("refuse", "UnknownTopic")' = At("refuse", "UnknownTopic")
            /\ Cardinality(At("refuse", "Busy")') = Cardinality(At("refuse", "Busy")) + 1
        BY <1>1, <3>2, <3>3, <3>7, <4>1
      <4>3. PICK k \in Nat, r \in Nat : k = Cardinality(At("refuse", "Busy")) /\ r = counts.rejected["Busy"]
        BY <1>1, <1>2
      <4>4. counts'.busy["sim_driver"] + counts'.busy["hook_driver"]
              = (counts.busy["sim_driver"] + counts.busy["hook_driver"]) + 1
        BY <1>1, <3>7
      <4>5. counts.busy["sim_driver"] + counts.busy["hook_driver"] = r + k
        BY <1>1, <4>3 DEF TurnedCounted
      <4>6. counts'.rejected["Busy"] = r /\ Cardinality(At("refuse", "Busy")') = k + 1
        BY <3>1, <4>2, <4>3
      <4>7. counts'.busy["sim_driver"] + counts'.busy["hook_driver"]
              = counts'.rejected["Busy"] + Cardinality(At("refuse", "Busy")')
        BY <4>4, <4>5, <4>6
      <4>8. counts'.unrouted = counts'.rejected["UnknownTopic"] + Cardinality(At("refuse", "UnknownTopic")')
        BY <1>1, <3>1, <3>7, <4>2 DEF TurnedCounted
      <4> QED
        BY <4>7, <4>8 DEF TurnedCounted
    <3> QED
      BY <2>2, <3>5, <3>6, <3>7 DEF Moves
  <2>3. CASE Refuses(c)
    <3>1. PICK why \in Reasons : why = reader[c].reason
      <4>1. reader[c] \in Readers /\ reader[c].reason # ""
        BY <1>1, <2>3 DEF TypeInv, PendingInv, InHand, Refuses
      <4> QED
        BY <4>1 DEF Readers
    <3>2. /\ Alone(c) /\ Rests(c)' /\ reader[c].pc = "refuse"
          /\ counts'.unrouted = counts.unrouted /\ counts'.busy = counts.busy
          /\ counts'.rejected = [counts.rejected EXCEPT ![why] = @ + 1]
      BY <2>3, <3>1 DEF Refuses, Settles, Apart
    <3>3. ~Turned(c, "UnknownTopic") /\ ~Turned(c, "Busy")
      BY <3>2 DEF Rests, Turned
    <3>4. ASSUME NEW w \in {"UnknownTopic", "Busy"}
          PROVE  counts'.rejected[w] + Cardinality(At("refuse", w)')
                   = counts.rejected[w] + Cardinality(At("refuse", w))
      <4>1. PICK k \in Nat, r \in Nat : k = Cardinality(At("refuse", w)) /\ r = counts.rejected[w]
        BY <1>1, <1>2
      <4>2. CASE w = why
        <5>1. At("refuse", w)' = At("refuse", w) \ {c} /\ c \in At("refuse", w)
          BY <3>1, <3>2, <3>3, <4>2 DEF At, Alone, Turned
        <5>2. Cardinality(At("refuse", w)') = k - 1
          BY <1>2, <4>1, <5>1, FS_RemoveElement
        <5>3. counts'.rejected[w] = r + 1
          BY <1>1, <3>2, <4>1, <4>2
        <5> QED
          BY <4>1, <5>2, <5>3
      <4>3. CASE w # why
        <5>1. At("refuse", w)' = At("refuse", w)
          BY <3>1, <3>2, <3>3, <4>3 DEF At, Alone, Turned
        <5>2. counts'.rejected[w] = r
          BY <1>1, <3>2, <4>1, <4>3
        <5> QED
          BY <4>1, <5>1, <5>2
      <4> QED
        BY <4>2, <4>3
    <3> QED
      BY <1>1, <3>2, <3>4 DEF TurnedCounted
  <2> QED
    BY <1>1, <1>5, <2>1, <2>2, <2>3, ReaderSteps
<1>6. ASSUME LogicStep \/ TimePasses \/ Configure \/ UNCHANGED vars PROVE TurnedCounted'
  <2>1. UNCHANGED <<reader, counts>>
    BY <1>6, LogicFrame DEF Others, readVars, countVars, TimePasses, Configure, vars
  <2> QED
    BY <1>1, <2>1 DEF TurnedCounted, At
<1> QED
  BY <1>5, <1>6 DEF Next

-----------------------------------------------------------------------------
(* What is answered, and the types of what is kept of a record.            *)

LEMMA AnswerSteps ==
  ASSUME NEW c \in Consumers, ReaderStep(c)
  PROVE  \/ UNCHANGED answers
         \/ \E a : a.kind # "pong" /\ Answer(c, a)
         \/ Pong(c)
<1>1. ASSUME NEW m \in setup.messages, ReadSetTopicFilter(c, m)
      PROVE  \E a : a.kind # "pong" /\ Answer(c, a)
  <2>1. ASSUME FilterRefusal(m) # "nothing"
        PROVE  Answer(c, [kind |-> "filter", refusal |-> FilterRefusal(m)])
    BY <1>1, <2>1 DEF ReadSetTopicFilter
  <2>2. ASSUME FilterRefusal(m) = "nothing"
        PROVE  \E f, n, u : Answer(c, [kind |-> "filter", refusal |-> "nothing", filter |-> f,
                                      admitted |-> n, unknown |-> u])
    BY <1>1, <2>2, Zenon DEF ReadSetTopicFilter
  <2> QED
    BY <2>1, <2>2
<1>2. ASSUME NEW m \in setup.messages, ReadAuth(c, m) PROVE \E a : a.kind # "pong" /\ Answer(c, a)
  BY <1>2 DEF ReadAuth
<1>3. ASSUME NEW m \in setup.messages, ReadGetSchema(c, m) PROVE \E a : a.kind # "pong" /\ Answer(c, a)
  BY <1>3 DEF ReadGetSchema
<1>4. ASSUME NEW m \in setup.messages, ReadGetTopics(c, m) PROVE \E a : a.kind # "pong" /\ Answer(c, a)
  <2>1. Answer(c, [kind |-> "topics", listed |-> Listed(Caps(c))])
    BY <1>4 DEF ReadGetTopics
  <2> QED
    BY <2>1
<1>5. ASSUME NEW m \in setup.messages,
             ReadAndClose(c, m) \/ ReadSeqAck(c, m) \/ ReadSetEnabled(c, m) \/ ReadRecord(c, m) \/ ReadPing(c, m)
      PROVE  UNCHANGED answers
  BY <1>5 DEF ReadAndClose, ReadSeqAck, ReadSetEnabled, ReadRecord, ReadPing
<1>6. Total(c) \/ Lookup(c) \/ Offer(c) \/ LoadHeartbeat(c) => UNCHANGED answers
  BY DEF Total, Lookup, Offer, LoadHeartbeat
<1>7. ASSUME Refuse(c), ~UNCHANGED answers PROVE \E a : a.kind # "pong" /\ Answer(c, a)
  <2>1. \E n, w, t : Answer(c, [kind |-> "rejected", record |-> n, why |-> w, at |-> t])
    BY <1>7, Zenon DEF Refuse
  <2> QED
    BY <2>1
<1> QED
  BY <1>1, <1>2, <1>3, <1>4, <1>5, <1>6, <1>7 DEF ReaderStep

LEMMA RecordTypesKept ==
  ASSUME InboundInv, [Next]_vars
  PROVE  RecordTypes'
<1> DEFINE Counts == [unrouted : Nat, busy : [Targets -> Nat], suppressed : Nat, acks : Nat,
                      rejected : [Reasons -> Nat]]
<1>1. /\ TypeInv /\ PendingInv /\ RegistryInv /\ RecordTypes
      /\ counts \in Counts /\ fate \in [Consumers -> Seq(Fates)]
      /\ DOMAIN answers = Consumers /\ \A c \in Consumers : IsSeq(answers[c])
  BY DEF InboundInv, TypeInv, RecordTypes
<1>2. \A s \in Seq(Fates) : \A what \in Fates : Append(s, what) \in Seq(Fates) /\ [s EXCEPT ![Len(s)] = what] \in Seq(Fates)
  <2>1. ASSUME NEW s \in Seq(Fates), NEW what \in Fates PROVE [s EXCEPT ![Len(s)] = what] \in Seq(Fates)
    <3>1. Len(s) \in Nat /\ DOMAIN s = 1..Len(s)
      BY SeqIsSeq
    <3>2. CASE Len(s) \in 1..Len(s)
      BY <3>2, ExceptSeq
    <3>3. CASE Len(s) \notin 1..Len(s)
      <4>1. [s EXCEPT ![Len(s)] = what] = s
        BY <3>1, <3>3
      <4> QED
        BY <4>1
    <3> QED
      BY <3>2, <3>3
  <2> QED
    BY <2>1, AppendProperties
<1>3. ASSUME NEW c \in Consumers, ReaderStep(c)
      PROVE  DOMAIN answers' = Consumers /\ \A d \in Consumers : IsSeq(answers'[d])
  <2>1. ASSUME NEW a, Answer(c, a) PROVE DOMAIN answers' = Consumers /\ \A d \in Consumers : IsSeq(answers'[d])
    <3>1. IsSeq(Append(answers[c], a))
      BY <1>1, AppendFacts
    <3>2. /\ DOMAIN answers' = Consumers /\ answers'[c] = Append(answers[c], a)
          /\ \A d \in Consumers \ {c} : answers'[d] = answers[d]
      BY <1>1, <2>1 DEF Answer
    <3> QED
      BY <1>1, <3>1, <3>2
  <2>2. Pong(c) => \E a : Answer(c, a)
    BY DEF Pong
  <2> QED
    BY <1>1, <1>3, <2>1, <2>2, AnswerSteps
<1>4. ASSUME NEW c \in Consumers, ReaderStep(c) PROVE fate' \in [Consumers -> Seq(Fates)]
  <2>1. PICK s \in Seq(Fates) : s = fate[c]
    BY <1>1
  <2>2. \A q \in Seq(Fates) : [fate EXCEPT ![c] = q] \in [Consumers -> Seq(Fates)]
    BY <1>1
  <2>3. ASSUME NEW what \in Fates, fate' = [fate EXCEPT ![c] = Append(@, what)] \/ Became(c, what)
        PROVE  fate' \in [Consumers -> Seq(Fates)]
    <3>1. fate' = [fate EXCEPT ![c] = Append(s, what)] \/ fate' = [fate EXCEPT ![c] = [s EXCEPT ![Len(s)] = what]]
      BY <1>1, <2>1, <2>3 DEF Became
    <3> QED
      BY <1>2, <2>2, <3>1
  <2>4. {"pending", "stored", "closed"} \cup Reasons \subseteq Fates
    BY DEF Fates
  <2>5. ASSUME NEW m \in setup.messages,
               ReadAndClose(c, m) \/ ReadAuth(c, m) \/ ReadGetSchema(c, m) \/ ReadSeqAck(c, m)
                 \/ ReadGetTopics(c, m) \/ ReadSetTopicFilter(c, m) \/ ReadSetEnabled(c, m)
                 \/ ReadRecord(c, m) \/ ReadPing(c, m)
        PROVE  UNCHANGED fate \/ fate' = [fate EXCEPT ![c] = Append(@, "pending")]
    BY <2>5 DEF ReadAndClose, ReadAuth, ReadGetSchema, ReadSeqAck, ReadGetTopics, ReadSetTopicFilter,
                ReadSetEnabled, ReadRecord, ReadPing, Quick
  <2>6. Total(c) \/ Lookup(c) \/ Offer(c) \/ LoadHeartbeat(c) \/ Pong(c)
          => UNCHANGED fate \/ Became(c, "closed") \/ Became(c, "stored")
    BY DEF Total, Lookup, Offer, LoadHeartbeat, Pong
  <2>7. Refuse(c) => \E why \in Reasons : Became(c, why)
    <3>1. ASSUME Refuse(c) PROVE reader[c] \in Readers /\ reader[c].reason # ""
      BY <1>1, <3>1 DEF TypeInv, PendingInv, InHand, Refuse
    <3>2. ASSUME Refuse(c) PROVE Became(c, reader[c].reason)
      BY <3>2 DEF Refuse
    <3> QED
      BY <3>1, <3>2 DEF Readers
  <2> QED
    BY <1>1, <1>4, <2>3, <2>4, <2>5, <2>6, <2>7 DEF ReaderStep
<1>5. ASSUME NEW c \in Consumers, ReaderStep(c) PROVE counts' \in Counts
  <2>1. CASE UNCHANGED counts
    BY <1>1, <2>1
  <2>2. ASSUME counts' = [counts EXCEPT !.acks = @ + 1] \/ counts' = [counts EXCEPT !.unrouted = @ + 1]
        PROVE  counts' \in Counts
    <3>1. PICK k \in Counts : k = counts
      BY <1>1
    <3>2. k.acks + 1 \in Nat /\ k.unrouted + 1 \in Nat
      OBVIOUS
    <3>3. [k EXCEPT !.acks = @ + 1] \in Counts /\ [k EXCEPT !.unrouted = @ + 1] \in Counts
      BY <3>2
    <3> QED
      BY <2>2, <3>1, <3>3
  <2>3. ASSUME NEW t \in Targets, counts' = [counts EXCEPT !.busy[t] = @ + 1] PROVE counts' \in Counts
    <3>1. PICK k \in Counts : k = counts
      BY <1>1
    <3>2. PICK b \in [Targets -> Nat] : b = [k.busy EXCEPT ![t] = @ + 1]
      <4>1. k.busy \in [Targets -> Nat] /\ k.busy[t] + 1 \in Nat
        OBVIOUS
      <4> QED
        BY <4>1
    <3>3. [k EXCEPT !.busy = b] \in Counts
      OBVIOUS
    <3> QED
      BY <2>3, <3>1, <3>2, <3>3
  <2>4. ASSUME NEW why \in Reasons, NEW told, counts' = Tally(why, told) PROVE counts' \in Counts
    <3>1. PICK k \in Counts : k = counts
      BY <1>1
    <3>2. PICK r \in [Reasons -> Nat] : r = [k.rejected EXCEPT ![why] = @ + 1]
      <4>1. k.rejected \in [Reasons -> Nat] /\ k.rejected[why] + 1 \in Nat
        OBVIOUS
      <4> QED
        BY <4>1
    <3>3. PICK n \in Nat : n = IF told THEN k.suppressed ELSE k.suppressed + 1
      OBVIOUS
    <3>4. [k EXCEPT !.rejected = r, !.suppressed = n] \in Counts
      OBVIOUS
    <3> QED
      BY <2>4, <3>1, <3>2, <3>3, <3>4 DEF Tally
  <2>5. ASSUME NEW m \in setup.messages,
               ReadAndClose(c, m) \/ ReadAuth(c, m) \/ ReadGetSchema(c, m) \/ ReadSeqAck(c, m)
                 \/ ReadGetTopics(c, m) \/ ReadSetTopicFilter(c, m) \/ ReadSetEnabled(c, m)
                 \/ ReadRecord(c, m) \/ ReadPing(c, m)
        PROVE  UNCHANGED counts \/ counts' = [counts EXCEPT !.acks = @ + 1]
    BY <2>5 DEF ReadAndClose, ReadAuth, ReadGetSchema, ReadSeqAck, ReadGetTopics, ReadSetTopicFilter,
                ReadSetEnabled, ReadRecord, ReadPing, countVars
  <2>6. Total(c) \/ LoadHeartbeat(c) \/ Pong(c) => UNCHANGED counts
    BY DEF Total, LoadHeartbeat, Pong, countVars
  <2>7. Lookup(c) => UNCHANGED counts \/ counts' = [counts EXCEPT !.unrouted = @ + 1]
    BY DEF Lookup
  <2>8. Offer(c) => UNCHANGED counts \/ \E t \in Targets : counts' = [counts EXCEPT !.busy[t] = @ + 1]
    <3>1. Offer(c) => routes[reader[c].msg.topic] \in Targets
      BY <1>1 DEF Offer, PendingInv, LookedUp, RegistryInv, MapsInv, IsMap
    <3> QED
      BY <3>1 DEF Offer
  <2>9. Refuse(c) => \E why \in Reasons : \E told : counts' = Tally(why, told)
    <3>1. ASSUME Refuse(c) PROVE reader[c] \in Readers /\ reader[c].reason # ""
      BY <1>1, <3>1 DEF TypeInv, PendingInv, InHand, Refuse
    <3>2. ASSUME Refuse(c) PROVE \E told : counts' = Tally(reader[c].reason, told)
      BY <3>2, Zenon DEF Refuse
    <3> QED
      BY <3>1, <3>2 DEF Readers
  <2> QED
    BY <1>5, <2>1, <2>2, <2>3, <2>4, <2>5, <2>6, <2>7, <2>8, <2>9 DEF ReaderStep
<1>6. LogicStep \/ TimePasses \/ Configure \/ UNCHANGED vars => UNCHANGED <<answers, fate, counts>>
  BY LogicFrame DEF Others, readVars, countVars, TimePasses, Configure, vars
<1>7. UNCHANGED <<answers, fate, counts>> => RecordTypes'
  BY <1>1 DEF RecordTypes
<1> QED
  BY <1>3, <1>4, <1>5, <1>6, <1>7 DEF Next, RecordTypes

-----------------------------------------------------------------------------
(* The logic thread's stamp. *)

LEMMA BeatTypesKept ==
  ASSUME TypeInv, [Next]_vars
  PROVE  BeatTypes'
<1>1. BeatTypes /\ clock \in Nat /\ limits.interval \in Nat
  BY LimitsInForce, InboundAssumption DEF TypeInv, SetupTypes, Limits
<1>2. ASSUME UNCHANGED logicVars PROVE BeatTypes'
  BY <1>1, <1>2 DEF logicVars, BeatTypes
<1>3. ASSUME NEW c \in Consumers, ReaderStep(c) PROVE UNCHANGED logicVars
  BY <1>3, ReaderFrame
<1>4. ASSUME LogicStep PROVE BeatTypes'
  <2>1. \A table : Register(table) => UNCHANGED logicVars
    BY DEF Register
  <2>2. \A t : OpenRecord(t) => UNCHANGED logicVars
    BY DEF OpenRecord
  <2>3. ASSUME NEW t \in Targets, PollTake(t) PROVE BeatTypes'
    BY <1>1, <2>3 DEF PollTake, BeatTypes
  <2>4. PollReturn => BeatTypes'
    BY <1>1 DEF PollReturn, BeatTypes
  <2>5. TickCall => BeatTypes'
    BY <1>1 DEF TickCall, BeatTypes
  <2>6. ASSUME TickStamp PROVE BeatTypes'
    <3>1. PICK now \in Nat, i \in Nat : now = logic.now /\ i = limits.interval
      BY <1>1, <2>6 DEF TickStamp, BeatTypes
    <3>2. heartbeat' = now + 1 \/ heartbeat' = heartbeat
      BY <2>6, <3>1 DEF TickStamp
    <3>3. ticked' = [at |-> now, interval |-> i] /\ logic'.pc = "idle"
      BY <2>6, <3>1 DEF TickStamp
    <3> QED
      BY <1>1, <3>2, <3>3 DEF BeatTypes, Ticks
  <2> QED
    BY <1>2, <1>4, <2>1, <2>2, <2>3, <2>4, <2>5, <2>6 DEF LogicStep
<1>5. TimePasses \/ Configure \/ UNCHANGED vars => UNCHANGED logicVars
  BY DEF TimePasses, Configure, vars, logicVars
<1> QED
  BY <1>2, <1>3, <1>4, <1>5 DEF Next

(* Its stamps are of the clock as it has been. *)
LEMMA StampsKept ==
  ASSUME TypeInv, BeatInv, [Next]_vars
  PROVE  /\ StampOf(heartbeat, ticked)' /\ heartbeat' - 1 <= clock'
         /\ logic'.pc = "tick" => heartbeat' - 1 <= logic'.now /\ logic'.now <= clock'
<1>1. /\ clock \in Nat /\ heartbeat \in Nat /\ StampOf(heartbeat, ticked) /\ heartbeat - 1 <= clock
      /\ logic.pc = "tick" => logic.now \in Nat /\ heartbeat - 1 <= logic.now /\ logic.now <= clock
      /\ limits.interval \in Nat \ {0}
  <2>1. clock \in Nat
    BY InboundAssumption DEF TypeInv, SetupTypes
  <2>2. heartbeat \in Nat /\ (logic.pc = "tick" => logic.now \in Nat)
    BY DEF TypeInv, BeatTypes
  <2>3. limits.interval \in Nat \ {0}
    BY LimitsInForce DEF Limits
  <2> QED
    BY <2>1, <2>2, <2>3 DEF BeatInv
<1>2. CASE UNCHANGED <<heartbeat, ticked, logic>> /\ (clock' = clock \/ clock' = clock + 1)
  BY <1>1, <1>2
<1>3. ASSUME NEW c \in Consumers, ReaderStep(c) PROVE UNCHANGED <<heartbeat, ticked, logic, clock>>
  BY <1>3, ReaderFrame DEF logicVars
<1>4. ASSUME LogicStep PROVE clock' = clock
  BY <1>4, LogicFrame DEF Others
<1>5. (\E table : Register(table)) \/ (\E t : OpenRecord(t)) => UNCHANGED <<heartbeat, ticked, logic>>
  BY DEF Register, OpenRecord, logicVars
<1>6. CASE (\E t \in Targets : PollTake(t)) \/ PollReturn
  <2>1. UNCHANGED <<heartbeat, ticked, clock>> /\ logic'.pc # "tick"
    BY <1>6 DEF PollTake, PollReturn, Others
  <2> QED
    BY <1>1, <2>1
<1>7. CASE TickCall
  <2>1. UNCHANGED <<heartbeat, ticked, clock>> /\ logic'.now = clock
    BY <1>7 DEF TickCall, Others
  <2> QED
    BY <1>1, <2>1
<1>8. CASE TickStamp
  <2>1. PICK now \in Nat, i \in Nat \ {0}, hb \in Nat :
          now = logic.now /\ i = limits.interval /\ hb = heartbeat
    BY <1>1, <1>8 DEF TickStamp
  <2>2. /\ ticked' = [at |-> now, interval |-> i] /\ logic'.pc = "idle" /\ clock' = clock
        /\ heartbeat' = IF hb = 0 \/ now - (hb - 1) >= i THEN now + 1 ELSE hb
    BY <1>8, <2>1 DEF TickStamp, Others
  <2>3. now <= clock /\ hb - 1 <= now
    BY <1>1, <1>8, <2>1 DEF TickStamp
  <2>4. PICK k \in Nat : k = heartbeat' /\ (k = now + 1 \/ (k = hb /\ hb # 0 /\ now - (hb - 1) < i))
    BY <2>2
  <2>5. ticked' # Never /\ ticked'.at = now /\ ticked'.interval = i
    <3>1. ticked'.at = now /\ ticked'.interval = i /\ Never.interval = 0
      BY <2>2 DEF Never
    <3> QED
      BY <3>1
  <2>6. StampOf(heartbeat, ticked)'
    <3>1. k # 0 /\ k - 1 <= now /\ i # 0 /\ (k - 1 = now \/ now - (k - 1) < i)
      <4>1. CASE k = now + 1
        BY <4>1
      <4>2. CASE k = hb /\ hb # 0 /\ now - (hb - 1) < i
        BY <2>3, <4>2
      <4> QED
        BY <2>4, <4>1, <4>2
    <3> QED
      BY <2>4, <2>5, <3>1 DEF StampOf
  <2> QED
    BY <1>1, <2>2, <2>3, <2>4, <2>6
<1>9. CASE TimePasses \/ Configure \/ UNCHANGED vars
  BY <1>1, <1>2, <1>9 DEF TimePasses, Configure, vars, logicVars
<1> QED
  BY <1>2, <1>3, <1>4, <1>5, <1>6, <1>7, <1>8, <1>9 DEF Next, LogicStep

(* And what a Ping is answered is worked out from one of them. *)
IsTruePong(a) ==
  a.kind = "pong" =>
    /\ a.alive => a.tick # Never /\ a.now - a.tick.at < a.threshold
    /\ ~a.alive /\ a.tick # Never => a.now - a.tick.at > a.threshold - a.tick.interval

LEMMA PongIsTrueIs ==
  PongIsTrue <=> \A c \in Consumers : \A i \in DOMAIN answers[c] : IsTruePong(answers[c][i])
BY DEF PongIsTrue, IsTruePong

LEMMA PongTellsTheTruth ==
  ASSUME NEW r \in Readers, StampOf(r.heart, r.tick), NEW threshold \in Nat,
         NEW a, a.kind = "pong", a.alive <=> Alive(r, threshold),
         a.now = r.now, a.tick = r.tick, a.threshold = threshold
  PROVE  IsTruePong(a)
<1>1. PICK heart \in Nat, now \in Nat, at \in Int, i \in Nat :
        heart = r.heart /\ now = r.now /\ at = r.tick.at /\ i = r.tick.interval
  BY DEF Readers, Ticks
<1>2. /\ heart = 0 <=> r.tick = Never
      /\ heart # 0 => heart - 1 <= at /\ i # 0 /\ (heart - 1 = at \/ at - (heart - 1) < i)
  BY <1>1 DEF StampOf
<1>3. a.alive <=> heart # 0 /\ now - (heart - 1) < threshold
  BY <1>1 DEF Alive
<1>4. heart # 0 /\ now - (heart - 1) < threshold => now - at < threshold
  BY <1>2
<1>5. heart # 0 /\ ~(now - (heart - 1) < threshold) => now - at > threshold - i
  BY <1>2
<1>6. a.tick.at = at /\ a.tick.interval = i /\ (a.tick = Never <=> heart = 0)
  BY <1>1, <1>2
<1> QED
  BY <1>1, <1>3, <1>4, <1>5, <1>6 DEF IsTruePong

LEMMA PongsKept ==
  ASSUME InboundInv, [Next]_vars
  PROVE  PongIsTrue'
<1>1. /\ TypeInv /\ \A d \in Consumers : IsSeq(answers[d]) /\ DOMAIN answers = Consumers
      /\ \A d \in Consumers : \A i \in DOMAIN answers[d] : IsTruePong(answers[d][i])
  BY PongIsTrueIs DEF InboundInv, TypeInv, RecordTypes, BeatInv
<1>2. ASSUME NEW c \in Consumers, NEW a, IsTruePong(a), Answer(c, a)
      PROVE  \A d \in Consumers : \A i \in DOMAIN answers'[d] : IsTruePong(answers'[d][i])
  <2>1. answers'[c] = Append(answers[c], a) /\ \A d \in Consumers \ {c} : answers'[d] = answers[d]
    BY <1>1, <1>2 DEF Answer
  <2>2. PICK s : s = answers[c] /\ IsSeq(s)
    BY <1>1
  <2>3. /\ Len(s) \in Nat /\ DOMAIN s = 1..Len(s) /\ DOMAIN Append(s, a) = 1..(Len(s) + 1)
        /\ \A i \in DOMAIN s : Append(s, a)[i] = s[i]
        /\ Append(s, a)[Len(s) + 1] = a
    BY <2>2, AppendFacts
  <2>4. \A i \in DOMAIN Append(s, a) : IsTruePong(Append(s, a)[i])
    BY <1>1, <1>2, <2>2, <2>3
  <2> QED
    BY <1>1, <2>1, <2>2, <2>4
<1>3. ASSUME NEW c \in Consumers, Pong(c) PROVE \E a : IsTruePong(a) /\ Answer(c, a)
  <2>1. PICK r \in Readers : r = reader[c]
    BY <1>1 DEF TypeInv
  <2>2. StampOf(r.heart, r.tick)
    BY <1>3, <2>1 DEF Pong, InboundInv, BeatInv
  <2>3. PICK threshold \in Nat : threshold = limits.threshold
    BY <1>1, LimitsInForce DEF Limits
  <2>4. PICK a : /\ a = [kind |-> "pong", alive |-> Alive(r, threshold), enabled |-> enabled,
                         now |-> r.now, tick |-> r.tick, threshold |-> threshold]
    OBVIOUS
  <2>5. /\ a.kind = "pong" /\ a.now = r.now /\ a.tick = r.tick /\ a.threshold = threshold
    BY <2>4
  <2>6. a.alive <=> Alive(r, threshold)
    BY <2>4, Zenon
  <2>7. IsTruePong(a)
    BY <2>2, <2>5, <2>6, PongTellsTheTruth
  <2>8. Answer(c, a)
    BY <1>3, <2>1, <2>3, <2>4, Zenon DEF Pong
  <2> QED
    BY <2>7, <2>8
<1>4. ASSUME NEW c \in Consumers, ReaderStep(c)
      PROVE  \A d \in Consumers : \A i \in DOMAIN answers'[d] : IsTruePong(answers'[d][i])
  <2>1. \A a : a.kind # "pong" => IsTruePong(a)
    BY DEF IsTruePong
  <2> QED
    BY <1>1, <1>2, <1>3, <1>4, <2>1, AnswerSteps
<1>5. ASSUME LogicStep \/ TimePasses \/ Configure \/ UNCHANGED vars
      PROVE  \A d \in Consumers : \A i \in DOMAIN answers'[d] : IsTruePong(answers'[d][i])
  <2>1. UNCHANGED answers
    BY <1>5, LogicFrame DEF Others, readVars, TimePasses, Configure, vars
  <2> QED
    BY <1>1, <2>1
<1>6. \A d \in Consumers : \A i \in DOMAIN answers'[d] : IsTruePong(answers'[d][i])
  BY <1>4, <1>5 DEF Next
<1> QED
  BY <1>6 DEF PongIsTrue, IsTruePong

(* A reader that has loaded a stamp holds the one there was. *)
LEMMA HeartsKept ==
  ASSUME InboundInv, [Next]_vars, NEW d \in Consumers, reader'[d].pc = "pong"
  PROVE  StampOf(reader'[d].heart, reader'[d].tick)
<1>1. /\ TypeInv /\ PendingInv /\ RegistryInv /\ StampOf(heartbeat, ticked)
      /\ reader[d].pc = "pong" => StampOf(reader[d].heart, reader[d].tick)
  BY DEF InboundInv, BeatInv
<1>2. CASE reader'[d] = reader[d]
  BY <1>1, <1>2
<1>3. ASSUME NEW c \in Consumers, ReaderStep(c)
      PROVE  reader'[d] = reader[d] \/ (c = d /\ LoadHeartbeat(d))
  BY <1>1, <1>3, ReaderSteps
     DEF Quietly, Begins, Moves, MovesOn, Turned, Loses, Stores, Refuses, Settles, Apart, Alone
<1>4. CASE LoadHeartbeat(d)
  <2>1. PICK r \in Readers : r = reader[d]
    BY <1>1 DEF TypeInv
  <2>2. PICK x : x = [r EXCEPT !.pc = "pong", !.heart = heartbeat, !.tick = ticked]
    OBVIOUS
  <2>3. reader' = [reader EXCEPT ![d] = x]
    BY <1>1, <1>4, <2>1, <2>2 DEF LoadHeartbeat, TypeInv
  <2>4. reader'[d] = x /\ x.heart = heartbeat /\ x.tick = ticked
    BY <1>1, <2>2, <2>3 DEF TypeInv, Readers
  <2> QED
    BY <1>1, <2>4
<1>5. LogicStep \/ TimePasses \/ Configure \/ UNCHANGED vars => reader'[d] = reader[d]
  BY LogicFrame DEF Others, readVars, TimePasses, Configure, vars
<1> QED
  BY <1>2, <1>3, <1>4, <1>5 DEF Next

-----------------------------------------------------------------------------
LEMMA InboundKept == InboundInv /\ [Next]_vars => InboundInv'
<1> SUFFICES ASSUME InboundInv, [Next]_vars PROVE InboundInv'
  OBVIOUS
<1>1. TypeInv /\ BeatInv /\ PendingInv /\ RegistryInv /\ reader \in [Consumers -> Readers]
  BY DEF InboundInv, TypeInv
<1>2. reader' \in [Consumers -> Readers]
  <2>1. LogicStep \/ TimePasses \/ Configure \/ UNCHANGED vars => UNCHANGED reader
    BY LogicFrame DEF Others, readVars, TimePasses, Configure, vars
  <2> QED
    BY <1>1, <2>1, ReadersKept DEF Next
<1>3. TypeInv'
  BY <1>1, <1>2, SetupTypesKept, RecordTypesKept, LanesKept, BeatTypesKept DEF TypeInv
<1>4. BeatInv'
  BY <1>1, StampsKept, HeartsKept, PongsKept DEF BeatInv
<1>5. CountsInv'
  BY RefusedKept, TurnedKept DEF CountsInv
<1> QED
  BY <1>3, <1>4, <1>5, RegistryKept, PendingKept, TakenKept, ToldKept DEF InboundInv

(* The invariant holds throughout: a reader has at most its last record in *)
(* hand, each counter is the size of the set it counts, and the rings hold *)
(* the records that were stored, in order (serve, deliver, refuse and      *)
(* liveness of inbound.rs and state.rs).                                   *)
THEOREM InboundIsSafe == Spec => []InboundInv
<1> QED
  BY InboundStarts, InboundKept, PTL DEF Spec

(* Lua is handed what a token entitled its sender to, each record once and *)
(* a connection's in the order they were sent, although deliver reads the  *)
(* registry before it locks the ring.                                      *)
THEOREM InboundDeliversAsEntitled == Spec => []DeliveredAsEntitled
<1>1. InboundInv => DeliveredAsEntitled
  BY InvariantIsEnough
<1> QED
  BY <1>1, InboundIsSafe, PTL

(* Every record for Lua has one end, counted by its reason and told its    *)
(* sender; a filter's answer is what fan-out will do; a Pong is true of    *)
(* the logic thread; and no type URL over its cap is in a frame served.    *)
THEOREM InboundAnswersAreTrue == Spec => []AnswersAreTrue
<1>1. InboundInv => AnswersAreTrue
  BY InvariantIsEnough
<1> QED
  BY <1>1, InboundIsSafe, PTL

(* What a record was opened with stays what the maps say: they only grow,  *)
(* and no two LIFECYCLE topics share a slot (Registry::register_classes,   *)
(* register_capabilities and required).                                    *)
THEOREM InboundOpenedAsRegistered == Spec => []OpenedAsRegistered
<1>1. InboundInv => OpenedAsRegistered
  BY InvariantIsEnough
<1> QED
  BY <1>1, InboundIsSafe, PTL

-----------------------------------------------------------------------------
(* The windows.  One holds what it let in since it opened; what the one    *)
(* before let in is older than its start, and younger by a second at most. *)

Win == [since : Nat, count : Nat]

Late(times, from)   == {i \in DOMAIN times : times[i] >= from}
Early(times, since) == {i \in DOMAIN times : since - Second < times[i] /\ times[i] < since}

OwnHolds(w, times, now, all) ==
  /\ w.since <= now
  /\ \A i \in DOMAIN times : times[i] <= now /\ times[i] < w.since + Second
  /\ w.count = Cardinality(Late(times, w.since))
  /\ \E l \in all : w.count <= l.rate
  /\ \E l \in all : Cardinality(Early(times, w.since)) <= l.rate

(* A thread opens everyone's window at the time it read, and is let in     *)
(* then or later.                                                          *)
TotalHolds(w, times, now) == w.since <= now /\ w.count <= Cardinality(Late(times, w.since))

Tells(s, kind, from) ==
  {i \in DOMAIN s : s[i].kind = "rejected" /\ Kind(s[i].why) = kind /\ s[i].at >= from}

RefusalsHold(w, s, kind, now) == w.since <= now /\ w.count <= Cardinality(Tells(s, kind, w.since))

WindowTypes ==
  /\ windows \in [Consumers -> [own : Win, rejected : Win, busy : Win]] /\ total \in Win
  /\ admitted \in [own : [Consumers -> Seq(Nat)], total : Seq(Nat)]
  /\ \A c \in Consumers : \A i \in Told(c) : answers[c][i].at \in Nat

RateOf(c) ==
  /\ OwnHolds(windows[c].own, admitted.own[c], clock, Range(setup.limits))
  /\ RefusalsHold(windows[c].rejected, answers[c], "rejected", clock)
  /\ RefusalsHold(windows[c].busy, answers[c], "busy", clock)
  /\ reader[c].now <= clock

RateInv ==
  /\ WindowTypes /\ TotalHolds(total, admitted.total, clock)
  /\ \A c \in Consumers : RateOf(c)

LEMMA OpenedFacts ==
  ASSUME NEW w \in Win, NEW now \in Nat, NEW cap \in Nat
  PROVE  LET o == Opened(w, now) IN
         /\ o \in Win
         /\ \/ o = w /\ now < w.since + Second
            \/ o.since = now /\ o.count = 0 /\ now >= w.since + Second
         /\ Admits(w, now, cap) <=> o.count < cap
         /\ After(w, now, cap) \in Win /\ After(w, now, cap).since = o.since
         /\ After(w, now, cap).count = IF Admits(w, now, cap) THEN o.count + 1 ELSE o.count
<1>1. PICK o : o = Opened(w, now)
  OBVIOUS
<1>2. w.since \in Nat /\ w.count \in Nat /\ Second \in Nat \ {0}
  BY InboundAssumption DEF Win
<1>3. o \in Win /\ \/ o = w /\ now < w.since + Second
                   \/ o.since = now /\ o.count = 0 /\ now >= w.since + Second
  BY <1>1, <1>2 DEF Opened, Win
<1>4. Admits(w, now, cap) <=> o.count < cap
  BY <1>1 DEF Admits
<1>5. After(w, now, cap) = [o EXCEPT !.count = IF Admits(w, now, cap) THEN o.count + 1 ELSE o.count]
  BY <1>1, <1>3 DEF After, Win
<1>6. After(w, now, cap) \in Win /\ After(w, now, cap).since = o.since
      /\ After(w, now, cap).count = IF Admits(w, now, cap) THEN o.count + 1 ELSE o.count
  <2>1. CASE Admits(w, now, cap)
    BY <1>3, <1>5, <2>1 DEF Win
  <2>2. CASE ~Admits(w, now, cap)
    BY <1>3, <1>5, <2>2 DEF Win
  <2> QED
    BY <2>1, <2>2
<1> QED
  BY <1>1, <1>3, <1>4, <1>6

(* A window that lets nothing in is full, and a second has not passed. *)
LEMMA FullWindow ==
  ASSUME NEW w \in Win, NEW now \in Nat, NEW cap \in Nat, ~Admits(w, now, cap)
  PROVE  cap = 0 \/ (w.count >= cap /\ now < w.since + Second)
<1>1. PICK o \in Win : o = Opened(w, now)
  BY OpenedFacts
<1>2. o.count \in Nat /\ ~(o.count < cap)
  BY <1>1, OpenedFacts DEF Win
<1>3. (o = w /\ now < w.since + Second) \/ o.count = 0
  BY <1>1, OpenedFacts
<1> QED
  BY <1>2, <1>3

LEMMA SomeOfThem ==
  ASSUME NEW times \in Seq(Nat), NEW S, S \subseteq DOMAIN times
  PROVE  IsFiniteSet(S) /\ Cardinality(S) \in Nat
<1>1. Len(times) \in Nat /\ DOMAIN times = 1..Len(times)
  OBVIOUS
<1>2. IsFiniteSet(DOMAIN times)
  BY <1>1, FS_Interval
<1> QED
  BY <1>2, FS_Subset, FS_CardinalityType

LEMMA LateGrows ==
  ASSUME NEW times \in Seq(Nat), NEW from \in Nat, NEW x \in Nat, x >= from
  PROVE  Cardinality(Late(Append(times, x), from)) = Cardinality(Late(times, from)) + 1
<1>1. Len(times) \in Nat /\ DOMAIN times = 1..Len(times)
  OBVIOUS
<1>2. /\ DOMAIN Append(times, x) = 1..(Len(times) + 1) /\ Append(times, x)[Len(times) + 1] = x
      /\ \A i \in 1..Len(times) : Append(times, x)[i] = times[i]
  BY AppendProperties
<1>3. Len(times) + 1 \notin 1..Len(times)
  BY <1>1
<1>4. \A i : i \in Late(Append(times, x), from) <=> i \in Late(times, from) \/ i = Len(times) + 1
  <2>1. \A i : i \in 1..(Len(times) + 1) <=> i \in 1..Len(times) \/ i = Len(times) + 1
    BY <1>1
  <2> QED
    BY <1>1, <1>2, <1>3, <2>1 DEF Late
<1>5. Late(Append(times, x), from) = Late(times, from) \cup {Len(times) + 1}
  BY <1>4
<1>6. Len(times) + 1 \notin Late(times, from)
  BY <1>1, <1>3 DEF Late
<1>7. IsFiniteSet(Late(times, from))
  BY SomeOfThem DEF Late
<1> QED
  BY <1>5, <1>6, <1>7, FS_AddElement

(* A window opened anew has let nothing in since, and the one before it is *)
(* all that is younger than a second.                                      *)
LEMMA OpenedHolds ==
  ASSUME NEW w \in Win, NEW times \in Seq(Nat), NEW now \in Nat, NEW all, all # {},
         \A l \in all : l.rate \in Nat, OwnHolds(w, times, now, all)
  PROVE  OwnHolds(Opened(w, now), times, now, all)
<1>1. PICK o : o = Opened(w, now)
  OBVIOUS
<1>2. o = w \/ (o.since = now /\ o.count = 0 /\ now >= w.since + Second)
  BY <1>1, OpenedFacts
<1>3. CASE o = w
  BY <1>1, <1>3
<1>4. CASE o.since = now /\ o.count = 0 /\ now >= w.since + Second
  <2>1. w.since \in Nat /\ Second \in Nat \ {0} /\ \A i \in DOMAIN times : times[i] \in Nat
    BY InboundAssumption DEF Win
  <2>2. Late(times, now) = {}
    BY <1>4, <2>1 DEF OwnHolds, Late
  <2>3. Cardinality(Late(times, now)) = 0
    BY <2>2, FS_EmptySet
  <2>4. Early(times, now) \subseteq Late(times, w.since)
    BY <1>4, <2>1 DEF Early, Late
  <2>5. Cardinality(Early(times, now)) <= w.count /\ Cardinality(Early(times, now)) \in Nat
        /\ w.count \in Nat
    <3>1. IsFiniteSet(Late(times, w.since)) /\ Cardinality(Late(times, w.since)) \in Nat
      BY SomeOfThem DEF Late
    <3>2. IsFiniteSet(Early(times, now)) /\ Cardinality(Early(times, now)) \in Nat
      BY SomeOfThem DEF Early
    <3>3. Cardinality(Early(times, now)) <= Cardinality(Late(times, w.since))
      BY <2>4, <3>1, FS_Subset
    <3> QED
      BY <3>1, <3>2, <3>3 DEF OwnHolds
  <2>6. PICK l \in all : w.count <= l.rate
    BY DEF OwnHolds
  <2>7. Cardinality(Early(times, now)) <= l.rate /\ 0 <= l.rate
    BY <2>5, <2>6
  <2>8. \A i \in DOMAIN times : times[i] <= now /\ times[i] < now + Second
    BY <2>1 DEF OwnHolds
  <2>9. OwnHolds(o, times, now, all)
    BY <1>4, <2>3, <2>6, <2>7, <2>8 DEF OwnHolds
  <2> QED
    BY <1>1, <2>9
<1> QED
  BY <1>2, <1>3, <1>4

LEMMA AdmittedHolds ==
  ASSUME NEW w \in Win, NEW times \in Seq(Nat), NEW now \in Nat, NEW all, NEW l \in all,
         \A k \in all : k.rate \in Nat, OwnHolds(w, times, now, all)
  PROVE  OwnHolds(After(w, now, l.rate),
                  IF Admits(w, now, l.rate) THEN Append(times, now) ELSE times, now, all)
<1>1. PICK o \in Win : o = Opened(w, now)
  BY OpenedFacts
<1>2. PICK a \in Win : a = After(w, now, l.rate)
  BY OpenedFacts
<1>3. OwnHolds(o, times, now, all)
  BY <1>1, OpenedHolds
<1>4. o.since \in Nat /\ o.count \in Nat /\ Second \in Nat \ {0} /\ l.rate \in Nat
  BY InboundAssumption DEF Win
<1>5. a.since = o.since /\ (Admits(w, now, l.rate) <=> o.count < l.rate)
      /\ a.count = IF Admits(w, now, l.rate) THEN o.count + 1 ELSE o.count
  BY <1>1, <1>2, OpenedFacts
<1>6. CASE ~Admits(w, now, l.rate)
  <2>1. a = o
    BY <1>1, <1>2, <1>5, <1>6 DEF Win
  <2> QED
    BY <1>2, <1>3, <1>6, <2>1
<1>7. CASE Admits(w, now, l.rate)
  <2>1. PICK longer : longer = Append(times, now)
    OBVIOUS
  <2>2. Len(times) \in Nat /\ DOMAIN times = 1..Len(times)
        /\ DOMAIN longer = 1..(Len(times) + 1) /\ longer[Len(times) + 1] = now
        /\ \A i \in 1..Len(times) : longer[i] = times[i]
    BY <2>1, AppendProperties
  <2>3. o.since <= now /\ \A i \in DOMAIN times : times[i] <= now /\ times[i] < o.since + Second
    BY <1>3 DEF OwnHolds
  <2>4. now < o.since + Second
    <3>1. (o = w /\ now < w.since + Second) \/ o.since = now
      BY <1>1, OpenedFacts
    <3> QED
      BY <1>4, <3>1
  <2>5. \A i \in DOMAIN longer : longer[i] <= now /\ longer[i] < o.since + Second
    BY <2>2, <2>3, <2>4
  <2>6. Cardinality(Late(longer, o.since)) = Cardinality(Late(times, o.since)) + 1
    BY <1>4, <2>1, <2>3, LateGrows
  <2>7. a.count = Cardinality(Late(longer, o.since)) /\ a.count <= l.rate
    BY <1>3, <1>4, <1>5, <1>7, <2>6 DEF OwnHolds
  <2>8. Early(longer, o.since) = Early(times, o.since)
    <3>1. \A i : i \in Early(longer, o.since) <=> i \in Early(times, o.since)
      BY <1>4, <2>2, <2>3 DEF Early
    <3> QED
      BY <3>1
  <2>9. OwnHolds(a, longer, now, all)
    BY <1>3, <1>5, <2>3, <2>5, <2>7, <2>8 DEF OwnHolds
  <2> QED
    BY <1>2, <1>7, <2>1, <2>9
<1> QED
  BY <1>6, <1>7

LEMMA TotalAdmits ==
  ASSUME NEW w \in Win, NEW times \in Seq(Nat), NEW now \in Nat, NEW read \in Nat, read <= now,
         NEW cap \in Nat, TotalHolds(w, times, now)
  PROVE  TotalHolds(After(w, read, cap),
                    IF Admits(w, read, cap) THEN Append(times, now) ELSE times, now)
<1>1. PICK o \in Win : o = Opened(w, read)
  BY OpenedFacts
<1>2. PICK a \in Win : a = After(w, read, cap)
  BY OpenedFacts
<1>3. a.since = o.since /\ a.count = IF Admits(w, read, cap) THEN o.count + 1 ELSE o.count
  BY <1>1, <1>2, OpenedFacts
<1>4. o = w \/ (o.since = read /\ o.count = 0)
  BY <1>1, OpenedFacts
<1>5. o.since \in Nat /\ o.count \in Nat /\ Cardinality(Late(times, o.since)) \in Nat
  BY SomeOfThem DEF Win, Late
<1>6. o.since <= now /\ o.count <= Cardinality(Late(times, o.since))
  BY <1>4, <1>5 DEF TotalHolds
<1>7. CASE Admits(w, read, cap)
  <2>1. Cardinality(Late(Append(times, now), o.since)) = Cardinality(Late(times, o.since)) + 1
    BY <1>5, <1>6, LateGrows
  <2>2. a.count <= Cardinality(Late(Append(times, now), o.since))
    BY <1>3, <1>5, <1>6, <1>7, <2>1
  <2> QED
    BY <1>2, <1>3, <1>6, <1>7, <2>2 DEF TotalHolds
<1>8. CASE ~Admits(w, read, cap)
  BY <1>2, <1>3, <1>6, <1>8 DEF TotalHolds
<1> QED
  BY <1>7, <1>8

LEMMA SomeAnswers ==
  ASSUME NEW s, IsSeq(s), NEW S, S \subseteq DOMAIN s
  PROVE  IsFiniteSet(S) /\ Cardinality(S) \in Nat
<1>1. Len(s) \in Nat /\ DOMAIN s = 1..Len(s)
  BY DEF IsSeq
<1>2. IsFiniteSet(DOMAIN s)
  BY <1>1, FS_Interval
<1> QED
  BY <1>2, FS_Subset, FS_CardinalityType

LEMMA RefusalTold ==
  ASSUME NEW w \in Win, NEW s, IsSeq(s), NEW kind, NEW now \in Nat, NEW cap \in Nat,
         NEW a, a.kind = "rejected", Kind(a.why) = kind, a.at = now,
         RefusalsHold(w, s, kind, now)
  PROVE  RefusalsHold(After(w, now, cap), IF Admits(w, now, cap) THEN Append(s, a) ELSE s, kind, now)
<1>1. PICK o \in Win : o = Opened(w, now)
  BY OpenedFacts
<1>2. PICK x \in Win : x = After(w, now, cap)
  BY OpenedFacts
<1>3. x.since = o.since /\ x.count = IF Admits(w, now, cap) THEN o.count + 1 ELSE o.count
  <2>1. x.since = o.since
    BY <1>1, <1>2, OpenedFacts
  <2>2. x.count = IF Admits(w, now, cap) THEN o.count + 1 ELSE o.count
    BY <1>1, <1>2, OpenedFacts
  <2> QED
    BY <2>1, <2>2
<1>4. o = w \/ (o.since = now /\ o.count = 0)
  BY <1>1, OpenedFacts
<1>5. /\ o.since \in Nat /\ o.count \in Nat /\ IsFiniteSet(Tells(s, kind, o.since))
      /\ Cardinality(Tells(s, kind, o.since)) \in Nat
  BY SomeAnswers DEF Win, Tells
<1>6. o.since <= now /\ o.count <= Cardinality(Tells(s, kind, o.since))
  BY <1>4, <1>5 DEF RefusalsHold
<1>7. CASE Admits(w, now, cap)
  <2>1. PICK longer : longer = Append(s, a)
    OBVIOUS
  <2>2. PICK n \in Nat : n = Len(s)
    BY DEF IsSeq
  <2>3. /\ DOMAIN s = 1..n /\ DOMAIN longer = 1..(n + 1) /\ longer[n + 1] = a
        /\ \A i \in 1..n : longer[i] = s[i]
    BY <2>1, <2>2, AppendFacts
  <2>4. Tells(longer, kind, o.since) = Tells(s, kind, o.since) \cup {n + 1}
        /\ n + 1 \notin Tells(s, kind, o.since)
    <3>1. \A i : i \in 1..(n + 1) <=> i \in 1..n \/ i = n + 1
      OBVIOUS
    <3>2. n + 1 \notin 1..n
      OBVIOUS
    <3>3. n + 1 \in Tells(longer, kind, o.since)
      BY <1>5, <1>6, <2>3, <3>1 DEF Tells
    <3>4. \A i \in 1..n : i \in Tells(longer, kind, o.since) <=> i \in Tells(s, kind, o.since)
      BY <2>3, <3>1 DEF Tells
    <3>5. Tells(longer, kind, o.since) \subseteq 1..(n + 1) /\ Tells(s, kind, o.since) \subseteq 1..n
      BY <2>3 DEF Tells
    <3> QED
      BY <3>1, <3>2, <3>3, <3>4, <3>5
  <2>5. Cardinality(Tells(longer, kind, o.since)) = Cardinality(Tells(s, kind, o.since)) + 1
    BY <1>5, <2>4, FS_AddElement
  <2>6. x.count <= Cardinality(Tells(longer, kind, o.since))
    BY <1>3, <1>5, <1>6, <1>7, <2>5
  <2> QED
    BY <1>2, <1>3, <1>6, <1>7, <2>1, <2>6 DEF RefusalsHold
<1>8. CASE ~Admits(w, now, cap)
  BY <1>2, <1>3, <1>6, <1>8 DEF RefusalsHold
<1> QED
  BY <1>7, <1>8

(* What was told of that kind is all that matters. *)
LEMMA RefusalStays ==
  ASSUME NEW w \in Win, NEW s, NEW t, NEW kind, NEW now \in Nat, NEW later \in Nat, now <= later,
         Tells(t, kind, w.since) = Tells(s, kind, w.since), RefusalsHold(w, s, kind, now)
  PROVE  RefusalsHold(w, t, kind, later)
BY DEF RefusalsHold, Win

LEMMA RateStarts == Init => RateInv
<1> SUFFICES ASSUME Init PROVE RateInv
  OBVIOUS
<1> USE DEF Init
<1>1. Fresh \in Win /\ Fresh.since = 0 /\ Fresh.count = 0
  BY DEF Fresh, Win
<1>2. setup.limits # <<>> /\ setup.limits \in Seq(Limits)
  BY InboundAssumption
<1>3. PICK l \in Limits : l \in Range(setup.limits)
  <2>1. 1 \in DOMAIN setup.limits /\ setup.limits[1] \in Limits
    BY <1>2, EmptySeq, SeqIsSeq
  <2> QED
    BY <2>1 DEF Range
<1>4. l.rate \in Nat
  BY DEF Limits
<1>5. \A c \in Consumers : /\ windows[c] = [own |-> Fresh, rejected |-> Fresh, busy |-> Fresh]
                           /\ answers[c] = <<>> /\ admitted.own[c] = <<>> /\ reader[c].now = 0
  BY DEF AtRest
<1>6. admitted.total = <<>> /\ total = Fresh /\ clock = 0
  OBVIOUS
<1>7. DOMAIN <<>> = {} /\ <<>> \in Seq(Nat)
  OBVIOUS
<1>8. Late(<<>>, 0) = {} /\ Early(<<>>, 0) = {} /\ \A kind : Tells(<<>>, kind, 0) = {}
  BY <1>7 DEF Tells, Late, Early
<1>9. /\ Cardinality(Late(<<>>, 0)) = 0 /\ Cardinality(Early(<<>>, 0)) = 0
      /\ \A kind : Cardinality(Tells(<<>>, kind, 0)) = 0
  <2>1. Cardinality({}) = 0
    BY FS_EmptySet
  <2> QED
    BY <1>8, <2>1, Zenon
<1>10. WindowTypes
  <2>1. windows \in [Consumers -> [own : Win, rejected : Win, busy : Win]]
    BY <1>1
  <2>2. admitted \in [own : [Consumers -> Seq(Nat)], total : Seq(Nat)]
    BY <1>7
  <2>3. \A c \in Consumers : Told(c) = {}
    BY <1>5, <1>7 DEF Told
  <2>4. total \in Win
    BY <1>1, <1>6
  <2> QED
    BY <2>1, <2>2, <2>3, <2>4 DEF WindowTypes
<1>11. TotalHolds(total, admitted.total, clock)
  BY <1>1, <1>6, <1>9 DEF TotalHolds
<1>12. OwnHolds(Fresh, <<>>, 0, Range(setup.limits))
  BY <1>1, <1>3, <1>4, <1>7, <1>9 DEF OwnHolds
<1>13. \A kind : RefusalsHold(Fresh, <<>>, kind, 0)
  BY <1>1, <1>9 DEF RefusalsHold
<1>14. \A c \in Consumers :
         windows[c].own = Fresh /\ windows[c].rejected = Fresh /\ windows[c].busy = Fresh
  BY <1>5
<1>15. ASSUME NEW c \in Consumers PROVE reader[c].now <= clock
  <2>1. PICK n \in Nat : n = reader[c].now /\ n = 0
    BY <1>5
  <2> HIDE DEF Init
  <2> QED
    BY <1>6, <2>1
<1> QED
  BY <1>5, <1>6, <1>10, <1>11, <1>12, <1>13, <1>14, <1>15 DEF RateInv, RateOf

-----------------------------------------------------------------------------
(* Which steps the windows and the answers see.                            *)

LEMMA WindowSteps ==
  ASSUME NEW c \in Consumers, ReaderStep(c)
  PROVE  \/ \E m \in setup.messages : ReadRecord(c, m)
         \/ Total(c)
         \/ Refuse(c)
         \/ UNCHANGED <<windows, admitted, total>>
BY DEF ReaderStep, ReadAndClose, ReadAuth, ReadGetSchema, ReadSeqAck, ReadGetTopics,
       ReadSetTopicFilter, ReadSetEnabled, ReadPing, Quick, Lookup, Offer,
       LoadHeartbeat, Pong, countVars

LEMMA StepOf ==
  ASSUME NEW c \in Consumers, ReaderStep(c)
  PROVE  /\ reader[c].pc = "refuse" => Refuse(c)
         /\ reader[c].pc = "total" => Total(c)
BY DEF ReaderStep, ReadAndClose, ReadAuth, ReadGetSchema, ReadSeqAck, ReadGetTopics,
       ReadSetTopicFilter, ReadSetEnabled, ReadRecord, ReadPing, Accepted, Arrives, Lookup, Offer,
       LoadHeartbeat, Pong, Total, Refuse

(* Only a record's window turns it away for its rate. *)
LEMMA RateLimitedBy ==
  ASSUME TypeInv, NEW c \in Consumers, ReaderStep(c),
         reader[c].pc = "reading", reader[c].reason = "", reader'[c].reason = "RateLimited"
  PROVE  \E m \in setup.messages : ReadRecord(c, m)
<1> SUFFICES ASSUME NEW m \in setup.messages,
                    ReadAndClose(c, m) \/ ReadAuth(c, m) \/ Quick(c, m) \/ ReadPing(c, m)
                      \/ (ReadSetEnabled(c, m) /\ ~Quick(c, m))
             PROVE  reader'[c].reason # "RateLimited"
  BY DEF ReaderStep, ReadGetSchema, ReadSeqAck, ReadGetTopics, ReadSetTopicFilter,
         Total, Lookup, Offer, Refuse, LoadHeartbeat, Pong
<1>1. PICK r \in Readers : r = TakenIn(c, m) /\ r.reason = ""
  BY ReaderRecords
<1>2. PICK q \in Readers : q = TakenIn(c, NoMsg) /\ q.reason = ""
  BY ReaderRecords
<1>3. \A x \in Readers : DOMAIN x = {"pc", "session", "seq", "msg", "now", "cap", "reason", "heart", "tick"}
  BY DEF Readers
<1>4. \A x : reader' = [reader EXCEPT ![c] = x] => reader'[c] = x
  BY ReaderMoves
<1>5. CASE ReadAndClose(c, m)
  <2>1. reader'[c] = [r EXCEPT !.pc = "closed"]
    BY <1>1, <1>4, <1>5 DEF ReadAndClose
  <2> QED
    BY <1>1, <1>3, <2>1
<1>6. CASE ReadAuth(c, m)
  <2>1. PICK pc : reader'[c] = [q EXCEPT !.session = m.good, !.pc = pc]
    BY <1>2, <1>4, <1>6 DEF ReadAuth
  <2> QED
    BY <1>2, <1>3, <2>1
<1>7. CASE Quick(c, m)
  <2>1. reader'[c] = [r EXCEPT !.msg = NoMsg]
    BY <1>1, <1>4, <1>7 DEF Quick
  <2> QED
    BY <1>1, <1>3, <2>1
<1>8. CASE ReadPing(c, m)
  <2>1. reader'[c] = [r EXCEPT !.pc = "heart", !.now = clock]
    BY <1>1, <1>4, <1>8 DEF ReadPing
  <2> QED
    BY <1>1, <1>3, <2>1
<1>9. CASE ReadSetEnabled(c, m) /\ ~Quick(c, m)
  <2>1. reader'[c] = [r EXCEPT !.pc = "refuse", !.reason = "NoCapability"]
    BY <1>1, <1>4, <1>9 DEF ReadSetEnabled
  <2> QED
    BY <1>3, <2>1
<1> QED
  BY <1>5, <1>6, <1>7, <1>8, <1>9

LEMMA OthersStay ==
  ASSUME InboundInv, NEW c \in Consumers, ReaderStep(c)
  PROVE  /\ \A d \in Consumers \ {c} : reader'[d] = reader[d] /\ ToldSame(d)
         /\ ~Refuse(c) => ToldSame(c)
<1>1. Quietly(c) \/ Begins(c) \/ Moves(c) \/ Loses(c) \/ Stores(c) \/ Refuses(c)
  BY ReaderSteps DEF InboundInv
<1>2. \A d \in Consumers : answers'[d] = answers[d] => ToldSame(d)
  BY DEF ToldSame, Told
<1>3. Refuses(c) => Refuse(c)
  BY StepOf DEF Refuses
<1>4. Apart(c)
  BY <1>1 DEF Quietly, Begins, Moves, Loses, Stores, Refuses, Settles
<1>5. ~Refuse(c) => ToldSame(c)
  BY <1>1, <1>2, <1>3 DEF Quietly, Begins, Moves, Loses, Stores
<1> QED
  BY <1>2, <1>4, <1>5 DEF Apart, Alone

(* The time a reader has read is past. *)
LEMMA NowIs ==
  ASSUME TypeInv, NEW c \in Consumers, ReaderStep(c)
  PROVE  reader'[c].now \in {reader[c].now, clock, 0}
<1>1. reader \in [Consumers -> Readers]
  BY DEF TypeInv
<1>2. PICK r \in Readers : r = reader[c]
  BY <1>1
<1>3. \A x \in Readers : DOMAIN x = {"pc", "session", "seq", "msg", "now", "cap", "reason", "heart", "tick"}
  BY DEF Readers
<1>4. ASSUME NEW m PROVE TakenIn(c, m) = [r EXCEPT !.seq = r.seq + 1, !.msg = m]
  BY <1>2 DEF TakenIn
<1>5. \A x : reader' = [reader EXCEPT ![c] = x] => reader'[c] = x
  BY <1>1
<1>6. ASSUME NEW m \in setup.messages,
             ReadAndClose(c, m) \/ ReadAuth(c, m) \/ ReadGetSchema(c, m) \/ ReadSeqAck(c, m)
               \/ ReadGetTopics(c, m) \/ ReadSetTopicFilter(c, m) \/ ReadSetEnabled(c, m)
               \/ ReadRecord(c, m) \/ ReadPing(c, m)
      PROVE  reader'[c].now \in {reader[c].now, clock, 0}
  <2>1. PICK t : t = [r EXCEPT !.seq = r.seq + 1, !.msg = m]
    OBVIOUS
  <2>2. PICK q : q = [r EXCEPT !.seq = r.seq + 1, !.msg = NoMsg]
    OBVIOUS
  <2>3. t.now = r.now /\ q.now = r.now /\ DOMAIN t = DOMAIN r /\ DOMAIN q = DOMAIN r
    BY <1>3, <2>1, <2>2
  <2>4. t = TakenIn(c, m) /\ q = TakenIn(c, NoMsg)
    BY <1>4, <2>1, <2>2
  <2>5. CASE ReadAndClose(c, m)
    <3>1. reader'[c] = [t EXCEPT !.pc = "closed"]
      BY <1>5, <2>4, <2>5 DEF ReadAndClose
    <3> QED
      BY <1>2, <1>3, <2>3, <3>1
  <2>6. CASE ReadAuth(c, m)
    <3>1. PICK pc : reader'[c] = [q EXCEPT !.session = m.good, !.pc = pc]
      BY <1>5, <2>4, <2>6 DEF ReadAuth
    <3> QED
      BY <1>2, <1>3, <2>3, <3>1
  <2>7. CASE Quick(c, m)
    <3>1. reader'[c] = [t EXCEPT !.msg = NoMsg]
      BY <1>5, <2>4, <2>7 DEF Quick
    <3> QED
      BY <1>2, <1>3, <2>3, <3>1
  <2>8. CASE ReadSetEnabled(c, m) /\ ~Quick(c, m)
    <3>1. reader'[c] = [t EXCEPT !.pc = "refuse", !.reason = "NoCapability"]
      BY <1>5, <2>4, <2>8 DEF ReadSetEnabled
    <3> QED
      BY <1>2, <1>3, <2>3, <3>1
  <2>9. CASE ReadRecord(c, m)
    <3>1. PICK pc, reason : reader'[c] = [t EXCEPT !.pc = pc, !.reason = reason, !.now = clock,
                                                   !.cap = limits.total]
      BY <1>5, <2>4, <2>9 DEF ReadRecord
    <3> QED
      BY <1>3, <2>3, <3>1
  <2>10. CASE ReadPing(c, m)
    <3>1. reader'[c] = [t EXCEPT !.pc = "heart", !.now = clock]
      BY <1>5, <2>4, <2>10 DEF ReadPing
    <3> QED
      BY <1>3, <2>3, <3>1
  <2> QED
    BY <1>6, <2>5, <2>6, <2>7, <2>8, <2>9, <2>10
       DEF ReadGetSchema, ReadSeqAck, ReadGetTopics, ReadSetTopicFilter
<1>7. ASSUME NEW pc, To(c, pc) PROVE reader'[c].now = reader[c].now
  <2>1. reader'[c] = [r EXCEPT !.pc = pc]
    BY <1>1, <1>2, <1>7 DEF To
  <2> QED
    BY <1>2, <1>3, <2>1
<1>8. ASSUME NEW why, Refusing(c, why) PROVE reader'[c].now = reader[c].now
  <2>1. reader'[c] = [r EXCEPT !.pc = "refuse", !.reason = why]
    BY <1>1, <1>2, <1>8 DEF Refusing
  <2> QED
    BY <1>2, <1>3, <2>1
<1>9. ASSUME ReadOn(c) PROVE reader'[c].now = 0
  <2>1. reader'[c] = [AtRest EXCEPT !.session = reader[c].session, !.seq = reader[c].seq]
    BY <1>5, <1>9 DEF ReadOn
  <2> QED
    BY <2>1 DEF AtRest
<1>10. ASSUME LoadHeartbeat(c) PROVE reader'[c].now = reader[c].now
  <2>1. reader'[c] = [r EXCEPT !.pc = "pong", !.heart = heartbeat, !.tick = ticked]
    BY <1>1, <1>2, <1>10 DEF LoadHeartbeat
  <2> QED
    BY <1>2, <1>3, <2>1
<1>11. Total(c) \/ Lookup(c) \/ Offer(c) \/ Refuse(c) \/ Pong(c)
         => (\E pc : To(c, pc)) \/ (\E why : Refusing(c, why)) \/ ReadOn(c)
  BY DEF Total, Lookup, Offer, Refuse, Pong
<1> QED
  BY <1>6, <1>7, <1>8, <1>9, <1>10, <1>11 DEF ReaderStep

LEMMA KeyInForce == TypeInv => limits \in Limits /\ limits \in Range(setup.limits)
<1> SUFFICES ASSUME TypeInv PROVE limits \in Range(setup.limits)
  BY LimitsInForce
<1> QED
  BY DEF TypeInv, SetupTypes, limits, Range

LEMMA ClockIsNatural == TypeInv => clock \in Nat
BY InboundAssumption DEF TypeInv, SetupTypes

LEMMA RatesAreNatural == TypeInv => \A l \in Range(setup.limits) : l.rate \in Nat
<1> SUFFICES ASSUME TypeInv PROVE \A l \in Range(setup.limits) : l.rate \in Nat
  OBVIOUS
<1>1. setup.limits \in Seq(Limits)
  BY InboundAssumption DEF TypeInv, SetupTypes
<1>2. \A i \in DOMAIN setup.limits : setup.limits[i] \in Limits
  BY <1>1
<1>3. \A l \in Limits : l.rate \in Nat
  BY DEF Limits
<1> QED
  BY <1>2, <1>3 DEF Range

(* What a connection was told is what matters to its refusal windows. *)
LEMMA TellsSame ==
  ASSUME NEW c, ToldSame(c), NEW kind, NEW from
  PROVE  Tells(answers'[c], kind, from) = Tells(answers[c], kind, from)
<1>1. Tells(answers[c], kind, from)
        = {i \in Told(c) : Kind(answers[c][i].why) = kind /\ answers[c][i].at >= from}
  BY DEF Tells, Told
<1>2. Tells(answers'[c], kind, from)
        = {i \in Told(c)' : Kind(answers'[c][i].why) = kind /\ answers'[c][i].at >= from}
  BY DEF Tells, Told
<1> QED
  BY <1>1, <1>2 DEF ToldSame

(* Time only passes. *)
LEMMA WindowStays ==
  ASSUME InboundInv, RateInv, NEW c \in Consumers, setup' = setup, ToldSame(c),
         clock' \in Nat, clock <= clock', reader'[c].now \in {reader[c].now, clock, 0}
  PROVE  /\ windows'[c].own = windows[c].own /\ admitted'.own[c] = admitted.own[c]
              => OwnHolds(windows[c].own, admitted.own[c], clock, Range(setup.limits))'
         /\ windows'[c].rejected = windows[c].rejected
              => RefusalsHold(windows[c].rejected, answers[c], "rejected", clock)'
         /\ windows'[c].busy = windows[c].busy
              => RefusalsHold(windows[c].busy, answers[c], "busy", clock)'
         /\ reader'[c].now <= clock'
<1>1. /\ RateOf(c) /\ clock \in Nat /\ reader[c].now \in Nat
      /\ windows[c].own \in Win /\ windows[c].rejected \in Win /\ windows[c].busy \in Win
      /\ admitted.own[c] \in Seq(Nat)
  <2>1. clock \in Nat /\ reader[c] \in Readers
    BY InboundAssumption DEF InboundInv, TypeInv, SetupTypes
  <2>2. reader[c].now \in Nat
    BY <2>1 DEF Readers
  <2> QED
    BY <2>1, <2>2 DEF RateInv, WindowTypes
<1>2. ASSUME windows'[c].own = windows[c].own, admitted'.own[c] = admitted.own[c]
      PROVE  OwnHolds(windows[c].own, admitted.own[c], clock, Range(setup.limits))'
  <2>1. PICK w \in Win, times \in Seq(Nat) : w = windows[c].own /\ times = admitted.own[c]
    BY <1>1
  <2>2. \A i \in DOMAIN times : times[i] \in Nat
    OBVIOUS
  <2>3. OwnHolds(w, times, clock, Range(setup.limits))
    BY <1>1, <2>1 DEF RateOf
  <2>4. OwnHolds(w, times, clock', Range(setup.limits))
    BY <1>1, <2>2, <2>3 DEF OwnHolds, Win
  <2> QED
    BY <1>2, <2>1, <2>4
<1>3. \A kind : \A w \in Win :
        RefusalsHold(w, answers[c], kind, clock) => RefusalsHold(w, answers'[c], kind, clock')
  BY <1>1, TellsSame, RefusalStays
<1> QED
  BY <1>1, <1>2, <1>3 DEF RateOf

(* The reader that takes a step: its own window, or one of its refusals'.  *)
LEMMA RateOfReader ==
  ASSUME InboundInv, RateInv, NEW c \in Consumers, ReaderStep(c), setup' = setup, clock' = clock
  PROVE  /\ RateOf(c)'
         /\ \A d \in Consumers \ {c} : windows'[d] = windows[d] /\ admitted'.own[d] = admitted.own[d]
         /\ windows' \in [Consumers -> [own : Win, rejected : Win, busy : Win]]
         /\ admitted'.own \in [Consumers -> Seq(Nat)]
<1>1. /\ TypeInv /\ WindowTypes /\ RateOf(c) /\ clock \in Nat /\ IsSeq(answers[c])
      /\ windows \in [Consumers -> [own : Win, rejected : Win, busy : Win]]
      /\ admitted \in [own : [Consumers -> Seq(Nat)], total : Seq(Nat)]
  BY InboundAssumption DEF InboundInv, TypeInv, SetupTypes, RecordTypes, RateInv, WindowTypes
<1>2. limits \in Limits /\ limits \in Range(setup.limits)
  BY <1>1, KeyInForce
<1>3. limits.rate \in Nat /\ limits.rejected \in Nat /\ limits.busy \in Nat
  BY <1>2 DEF Limits
<1>4. \A l \in Range(setup.limits) : l.rate \in Nat
  BY <1>1, RatesAreNatural
<1>5. reader'[c].now \in {reader[c].now, clock, 0}
  BY <1>1, NowIs
<1> DEFINE wins == windows[c]
<1>6. wins \in [own : Win, rejected : Win, busy : Win]
  BY <1>1
<1>7. CASE UNCHANGED <<windows, admitted, total>> /\ ~Refuse(c)
  <2>1. ToldSame(c)
    BY <1>7, OthersStay
  <2> QED
    BY <1>1, <1>5, <1>7, <2>1, WindowStays DEF RateOf
<1>8. CASE Total(c) /\ ~Refuse(c)
  <2>1. ToldSame(c)
    BY <1>8, OthersStay
  <2>2. windows' = windows /\ admitted'.own = admitted.own
    <3>1. \A x : [admitted EXCEPT !.total = x].own = admitted.own
      BY <1>1
    <3> QED
      BY <1>8, <3>1 DEF Total
  <2> QED
    BY <1>1, <1>5, <2>1, <2>2, WindowStays DEF RateOf
<1>9. CASE (\E m \in setup.messages : ReadRecord(c, m)) /\ ~Refuse(c)
  <2>1. ToldSame(c)
    BY <1>9, OthersStay
  <2>2. PICK w \in Win, times \in Seq(Nat) : w = wins.own /\ times = admitted.own[c]
    BY <1>1
  <2>3. PICK a, longer : a = After(w, clock, limits.rate)
                         /\ longer = IF Admits(w, clock, limits.rate) THEN Append(times, clock) ELSE times
    OBVIOUS
  <2>4. a \in Win /\ longer \in Seq(Nat)
    BY <1>1, <1>3, <2>3, OpenedFacts, AppendProperties
  <2>5. OwnHolds(a, longer, clock, Range(setup.limits))
    BY <1>1, <1>2, <1>4, <2>2, <2>3, AdmittedHolds DEF RateOf
  <2>6. windows' = [windows EXCEPT ![c] = [wins EXCEPT !.own = a]]
    BY <1>1, <1>9, <2>2, <2>3 DEF ReadRecord
  <2>7. admitted' = [admitted EXCEPT !.own = [admitted.own EXCEPT ![c] = longer]]
    BY <1>1, <1>9, <2>2, <2>3 DEF ReadRecord
  <2>8. [wins EXCEPT !.own = a] \in [own : Win, rejected : Win, busy : Win]
        /\ [wins EXCEPT !.own = a].own = a /\ [wins EXCEPT !.own = a].rejected = wins.rejected
        /\ [wins EXCEPT !.own = a].busy = wins.busy
    BY <1>6, <2>4
  <2>9. admitted'.own = [admitted.own EXCEPT ![c] = longer]
    BY <1>1, <2>7
  <2>10. windows' \in [Consumers -> [own : Win, rejected : Win, busy : Win]]
         /\ admitted'.own \in [Consumers -> Seq(Nat)]
         /\ windows'[c].own = a /\ admitted'.own[c] = longer
         /\ windows'[c].rejected = wins.rejected /\ windows'[c].busy = wins.busy
         /\ \A d \in Consumers \ {c} : windows'[d] = windows[d] /\ admitted'.own[d] = admitted.own[d]
    BY <1>1, <2>4, <2>6, <2>8, <2>9
  <2> QED
    BY <1>1, <1>5, <2>1, <2>5, <2>10, WindowStays DEF RateOf
<1>10. CASE Refuse(c)
  <2> DEFINE why == reader[c].reason
             ok  == Admits(wins[Kind(why)], clock, limits[Kind(why)])
             a   == [kind |-> "rejected", record |-> Len(fate[c]), why |-> why, at |-> clock]
  <2>1. Kind(why) \in {"rejected", "busy"}
    BY DEF Kind
  <2>2. wins[Kind(why)] \in Win /\ limits[Kind(why)] \in Nat
    BY <1>3, <1>6, <2>1
  <2>3. PICK w \in Win, cap \in Nat : w = wins[Kind(why)] /\ cap = limits[Kind(why)]
    BY <2>2
  <2>4. PICK x \in Win : x = After(w, clock, cap)
    BY <1>1, OpenedFacts
  <2>5. windows' = [windows EXCEPT ![c] = [wins EXCEPT ![Kind(why)] = x]] /\ UNCHANGED admitted
    BY <1>1, <1>10, <2>3, <2>4 DEF Refuse
  <2>6. [wins EXCEPT ![Kind(why)] = x] \in [own : Win, rejected : Win, busy : Win]
        /\ [wins EXCEPT ![Kind(why)] = x][Kind(why)] = x
        /\ \A k \in {"own", "rejected", "busy"} \ {Kind(why)} : [wins EXCEPT ![Kind(why)] = x][k] = wins[k]
    BY <1>6, <2>1, <2>4
  <2>7. windows' \in [Consumers -> [own : Win, rejected : Win, busy : Win]]
        /\ windows'[c] = [wins EXCEPT ![Kind(why)] = x]
        /\ \A d \in Consumers \ {c} : windows'[d] = windows[d]
    BY <1>1, <2>5, <2>6
  <2>8. answers'[c] = IF Admits(w, clock, cap) THEN Append(answers[c], a) ELSE answers[c]
    <3>1. IF ok THEN Answer(c, a) ELSE UNCHANGED answers
      BY <1>10 DEF Refuse
    <3>2. Answer(c, a) => answers'[c] = Append(answers[c], a)
      BY <1>1 DEF Answer, TypeInv, RecordTypes
    <3> QED
      BY <2>3, <3>1, <3>2
  <2>9. a.kind = "rejected" /\ a.why = why /\ a.at = clock
    OBVIOUS
  <2>10. ASSUME NEW kind \in {"rejected", "busy"}
         PROVE  RefusalsHold(windows'[c][kind], answers'[c], kind, clock)
    <3>1. RefusalsHold(wins[kind], answers[c], kind, clock) /\ wins[kind] \in Win
      BY <1>1, <1>6 DEF RateOf
    <3>2. CASE kind = Kind(why)
      <4>1. RefusalsHold(x, IF Admits(w, clock, cap) THEN Append(answers[c], a) ELSE answers[c],
                         kind, clock)
        BY <1>1, <2>3, <2>4, <2>9, <3>1, <3>2, RefusalTold
      <4> QED
        BY <2>6, <2>7, <2>8, <3>2, <4>1
    <3>3. CASE kind # Kind(why)
      <4>1. windows'[c][kind] = wins[kind]
        BY <2>6, <2>7, <3>3
      <4>2. Tells(Append(answers[c], a), kind, wins[kind].since) = Tells(answers[c], kind, wins[kind].since)
        <5>1. PICK longer : longer = Append(answers[c], a)
          OBVIOUS
        <5>2. PICK n \in Nat : n = Len(answers[c])
          BY <1>1 DEF IsSeq
        <5>3. /\ DOMAIN answers[c] = 1..n /\ DOMAIN longer = 1..(n + 1) /\ longer[n + 1] = a
              /\ \A i \in 1..n : longer[i] = answers[c][i]
          BY <1>1, <5>1, <5>2, AppendFacts
        <5>4. \A i : i \in 1..(n + 1) <=> i \in 1..n \/ i = n + 1
          OBVIOUS
        <5>5. n + 1 \notin Tells(longer, kind, wins[kind].since)
          BY <2>9, <3>3, <5>3 DEF Tells
        <5>6. \A i : i \in Tells(longer, kind, wins[kind].since)
                        <=> i \in Tells(answers[c], kind, wins[kind].since)
          BY <5>3, <5>4, <5>5 DEF Tells
        <5> QED
          BY <5>1, <5>6
      <4>3. Tells(answers'[c], kind, wins[kind].since) = Tells(answers[c], kind, wins[kind].since)
        BY <2>8, <4>2
      <4> QED
        BY <1>1, <3>1, <4>1, <4>3 DEF RefusalsHold
    <3> QED
      BY <3>2, <3>3
  <2>11. windows'[c].own = wins.own /\ admitted' = admitted
    BY <2>1, <2>5, <2>6, <2>7
  <2>12. OwnHolds(windows'[c].own, admitted'.own[c], clock, Range(setup.limits))
    BY <1>1, <2>11 DEF RateOf
  <2>13. reader'[c].now <= clock
    BY <1>1, <1>5, <1>10 DEF RateOf
  <2>14. /\ RefusalsHold(windows'[c].rejected, answers'[c], "rejected", clock)
         /\ RefusalsHold(windows'[c].busy, answers'[c], "busy", clock)
    BY <2>10
  <2> QED
    BY <1>1, <2>7, <2>11, <2>12, <2>13, <2>14 DEF RateOf
<1> QED
  BY <1>7, <1>8, <1>9, <1>10, WindowSteps

(* Everyone's window sees only a record that comes to it. *)
LEMMA TotalKept ==
  ASSUME InboundInv, RateInv, NEW c \in Consumers, ReaderStep(c), clock' = clock
  PROVE  TotalHolds(total, admitted.total, clock)' /\ total' \in Win /\ admitted'.total \in Seq(Nat)
         /\ DOMAIN admitted' = {"own", "total"} /\ admitted' = [own |-> admitted'.own, total |-> admitted'.total]
<1>1. /\ total \in Win /\ admitted \in [own : [Consumers -> Seq(Nat)], total : Seq(Nat)]
      /\ TotalHolds(total, admitted.total, clock)
  BY DEF RateInv, WindowTypes
<1>2. clock \in Nat /\ reader[c] \in Readers /\ reader[c].now <= clock
  BY InboundAssumption DEF InboundInv, TypeInv, SetupTypes, RateInv, RateOf
<1>3. reader[c].now \in Nat /\ reader[c].cap \in Nat
  BY <1>2 DEF Readers
<1>4. CASE Total(c)
  <2>1. PICK read \in Nat, cap \in Nat, times \in Seq(Nat) :
          read = reader[c].now /\ cap = reader[c].cap /\ times = admitted.total
    BY <1>1, <1>3
  <2>2. PICK x \in Win : x = After(total, read, cap)
    BY <1>1, OpenedFacts
  <2>3. PICK longer \in Seq(Nat) :
          longer = IF Admits(total, read, cap) THEN Append(times, clock) ELSE times
    BY <1>2, AppendProperties
  <2>4. TotalHolds(x, longer, clock)
    BY <1>1, <1>2, <2>1, <2>2, <2>3, TotalAdmits
  <2>5. total' = x
    BY <1>4, <2>1, <2>2 DEF Total
  <2>6. admitted' = [admitted EXCEPT !.total = longer]
    BY <1>1, <1>4, <2>1, <2>3 DEF Total
  <2>7. admitted'.total = longer /\ DOMAIN admitted' = {"own", "total"}
        /\ admitted' = [own |-> admitted'.own, total |-> admitted'.total]
    BY <1>1, <2>6
  <2> QED
    BY <2>3, <2>4, <2>5, <2>7
<1>5. CASE \E m \in setup.messages : ReadRecord(c, m)
  <2>1. PICK times : admitted' = [admitted EXCEPT !.own[c] = times]
    BY <1>5 DEF ReadRecord
  <2>2. admitted' = [admitted EXCEPT !.own = [admitted.own EXCEPT ![c] = times]]
    BY <1>1, <2>1
  <2>3. total' = total /\ admitted'.total = admitted.total /\ DOMAIN admitted' = {"own", "total"}
        /\ admitted' = [own |-> admitted'.own, total |-> admitted'.total]
    BY <1>1, <1>5, <2>2 DEF ReadRecord
  <2> QED
    BY <1>1, <2>3
<1>6. CASE UNCHANGED <<total, admitted>>
  BY <1>1, <1>6
<1>7. Refuse(c) => UNCHANGED <<total, admitted>>
  BY DEF Refuse
<1> QED
  BY <1>4, <1>5, <1>6, <1>7, WindowSteps

LEMMA RateKept == InboundInv /\ RateInv /\ [Next]_vars => RateInv'
<1> SUFFICES ASSUME InboundInv, RateInv, [Next]_vars PROVE RateInv'
  OBVIOUS
<1>1. TypeInv /\ setup' = setup /\ clock \in Nat /\ DOMAIN answers = Consumers
      /\ \A c \in Consumers : IsSeq(answers[c])
  BY SetupTypesKept, InboundAssumption DEF InboundInv, TypeInv, SetupTypes, RecordTypes
<1>2. WindowTypes /\ TotalHolds(total, admitted.total, clock) /\ \A c \in Consumers : RateOf(c)
  BY DEF RateInv
<1>3. ASSUME UNCHANGED <<windows, total, admitted, answers, reader>>, clock' = clock \/ clock' = clock + 1
      PROVE  RateInv'
  <2>1. clock' \in Nat /\ clock <= clock'
    BY <1>1, <1>3
  <2>2. WindowTypes'
    BY <1>2, <1>3 DEF WindowTypes, Told
  <2>3. TotalHolds(total, admitted.total, clock)'
    BY <1>1, <1>2, <1>3, <2>1 DEF TotalHolds, WindowTypes, Win
  <2>4. ASSUME NEW c \in Consumers PROVE RateOf(c)'
    <3>1. ToldSame(c) /\ reader'[c].now \in {reader[c].now, clock, 0}
      BY <1>3 DEF ToldSame, Told
    <3> QED
      BY <1>1, <1>3, <2>1, <3>1, WindowStays DEF RateOf
  <2> QED
    BY <2>2, <2>3, <2>4 DEF RateInv
<1>4. LogicStep \/ TimePasses \/ Configure \/ UNCHANGED vars => RateInv'
  BY <1>3, LogicFrame DEF Others, readVars, countVars, TimePasses, Configure, vars
<1>5. ASSUME NEW c \in Consumers, ReaderStep(c) PROVE RateInv'
  <2>1. clock' = clock
    BY <1>5, ReaderFrame
  <2>2. \A d \in Consumers \ {c} : reader'[d] = reader[d] /\ ToldSame(d)
    BY <1>5, OthersStay
  <2>3. /\ RateOf(c)'
        /\ \A d \in Consumers \ {c} : windows'[d] = windows[d] /\ admitted'.own[d] = admitted.own[d]
        /\ windows' \in [Consumers -> [own : Win, rejected : Win, busy : Win]]
        /\ admitted'.own \in [Consumers -> Seq(Nat)]
    BY <1>1, <1>5, <2>1, RateOfReader
  <2>4. TotalHolds(total, admitted.total, clock)' /\ total' \in Win
        /\ admitted' \in [own : [Consumers -> Seq(Nat)], total : Seq(Nat)]
    BY <1>5, <2>1, <2>3, TotalKept
  <2>5. ASSUME NEW d \in Consumers PROVE RateOf(d)'
    <3>1. CASE d = c
      BY <2>3, <3>1
    <3>2. CASE d # c
      <4>1. reader'[d].now = reader[d].now /\ ToldSame(d)
        BY <2>2, <3>2
      <4>2. windows'[d] = windows[d] /\ admitted'.own[d] = admitted.own[d]
        BY <2>3, <3>2
      <4>3. clock' \in Nat /\ clock <= clock'
        BY <1>1, <2>1
      <4> QED
        BY <1>1, <4>1, <4>2, <4>3, WindowStays DEF RateOf
    <3> QED
      BY <3>1, <3>2
  <2>6. ASSUME NEW d \in Consumers, NEW i \in Told(d)' PROVE answers'[d][i].at \in Nat
    <3>1. CASE ToldSame(d)
      BY <1>2, <2>6, <3>1 DEF ToldSame, WindowTypes
    <3>2. CASE ~ToldSame(d)
      <4>1. d = c /\ Refuse(c)
        BY <1>5, <2>2, <3>2, OthersStay
      <4> DEFINE a == [kind |-> "rejected", record |-> Len(fate[c]), why |-> reader[c].reason, at |-> clock]
      <4>2. ~UNCHANGED answers
        BY <3>2 DEF ToldSame, Told
      <4>3. Answer(c, a)
        BY <4>1, <4>2 DEF Refuse
      <4>4. answers'[c] = Append(answers[c], a)
        BY <1>1, <4>3 DEF Answer
      <4>5. a.at = clock
        OBVIOUS
      <4> HIDE DEF a
      <4>6. i \in DOMAIN Append(answers[c], a) /\ Append(answers[c], a)[i].kind = "rejected"
        BY <2>6, <4>1, <4>4 DEF Told
      <4>7. /\ DOMAIN answers[c] = 1..Len(answers[c]) /\ Len(answers[c]) \in Nat
            /\ DOMAIN Append(answers[c], a) = 1..(Len(answers[c]) + 1)
            /\ Append(answers[c], a)[Len(answers[c]) + 1] = a
            /\ \A j \in DOMAIN answers[c] : Append(answers[c], a)[j] = answers[c][j]
        BY <1>1, AppendFacts DEF IsSeq
      <4>8. CASE i = Len(answers[c]) + 1
        BY <1>1, <4>1, <4>4, <4>5, <4>7, <4>8
      <4>9. CASE i # Len(answers[c]) + 1
        <5>1. i \in DOMAIN answers[c]
          BY <4>6, <4>7, <4>9
        <5>2. i \in Told(c) /\ answers'[c][i] = answers[c][i]
          BY <4>4, <4>6, <4>7, <5>1 DEF Told
        <5> QED
          BY <1>2, <4>1, <5>2 DEF WindowTypes
      <4> QED
        BY <4>8, <4>9
    <3> QED
      BY <3>1, <3>2
  <2> QED
    BY <2>3, <2>4, <2>5, <2>6 DEF RateInv, WindowTypes
<1> QED
  BY <1>4, <1>5 DEF Next

-----------------------------------------------------------------------------
(* What the windows say to the property. *)

(* A second's records are in the window, or were in the one before. *)
LEMMA TwoCaps ==
  ASSUME InboundInv, RateInv, NEW c \in Consumers
  PROVE  AtMostTwoCaps(c)
<1>1. PICK w \in Win, times \in Seq(Nat) : w = windows[c].own /\ times = admitted.own[c]
  BY DEF RateInv, WindowTypes
<1>2. clock \in Nat /\ Second \in Nat \ {0} /\ \A i \in DOMAIN times : times[i] \in Nat
  BY InboundAssumption DEF InboundInv, TypeInv, SetupTypes
<1>3. OwnHolds(w, times, clock, Range(setup.limits))
  BY <1>1 DEF RateInv, RateOf
<1> DEFINE lately == {i \in DOMAIN times : times[i] > clock - Second}
           late   == Late(times, w.since)
           early  == Early(times, w.since)
<1>4. lately \subseteq late \cup early
  BY <1>2, <1>3 DEF OwnHolds, Late, Early, Win
<1>5. /\ IsFiniteSet(late) /\ IsFiniteSet(early) /\ Cardinality(lately) \in Nat
      /\ Cardinality(late) \in Nat /\ Cardinality(early) \in Nat
      /\ Cardinality(late \cap early) \in Nat
  BY SomeOfThem DEF Late, Early
<1>6. Cardinality(lately) <= Cardinality(late \cup early) /\ IsFiniteSet(late \cup early)
  BY <1>4, <1>5, FS_Subset, FS_Union
<1>7. Cardinality(late \cup early) = Cardinality(late) + Cardinality(early) - Cardinality(late \cap early)
  BY <1>5, FS_Union
<1>8. PICK k \in Range(setup.limits), l \in Range(setup.limits) :
        Cardinality(late) <= k.rate /\ Cardinality(early) <= l.rate
  BY <1>3 DEF OwnHolds
<1>9. \A j \in Range(setup.limits) : j.rate \in Nat
  BY RatesAreNatural DEF InboundInv
<1>10. Since(admitted.own[c], clock - Second) = Cardinality(lately)
  BY <1>1 DEF Since
<1>11. Cardinality(lately) <= k.rate + l.rate
  <2>1. k.rate \in Nat /\ l.rate \in Nat /\ Cardinality(late \cup early) \in Nat
    BY <1>6, <1>9, FS_CardinalityType
  <2> HIDE DEF late, early, lately
  <2> QED
    BY <1>5, <1>6, <1>7, <1>8, <2>1
<1>12. Cardinality(lately) <= 2 * k.rate \/ Cardinality(lately) <= 2 * l.rate
  BY <1>5, <1>9, <1>11
<1> QED
  BY <1>10, <1>12 DEF AtMostTwoCaps

(* A record is turned away by a full window, which opened within a second. *)
LEMMA TurnedAway ==
  ASSUME InboundInv, RateInv, NEW c \in Consumers, NEW d \in Consumers, ReaderStep(d)
  PROVE  TurnedAwayFairly(c)
<1> SUFFICES ASSUME reader[c].pc = "reading", reader'[c].reason = "RateLimited"
             PROVE  Since(admitted.own[c], clock - Second) >= limits.rate
  BY DEF TurnedAwayFairly
<1>1. TypeInv /\ reader[c].reason = ""
  BY DEF InboundInv, PendingInv, InHand
<1>2. c = d
  BY <1>1, OthersStay
<1>3. PICK m \in setup.messages : ReadRecord(c, m)
  <2>1. reader[c] \in Readers
    BY <1>1 DEF TypeInv
  <2> QED
    BY <1>1, <1>2, RateLimitedBy
<1>4. PICK w \in Win, times \in Seq(Nat) : w = windows[c].own /\ times = admitted.own[c]
  BY DEF RateInv, WindowTypes
<1>5. /\ clock \in Nat /\ Second \in Nat \ {0} /\ \A i \in DOMAIN times : times[i] \in Nat
      /\ limits.rate \in Nat
  <2>1. clock \in Nat /\ Second \in Nat \ {0}
    BY <1>1, InboundAssumption, ClockIsNatural
  <2>2. limits.rate \in Nat
    BY <1>1, LimitsInForce DEF Limits
  <2>3. \A i \in DOMAIN times : times[i] \in Nat
    OBVIOUS
  <2> QED
    BY <2>1, <2>2, <2>3
<1>6. OwnHolds(w, times, clock, Range(setup.limits))
  BY <1>4 DEF RateInv, RateOf
<1>7. ~Admits(w, clock, limits.rate)
  <2>1. Alone(c) /\ reader'[c].reason = (IF Admits(w, clock, limits.rate) THEN "" ELSE "RateLimited")
    <3>1. PICK pc, reason : /\ reader' = [reader EXCEPT ![c] = [TakenIn(c, m) EXCEPT !.pc = pc, !.reason = reason,
                                                                            !.now = clock, !.cap = limits.total]]
                            /\ reason = IF Admits(w, clock, limits.rate) THEN "" ELSE "RateLimited"
      BY <1>3, <1>4 DEF ReadRecord
    <3>2. PICK r \in Readers : r = TakenIn(c, m)
      BY <1>1, ReaderRecords
    <3>3. [r EXCEPT !.pc = pc, !.reason = reason, !.now = clock, !.cap = limits.total].reason = reason
      BY DEF Readers
    <3> QED
      BY <1>1, <3>1, <3>2, <3>3, ReaderMoves
  <2> QED
    BY <2>1
<1>8. limits.rate = 0 \/ (w.count >= limits.rate /\ clock < w.since + Second)
  BY <1>5, <1>7, FullWindow
<1> DEFINE lately == {i \in DOMAIN times : times[i] > clock - Second}
<1>9. IsFiniteSet(lately) /\ Cardinality(lately) \in Nat
  BY SomeOfThem
<1>10. CASE limits.rate = 0
  BY <1>4, <1>9, <1>10 DEF Since
<1>11. CASE w.count >= limits.rate /\ clock < w.since + Second
  <2>1. Late(times, w.since) \subseteq lately
    BY <1>5, <1>11 DEF Late, Win
  <2>2. Cardinality(Late(times, w.since)) <= Cardinality(lately)
        /\ Cardinality(Late(times, w.since)) \in Nat
    BY <1>9, <2>1, FS_Subset, SomeOfThem DEF Late
  <2>3. w.count = Cardinality(Late(times, w.since))
    BY <1>6 DEF OwnHolds
  <2>4. Cardinality(lately) >= limits.rate
    BY <1>5, <1>9, <1>11, <2>2, <2>3
  <2> QED
    BY <1>4, <2>4 DEF Since
<1> QED
  BY <1>8, <1>10, <1>11

LEMMA ClosedForTheRate ==
  ASSUME InboundInv, RateInv, NEW c \in Consumers, NEW d \in Consumers, ReaderStep(d)
  PROVE  ClosedFairly(c)
<1> SUFFICES ASSUME reader[c].pc = "total", reader'[c].pc = "closed"
             PROVE  Since(admitted.total, reader[c].now - Second) >= reader[c].cap
  BY DEF ClosedFairly
<1>1. TypeInv
  BY DEF InboundInv
<1>2. c = d
  BY OthersStay
<1>3. Total(c)
  BY <1>2, StepOf
<1>4. PICK w \in Win, times \in Seq(Nat) : w = total /\ times = admitted.total
  BY DEF RateInv, WindowTypes
<1>5. reader[c] \in Readers
  BY <1>1 DEF TypeInv
<1>6. PICK read \in Nat, cap \in Nat : read = reader[c].now /\ cap = reader[c].cap
  BY <1>5 DEF Readers
<1>7. Second \in Nat \ {0} /\ \A i \in DOMAIN times : times[i] \in Nat
  BY InboundAssumption
<1>8. ~Admits(w, read, cap)
  <2>1. To(c, "lookup") => reader'[c].pc = "lookup"
    BY <1>1, ReaderMoves
  <2> QED
    BY <1>3, <1>4, <1>6, <2>1 DEF Total
<1>9. TotalHolds(w, times, clock)
  BY <1>4 DEF RateInv
<1>10. cap = 0 \/ (w.count >= cap /\ read < w.since + Second)
  BY <1>8, FullWindow
<1> DEFINE lately == {i \in DOMAIN times : times[i] > read - Second}
<1>11. IsFiniteSet(lately) /\ Cardinality(lately) \in Nat
  BY SomeOfThem
<1>12. CASE cap = 0
  BY <1>4, <1>6, <1>11, <1>12 DEF Since
<1>13. CASE w.count >= cap /\ read < w.since + Second
  <2>1. Late(times, w.since) \subseteq lately
    BY <1>7, <1>13 DEF Late, Win
  <2>2. Cardinality(Late(times, w.since)) <= Cardinality(lately)
        /\ Cardinality(Late(times, w.since)) \in Nat
    BY <1>11, <2>1, FS_Subset, SomeOfThem DEF Late
  <2>3. w.count <= Cardinality(Late(times, w.since)) /\ w.count \in Nat
    BY <1>9 DEF TotalHolds, Win
  <2>4. Cardinality(lately) >= cap
    BY <1>11, <1>13, <2>2, <2>3
  <2> QED
    BY <1>4, <1>6, <2>4 DEF Since
<1> QED
  BY <1>10, <1>12, <1>13

LEMMA LeftUntold ==
  ASSUME InboundInv, RateInv, NEW c \in Consumers, NEW d \in Consumers, ReaderStep(d)
  PROVE  LeftUntoldFairly(c)
<1> DEFINE kind == Kind(reader[c].reason)
<1> SUFFICES ASSUME reader[c].pc = "refuse", reader'[c].pc = "reading", answers' = answers
             PROVE  ToldLately(c, kind) >= limits[kind]
  BY DEF LeftUntoldFairly
<1>1. TypeInv /\ IsSeq(answers[c]) /\ DOMAIN answers = Consumers
  BY DEF InboundInv, TypeInv, RecordTypes
<1>2. c = d
  BY OthersStay
<1>3. Refuse(c)
  BY <1>2, StepOf
<1>4. kind \in {"rejected", "busy"}
  BY DEF Kind
<1>5. PICK w \in Win : w = windows[c][kind]
  <2>1. windows[c] \in [own : Win, rejected : Win, busy : Win]
    BY DEF RateInv, WindowTypes
  <2> QED
    BY <1>4, <2>1
<1>6. PICK cap \in Nat : cap = limits[kind]
  BY <1>1, <1>4, LimitsInForce DEF Limits
<1>7. /\ clock \in Nat /\ Second \in Nat \ {0}
      /\ \A i \in Told(c) : answers[c][i].at \in Nat
  BY <1>1, InboundAssumption DEF TypeInv, SetupTypes, RateInv, WindowTypes
<1>8. RefusalsHold(w, answers[c], kind, clock)
  BY <1>4, <1>5 DEF RateInv, RateOf
<1>9. ~Admits(w, clock, cap)
  <2>1. ASSUME NEW a, Answer(c, a) PROVE answers'[c] # answers[c]
    <3>1. answers'[c] = Append(answers[c], a)
      BY <1>1, <2>1 DEF Answer
    <3>2. DOMAIN Append(answers[c], a) = 1..(Len(answers[c]) + 1) /\ Len(answers[c]) \in Nat
          /\ DOMAIN answers[c] = 1..Len(answers[c])
      BY <1>1, AppendFacts DEF IsSeq
    <3>3. 1..(Len(answers[c]) + 1) # 1..Len(answers[c])
      BY <3>2
    <3> QED
      BY <3>1, <3>2, <3>3
  <2>2. Admits(w, clock, cap)
          => Answer(c, [kind |-> "rejected", record |-> Len(fate[c]), why |-> reader[c].reason, at |-> clock])
    BY <1>3, <1>5, <1>6 DEF Refuse
  <2> QED
    BY <2>1, <2>2
<1>10. cap = 0 \/ (w.count >= cap /\ clock < w.since + Second)
  BY <1>7, <1>9, FullWindow
<1> DEFINE lately == {i \in Told(c) : Kind(answers[c][i].why) = kind /\ answers[c][i].at > clock - Second}
<1>11. IsFiniteSet(lately) /\ Cardinality(lately) \in Nat
  BY <1>1, SomeAnswers DEF Told
<1>12. ToldLately(c, kind) = Cardinality(lately)
  BY DEF ToldLately
<1>13. CASE cap = 0
  BY <1>6, <1>11, <1>12, <1>13
<1>14. CASE w.count >= cap /\ clock < w.since + Second
  <2>1. Tells(answers[c], kind, w.since) \subseteq lately
    <3>1. ASSUME NEW i \in Tells(answers[c], kind, w.since) PROVE i \in lately
      <4>1. i \in Told(c) /\ Kind(answers[c][i].why) = kind /\ answers[c][i].at >= w.since
        BY <3>1 DEF Tells, Told
      <4>2. answers[c][i].at > clock - Second
        BY <1>7, <1>14, <4>1 DEF Win
      <4> QED
        BY <4>1, <4>2
    <3> QED
      BY <3>1
  <2>2. Cardinality(Tells(answers[c], kind, w.since)) <= Cardinality(lately)
        /\ Cardinality(Tells(answers[c], kind, w.since)) \in Nat
    BY <1>1, <1>11, <2>1, FS_Subset, SomeAnswers DEF Tells
  <2>3. w.count <= Cardinality(Tells(answers[c], kind, w.since)) /\ w.count \in Nat
    BY <1>8 DEF RefusalsHold, Win
  <2>4. Cardinality(lately) >= cap
    BY <1>11, <1>14, <2>2, <2>3
  <2> QED
    BY <1>6, <1>12, <2>4
<1> QED
  BY <1>10, <1>13, <1>14

(* Elsewhere nobody is turned away. *)
LEMMA RateHolds ==
  ASSUME InboundInv, RateInv, [Next]_vars
  PROVE  [\A c \in Consumers : /\ TurnedAwayFairly(c) /\ ClosedFairly(c) /\ LeftUntoldFairly(c)
                               /\ AtMostTwoCaps(c)]_vars
<1>1. CASE \E d \in Consumers : ReaderStep(d)
  BY <1>1, TwoCaps, TurnedAway, ClosedForTheRate, LeftUntold
<1>2. CASE LogicStep \/ TimePasses \/ Configure
  <2>1. reader' = reader
    BY <1>2, LogicFrame DEF Others, readVars, TimePasses, Configure
  <2>2. ASSUME NEW c \in Consumers PROVE TurnedAwayFairly(c) /\ ClosedFairly(c) /\ LeftUntoldFairly(c)
    <3>1. reader[c].pc = "reading" => reader[c].reason = ""
      BY DEF InboundInv, PendingInv, InHand
    <3> QED
      BY <2>1, <3>1 DEF TurnedAwayFairly, ClosedFairly, LeftUntoldFairly
  <2> QED
    BY <2>2, TwoCaps
<1> QED
  BY <1>1, <1>2 DEF Next

(* The windows do what a cap per second means: nothing is turned away, no  *)
(* refusal left untold and no connection closed unless the cap in force    *)
(* was used up within the second before, and no second admits more than    *)
(* two caps' worth (Window::admit, serve and refuse of inbound.rs).        *)
THEOREM InboundHoldsTheRate == Spec => RateIsHeld
<1>1. Init => InboundInv /\ RateInv
  BY InboundStarts, RateStarts
<1>2. InboundInv /\ RateInv /\ [Next]_vars => (InboundInv /\ RateInv)'
  BY InboundKept, RateKept
<1>3. InboundInv /\ RateInv /\ [Next]_vars
        => [\A c \in Consumers : /\ TurnedAwayFairly(c) /\ ClosedFairly(c) /\ LeftUntoldFairly(c)
                                 /\ AtMostTwoCaps(c)]_vars
  BY RateHolds
<1> QED
  BY <1>1, <1>2, <1>3, PTL DEF Spec, RateIsHeld
=============================================================================
