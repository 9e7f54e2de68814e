------------------------------ MODULE Registry ------------------------------
(***************************************************************************)
(* The registration maps of crates/broker/src/registry.rs and the calls of *)
(* state.rs and of the shim that read them on the logic thread.            *)
(*                                                                         *)
(* Each Lua state registers its tables in whatever order its calls come.   *)
(* A call takes the write lock for one merge and every lookup the read     *)
(* lock for one look, so each is one step.  A table is a set of rows, each *)
(* a topic and its value; a row may repeat or contradict another.          *)
(***************************************************************************)
EXTENDS Integers, FiniteSets

CONSTANTS
  Topics,       (* The topics some table may name.                         *)
  Ack,          (* The acknowledgement, which no table need name.          *)
  LifecycleCap  (* Bridge::lifecycle_cap(), frozen: Configure freezes it.  *)

ASSUME RegistryAssumption == Ack \notin Topics /\ LifecycleCap \in Nat

VARIABLES
  classes, routes, caps,   (* [some of Topics -> the value registered].    *)
  replies,                 (* Typed replies: topics a record may be addressed on. *)
  slots,                   (* [LIFECYCLE topics -> their slot, from 1].     *)
  partial_registration,    (* Records refused for an incomplete topic.     *)
  misaddressed,            (* Records refused for a topic that is no reply. *)
  opened                   (* History: what records were opened with.      *)

registryVars == <<classes, routes, caps, replies, slots>>
openVars     == <<partial_registration, misaddressed, opened>>

Classes      == {"lossy", "durable", "lifecycle", "command"}
Targets      == {"sim_driver", "hook_driver"}
Capabilities == {"read", "command", "reload"}

(* A topic registered as an inbound command and committed outbound goes    *)
(* with the durable ones.                                                  *)
Outbound(class) == IF class = "command" THEN "durable" ELSE class

NoSlot == 0

RegistryInit ==
  /\ classes = <<>> /\ routes = <<>> /\ caps = <<>>
  /\ replies = {} /\ slots = <<>>
  /\ partial_registration = 0 /\ misaddressed = 0 /\ opened = {}

-----------------------------------------------------------------------------
(* The merge.                                                              *)

Named(rows) == {r[1] : r \in rows}

(* No row disagrees with the map or with another row of the same call.     *)
Agrees(map, rows) ==
  \A r, s \in rows :
    /\ r[1] \in DOMAIN map => map[r[1]] = r[2]
    /\ r[1] = s[1] => r[2] = s[2]

(* The map with what is new to it. *)
Beside(map, more) ==
  [t \in DOMAIN map \cup DOMAIN more |-> IF t \in DOMAIN map THEN map[t] ELSE more[t]]

(* The map with every row that is new to it. *)
Merged(map, rows) ==
  Beside(map, [t \in Named(rows) |-> (CHOOSE r \in rows : r[1] = t)[2]])

(* The topics the rows would bind to a slot. *)
Offered(rows) == {t \in Named(rows) \ DOMAIN classes : <<t, "lifecycle">> \in rows}

(* The slots they may get: the map's iteration order is no one's choice.   *)
Bindings(new) ==
  LET next == Cardinality(DOMAIN slots) + 1
      free == next..(next + Cardinality(new) - 1)
  IN  {b \in [new -> free] : \A t, u \in new : b[t] = b[u] => t = u}

RegisterClasses(rows) ==
  /\ IF Agrees(classes, rows)
        /\ Cardinality(DOMAIN slots) + Cardinality(Offered(rows)) <= LifecycleCap
     THEN /\ classes' = Merged(classes, rows)
          /\ \E b \in Bindings(Offered(rows)) : slots' = Beside(slots, b)
     ELSE UNCHANGED <<classes, slots>>
  /\ UNCHANGED <<routes, caps, replies, openVars>>

RegisterRoutes(rows) ==
  /\ routes' = IF Agrees(routes, rows) THEN Merged(routes, rows) ELSE routes
  /\ UNCHANGED <<classes, caps, replies, slots, openVars>>

RegisterCaps(rows) ==
  /\ caps' = IF Agrees(caps, rows) THEN Merged(caps, rows) ELSE caps
  /\ UNCHANGED <<classes, routes, replies, slots, openVars>>

RegisterReplies(topics) ==
  /\ replies' = replies \cup topics
  /\ UNCHANGED <<classes, routes, caps, slots, openVars>>

-----------------------------------------------------------------------------
(* What the maps answer.                                                   *)

(* Mutant: a class alone opens a record. *)
IsComplete_ClassOnly(t) == t = Ack \/ t \in DOMAIN classes

IsComplete(t) == t = Ack \/ t \in DOMAIN classes \cap DOMAIN caps

IsAddressable(t) == t = Ack \/ t \in replies

CapOf(t) == IF t \in DOMAIN caps THEN caps[t] ELSE "none"

(* Registry::required: what a record on the topic is opened with. *)
Required(t) ==
  IF t = Ack
  THEN [topic |-> t, need |-> "command", class |-> "durable", slot |-> NoSlot]
  ELSE [topic |-> t, need |-> CapOf(t), class |-> Outbound(classes[t]),
        slot |-> IF t \in DOMAIN slots THEN slots[t] ELSE NoSlot]

(* The topic is one the token covers. *)
Covers(tokenCaps, t) == t \in DOMAIN caps /\ caps[t] \in tokenCaps

Admissible(tokenCaps, t) == t \in DOMAIN classes /\ Covers(tokenCaps, t)

(* Mutant: a LIFECYCLE topic has to be named like any other. *)
AdmittedTopics_NamedOnly(tokenCaps, filter) ==
  {t \in DOMAIN classes : (filter.all \/ t \in filter.topics) /\ Admissible(tokenCaps, t)}

(* What set_topic_filter says a connection will now be sent. *)
AdmittedTopics(tokenCaps, filter) ==
  {t \in DOMAIN classes :
     /\ filter.all \/ classes[t] = "lifecycle" \/ t \in filter.topics
     /\ Admissible(tokenCaps, t)}

Unknown(tokenCaps, filter) ==
  IF filter.all THEN {} ELSE {t \in filter.topics : ~Admissible(tokenCaps, t)}

(* get_topics: nothing until a class table is there, then what the token covers. *)
Listed(tokenCaps) ==
  IF classes = <<>> THEN "none"
  ELSE {<<t, classes[t], IF t \in DOMAIN routes THEN routes[t] ELSE "none">> :
          t \in {u \in DOMAIN classes : Covers(tokenCaps, u)}}

-----------------------------------------------------------------------------
(* The logic thread opens a record: shim.begin and shim.begin_to, as far   *)
(* as the registry decides.  Encoder has what becomes of the record.       *)

OpenOrRefuse(t, addressed) ==
  IF IsComplete(t)
  THEN /\ opened' = opened \cup {[Required(t) EXCEPT !.slot = IF addressed THEN NoSlot ELSE @]}
       /\ UNCHANGED partial_registration
  ELSE /\ partial_registration' = partial_registration + 1
       /\ UNCHANGED opened

Begin(t) ==
  /\ OpenOrRefuse(t, FALSE)
  /\ UNCHANGED <<misaddressed, registryVars>>

BeginTo(t) ==
  /\ IF IsAddressable(t)
     THEN OpenOrRefuse(t, TRUE) /\ UNCHANGED misaddressed
     ELSE misaddressed' = misaddressed + 1 /\ UNCHANGED <<partial_registration, opened>>
  /\ UNCHANGED registryVars

-----------------------------------------------------------------------------
(* What was looked up once stays true: a record carries its capability,    *)
(* class and slot to the writer thread, which holds no registry, and the   *)
(* maps only grow, so what it carries is what the maps still say.  No two  *)
(* topics share a slot, and the slots fit the retained set's allocation.   *)
OpenedAsRegistered ==
  /\ \A o \in opened :
       /\ IsComplete(o.topic)
       /\ o.need # "none" /\ o.class = Required(o.topic).class /\ o.need = Required(o.topic).need
       /\ o.slot \in {NoSlot, Required(o.topic).slot}
  /\ \A o, p \in opened : o.slot = p.slot /\ o.slot # NoSlot => o.topic = p.topic
  /\ DOMAIN slots = {t \in DOMAIN classes : classes[t] = "lifecycle"}
  /\ {slots[t] : t \in DOMAIN slots} = 1..Cardinality(DOMAIN slots)
  /\ Cardinality(DOMAIN slots) <= LifecycleCap

=============================================================================
