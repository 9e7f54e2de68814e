----------------------------- MODULE Configure -----------------------------
(***************************************************************************)
(* The process-global Bridge of crates/broker/src/state.rs as `configure`  *)
(* makes it: the configuration in force, what the first call allocates and *)
(* freezes, and what the other callers do meanwhile.                       *)
(*                                                                         *)
(* The logic thread makes the calls of the two Lua states one after the    *)
(* other: configure, register_classes, hold_schema.  Each connection's     *)
(* reader thread makes its own at any time from the moment the listener is *)
(* up: authenticate, SetEnabled, disconnected.  The `configuring` mutex    *)
(* and the compare-exchange on the session count are what keeps them       *)
(* apart, so a step ends where another thread may come in.                 *)
(*                                                                         *)
(* A configuration is a record of eight keys that stand for the forty of   *)
(* config.rs: live and restart-tier ones, the pairs a rule ties, and those *)
(* the first call allocates from.  A table is a function from some keys.   *)
(***************************************************************************)
EXTENDS Integers, FiniteSets

CONSTANTS
  Conns,         (* The connections a reader thread serves.                *)
  Tables,        (* The tables `configure` is called with.                 *)
  Default,       (* Config::default().                                     *)
  Topics,        (* The LIFECYCLE topics a registrar may register.         *)
  Hashes,        (* Schema hashes: of the generated file, of the set.      *)
  MaxMismatches  (* Bound: how many mismatches are counted.                *)

None == "none"
Live == {"enabled", "tokens", "max_unauthenticated_connections"}
Restart == {"max_connections", "max_lifecycle_topics", "bind_address",
            "ring_out_lifecycle_records", "ring_in_hook_driver_records"}
Counts == (Live \cup Restart) \ {"enabled", "tokens", "bind_address"}

(* A default passes its own key's check, and no token is configured.       *)
ASSUME DefaultAssumption ==
  /\ DOMAIN Default = Live \cup Restart
  /\ Default.tokens = {}
  /\ \A k \in Counts : Default[k] \in Nat \ {0}

(* What a table gives for a count is an integer of any sign: a fraction    *)
(* and a value that is no number are refused as a zero is.                 *)
ASSUME TablesAssumption ==
  \A t \in Tables :
    IsFiniteSet(DOMAIN t) /\ \A k \in DOMAIN t \cap Counts : t[k] \in Int

ASSUME ConnsAssumption == {"logic", None} \cap Conns = {}

VARIABLES
  lock,          (* Who holds `configuring`, or None.                      *)
  config,        (* The configuration in force.                            *)
  configured,    (* Whether the first `configure` has happened.            *)
  pending,       (* Restart-tier keys waiting, as of the last call.        *)
  unknown,       (* Keys the last call carried that are not the broker's.  *)
  lifecycle_cap, (* The frozen max_lifecycle_topics, or 0.                 *)
  inbound,       (* How many records the inbound ring holds, or 0.         *)
  outbound,      (* Of the outbound path: [slots, ring], both 0 before it. *)
  expected,      (* schema_expected.                                       *)
  schema,        (* The hash of the schema held.                           *)
  mismatches,    (* schema_sha256_mismatch_total.                          *)
  slots,         (* The topics bound to a slot of the retained set.        *)
  lPc, table, hash, next, (* The logic thread inside `configure`.          *)
  rPc, copy, seen,        (* Each reader thread, and its locals.           *)
  authenticated, (* Bridge.authenticated.                                  *)
  told,          (* History: the enabled and tokens last put in force.     *)
  entered,       (* History: what the call inside `configure` found.       *)
  froze          (* History: the first call found another cap frozen.      *)

force   == <<config, configured, pending, unknown, expected, outbound>>
logic   == <<lPc, table, hash, next, entered>>
once    == <<lifecycle_cap, inbound>>
registry == <<schema, mismatches, slots>>
readers == <<rPc, copy, seen, authenticated>>
vars    == <<lock, force, once, registry, logic, readers, told, froze>>

Init ==
  /\ lock = None /\ config = Default /\ configured = FALSE
  /\ pending = {} /\ unknown = 0 /\ lifecycle_cap = 0 /\ inbound = 0
  /\ outbound = [slots |-> 0, ring |-> 0]
  /\ expected = None /\ schema = None /\ mismatches = 0 /\ slots = {}
  /\ lPc = "idle" /\ table = <<>> /\ hash = None /\ next = Default
  /\ rPc = [c \in Conns |-> "off"] /\ copy = [c \in Conns |-> Default]
  /\ seen = [c \in Conns |-> 0] /\ authenticated = 0
  /\ told = [enabled |-> Default.enabled, tokens |-> Default.tokens]
  /\ entered = <<>> /\ froze = FALSE

-----------------------------------------------------------------------------
(* The key that is no configuration key: the generated schema's hash.      *)

SCHEMA_SHA256 == "schema_sha256"

(* What of a value is a hash: 64 hex digits, and nothing else.             *)
sha256_from_hex(value) == value \in Hashes

(* take_schema_sha256 reads the whole table before any of it applies, and  *)
(* refuses one whose hash is none; what it splits off is the hash.         *)
Splits(t)  == SCHEMA_SHA256 \in DOMAIN t => sha256_from_hex(t[SCHEMA_SHA256])
Carried(t) == IF SCHEMA_SHA256 \in DOMAIN t THEN t[SCHEMA_SHA256] ELSE None
Rest(t)    == [k \in DOMAIN t \ {SCHEMA_SHA256} |-> t[k]]

(* Config: what a table makes of the configuration in force.               *)

(* A count is an integer from one up. *)
IsChecked(t) == \A k \in DOMAIN t \cap Counts : t[k] >= 1

Given(t, k, otherwise) == IF k \in DOMAIN t THEN t[k] ELSE otherwise[k]

(* The first call takes every key, a later one the live keys only. *)
Merge(t) ==
  [k \in Live \cup Restart |->
     IF k \in Live \/ ~configured THEN Given(t, k, Default) ELSE config[k]]

ObeysRules(c) ==
  /\ c.max_unauthenticated_connections < c.max_connections
  /\ c.ring_out_lifecycle_records > c.max_lifecycle_topics

(* The restart-tier keys whose file value is not the one in force. *)
Waiting(t) ==
  {k \in DOMAIN t \cap Restart : configured /\ t[k] # config[k]}

-----------------------------------------------------------------------------
(* The logic thread: configure.                                            *)

(* OnceLock::get_or_init. *)
Frozen(value) == IF lifecycle_cap = 0 THEN value ELSE lifecycle_cap

(* A table that does not split is refused before the lock is asked for. *)
Lock(t) ==
  /\ lPc = "idle" /\ lock = None /\ Splits(t)
  /\ lock' = "logic" /\ lPc' = "merge" /\ table' = Rest(t) /\ hash' = Carried(t)
  /\ entered' = force
  /\ UNCHANGED <<force, once, registry, next, readers, told, froze>>

Return ==
  /\ lock' = None /\ lPc' = "idle"
  /\ table' = <<>> /\ hash' = None /\ next' = Default /\ entered' = <<>>

Refuse == Return /\ UNCHANGED <<force, registry, readers, told, froze>>

MergeRefused ==
  /\ lPc = "merge"
  /\ ~(IsChecked(table) /\ ObeysRules(Merge(table)))
  /\ Refuse /\ UNCHANGED once

MergeLater ==
  /\ lPc = "merge" /\ configured
  /\ IsChecked(table) /\ ObeysRules(Merge(table))
  /\ next' = Merge(table) /\ lPc' = "swap"
  /\ UNCHANGED <<lock, force, once, registry, table, hash, entered, readers,
                 told, froze>>

(* The cap is frozen, or the frozen one overrides; the inbound rings. *)
MergeFirst ==
  /\ lPc = "merge" /\ ~configured
  /\ IsChecked(table) /\ ObeysRules(Merge(table))
  /\ lifecycle_cap' = Frozen(Merge(table).max_lifecycle_topics)
  /\ next' = [Merge(table) EXCEPT !.max_lifecycle_topics = lifecycle_cap']
  /\ froze' = (lifecycle_cap' # Merge(table).max_lifecycle_topics)
  /\ inbound' = IF inbound = 0 THEN next'.ring_in_hook_driver_records
                ELSE inbound
  /\ lPc' = "bind"
  /\ UNCHANGED <<lock, force, registry, table, hash, entered, readers, told>>

(* Mutant: the hash is kept before the bind. *)
BindRefused_KeepsTheHash ==
  /\ lPc = "bind" /\ next.bind_address = "taken"
  /\ Return /\ expected' = hash
  /\ UNCHANGED <<config, configured, pending, unknown, outbound, once,
                 registry, readers, told, froze>>

(* The address may be in use: the call is refused and can be made again. *)
BindRefused ==
  /\ lPc = "bind" /\ next.bind_address = "taken"
  /\ Refuse /\ UNCHANGED once

(* From here a consumer may connect, with the defaults still in force. *)
Bind ==
  /\ lPc = "bind" /\ next.bind_address = "free"
  /\ outbound' = [slots |-> lifecycle_cap,
                  ring |-> next.ring_out_lifecycle_records]
  /\ lPc' = "swap"
  /\ UNCHANGED <<lock, config, configured, pending, unknown, expected, once,
                 registry, table, hash, next, entered, readers, told, froze>>

(* A first call keeps the hash; every call stores its counts and swaps. *)
Swap ==
  /\ lPc = "swap"
  /\ expected' = IF configured THEN expected ELSE hash
  /\ pending' = Waiting(table)
       \cup (IF ~configured /\ froze THEN {"max_lifecycle_topics"} ELSE {})
  /\ unknown' = Cardinality(DOMAIN table \ (Live \cup Restart))
  /\ config' = next /\ configured' = TRUE
  /\ told' = [enabled |-> next.enabled, tokens |-> next.tokens]
  /\ Return
  /\ UNCHANGED <<outbound, once, registry, readers, froze>>

-----------------------------------------------------------------------------
(* The logic thread: hold_schema and register_classes.                     *)

Counted(differs) == mismatches + (IF differs THEN 1 ELSE 0)

(* With no schema held, or no hash given, nothing is compared. *)
CountAgainstHeld(h) ==
  /\ mismatches < MaxMismatches
  /\ mismatches' = Counted(schema # None /\ h # None /\ schema # h)

(* Before the first configure, or once one is held, it changes nothing. *)
HoldSchema(h) ==
  /\ lPc = "idle" /\ lock = None /\ configured /\ schema = None
  /\ schema' = h
  /\ mismatches' = Counted(expected # None /\ expected # h)
  /\ UNCHANGED <<lock, force, once, slots, logic, readers, told, froze>>

(* A table with a LIFECYCLE row freezes the cap before it is looked at; it *)
(* binds every fresh topic, or none of them for a conflict or the cap.     *)
RegisterClasses(rows, conflict, h) ==
  /\ lPc = "idle" /\ rows # {}
  /\ lifecycle_cap' = Frozen(config.max_lifecycle_topics)
  /\ \/ /\ conflict \/ Cardinality(slots \cup rows) > lifecycle_cap'
        /\ UNCHANGED <<slots, mismatches>>
     \/ /\ ~conflict /\ Cardinality(slots \cup rows) <= lifecycle_cap'
        /\ slots' = slots \cup rows /\ CountAgainstHeld(h)
  /\ UNCHANGED <<lock, force, inbound, schema, logic, readers, told, froze>>

-----------------------------------------------------------------------------
(* The reader threads.                                                     *)

Goes(c, to) == rPc' = [rPc EXCEPT ![c] = to]
Forgets(c) ==
  copy' = [copy EXCEPT ![c] = Default] /\ seen' = [seen EXCEPT ![c] = 0]
Others == <<force, once, registry, logic, told, froze>>

Connect(c) ==
  /\ rPc[c] = "off" /\ outbound.ring > 0
  /\ Goes(c, "connected")
  /\ UNCHANGED <<lock, Others, copy, seen, authenticated>>

(* authenticate: the tokens and the limit are read of one configuration.   *)
(* A refusal closes the connection.                                        *)
Match(c) ==
  /\ rPc[c] = "connected"
  /\ \/ /\ c \in config.tokens /\ Goes(c, "counting")
        /\ copy' = [copy EXCEPT ![c] = config]
        /\ seen' = [seen EXCEPT ![c] = authenticated]
     \/ c \notin config.tokens /\ Goes(c, "off") /\ UNCHANGED <<copy, seen>>
  /\ UNCHANGED <<lock, Others, authenticated>>

CountIn(c) ==
  /\ rPc[c] = "counting" /\ seen[c] < copy[c].max_connections
  /\ authenticated = seen[c]
  /\ authenticated' = authenticated + 1
  /\ Goes(c, "open") /\ Forgets(c) /\ UNCHANGED <<lock, Others>>

ServerFull(c) ==
  /\ rPc[c] = "counting" /\ seen[c] >= copy[c].max_connections
  /\ Goes(c, "off") /\ Forgets(c) /\ UNCHANGED <<lock, Others, authenticated>>

(* A weak compare-exchange may fail although nothing has changed. *)
Retry(c) ==
  /\ rPc[c] \in {"counting", "leaving"}
  /\ seen' = [seen EXCEPT ![c] = authenticated]
  /\ UNCHANGED <<lock, Others, rPc, copy, authenticated>>

(* Mutant: SetEnabled copies the configuration without the lock. *)
SetEnabled_NoLock(c, to) ==
  /\ rPc[c] = "open" /\ lock' = lock
  /\ copy' = [copy EXCEPT ![c] = [config EXCEPT !.enabled = to]]
  /\ Goes(c, "setting") /\ UNCHANGED <<Others, seen, authenticated>>

SetEnabled(c, to) ==
  /\ rPc[c] = "open" /\ lock = None /\ lock' = c
  /\ copy' = [copy EXCEPT ![c] = [config EXCEPT !.enabled = to]]
  /\ Goes(c, "setting") /\ UNCHANGED <<Others, seen, authenticated>>

SetSwap(c) ==
  /\ rPc[c] = "setting"
  /\ config' = copy[c] /\ told' = [told EXCEPT !.enabled = copy[c].enabled]
  /\ lock' = (IF lock = c THEN None ELSE lock)
  /\ Goes(c, "open") /\ Forgets(c)
  /\ UNCHANGED <<configured, pending, unknown, expected, outbound, once,
                 registry, logic, authenticated, froze>>

Closed(c) ==
  /\ rPc[c] = "open" /\ Goes(c, "leaving")
  /\ seen' = [seen EXCEPT ![c] = authenticated]
  /\ UNCHANGED <<lock, Others, copy, authenticated>>

CountOut(c) ==
  /\ rPc[c] = "leaving" /\ seen[c] > 0 /\ authenticated = seen[c]
  /\ authenticated' = authenticated - 1
  /\ Goes(c, "off") /\ Forgets(c) /\ UNCHANGED <<lock, Others>>

Reader(c) ==
  \/ Connect(c) \/ Match(c) \/ CountIn(c) \/ ServerFull(c) \/ Retry(c)
  \/ \E to \in BOOLEAN : SetEnabled(c, to)
  \/ SetSwap(c) \/ Closed(c) \/ CountOut(c)

Logic ==
  \/ \E t \in Tables : Lock(t)
  \/ MergeRefused \/ MergeLater \/ MergeFirst \/ BindRefused \/ Bind \/ Swap
  \/ \E h \in Hashes : HoldSchema(h)
  \/ \E rows \in SUBSET Topics, conflict \in BOOLEAN,
        h \in Hashes \cup {None} : RegisterClasses(rows, conflict, h)

Next == Logic \/ \E c \in Conns : Reader(c)

Spec == Init /\ [][Next]_vars

-----------------------------------------------------------------------------

TypeOK ==
  /\ lock \in Conns \cup {"logic", None}
  /\ DOMAIN config = Live \cup Restart
  /\ pending \subseteq Restart /\ unknown \in Nat /\ configured \in BOOLEAN
  /\ {lifecycle_cap, inbound, authenticated, mismatches} \subseteq Nat
  /\ slots \subseteq Topics
  /\ {expected, schema} \subseteq Hashes \cup {None}
  /\ lPc \in {"idle", "merge", "bind", "swap"}
  /\ \A c \in Conns :
       rPc[c] \in {"off", "connected", "counting", "open", "setting",
                   "leaving"}
  /\ lock = "logic" <=> lPc # "idle"
  /\ \A c \in Conns : lock = c <=> rPc[c] = "setting"

(* Two writers of the configuration never build on the same old one: the   *)
(* tokens in force are those of the last table that was accepted, and the  *)
(* kill switch stands as the last of configure and SetEnabled put it,      *)
(* although each copies the configuration and swaps it a moment later.     *)
NoSwapIsLost ==
  config.enabled = told.enabled /\ config.tokens = told.tokens

(* A configure that is refused, for a value, a rule or an address in use,  *)
(* leaves everything in force as the call found it.                        *)
RefusalChangesNothing ==
  [][lPc # "idle" /\ lPc' = "idle" /\ ~(lPc = "swap") => force' = entered]_vars

(* What is in force is what was allocated: the retained set has a slot for *)
(* each topic the registry may bind, whichever call froze the cap first.   *)
SlotsAreAllocated ==
  configured =>
    /\ config.max_lifecycle_topics = outbound.slots
    /\ config.ring_out_lifecycle_records = outbound.ring
    /\ Cardinality(slots) <= outbound.slots

(* The rules that tie two keys hold of the values in force, a live key's   *)
(* against an effective restart-tier key's, unless another call froze the  *)
(* cap before the first configure (ReplayFits says what happens then).     *)
RulesHoldInForce ==
  configured /\ ~froze =>
    /\ config.max_unauthenticated_connections < config.max_connections
    /\ config.max_lifecycle_topics < config.ring_out_lifecycle_records

(* A replay of the whole retained set fits a fresh connection's LIFECYCLE *)
(* ring: configure refuses a table under which it would not.               *)
ReplayFits ==
  configured =>
    config.ring_out_lifecycle_records > config.max_lifecycle_topics

Sessions == {c \in Conns : rPc[c] \in {"open", "setting", "leaving"}}

(* However many consumers authenticate and leave at once, the count is     *)
(* that of the sessions there are, and never over max_connections.         *)
SessionsAreCounted ==
  /\ authenticated = Cardinality(Sessions)
  /\ authenticated <= config.max_connections

(* What is in force is sound: it is what was allocated, its rules hold,    *)
(* no writer's part of it was lost to another's, and the sessions it        *)
(* limits are counted.                                                     *)
InForceIsSound ==
  TypeOK /\ SlotsAreAllocated /\ RulesHoldInForce /\ NoSwapIsLost /\ SessionsAreCounted

-----------------------------------------------------------------------------
(* What makes it so, and is inductive (ConfigureProofs).                   *)

(* The locals range over what they may hold, and every count in force is   *)
(* one that passed its check.                                              *)
LocalsInv ==
  /\ TypeOK
  /\ DOMAIN rPc = Conns /\ DOMAIN copy = Conns /\ DOMAIN seen = Conns
  /\ hash \in Hashes \cup {None}
  /\ lPc # "idle" => table \in {Rest(t) : t \in Tables}
  /\ \A k \in Counts : config[k] \in Nat \ {0}
  /\ told = [enabled |-> config.enabled, tokens |-> config.tokens]

(* Inside a call, what was found stands until the swap, and what is to be  *)
(* swapped in has the cap that is frozen, the rings that are bound, and a  *)
(* later call's restart-tier keys as they are in force.                    *)
CallInv ==
  /\ lPc \in {"merge", "bind"} => entered = force
  /\ lPc = "bind" => ~configured
  /\ lPc \in {"bind", "swap"} =>
       /\ DOMAIN next = Live \cup Restart
       /\ \A k \in Counts : next[k] \in Nat \ {0}
       /\ ObeysRules(next) \/ (~configured /\ froze)
       /\ ~configured => next.max_lifecycle_topics = lifecycle_cap
       /\ configured => \A k \in Restart : next[k] = config[k]
  /\ lPc = "swap" /\ ~configured =>
       outbound = [slots |-> lifecycle_cap, ring |-> next.ring_out_lifecycle_records]

(* A frozen cap is never moved, and nothing is bound before it is frozen.  *)
AllocatedInv ==
  /\ lifecycle_cap = 0 => slots = {}
  /\ Cardinality(slots) <= lifecycle_cap
  /\ configured =>
       /\ lifecycle_cap # 0
       /\ outbound = [slots |-> lifecycle_cap, ring |-> config.ring_out_lifecycle_records]
       /\ config.max_lifecycle_topics = lifecycle_cap
       /\ ObeysRules(config) \/ froze

(* No session is older than the first configuration, whoever compares a    *)
(* limit compares the one in force, and a copy of the configuration is     *)
(* still that in force but for the switch.                                 *)
SessionsInv ==
  /\ ~configured => config.tokens = {} /\ \A c \in Conns : rPc[c] \in {"off", "connected"}
  /\ \A c \in Conns :
       /\ rPc[c] = "counting" => copy[c].max_connections = config.max_connections
       /\ rPc[c] = "setting" => copy[c] = [config EXCEPT !.enabled = copy[c].enabled]
  /\ IsFiniteSet(Sessions) /\ SessionsAreCounted

ConfigureInv == LocalsInv /\ CallInv /\ AllocatedInv /\ SessionsInv

=============================================================================
