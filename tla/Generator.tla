------------------------------ MODULE Generator ------------------------------
(***************************************************************************)
(* protoc-gen-dcsbridge-lua (crates/generator/src): what it reads from a   *)
(* schema (records.rs), the files it writes (emit.rs, lib.rs), and what    *)
(* becomes of those files when the two Lua states load them, register      *)
(* their tables in Registry and call their emitters.                       *)
(*                                                                         *)
(* A package is the sequence of its parts and a topic a package and a      *)
(* name, so a prefix is a prefix.  A file is the tables it builds, not its *)
(* text: its headers, its annotations and how a name is quoted are left    *)
(* out, and so are the kinds float and double.                             *)
(***************************************************************************)
EXTENDS Registry, Sequences, SequencesExt, FiniteSetsExt

CONSTANTS
  None, Failed,
  Requests,      (* Plugin requests: the packages named for generation, the *)
                 (* messages in the descriptor pool, whether broker.proto   *)
                 (* is among its files, and the arguments scripts may give. *)
  DEPTH_MARGIN   (* Levels past the deepest the schema nests.              *)

VARIABLES
  request,     (* The request the plugin is handed.                        *)
  files,       (* Its answer: files by set and side, Failed, or None.     *)
  owner,       (* The tables emitters and decoders are on, by file: all of *)
               (* the sim side's files share DCSBridge.code.               *)
  loaded,      (* Files loaded: <<set, side>>.                             *)
  registered,  (* Tables registered: <<set, side, table>>.                 *)
  record       (* The last record an emitter put together, or None.        *)

generatorVars == <<request, files, owner, loaded, registered, record>>

-----------------------------------------------------------------------------
(* records.rs: the schema.                                                 *)

Broker  == <<"dcsbridge", "broker">>
Shipped == <<"dcsbridge">>

(* The put call of a kind the shim writes. *)
put(kind) ==
  IF kind \in {"int32", "int64", "uint32", "uint64", "enum"} THEN "integer"
  ELSE IF kind \in {"string", "boolean"} THEN kind
  ELSE None

(* A kind an emitter cannot write; a message is written field by field. *)
unwritable(kind) == put(kind) = None /\ kind # "message"

Message(t)  == CHOOSE m \in request.messages : m.topic = t
Fields(t)   == Message(t).fields
IsHook(m)   == m.target = "hook_driver"
Side(m)     == IF IsHook(m) THEN "hook_driver" ELSE "sim_driver"

(* The messages the fields of others hold on the wire. *)
MessageKinds(fields) ==
  {f.type : f \in {g \in ToSet(fields) : g.kind \in {"message", "map"}}}

(* A message carries some option, so it is a record. *)
CarriesOne(m) ==
  m.class # "none" \/ m.cap # "none" \/ m.target # "none" \/ m.reply # None

Records ==
  {m \in request.messages :
     /\ request.broker
     /\ m.topic[1] \in request.packages \ {Broker}
     /\ CarriesOne(m)}

Command(m) == m.class = "command"

(* A bare name is one of the record's own package. *)
Reply(m) == IF m.reply[1] = <<>> THEN <<m.topic[1], m.reply[2]>> ELSE m.reply

Typed   == {m \in Records : m.reply # None}
Answers == {m \in request.messages : request.broker /\ m.topic = Ack}

(* Every message the fields reach, through other messages too. *)
Reached(ms) ==
  LET more[n \in Nat] ==
        IF n = 0 THEN UNION {MessageKinds(m.fields) : m \in ms}
        ELSE LET before == more[n - 1]
             IN  before \cup UNION {MessageKinds(Fields(t)) : t \in before}
  IN  more[Cardinality(request.messages)]

(* The longest chain of messages below the fields; a message met again     *)
(* along one chain counts once more and ends it.                           *)
RECURSIVE Below(_, _)
Below(fields, chain) ==
  Max({0} \cup {IF t \in chain THEN 1 ELSE 1 + Below(Fields(t), chain \cup {t}) :
                  t \in MessageKinds(fields)})

Depth(commands) == Max({0} \cup {Below(m.fields, {}) : m \in commands})

(* What read refuses. *)
HalfOptioned == \E m \in Records : m.class = "none" \/ m.cap = "none"
SharedName   == \E m, n \in Records : m # n /\ m.topic[2] = n.topic[2]
NoSuchReply  == \E m \in Typed : Reply(m) \notin {n.topic : n \in Records}

Unwritable ==
  LET written == {m \in Records : ~Command(m)} \cup Answers
  IN  \E m \in written \cup {Message(t) : t \in Reached(written)} :
        \E f \in ToSet(m.fields) : unwritable(f.kind)

Refused == HalfOptioned \/ SharedName \/ NoSuchReply \/ Unwritable

-----------------------------------------------------------------------------
(* emit.rs: the files.                                                     *)

SetOf(package) ==
  IF package # <<>> /\ Head(package) = "dcsbridge" THEN Shipped ELSE package

Sets  == {SetOf(p) : p \in request.packages}
Sides == {"sim_driver", "hook_driver"}

(* Mutant: a record is a reply when it is one to its own side. *)
Replies_OwnSide ==
  {Reply(m) : m \in {n \in Typed : \E r \in Records : r.topic = Reply(n) /\ Side(r) = Side(n)}} \cup {Ack}

(* Every topic a reply goes out on, across the whole run. *)
Replies == {Reply(m) : m \in Typed} \cup {Ack}

Rows(set, side) == {m \in Records : SetOf(m.topic[1]) = set /\ Side(m) = side}

Outbound_records(set, side) ==
  {m \in Rows(set, side) : ~Command(m)} \cup (IF set = Shipped THEN Answers ELSE {})

Commands(set, side) == {m \in Rows(set, side) : Command(m)}

(* The reader's kind for a field; a group has none and no row. *)
decoded(kind) == IF kind = "group" THEN None ELSE kind

(* Message and command alike: field number to field. *)
Shape(t) ==
  LET row == {f \in ToSet(Fields(t)) : decoded(f.kind) # None}
  IN  [n \in {f.number : f \in row} |-> CHOOSE f \in row : f.number = n]

Shapes(commands) ==
  [t \in {m.topic : m \in commands} \cup Reached(commands) |-> Shape(t)]

Emitter(m) == [topic |-> m.topic, addressed |-> m.topic \in Replies, fields |-> m.fields]

(* A wrapper calls whatever emitter has its name when it is called.        *)
ByName(ms) == [name \in {m.topic[2] : m \in ms} |-> CHOOSE m \in ms : m.topic[2] = name]
Emitters(ms) == [name \in DOMAIN ByName(ms) |-> Emitter(ByName(ms)[name])]
Wrapped(ms, addressed) == {m.topic[2] : m \in {n \in ms : Emitter(n).addressed = addressed}}

File(set, side) ==
  LET out == Outbound_records(set, side)
      in  == Commands(set, side)
  IN  [classes |-> {<<m.topic, m.class>> : m \in Rows(set, side)},
       routes  |-> {<<m.topic, side>> : m \in in},
       caps    |-> {<<m.topic, m.cap>> : m \in Rows(set, side)},
       replies |-> {Reply(m) : m \in Rows(set, side) \cap Typed},
       emit    |-> Emitters(out),
       send    |-> Wrapped(out, FALSE),
       send_to |-> Wrapped(out, TRUE),
       decode  |-> [t \in {m.topic : m \in in} |->
                      [shape |-> Shapes(in), max_depth |-> Depth(in) + DEPTH_MARGIN]]]

(* The plugin's answer. *)
Generate ==
  /\ files = None
  /\ files' = IF Refused THEN Failed
              ELSE [at \in Sets \X Sides |-> File(at[1], at[2])]
  /\ UNCHANGED <<request, owner, loaded, registered, record, registryVars, openVars>>

-----------------------------------------------------------------------------
(* What the emitter writes for its arguments, a function from the names of *)
(* the fields given: one put for each value, in declaration order.  A put  *)
(* is a field's number, its call and the value, or a nested run of puts.   *)

RECURSIVE Puts(_, _)

FieldPuts(f, args) ==
  IF f.name \notin DOMAIN args THEN <<>>
  ELSE LET vs == IF f.label = "repeated" THEN args[f.name] ELSE <<args[f.name]>>
       IN  [i \in DOMAIN vs |->
              [n |-> f.number, call |-> IF f.kind = "message" THEN "message" ELSE put(f.kind),
               v |-> IF f.kind = "message" THEN Puts(Fields(f.type), vs[i]) ELSE vs[i]]]

Puts(fields, args) ==
  FoldLeft(LAMBDA done, f : done \o FieldPuts(f, args), <<>>, fields)

-----------------------------------------------------------------------------
(* The two Lua states.  On the sim side the shipped file makes its tables  *)
(* afresh and an adopter's adds to them by name, after it; on the hook     *)
(* side every file has its own.                                            *)

Owner(set, side) == IF side = "sim_driver" THEN <<Shipped, side>> ELSE <<set, side>>

(* What a shipped file of another run made: nothing this run speaks of.    *)
NoTables == [emit |-> <<>>, send |-> {}, send_to |-> {}, decode |-> <<>>]

Load(set, side) ==
  LET file == files[<<set, side>>]
      at   == Owner(set, side)
      old  == IF at \in DOMAIN owner THEN owner[at] ELSE NoTables
  IN  /\ files \notin {None, Failed}
      /\ <<set, side>> \in (Sets \X Sides) \ loaded
      /\ set # Shipped /\ Shipped \in Sets => <<Shipped, side>> \in loaded
      /\ owner' = (at :> [emit    |-> file.emit @@ old.emit,
                          send    |-> file.send \cup old.send,
                          send_to |-> file.send_to \cup old.send_to,
                          decode  |-> file.decode @@ old.decode]) @@ owner
      /\ loaded' = loaded \cup {<<set, side>>}
      /\ UNCHANGED <<request, files, registered, record, registryVars, openVars>>

RegisterTable(set, side, table) ==
  LET file == files[<<set, side>>]
      call == <<set, side, table>>
  IN  /\ <<set, side>> \in loaded
      /\ call \notin registered
      /\ registered' = registered \cup {call}
      /\ \/ table = "classes" /\ RegisterClasses(file.classes)
         \/ table = "routes"  /\ RegisterRoutes(file.routes)
         \/ table = "caps"    /\ RegisterCaps(file.caps)
         \/ table = "replies" /\ RegisterReplies(file.replies)
      /\ UNCHANGED <<request, files, owner, loaded, record>>

(* A script calls an emitter with some of its fields given. *)
Emit(at, name, args) ==
  LET emitter == owner[at].emit[name]
      opens   == /\ IsComplete(emitter.topic)
                 /\ emitter.addressed => IsAddressable(emitter.topic)
  IN  /\ IF emitter.addressed THEN BeginTo(emitter.topic) ELSE Begin(emitter.topic)
      /\ record' = IF opens
                   THEN [fields |-> emitter.fields, args |-> args,
                         puts |-> Puts(emitter.fields, args)]
                   ELSE None
      /\ UNCHANGED <<request, files, owner, loaded, registered>>

-----------------------------------------------------------------------------
Everything == {<<s, side, t>> : s \in Sets, side \in Sides, t \in {"classes", "routes", "caps", "replies"}}

(* Files of several sets and two sides are registered table by table, by   *)
(* two drivers, and each was written by itself.  When all are in, every    *)
(* emitter opens its record: no table was refused for another's, the topic *)
(* is complete, and it is addressed exactly if the broker takes it for a   *)
(* reply - else a reply would go to everyone, or raise.                    *)
EmittersOpen ==
  files \notin {None, Failed} /\ registered = Everything =>
    \A at \in DOMAIN owner : \A name \in DOMAIN owner[at].emit :
      LET e == owner[at].emit[name] IN
      /\ IsComplete(e.topic)
      /\ e.addressed <=> IsAddressable(e.topic)

(* A command the broker routes to a side finds its decoder on that side,   *)
(* with a shape for every message its fields reach, so the reader never    *)
(* looks one up in vain.                                                   *)
CommandsFindTheirDecoder ==
  \A t \in DOMAIN routes : \E at \in DOMAIN owner :
    /\ at[2] = routes[t]
    /\ t \in DOMAIN owner[at].decode
    /\ LET shape == owner[at].decode[t].shape IN
       \A s \in DOMAIN shape : \A n \in DOMAIN shape[s] :
         shape[s][n].kind \in {"message", "map"} => shape[s][n].type \in DOMAIN shape

(* Files written one by one, and loaded and registered in any order by two *)
(* drivers, agree with one another and with the broker.                    *)
FilesAgree == EmittersOpen /\ CommandsFindTheirDecoder

=============================================================================
