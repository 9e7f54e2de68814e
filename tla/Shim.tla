------------------------------- MODULE Shim -------------------------------
(***************************************************************************)
(* The C entry points of crates/lua-module/src/lib.rs that take a Lua      *)
(* value apart: configure, schema, tick, epoch, the four registrations and *)
(* poll.  (The put calls are Encoder's.)  Each call reads its arguments    *)
(* through the Lua stack, hands the broker what it read, and returns or    *)
(* raises.  lua_next answers a table's keys in an order of its own.        *)
(*                                                                         *)
(* A Lua value is a tuple that begins with its type; a table holds its     *)
(* keys and values as a function.  stack is what lies above the arguments. *)
(***************************************************************************)
EXTENDS Integers, Sequences, FiniteSets, SequencesExt, FiniteSetsExt

CONSTANTS
  Absent,
  Calls,     (* [call -> the argument lists it is made with].              *)
  MaxEpoch   (* u32::MAX.                                                  *)

VARIABLES
  step, call, args,
  stack,     (* The Lua values above the arguments.                        *)
  todo,      (* The keys each walk under way has yet to see, inner first.  *)
  dense,     (* dense_length's: the list it is in, count and highest.      *)
  nth,       (* The entry of the token list, and how many there are.       *)
  rows, list,(* What read_table and its like have read, and read_list.     *)
  named,     (* The position a refused token list is told for, or 0.       *)
  live,      (* Whether a Rust frame under the entry owns anything.        *)
  given,     (* History: what the broker was handed in this call, if so.   *)
  configured, bridgeEpoch  (* The broker's.                                *)

reading == <<todo, dense, nth, rows, list, named>>
bridge  == <<given, configured, bridgeEpoch>>
shimVars == <<step, call, args, stack, reading, live, bridge>>

-----------------------------------------------------------------------------
(* Lua values.                                                             *)

Nil         == <<"nil">>
Boolean(b)  == <<"boolean", b>>
Str(s)      == <<"string", s>>
(* form: "whole", "half" way to the next, or "nan". *)
Number(n, form) == <<"number", n, form>>
Table(f)    == <<"table", f>>

Type(v)     == v[1]
FieldOf(t, k) == IF k \in DOMAIN t[2] THEN t[2][k] ELSE Nil
Arg(n)      == IF n <= Len(args) THEN args[n] ELSE Nil
IsString(v) == Type(v) = "string"
IsWhole(v)  == Type(v) = "number" /\ v[3] = "whole"

Drop(n)     == SubSeq(stack, 1, Len(stack) - n)
Top         == Last(stack)

(* A table has finitely many keys, and a number is one.  (A call's table   *)
(* holds a list, of tables, that hold lists.)                              *)
Sane(v)   == Type(v) = "table" =>
               /\ IsFiniteSet(DOMAIN v[2])
               /\ \A k \in DOMAIN v[2] : Type(k) = "number" => k[2] \in Int /\ k = Number(k[2], k[3])
Within(v) == IF Type(v) = "table" THEN {v[2][k] : k \in DOMAIN v[2]} ELSE {}

SaneCalls ==
  \A c \in DOMAIN Calls : \A a \in Calls[c] : a # <<>> =>
    /\ Sane(a[1])
    /\ \A v \in Within(a[1]) : Sane(v) /\ \A e \in Within(v) : Sane(e) /\ \A l \in Within(e) : Sane(l)

ASSUME ShimAssumption == SaneCalls

(* The names a call's members go by, at the schema's numbers. *)
Members ==
  [classes   |-> <<"durable", "lossy", "command", "lifecycle">>,
   routes    |-> <<"sim_driver", "hook_driver">>,
   poll      |-> <<"sim_driver", "hook_driver">>,
   caps      |-> <<"read", "command", "reload">>,
   configure |-> <<"read", "command", "reload">>]

Member(of, v) ==
  IF IsString(v) /\ v[2] \in Range(Members[of]) THEN v[2]
  ELSE IF IsWhole(v) /\ v[2] \in DOMAIN Members[of] THEN Members[of][v[2]]
  ELSE Absent

-----------------------------------------------------------------------------
ShimInit ==
  /\ step = "idle" /\ call = Absent /\ args = <<>> /\ stack = <<>> /\ todo = <<>>
  /\ dense = [in |-> Absent, count |-> 0, highest |-> 0] /\ nth = <<0, 0>>
  /\ rows = {} /\ list = <<>> /\ named = 0 /\ live = FALSE
  /\ given = <<>> /\ configured = FALSE /\ bridgeEpoch = 0

Make(c, a) ==
  /\ step = "idle" /\ call' = c /\ args' = a /\ step' = "check"
  /\ UNCHANGED <<stack, reading, live, bridge>>

Over ==
  /\ step \in {"answered", "raised"}
  /\ step' = "idle" /\ call' = Absent /\ args' = <<>> /\ stack' = <<>> /\ todo' = <<>>
  /\ dense' = [in |-> Absent, count |-> 0, highest |-> 0] /\ nth' = <<0, 0>>
  /\ rows' = {} /\ list' = <<>> /\ named' = 0 /\ given' = <<>>
  /\ UNCHANGED <<live, configured, bridgeEpoch>>

(* A C API that raises does so at once, past every Rust frame. *)
RaiseNow == step' = "raised" /\ UNCHANGED <<stack, live>>

(* The callee drops what it owns, leaves the message and returns; the      *)
(* entry, which owns nothing, raises it.                                   *)
Refuse(popped) ==
  /\ stack' = Append(popped, <<"message">>) /\ live' = FALSE /\ step' = "raised"

Answer(values) == stack' = stack \o values /\ live' = FALSE /\ step' = "answered"

-----------------------------------------------------------------------------
(* The first look at the arguments.                                        *)

Tables == {"configure", "classes", "routes", "caps", "replies"}
Wanted ==
  [c \in Tables \cup {"schema", "tick"} |->
     CASE c \in Tables -> "table" [] c = "schema" -> "string" [] c = "tick" -> "number"]

(* lua_pushnil, ahead of the first lua_next. *)
StartWalk(t) == stack' = Append(stack, Nil) /\ todo' = <<DOMAIN t[2]>> \o todo

CheckType ==
  /\ step = "check" /\ call \in DOMAIN Wanted
  /\ IF Type(Arg(1)) # Wanted[call] THEN RaiseNow
     ELSE step' = (IF call \in Tables THEN "hash" ELSE "bridge") /\ UNCHANGED <<stack, live>>
  /\ UNCHANGED <<call, args, reading, bridge>>

(* read_sha256, of classes alone: absent, or 64 hex digits. *)
HashIsRead == call # "classes" \/ Arg(2) = Nil \/ Arg(2) = Str("hash")

OpenTable ==
  /\ step = "hash"
  /\ IF HashIsRead THEN StartWalk(Arg(1)) /\ live' = TRUE /\ step' = "walk"
     ELSE Refuse(stack) /\ UNCHANGED todo
  /\ UNCHANGED <<call, args, dense, nth, rows, list, named, bridge>>

-----------------------------------------------------------------------------
(* read_table, read_rows and the registrations' read_list: one walk.       *)

(* lua_next pops the key and pushes the next pair, or nothing. *)
NextPair(t, to) ==
  \E k \in Head(todo) :
    /\ stack' = Drop(1) \o <<k, t[2][k]>>
    /\ todo' = <<Head(todo) \ {k}>> \o Tail(todo) /\ step' = to

NextRow ==
  /\ step = "walk" /\ Head(todo) # {} /\ NextPair(Arg(1), "row")
  /\ UNCHANGED <<call, args, dense, nth, rows, list, named, live, bridge>>

RowsEnd ==
  /\ step = "walk" /\ Head(todo) = {}
  /\ stack' = Drop(1) /\ todo' = Tail(todo) /\ step' = "bridge"
  /\ UNCHANGED <<call, args, dense, nth, rows, list, named, live, bridge>>

KeyTaken(c, k) == Type(k) = IF c = "replies" THEN "number" ELSE "string"

(* What a row is read as, or Absent.  The token list is read further down. *)
RowRead(c, k, v) ==
  CASE c = "configure" -> IF Type(v) \in {"boolean", "number", "string"} THEN <<k, v>> ELSE Absent
    [] c = "replies"   -> IF IsString(v) THEN v ELSE Absent
    [] OTHER           -> IF Member(c, v) = Absent THEN Absent ELSE <<k, Member(c, v)>>

IsTokens(c, k, v) == c = "configure" /\ k = Str("tokens") /\ Type(v) = "table"

Row ==
  LET k == stack[Len(stack) - 1]
      v == Top IN
  /\ step = "row" /\ ~IsTokens(call, k, v)
  /\ IF KeyTaken(call, k) /\ RowRead(call, k, v) # Absent
     THEN /\ rows' = rows \cup {RowRead(call, k, v)}
          /\ stack' = Drop(1) /\ step' = "walk" /\ UNCHANGED live
     ELSE Refuse(Drop(2)) /\ UNCHANGED rows
  /\ UNCHANGED <<call, args, todo, dense, nth, list, named, bridge>>

RowTokens ==
  /\ step = "row" /\ IsTokens(call, stack[Len(stack) - 1], Top)
  /\ StartWalk(Top) /\ step' = "dense"
  /\ dense' = [in |-> "tokens", count |-> 0, highest |-> 0]
  /\ UNCHANGED <<call, args, nth, rows, list, named, live, bridge>>

-----------------------------------------------------------------------------
(* dense_length, of the token list and of a list of capabilities.          *)

(* What the frames above the row, of the entry and of caps, have pushed.   *)
AboveRow == IF dense.in = "caps" THEN 2 ELSE 0

(* The list being measured lies under the walk's own pushes. *)
Measured == IF dense.in = "caps" THEN stack[4] ELSE stack[2]

DenseNext ==
  /\ step = "dense" /\ Head(todo) # {} /\ NextPair(Measured, "pair")
  /\ UNCHANGED <<call, args, dense, nth, rows, list, named, live, bridge>>

IsPosition(k) == IsWhole(k) /\ k[2] >= 1

DensePair ==
  LET k == stack[Len(stack) - 1] IN
  /\ step = "pair" /\ IsPosition(k)
  /\ dense' = [dense EXCEPT !.count = @ + 1, !.highest = IF k[2] > @ THEN k[2] ELSE @]
  /\ stack' = Drop(1) /\ step' = "dense"
  /\ UNCHANGED <<call, args, todo, nth, rows, list, named, live, bridge>>

(* Err(position), which read_list tells and read_caps does not. *)
Missing(position) == named' = IF dense.in = "tokens" THEN position ELSE 0

(* The walk is cut short: its pair goes, then the list's, the entry's and  *)
(* the row's.  The position named is the one after those seen.             *)
DenseRefused ==
  /\ step = "pair" /\ ~IsPosition(stack[Len(stack) - 1])
  /\ Refuse(Drop(2 + AboveRow + 2)) /\ Missing(dense.count + 1)
  /\ UNCHANGED <<call, args, todo, dense, nth, rows, list, bridge>>

Hole         == dense.count # dense.highest
FirstNil(v)  == Min({n \in 1..dense.highest : FieldOf(v, Number(n, "whole")) = Nil})
Measure(n)   ==
  /\ stack' = Drop(1) /\ todo' = Tail(todo)
  /\ step' = IF dense.in = "tokens" THEN "entries" ELSE "members"
  /\ nth' = IF dense.in = "tokens" THEN <<1, n>> ELSE nth
  /\ list' = IF dense.in = "tokens" THEN <<>> ELSE list

(* Mutant: the list is as long as Lua's length operator may answer. *)
DenseHole_Border ==
  /\ step = "dense" /\ Head(todo) = {} /\ Hole /\ Measure(FirstNil(Measured) - 1)
  /\ UNCHANGED <<call, args, dense, rows, named, live, bridge>>

(* Another loop looks for the first position that holds nothing. *)
DenseHole ==
  /\ step = "dense" /\ Head(todo) = {} /\ Hole
  /\ Refuse(Drop(1 + AboveRow + 2)) /\ Missing(FirstNil(Measured))
  /\ UNCHANGED <<call, args, todo, dense, nth, rows, list, bridge>>

DenseEnd ==
  /\ step = "dense" /\ Head(todo) = {} /\ ~Hole /\ Measure(dense.count)
  /\ UNCHANGED <<call, args, dense, rows, named, live, bridge>>

-----------------------------------------------------------------------------
(* The token list, entry by entry.                                         *)

NextEntry ==
  /\ step = "entries" /\ nth[1] <= nth[2]
  /\ stack' = Append(stack, FieldOf(Top, Number(nth[1], "whole"))) /\ step' = "entry"
  /\ UNCHANGED <<call, args, reading, live, bridge>>

EntriesEnd ==
  /\ step = "entries" /\ nth[1] > nth[2]
  /\ rows' = rows \cup {<<Str("tokens"), list>>}
  /\ stack' = Drop(1) /\ step' = "walk"
  /\ UNCHANGED <<call, args, todo, dense, nth, list, named, live, bridge>>

(* read_entry: id and secret are each pushed, copied and popped. *)
HasNames(v) ==
  /\ Type(v) = "table" /\ IsString(FieldOf(v, Str("id")))
  /\ IsString(FieldOf(v, Str("secret"))) /\ FieldOf(v, Str("secret")) # Str("")

Entry ==
  /\ step = "entry"
  /\ IF HasNames(Top) THEN stack' = Append(stack, FieldOf(Top, Str("caps"))) /\ step' = "list"
                           /\ UNCHANGED live
     ELSE Refuse(Drop(1 + 2))
  /\ UNCHANGED <<call, args, reading, bridge>>

CapsList ==
  /\ step = "list"
  /\ IF Type(Top) = "table"
     THEN /\ StartWalk(Top) /\ step' = "dense" /\ UNCHANGED live
          /\ dense' = [in |-> "caps", count |-> 0, highest |-> 0]
     ELSE Refuse(Drop(1 + 1 + 2)) /\ UNCHANGED <<todo, dense>>
  /\ UNCHANGED <<call, args, nth, rows, list, named, bridge>>

(* Each capability is pushed, read and popped. *)
ReadCaps ==
  LET n == dense.count
      read(i) == Member("configure", FieldOf(Top, Number(i, "whole"))) IN
  /\ step = "members"
  /\ IF \A i \in 1..n : read(i) # Absent
     THEN /\ list' = Append(list, [id |-> FieldOf(stack[3], Str("id")),
                                   secret |-> FieldOf(stack[3], Str("secret")),
                                   caps |-> {read(i) : i \in 1..n}])
          /\ stack' = Drop(1 + 1) /\ nth' = [nth EXCEPT ![1] = @ + 1] /\ step' = "entries"
          /\ UNCHANGED live
     ELSE Refuse(Drop(1 + 1 + 2)) /\ UNCHANGED <<list, nth>>
  /\ UNCHANGED <<call, args, todo, dense, rows, named, bridge>>

-----------------------------------------------------------------------------
(* What was read goes to the broker.                                       *)

Hands(what) == given' = <<what>>

(* Accepted or refused whole: Configure and Registry say which. *)
Register ==
  /\ step = "bridge" /\ call \in Tables
  /\ Hands(rows)
  /\ \/ Answer(<<Nil>>) /\ configured' = (configured \/ call = "configure")
     \/ call = "classes" /\ Answer(<<Nil, Nil>>) /\ UNCHANGED configured
     \/ call # "replies" /\ Refuse(stack) /\ UNCHANGED configured
  /\ UNCHANGED <<call, args, reading, bridgeEpoch>>

Schema ==
  /\ step = "bridge" /\ call = "schema" /\ Hands(Arg(1))
  /\ \/ configured /\ Answer(<<Nil>>)
     \/ Refuse(stack)
  /\ UNCHANGED <<call, args, reading, configured, bridgeEpoch>>

Tick ==
  /\ step = "bridge" /\ call = "tick"
  /\ IF configured /\ Arg(1)[3] # "nan" THEN Hands(Arg(1)) /\ Answer(<<Nil>>)
     ELSE RaiseNow /\ UNCHANGED given
  /\ UNCHANGED <<call, args, reading, configured, bridgeEpoch>>

IsEpoch(v) == IsWhole(v) /\ v[2] \in 1..MaxEpoch

Epoch ==
  /\ step = "check" /\ call = "epoch"
  /\ IF Arg(1) = Nil THEN bridgeEpoch' = 0 /\ Hands(Nil) /\ Answer(<<>>)
     ELSE IF IsEpoch(Arg(1)) THEN bridgeEpoch' = Arg(1)[2] /\ Hands(Arg(1)) /\ Answer(<<>>)
     ELSE RaiseNow /\ UNCHANGED <<bridgeEpoch, given>>
  /\ UNCHANGED <<call, args, reading, configured>>

(* Before the rings exist, and while another thread polls, it is refused. *)
Poll ==
  LET target == Member("poll", Arg(1)) IN
  /\ step = "check" /\ call = "poll"
  /\ IF target = Absent THEN Refuse(stack) /\ UNCHANGED given
     ELSE /\ Hands(target)
          /\ \/ configured /\ (Answer(<<Nil, Nil, Nil>>) \/ Answer(<<Nil>>))
             \/ Refuse(stack)
  /\ UNCHANGED <<call, args, reading, configured, bridgeEpoch>>

ShimNext ==
  \/ \E c \in DOMAIN Calls : \E a \in Calls[c] : Make(c, a)
  \/ CheckType \/ OpenTable \/ NextRow \/ RowsEnd \/ Row \/ RowTokens
  \/ DenseNext \/ DensePair \/ DenseRefused \/ DenseHole \/ DenseEnd
  \/ NextEntry \/ EntriesEnd \/ Entry \/ CapsList \/ ReadCaps
  \/ Register \/ Schema \/ Tick \/ Epoch \/ Poll \/ Over

ShimSpec == ShimInit /\ [][ShimNext]_shimVars

-----------------------------------------------------------------------------
IsList(v)  == DOMAIN v[2] = {Number(n, "whole") : n \in 1..Cardinality(DOMAIN v[2])}
IsCaps(v)  ==
  Type(v) = "table" /\ IsList(v) /\ \A k \in DOMAIN v[2] : Member("configure", v[2][k]) # Absent
IsToken(v) == HasNames(v) /\ IsCaps(FieldOf(v, Str("caps")))
Sound(c, k, v) ==
  /\ KeyTaken(c, k)
  /\ IF IsTokens(c, k, v) THEN IsList(v) /\ \A n \in DOMAIN v[2] : IsToken(v[2][n])
     ELSE RowRead(c, k, v) # Absent

(* A table is read whole or the call is refused with the broker not asked, *)
(* in whatever order Lua walks it and however far in the bad value is: no  *)
(* row, and no token of a list with a hole, is left out without a word.    *)
ReadWhole ==
  call \in Tables =>
    LET t == Arg(1) IN
    /\ given # <<>> =>
         /\ \A k \in DOMAIN t[2] : Sound(call, k, t[2][k])
         /\ call # "replies" => {r[1] : r \in given[1]} = DOMAIN t[2]
         /\ call = "replies" => given[1] = Range(t[2])
         /\ \A r \in given[1] : IsTokens(call, r[1], FieldOf(t, r[1])) =>
              LET tokens == FieldOf(t, r[1])[2] IN
              /\ Len(r[2]) = Cardinality(DOMAIN tokens)
              /\ \A n \in DOMAIN r[2] :
                   r[2][n].id = FieldOf(tokens[Number(n, "whole")], Str("id"))
    /\ step = "raised" /\ given = <<>> =>
         Type(t) # "table" \/ ~HashIsRead \/ \E k \in DOMAIN t[2] : ~Sound(call, k, t[2][k])

(* "Leaves the stack as found": what the readers pushed is popped, on      *)
(* every way out of three nested walks, before an answer or a message is   *)
(* pushed; and a raise crosses no frame that owns anything.                *)
LeavesNothing ==
  /\ step = "bridge" => stack = <<>>
  /\ step = "raised" => Len(stack) <= 1 /\ ~live
  /\ step = "idle" => ~live

(* A call takes what it was given whole, or refuses it, and either way     *)
(* leaves nothing behind.                                                  *)
CallsAreClean == ReadWhole /\ LeavesNothing

(* dense_length's doc: "a hole, or a key that is not a position, [is] a    *)
(* refusal naming the first position that is missing".                     *)
NamesTheFirstMissing ==
  step = "raised" /\ named # 0 =>
    LET tokens == FieldOf(Arg(1), Str("tokens")) IN
    /\ FieldOf(tokens, Number(named, "whole")) = Nil
    /\ \A n \in 1..(named - 1) : FieldOf(tokens, Number(n, "whole")) # Nil

=============================================================================
