----------------------------- MODULE HookDriver -----------------------------
(***************************************************************************)
(* The hook driver, HookDriver.lua, on DCS's logic thread: its start, the  *)
(* callbacks DCS calls one at a time, the dispatch loop with its held      *)
(* record, the reload a command asks for, and the injection of the sim     *)
(* driver at a mission load's end.  Reader threads put commands on its     *)
(* ring and move the kill switch at any moment, and the operator edits the *)
(* configuration file.                                                     *)
(*                                                                         *)
(* A configuration file is a record of what the properties tell apart:     *)
(* whether it reads, whether the broker takes its table, the switch, the   *)
(* dispatch cap, the route, and a memory of recent keys that has to be as  *)
(* deep as the ring whose size the file also gives.                        *)
(***************************************************************************)
EXTENDS Integers, Sequences

CONSTANTS
  None,
  Files,       (* What an operator may save, the defaults among them.      *)
  Defaults,
  Topics,      (* "reload", "command", and one that is "dropped".          *)
  Routes,      (* How the operator installed it: "stock" or "modified".    *)
  MaxEdits, MaxSets, MaxSent, MaxLoads

(* What a configuration file may say. *)
Settings == [reads : BOOLEAN, taken : BOOLEAN, on : BOOLEAN, cap : Nat, route : Routes,
             memory : Nat, ring : Nat]

ASSUME HookDriverAssumption ==
  /\ Files \cup {Defaults} \subseteq Settings /\ Routes = {"stock", "modified"}
  /\ None \notin Settings /\ None \notin Nat

VARIABLES
  pc,          (* The logic thread: a step of start, "idle", a step of a   *)
               (* callback, or "stopped" after a start that failed.        *)
  file,        (* The file as saved, or None.                              *)
  conf,        (* state.broker, state.hook and state.sim.                  *)
  rings,       (* state.rings: the ring's size as start read it.           *)
  on,          (* state.enabled, the switch as last learned.               *)
  refused,     (* state.refused, the latch.                                *)
  held,        (* state.held.                                              *)
  loading,     (* state.loading.                                           *)
  loads,       (* state.loads.                                             *)
  frame,       (* The dispatch loop's cap, ran and record, and the table   *)
               (* of a reload under way.                                   *)
  broker,      (* The broker: bound, the switch, the table it took last,   *)
               (* the ring's size.                                         *)
  ring,        (* The hook driver's inbound ring: commands by number.      *)
  sim,         (* The global the sim driver sets: the epoch it was loaded  *)
               (* for, or None.                                            *)
  installed,   (* The route MissionScripting.lua was edited for.           *)
  budget,      (* What the bounds have left.                               *)
  topicOf,     (* History: the topic of each command sent.                 *)
  done,        (* History: the commands handled, in order.                 *)
  runs         (* History: how often the sim driver ran since the load     *)
               (* began.                                                   *)

driverVars   == <<conf, rings, on, refused, held, loading, loads, frame>>
brokerVars   == <<broker, ring, topicOf>>
vars == <<pc, file, driverVars, brokerVars, sim, installed, budget, done, runs>>

NoEpoch == 0
NoFrame == [cap |-> 0, ran |-> 0, record |-> None, table |-> None]

Init ==
  /\ pc = "read" /\ file \in Files \cup {None} /\ conf = None /\ rings = 0
  /\ on = TRUE /\ refused = FALSE /\ held = None /\ loading = FALSE /\ loads = 0
  /\ frame = NoFrame
  /\ broker = [bound |-> FALSE, on |-> TRUE, table |-> None, size |-> 0]
  /\ ring = <<>> /\ topicOf = <<>> /\ done = <<>>
  /\ sim = None /\ installed \in Routes
  /\ file # None => file.route = installed
  /\ file = None => Defaults.route = installed
  /\ budget = [edits |-> MaxEdits, sets |-> MaxSets, sent |-> MaxSent]
  /\ runs = 0

-----------------------------------------------------------------------------
(* config.read: the file over the defaults, checked with the ring's size   *)
(* in force where one is.                                                  *)

Valid(f, size) == f.reads /\ f.cap >= 1 /\ f.memory >= size

-----------------------------------------------------------------------------
(* start.                                                                  *)

Stop == pc' = "stopped"

StartRead ==
  LET f == IF file = None THEN Defaults ELSE file IN
  /\ pc = "read"
  /\ IF Valid(f, f.ring)
     THEN pc' = "open" /\ conf' = f /\ rings' = f.ring
     ELSE Stop /\ UNCHANGED <<conf, rings>>
  /\ UNCHANGED <<file, on, refused, held, loading, loads, frame, brokerVars, sim, installed,
                 budget, done, runs>>

(* The module, its interface, the generated file, the schema's bytes and   *)
(* the callbacks: whatever fails of these, nothing is bound yet.           *)
StartOpen ==
  /\ pc = "open" /\ pc' \in {"configure", "stopped"}
  /\ UNCHANGED <<file, driverVars, brokerVars, sim, installed, budget, done, runs>>

StartConfigure ==
  /\ pc = "configure"
  /\ IF conf.taken
     THEN /\ broker' = [bound |-> TRUE, on |-> conf.on, table |-> conf, size |-> conf.ring]
          /\ pc' = "switch"
     ELSE Stop /\ UNCHANGED broker
  /\ UNCHANGED <<file, driverVars, ring, topicOf, sim, installed, budget, done, runs>>

StartSwitch ==
  /\ pc = "switch" /\ on' = conf.on /\ pc' = "register"
  /\ UNCHANGED <<file, conf, rings, refused, held, loading, loads, frame, brokerVars, sim,
                 installed, budget, done, runs>>

(* The schema, the tables and the extension files; only then do callbacks  *)
(* run their bodies.                                                       *)
StartRest ==
  /\ pc = "register" /\ pc' \in {"idle", "stopped"}
  /\ UNCHANGED <<file, driverVars, brokerVars, sim, installed, budget, done, runs>>

-----------------------------------------------------------------------------
(* The callbacks.  reads: the clock answered a finite number, so hear took *)
(* a tick and the switch from its answer.                                  *)

Enabled == on /\ ~refused

(* Mutant: the tick's answer is not read. *)
Hear_Deaf(reads) == UNCHANGED on

Hear(reads) == on' = IF reads THEN broker.on ELSE on

(* Mutant: a clock that does not read raises ahead of the dispatch. *)
Frame_RaisesFirst(reads) ==
  /\ pc = "idle" /\ Hear(reads) /\ loading' = FALSE /\ pc' = IF reads THEN "dispatch" ELSE "idle"
  /\ UNCHANGED <<file, conf, rings, refused, held, loads, frame, brokerVars, sim,
                 installed, budget, done, runs>>

Frame(reads) ==
  /\ pc = "idle" /\ Hear(reads) /\ loading' = FALSE /\ pc' = "dispatch"
  /\ UNCHANGED <<file, conf, rings, refused, held, loads, frame, brokerVars, sim,
                 installed, budget, done, runs>>

Player ==
  /\ pc = "idle" /\ pc' = "dispatch"
  /\ UNCHANGED <<file, driverVars, brokerVars, sim, installed, budget, done, runs>>

(* DCS may make the mission's Lua states anew.  On the modified route it   *)
(* does, and MissionScripting.lua runs the sim driver, which reads the     *)
(* file as it is now and loads with no epoch, or leaves no global.         *)
Bootstrapped == IF file = None \/ file.reads THEN NoEpoch ELSE None

LoadBegin ==
  /\ pc = "idle" /\ loads < MaxLoads
  /\ loading' = TRUE
  /\ sim' \in IF installed = "modified" THEN {Bootstrapped} ELSE {sim, None}
  /\ runs' = IF installed = "modified" THEN 1 ELSE 0
  /\ UNCHANGED <<pc, file, conf, rings, on, refused, held, loads, frame, brokerVars,
                 installed, budget, done>>

LoadEnd(reads) ==
  /\ pc = "idle" /\ loads < MaxLoads
  /\ loading' = FALSE /\ Hear(reads) /\ loads' = loads + 1 /\ pc' = "inject"
  /\ runs' = IF loading THEN runs ELSE 0
  /\ UNCHANGED <<file, conf, rings, refused, held, frame, brokerVars, sim, installed,
                 budget, done>>

-----------------------------------------------------------------------------
(* inject, for the epoch the count of loads is.                            *)

(* What the chunk's answer may be read as: the epoch it was sent, another  *)
(* one, a failure, no answer, and a policy's refusal.  Only the last, and  *)
(* a net that is not there, latch the driver off.                          *)
Injected(ran, epoch, latch) ==
  /\ pc = "inject" /\ Enabled /\ conf.route = "stock"
  /\ pc' = "dispatch"
  /\ refused' = (refused \/ latch) /\ sim' = epoch
  /\ runs' = IF ran THEN runs + 1 ELSE runs
  /\ UNCHANGED <<file, conf, rings, on, held, loading, loads, frame, brokerVars, installed,
                 budget, done>>

InjectLoads   == Injected(TRUE, loads, FALSE)
(* It ran, and raised or set nothing. *)
InjectFails   == Injected(TRUE, sim, FALSE)
(* No chunk, no such state, or an answer with no sign of a run. *)
InjectMisses  == Injected(FALSE, sim, FALSE)
InjectRefused == Injected(FALSE, sim, TRUE)

InjectSkips ==
  /\ pc = "inject" /\ ~(Enabled /\ conf.route = "stock")
  /\ pc' = "dispatch"
  /\ UNCHANGED <<file, driverVars, brokerVars, sim, installed, budget, done, runs>>

-----------------------------------------------------------------------------
(* dispatch.                                                               *)

Dispatch ==
  /\ pc = "dispatch"
  /\ IF loading THEN pc' = "idle" /\ UNCHANGED <<held, frame>>
     ELSE /\ frame' = [cap |-> conf.cap, ran |-> 0, record |-> held, table |-> None]
          /\ held' = None /\ pc' = "take"
  /\ UNCHANGED <<file, conf, rings, on, refused, loading, loads, brokerVars, sim, installed,
                 budget, done, runs>>

Next_record == IF frame.record # None THEN frame.record ELSE Head(ring)
Empty       == frame.record = None /\ ring = <<>>

Popped == ring' = IF frame.record = None /\ ring # <<>> THEN Tail(ring) ELSE ring

TakeNone ==
  /\ pc = "take" /\ Empty /\ pc' = "idle" /\ frame' = NoFrame
  /\ UNCHANGED <<file, conf, rings, on, refused, held, loading, loads, brokerVars, sim,
                 installed, budget, done, runs>>

(* Mutant: the record popped past the cap is forgotten. *)
TakeHolds_Drops ==
  /\ pc = "take" /\ ~Empty /\ frame.ran >= frame.cap
  /\ Popped /\ pc' = "idle" /\ frame' = NoFrame
  /\ UNCHANGED <<file, conf, rings, on, refused, held, loading, loads, broker, topicOf, sim,
                 installed, budget, done, runs>>

(* At the cap one more is popped, and held for the next invocation. *)
TakeHolds ==
  /\ pc = "take" /\ ~Empty /\ frame.ran >= frame.cap
  /\ Popped /\ held' = Next_record /\ pc' = "idle" /\ frame' = NoFrame
  /\ UNCHANGED <<file, conf, rings, on, refused, loading, loads, broker, topicOf, sim,
                 installed, budget, done, runs>>

Take ==
  /\ pc = "take" /\ ~Empty /\ frame.ran < frame.cap
  /\ Popped /\ pc' = "handle"
  /\ frame' = [frame EXCEPT !.ran = @ + 1, !.record = Next_record]
  /\ UNCHANGED <<file, conf, rings, on, refused, held, loading, loads, broker, topicOf, sim,
                 installed, budget, done, runs>>

Handled(what) ==
  /\ done' = Append(done, [n |-> frame.record, what |-> what])
  /\ frame' = [frame EXCEPT !.record = None, !.table = None]
  /\ pc' = "take"

(* handle, of any other topic than ReloadConfig: discarded when disabled,  *)
(* dropped without a handler or a decoder or when either raises, or run.   *)
Handle ==
  LET topic == topicOf[frame.record] IN
  /\ pc = "handle" /\ topic # "reload"
  /\ Handled(IF ~Enabled THEN "discarded" ELSE IF topic = "command" THEN "run" ELSE "dropped")
  /\ UNCHANGED <<file, conf, rings, on, refused, held, loading, loads, brokerVars, sim,
                 installed, budget, runs>>

(* reload: the file is read, and given to the broker, and only then kept.  *)
(* Absent, it changes nothing.                                             *)
ReloadRead ==
  /\ pc = "handle" /\ topicOf[frame.record] = "reload"
  /\ IF file # None /\ Valid(file, rings)
     THEN pc' = "reload" /\ frame' = [frame EXCEPT !.table = file] /\ UNCHANGED done
     ELSE Handled("refused")
  /\ UNCHANGED <<file, conf, rings, on, refused, held, loading, loads, brokerVars, sim,
                 installed, budget, runs>>

ReloadConfigure ==
  /\ pc = "reload"
  /\ IF frame.table.taken
     THEN /\ broker' = [broker EXCEPT !.on = frame.table.on, !.table = frame.table]
          /\ pc' = "store" /\ UNCHANGED <<frame, done>>
     ELSE Handled("refused") /\ UNCHANGED broker
  /\ UNCHANGED <<file, conf, rings, on, refused, held, loading, loads, ring, topicOf, sim,
                 installed, budget, runs>>

(* Mutant: a reload moves the route. *)
Pending_Nothing(running, f) == f

(* config.pending: what a reload does not move is kept as it runs. *)
Pending(running, f) == [f EXCEPT !.route = running.route]

(* Mutant: the switch is left to the next tick, and the keys to the next. *)
ReloadStore_SwitchOnly ==
  /\ pc = "store" /\ on' = frame.table.on /\ Handled("reloaded")
  /\ UNCHANGED <<file, conf, rings, refused, held, loading, loads, brokerVars, sim, installed,
                 budget, runs>>

ReloadStore ==
  /\ pc = "store"
  /\ conf' = Pending(conf, frame.table) /\ on' = frame.table.on
  /\ Handled("reloaded")
  /\ UNCHANGED <<file, rings, refused, held, loading, loads, brokerVars, sim, installed,
                 budget, runs>>

LogicStep ==
  \/ StartRead \/ StartOpen \/ StartConfigure \/ StartSwitch \/ StartRest
  \/ InjectLoads \/ InjectFails \/ InjectMisses \/ InjectRefused \/ InjectSkips
  \/ Dispatch \/ TakeNone \/ TakeHolds \/ Take \/ Handle
  \/ ReloadRead \/ ReloadConfigure \/ ReloadStore

Callback ==
  \/ \E reads \in BOOLEAN : Frame(reads) \/ LoadEnd(reads)
  \/ Player \/ LoadBegin

-----------------------------------------------------------------------------
(* The other threads, and the operator.                                    *)

SetEnabled(to) ==
  /\ broker.bound /\ budget.sets > 0
  /\ broker' = [broker EXCEPT !.on = to] /\ budget' = [budget EXCEPT !.sets = @ - 1]
  /\ UNCHANGED <<pc, file, driverVars, ring, topicOf, sim, installed, done, runs>>

Deliver(topic) ==
  /\ broker.bound /\ budget.sent > 0 /\ Len(ring) < broker.size
  /\ topicOf' = Append(topicOf, topic) /\ ring' = Append(ring, Len(topicOf) + 1)
  /\ budget' = [budget EXCEPT !.sent = @ - 1]
  /\ UNCHANGED <<pc, file, driverVars, broker, sim, installed, done, runs>>

(* Once start has read the file: what was saved before it is Init's. *)
EditFile ==
  /\ pc # "read" /\ budget.edits > 0 /\ budget' = [budget EXCEPT !.edits = @ - 1]
  /\ file' \in (Files \cup {None}) \ {file}
  /\ UNCHANGED <<pc, driverVars, brokerVars, sim, installed, done, runs>>

Outside ==
  \/ \E to \in BOOLEAN : SetEnabled(to)
  \/ \E topic \in Topics : Deliver(topic)
  \/ EditFile

Next == LogicStep \/ Callback \/ Outside

(* DCS goes on calling frames, and a callback it called runs on.  The      *)
(* clock answers in infinitely many of the frames, or fails in infinitely  *)
(* many: it may stop for good.                                             *)
ClockAnswers == SF_vars(Frame(TRUE))
ClockFails   == SF_vars(Frame(FALSE))

Spec == Init /\ [][Next]_vars /\ WF_vars(LogicStep) /\ (ClockAnswers \/ ClockFails)

-----------------------------------------------------------------------------
Numbers == [i \in DOMAIN done |-> done[i].n]

InHand ==
  (IF frame.record = None THEN <<>> ELSE <<frame.record>>)
  \o (IF held = None THEN <<>> ELSE <<held>>)

(* A command the broker stored is handled once, in its ring's order:       *)
(* whatever the cap, the callbacks it is spread over, a load that holds it *)
(* up, or the reload it is or waits behind.                                *)
EachCommandOnce == Numbers \o InHand \o ring = [n \in 1..Len(topicOf) |-> n]

(* The hook driver and the broker run on the same file, but for the moment *)
(* between the two halves of a reload; a file that is absent, does not     *)
(* read, or is refused by the broker leaves both where they were.  The     *)
(* route is what DCS was started with.                                     *)
OneConfiguration ==
  broker.bound =>
    /\ pc # "store" => conf = [broker.table EXCEPT !.route = conf.route]
    /\ conf.route = installed

(* "The two recent-key memories have to be as deep as the ring that can    *)
(* hold a duplicate": the ring as it was allocated, not as a later file    *)
(* names it.                                                               *)
MemoryCoversRing == broker.bound => conf.memory >= broker.size

(* The configuration the driver runs on is the broker's, and covers what   *)
(* the broker allocated.                                                   *)
FileIsInForce == OneConfiguration /\ MemoryCoversRing

(* The sim driver runs once at most in a load, by one route: whatever the  *)
(* file says of the route by then, and however the injection fails.  And   *)
(* DCS's refusal is the last it hears of it, a switch turned off and on or *)
(* a reload in between notwithstanding.                                    *)
SimDriverOnce ==
  [][/\ runs' <= 1
     /\ runs' > runs /\ pc = "inject" => ~refused]_vars

(* Every command stored is handled (MaxSent of them come in all), a load   *)
(* that never ends, a clock that has stopped for good and a cap of one     *)
(* notwithstanding: "a broken clock does not stop the commands".           *)
EveryCommandIsHandled == (pc = "idle") ~> (Len(done) = Len(topicOf))

(* Once SetEnabled and reloads cease, the hook driver comes to hold the    *)
(* switch where the broker has it, although a SetEnabled between the two   *)
(* halves of a reload had them disagree.  It is heard with the tick, and   *)
(* so needs a clock that answers.                                          *)
SwitchIsHeard == ClockAnswers => <>[](pc = "stopped" \/ on = broker.on)

=============================================================================
