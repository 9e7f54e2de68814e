------------------------------- MODULE Inbound -------------------------------
(***************************************************************************)
(* What a reader thread does with the frames of its connection: serve of   *)
(* crates/broker/src/inbound.rs, and what it asks of the Bridge of         *)
(* state.rs, beside the logic thread that registers, polls and ticks.      *)
(*                                                                         *)
(* Connection has how a reader begins and ends; here it ends by going to   *)
(* "closed".  A record for Lua passes its connection's window, everyone's, *)
(* the registry, and a ring, each under a lock of its own or none, and the *)
(* other threads move in between.                                          *)
(***************************************************************************)
EXTENDS Registry, Envelope, Functions

CONSTANTS
  Consumers,
  Second,     (* The ticks of the clock in a window's second.              *)
  Setups      (* What is tried: see MCInbound.                             *)

(* The live keys a reader reads; the code refuses an interval of zero.     *)
Limits ==
  [rate : Nat, total : Nat, rejected : Nat, busy : Nat, filter : Nat, frame : Nat, url : Nat,
   interval : Nat \ {0}, threshold : Nat]

(* The rows of a table, by the map it is for. *)
IsTable(table) ==
  \/ table.map = "classes" /\ table.rows \subseteq Topics \X Classes
  \/ table.map = "routes"  /\ table.rows \subseteq Topics \X Targets
  \/ table.map = "caps"    /\ table.rows \subseteq Topics \X Capabilities
  \/ table.map = "replies" /\ table.rows \subseteq Topics

ASSUME InboundAssumption ==
  /\ IsFiniteSet(Consumers) /\ IsFiniteSet(Topics) /\ Second \in Nat \ {0}
  /\ \A s \in Setups :
       /\ s.session \in BOOLEAN /\ s.maxClock \in Nat /\ s.capacity \in [Targets -> Nat]
       /\ s.limits # <<>> /\ s.limits \in Seq(Limits)
       /\ \A table \in s.tables : IsTable(table)
       /\ \A m \in s.messages :
            /\ IsFrame(m.body)
            /\ m.kind = "auth" => m.good \in BOOLEAN
            /\ m.kind = "enabled" /\ m.decodes => m.enabled \in BOOLEAN

VARIABLES
  setup,      (* The setup of this behaviour; never changes.               *)
  clock,
  inForce,    (* Which of the setup's live keys are in force.              *)
  enabled,    (* The enabled key.                                          *)
  reader,     (* Per connection: where serve is, and its locals.           *)
  windows,    (* Per connection: its rate and its two refusal windows.     *)
  total,      (* Bridge.inbound_total.                                     *)
  lane,       (* Per target: the ring's records, and one being taken out.  *)
  counts,     (* Bridge's counters.                                        *)
  answers,    (* Per connection: what was sent to the control channel.     *)
  heartbeat,  (* Bridge.heartbeat: zero, or a time plus one.               *)
  logic,      (* The logic thread: idle, or inside poll or tick.           *)
  fate,       (* History: per connection, what became of each record.      *)
  polled,     (* History: per target, what poll handed to Lua.             *)
  admitted,   (* History: when each rate's window let a record in.         *)
  ticked      (* History: the last tick's time and interval.               *)

readVars  == <<reader, windows, answers, fate>>
countVars == <<total, counts, admitted>>
logicVars == <<heartbeat, logic, polled, ticked>>
vars      == <<setup, clock, inForce, enabled, lane, readVars, countVars, logicVars,
               registryVars, openVars>>

Reasons == {"UnknownTopic", "NoCapability", "RateLimited", "Busy"}
Never   == [at |-> -1, interval |-> 0]
NoMsg   == [kind |-> "none"]
Fresh   == [since |-> 0, count |-> 0]

limits  == setup.limits[inForce]

AtRest  == [pc |-> "reading", session |-> FALSE, seq |-> 0, msg |-> NoMsg, now |-> 0,
            cap |-> 0, reason |-> "", heart |-> 0, tick |-> Never]

Init ==
  /\ RegistryInit
  /\ setup \in Setups /\ clock = 0 /\ enabled = TRUE
  /\ inForce = 1
  /\ reader = [c \in Consumers |-> [AtRest EXCEPT !.session = setup.session]]
  /\ windows = [c \in Consumers |-> [own |-> Fresh, rejected |-> Fresh, busy |-> Fresh]]
  /\ total = Fresh
  /\ lane = [t \in Targets |-> [queue |-> <<>>, leaving |-> FALSE]]
  /\ counts = [unrouted |-> 0, busy |-> [t \in Targets |-> 0], suppressed |-> 0, acks |-> 0,
               rejected |-> [r \in Reasons |-> 0]]
  /\ answers = [c \in Consumers |-> <<>>] /\ fate = [c \in Consumers |-> <<>>]
  /\ heartbeat = 0 /\ ticked = Never /\ logic = [pc |-> "idle"]
  /\ polled = [t \in Targets |-> <<>>]
  /\ admitted = [own |-> [c \in Consumers |-> <<>>], total |-> <<>>]

-----------------------------------------------------------------------------
(* Window::admit.  A clock read before another thread opened the window is *)
(* behind its start, and no time has passed.                               *)

(* Mutant: the second is over one tick late. *)
Opened_Late(w, now) == IF now - w.since > Second THEN [since |-> now, count |-> 0] ELSE w

Opened(w, now) == IF now - w.since >= Second THEN [since |-> now, count |-> 0] ELSE w

Admits(w, now, cap) == Opened(w, now).count < cap

After(w, now, cap) ==
  [Opened(w, now) EXCEPT !.count = IF Admits(w, now, cap) THEN @ + 1 ELSE @]

-----------------------------------------------------------------------------
(* A frame arrives.                                                        *)

To(c, pc)      == reader' = [reader EXCEPT ![c].pc = pc]
ReadOn(c)      == reader' = [reader EXCEPT ![c] = [AtRest EXCEPT !.session = reader[c].session,
                                                                     !.seq = reader[c].seq]]
Answer(c, a)   == answers' = [answers EXCEPT ![c] = Append(@, a)]
Caps(c)        == setup.tokens[c]
TakenIn(c, m)  == [reader[c] EXCEPT !.seq = @ + 1, !.msg = m]

(* Every frame is checked against the caps in force when it has arrived.   *)
Arrives(c, m) ==
  /\ reader[c].pc = "reading" /\ reader[c].seq < setup.sends[c]
  /\ m \in setup.messages

Fits(m) == m.frame <= limits.frame /\ check_type_url(m.body, limits.url)

(* What serve closes the connection for. *)
Closes(c, m) ==
  \/ ~Fits(m) \/ ~Decodes(m.body) \/ Payloads(m.body) = {}
  \/ ~reader[c].session /\ m.kind \notin {"ping", "auth"}
  \/ reader[c].session /\ m.kind = "auth"
  \/ ~m.decodes /\ m.kind \in {"auth", "ack", "enabled"}

Accepted(c, m, kind) == Arrives(c, m) /\ m.kind = kind /\ ~Closes(c, m)

ReadAndClose(c, m) ==
  /\ Arrives(c, m) /\ Closes(c, m)
  /\ reader' = [reader EXCEPT ![c] = [TakenIn(c, m) EXCEPT !.pc = "closed"]]
  /\ UNCHANGED <<setup, clock, inForce, enabled, lane, windows, answers, fate, countVars,
                 logicVars, registryVars, openVars>>

(* Messages answered at once. *)
Quick(c, m) ==
  /\ reader' = [reader EXCEPT ![c] = [TakenIn(c, m) EXCEPT !.msg = NoMsg]]
  /\ UNCHANGED <<setup, clock, inForce, lane, windows, fate, total, admitted,
                 logicVars, registryVars, openVars>>

ReadAuth(c, m) ==
  /\ Accepted(c, m, "auth")
  /\ reader' = [reader EXCEPT ![c] = [TakenIn(c, NoMsg) EXCEPT
                  !.session = m.good, !.pc = IF m.good THEN "reading" ELSE "closed"]]
  /\ Answer(c, [kind |-> "auth", ok |-> m.good])
  /\ UNCHANGED <<setup, clock, inForce, enabled, lane, windows, fate, countVars,
                 logicVars, registryVars, openVars>>

ReadGetSchema(c, m) ==
  /\ Accepted(c, m, "schema") /\ Quick(c, m)
  /\ Answer(c, [kind |-> "schema"]) /\ UNCHANGED <<enabled, counts>>

ReadSeqAck(c, m) ==
  /\ Accepted(c, m, "ack") /\ Quick(c, m)
  /\ counts' = [counts EXCEPT !.acks = @ + 1] /\ UNCHANGED <<enabled, answers>>

ReadGetTopics(c, m) ==
  /\ Accepted(c, m, "topics") /\ Quick(c, m)
  /\ Answer(c, [kind |-> "topics", listed |-> Listed(Caps(c))])
  /\ UNCHANGED <<enabled, counts>>

(* Why a filter is refused whole, or nothing. *)
FilterRefusal(m) ==
  IF ~m.decodes \/ m.mode = "unheard-of" THEN "Malformed"
  ELSE IF m.mode = "none" THEN "NoMode"
  ELSE IF m.mode = "all" /\ m.topics # {} THEN "ListWithAll"
  ELSE IF m.mode = "only" /\ Cardinality(m.topics) > limits.filter THEN "TooMany"
  ELSE "nothing"

ReadSetTopicFilter(c, m) ==
  LET filter == [all |-> m.mode = "all", topics |-> m.topics] IN
  /\ Accepted(c, m, "filter") /\ Quick(c, m)
  /\ Answer(c, IF FilterRefusal(m) # "nothing"
               THEN [kind |-> "filter", refusal |-> FilterRefusal(m)]
               ELSE [kind |-> "filter", refusal |-> "nothing", filter |-> filter,
                     admitted |-> Cardinality(AdmittedTopics(Caps(c), filter)),
                     unknown |-> Unknown(Caps(c), filter)])
  /\ UNCHANGED <<enabled, counts>>

(* A token without the capability leaves the switch alone and is refused.  *)
ReadSetEnabled(c, m) ==
  /\ Accepted(c, m, "enabled")
  /\ IF "reload" \in Caps(c)
     THEN /\ enabled' = m.enabled /\ Quick(c, m) /\ UNCHANGED <<counts, answers>>
     ELSE /\ reader' = [reader EXCEPT ![c] = [TakenIn(c, m) EXCEPT
                          !.pc = "refuse", !.reason = "NoCapability"]]
          /\ fate' = [fate EXCEPT ![c] = Append(@, "pending")]
          /\ UNCHANGED <<setup, clock, inForce, enabled, lane, windows, answers, countVars,
                         logicVars, registryVars, openVars>>

-----------------------------------------------------------------------------
(* A record for Lua.                                                       *)

(* Its own rate, under the limits read with the clock; both are kept for   *)
(* the total.                                                              *)
ReadRecord(c, m) ==
  LET w == windows[c].own  ok == Admits(w, clock, limits.rate) IN
  /\ Accepted(c, m, "record")
  /\ windows' = [windows EXCEPT ![c].own = After(w, clock, limits.rate)]
  /\ admitted' = [admitted EXCEPT !.own[c] = IF ok THEN Append(@, clock) ELSE @]
  /\ fate' = [fate EXCEPT ![c] = Append(@, "pending")]
  /\ reader' = [reader EXCEPT ![c] = [TakenIn(c, m) EXCEPT
                  !.pc = IF ok THEN "total" ELSE "refuse",
                  !.reason = IF ok THEN "" ELSE "RateLimited",
                  !.now = clock, !.cap = limits.total]]
  /\ UNCHANGED <<setup, clock, inForce, enabled, lane, answers, total, counts, logicVars,
                 registryVars, openVars>>

Became(c, what) == fate' = [fate EXCEPT ![c][Len(fate[c])] = what]

(* Everyone's rate: over it the connection is closed, the record with it.  *)
Total(c) ==
  LET r == reader[c]  ok == Admits(total, r.now, r.cap) IN
  /\ r.pc = "total"
  /\ total' = After(total, r.now, r.cap)
  /\ admitted' = [admitted EXCEPT !.total = IF ok THEN Append(@, clock) ELSE @]
  /\ IF ok THEN To(c, "lookup") /\ UNCHANGED fate ELSE To(c, "closed") /\ Became(c, "closed")
  /\ UNCHANGED <<setup, clock, inForce, enabled, lane, windows, answers, counts, logicVars,
                 registryVars, openVars>>

Refusing(c, why) == reader' = [reader EXCEPT ![c].pc = "refuse", ![c].reason = why]

(* Mutant: a topic with no capability registered is anyone's. *)
Lookup_FailsOpen(c) ==
  LET t == reader[c].msg.topic IN
  /\ reader[c].pc = "lookup"
  /\ IF t \notin DOMAIN routes
     THEN Refusing(c, "UnknownTopic") /\ counts' = [counts EXCEPT !.unrouted = @ + 1]
     ELSE /\ IF t \notin DOMAIN caps \/ caps[t] \in Caps(c) THEN To(c, "offer")
             ELSE Refusing(c, "NoCapability")
          /\ UNCHANGED counts
  /\ UNCHANGED <<setup, clock, inForce, enabled, lane, windows, answers, fate, total,
                 admitted, logicVars, registryVars, openVars>>

(* deliver, first half: the route and the capability, under the read lock. *)
Lookup(c) ==
  LET t == reader[c].msg.topic IN
  /\ reader[c].pc = "lookup"
  /\ IF t \notin DOMAIN routes
     THEN Refusing(c, "UnknownTopic") /\ counts' = [counts EXCEPT !.unrouted = @ + 1]
     ELSE /\ IF Covers(Caps(c), t) THEN To(c, "offer") ELSE Refusing(c, "NoCapability")
          /\ UNCHANGED counts
  /\ UNCHANGED <<setup, clock, inForce, enabled, lane, windows, answers, fate, total,
                 admitted, logicVars, registryVars, openVars>>

(* Command::from_envelope: whose record it is, and which. *)
Command(c) == <<c, Len(fate[c])>>

InLane(t) == Len(lane[t].queue) + (IF lane[t].leaving THEN 1 ELSE 0)

(* deliver, second half: the ring of the route, under its producer's lock. *)
Offer(c) ==
  LET t == routes[reader[c].msg.topic] IN
  /\ reader[c].pc = "offer"
  /\ IF InLane(t) < setup.capacity[t]
     THEN /\ lane' = [lane EXCEPT ![t].queue = Append(@, Command(c))]
          /\ ReadOn(c) /\ Became(c, "stored") /\ UNCHANGED counts
     ELSE /\ counts' = [counts EXCEPT !.busy[t] = @ + 1]
          /\ Refusing(c, "Busy") /\ UNCHANGED <<lane, fate>>
  /\ UNCHANGED <<setup, clock, inForce, enabled, windows, answers, total, admitted,
                 logicVars, registryVars, openVars>>

Kind(why) == IF why = "Busy" THEN "busy" ELSE "rejected"

Tally(why, told) ==
  [counts EXCEPT !.rejected[why] = @ + 1, !.suppressed = IF told THEN @ ELSE @ + 1]

(* refuse: answered if the cap on its kind admits one more, counted always. *)
Refuse(c) ==
  LET why == reader[c].reason
      w   == windows[c][Kind(why)]
      cap == limits[Kind(why)]
      ok  == Admits(w, clock, cap)
  IN
  /\ reader[c].pc = "refuse" /\ ReadOn(c)
  /\ windows' = [windows EXCEPT ![c][Kind(why)] = After(w, clock, cap)]
  /\ Became(c, why)
  /\ IF ok THEN Answer(c, [kind |-> "rejected", record |-> Len(fate[c]), why |-> why, at |-> clock])
     ELSE UNCHANGED answers
  /\ counts' = Tally(why, ok)
  /\ UNCHANGED <<setup, clock, inForce, enabled, lane, total, admitted, logicVars,
                 registryVars, openVars>>

-----------------------------------------------------------------------------
(* A Ping: liveness reads the clock, then the heartbeat, then the keys.    *)

ReadPing(c, m) ==
  /\ Accepted(c, m, "ping")
  /\ reader' = [reader EXCEPT ![c] = [TakenIn(c, m) EXCEPT !.pc = "heart", !.now = clock]]
  /\ UNCHANGED <<setup, clock, inForce, enabled, lane, windows, answers, fate, countVars,
                 logicVars, registryVars, openVars>>

LoadHeartbeat(c) ==
  /\ reader[c].pc = "heart"
  /\ reader' = [reader EXCEPT ![c].pc = "pong", ![c].heart = heartbeat, ![c].tick = ticked]
  /\ UNCHANGED <<setup, clock, inForce, enabled, lane, windows, answers, fate, countVars,
                 logicVars, registryVars, openVars>>

(* A stamp newer than the clock that was read is an age of none. *)
Alive(r, threshold) == r.heart # 0 /\ r.now - (r.heart - 1) < threshold

Pong(c) ==
  LET r == reader[c] IN
  /\ r.pc = "pong" /\ ReadOn(c)
  /\ Answer(c, [kind |-> "pong", alive |-> Alive(r, limits.threshold), enabled |-> enabled,
                now |-> r.now, tick |-> r.tick, threshold |-> limits.threshold])
  /\ UNCHANGED <<setup, clock, inForce, enabled, lane, windows, fate, countVars,
                 logicVars, registryVars, openVars>>

ReaderStep(c) ==
  \/ \E m \in setup.messages :
       ReadAndClose(c, m) \/ ReadAuth(c, m) \/ ReadGetSchema(c, m) \/ ReadSeqAck(c, m)
         \/ ReadGetTopics(c, m) \/ ReadSetTopicFilter(c, m) \/ ReadSetEnabled(c, m)
         \/ ReadRecord(c, m) \/ ReadPing(c, m)
  \/ Total(c) \/ Lookup(c) \/ Offer(c) \/ Refuse(c) \/ LoadHeartbeat(c) \/ Pong(c)

-----------------------------------------------------------------------------
(* The logic thread.                                                       *)

Others == <<setup, clock, inForce, enabled, readVars, countVars>>

Idle == logic.pc = "idle"

Register(table) ==
  /\ Idle
  /\ \/ table.map = "classes" /\ RegisterClasses(table.rows)
     \/ table.map = "routes"  /\ RegisterRoutes(table.rows)
     \/ table.map = "caps"    /\ RegisterCaps(table.rows)
     \/ table.map = "replies" /\ RegisterReplies(table.rows)
  /\ UNCHANGED <<Others, lane, logicVars>>

OpenRecord(t) ==
  /\ Idle /\ partial_registration + misaddressed < setup.opens
  /\ Begin(t) \/ BeginTo(t)
  /\ UNCHANGED <<Others, lane, logicVars>>

PollTake(t) ==
  /\ Idle /\ lane[t].queue # <<>>
  /\ polled' = [polled EXCEPT ![t] = Append(@, Head(lane[t].queue))]
  /\ lane' = [lane EXCEPT ![t] = [queue |-> Tail(@.queue), leaving |-> TRUE]]
  /\ logic' = [pc |-> "poll", target |-> t]
  /\ UNCHANGED <<Others, heartbeat, ticked, registryVars, openVars>>

PollReturn ==
  /\ logic.pc = "poll"
  /\ lane' = [lane EXCEPT ![logic.target].leaving = FALSE]
  /\ logic' = [pc |-> "idle"]
  /\ UNCHANGED <<Others, heartbeat, ticked, polled, registryVars, openVars>>

(* shim.tick: the clock, and then the stamp, if one is due. *)
TickCall ==
  /\ Idle /\ setup.ticks
  /\ logic' = [pc |-> "tick", now |-> clock]
  /\ UNCHANGED <<Others, lane, heartbeat, polled, ticked, registryVars, openVars>>

TickStamp ==
  /\ logic.pc = "tick" /\ logic' = [pc |-> "idle"]
  /\ heartbeat' = IF heartbeat = 0 \/ logic.now - (heartbeat - 1) >= limits.interval
                  THEN logic.now + 1 ELSE heartbeat
  /\ ticked' = [at |-> logic.now, interval |-> limits.interval]
  /\ UNCHANGED <<Others, lane, polled, registryVars, openVars>>

LogicStep ==
  \/ \E table \in setup.tables : Register(table)
  \/ \E t \in Topics \cup {Ack} : OpenRecord(t)
  \/ \E t \in Targets : PollTake(t)
  \/ PollReturn \/ TickCall \/ TickStamp

-----------------------------------------------------------------------------
TimePasses ==
  /\ clock < setup.maxClock /\ clock' = clock + 1
  /\ UNCHANGED <<setup, inForce, enabled, lane, readVars, countVars, logicVars,
                 registryVars, openVars>>

(* A later configure replaces the live keys; Configure has the call.       *)
Configure ==
  /\ inForce < Len(setup.limits) /\ inForce' = inForce + 1
  /\ UNCHANGED <<setup, clock, enabled, lane, readVars, countVars, logicVars,
                 registryVars, openVars>>

Next == (\E c \in Consumers : ReaderStep(c)) \/ LogicStep \/ TimePasses \/ Configure

Spec == Init /\ [][Next]_vars

-----------------------------------------------------------------------------
(* Every variable ranges over the values its field can hold, and no ring   *)
(* is over its capacity.                                                   *)
TypeOK ==
  /\ clock \in 0..setup.maxClock /\ inForce \in DOMAIN setup.limits /\ enabled \in BOOLEAN
  /\ \A c \in Consumers :
       /\ reader[c].pc \in {"reading", "total", "lookup", "offer", "refuse", "heart", "pong", "closed"}
       /\ reader[c].reason \in Reasons \cup {""}
       /\ fate[c] \in Seq(Reasons \cup {"pending", "stored", "closed"})
  /\ \A t \in Targets : InLane(t) <= setup.capacity[t]
  /\ logic.pc \in {"idle", "poll", "tick"} /\ heartbeat \in Nat
  /\ Range(classes) \subseteq Classes /\ Range(routes) \subseteq Targets
  /\ Range(caps) \subseteq Capabilities

Records(c, whys) == {n \in DOMAIN fate[c] : fate[c][n] \in whys}
Refused(whys)    == UNION {{c} \X Records(c, whys) : c \in Consumers}
At(pc, why)      == {c \in Consumers : reader[c].pc = pc /\ reader[c].reason = why}
Told(c)          == {i \in DOMAIN answers[c] : answers[c][i].kind = "rejected"}
AllTold          == UNION {{c} \X Told(c) : c \in Consumers}

(* A record for Lua has one end: on a ring, refused, or lost with its      *)
(* connection.  "A record the broker delivers nowhere is refused out       *)
(* loud": every refusal is counted by reason, and its sender is answered   *)
(* once, with that reason, unless the answer is counted as suppressed.     *)
OneEndEach ==
  /\ \A c \in Consumers : \A n \in Records(c, {"pending"}) :
       n = Len(fate[c]) /\ reader[c].pc \in {"total", "lookup", "offer", "refuse"}
  /\ \A why \in Reasons : counts.rejected[why] = Cardinality(Refused({why}))
  /\ \A c \in Consumers : \A i \in Told(c) :
       /\ fate[c][answers[c][i].record] = answers[c][i].why
       /\ \A j \in Told(c) : i < j => answers[c][i].record < answers[c][j].record
  /\ Cardinality(Refused(Reasons)) = counts.suppressed + Cardinality(AllTold)
  /\ counts.unrouted = counts.rejected["UnknownTopic"] + Cardinality(At("refuse", "UnknownTopic"))
  /\ counts.busy["sim_driver"] + counts.busy["hook_driver"]
       = counts.rejected["Busy"] + Cardinality(At("refuse", "Busy"))

Taken(t) == polled[t] \o lane[t].queue

(* Lua is handed what a token entitled its sender to, on the ring its      *)
(* route names, each record once and a connection's records in the order   *)
(* they were sent, although the registry was read before the ring was      *)
(* locked and tables are registered at any time.                           *)
DeliveredAsEntitled ==
  /\ \A t \in Targets : \A i \in DOMAIN Taken(t) :
       LET c == Taken(t)[i][1]  n == Taken(t)[i][2] IN
       /\ fate[c][n] = "stored"
       /\ \A j \in DOMAIN Taken(t) : i < j /\ Taken(t)[j][1] = c => n < Taken(t)[j][2]
  /\ \A c \in Consumers : \A n \in Records(c, {"stored"}) :
       \E t \in Targets : /\ <<c, n>> \in Range(Taken(t))
                          /\ \A other \in Targets \ {t} : <<c, n>> \notin Range(Taken(other))
  /\ \A c \in Consumers : reader[c].pc = "offer" => Covers(Caps(c), reader[c].msg.topic)

Since(times, from) == Cardinality({i \in DOMAIN times : times[i] > from})

ToldLately(c, kind) ==
  Cardinality({i \in Told(c) : Kind(answers[c][i].why) = kind
                              /\ answers[c][i].at > clock - Second})

(* The windows do what a cap per second means.  Nothing is turned away,    *)
(* nor a refusal left untold, nor a connection closed for everyone's rate, *)
(* unless the cap in force was used up within the second before (as the    *)
(* thread that was turned away read the clock); and no second admits more  *)
(* than two caps' worth, of some cap there was.                            *)
TurnedAwayFairly(c) ==
  (reader[c].pc = "reading" /\ reader'[c].reason = "RateLimited")
    => Since(admitted.own[c], clock - Second) >= limits.rate

ClosedFairly(c) ==
  (reader[c].pc = "total" /\ reader'[c].pc = "closed")
    => Since(admitted.total, reader[c].now - Second) >= reader[c].cap

LeftUntoldFairly(c) ==
  LET kind == Kind(reader[c].reason) IN
  (reader[c].pc = "refuse" /\ reader'[c].pc = "reading" /\ answers' = answers)
    => ToldLately(c, kind) >= limits[kind]

AtMostTwoCaps(c) ==
  \E l \in Range(setup.limits) : Since(admitted.own[c], clock - Second) <= 2 * l.rate

RateIsHeld ==
  [][\A c \in Consumers :
       /\ TurnedAwayFairly(c) /\ ClosedFairly(c) /\ LeftUntoldFairly(c)
       /\ AtMostTwoCaps(c)]_vars

(* What a filter's answer says is what fan-out will do with the maps as    *)
(* they stand: the writer thread has no registry, and sends a record to a  *)
(* session whose token covers the capability the record was opened with,   *)
(* if its filter admits the record's class and topic.                      *)
SentUnder(tokenCaps, filter) ==
  {t \in Topics :
     /\ IsComplete(t) /\ Required(t).need \in tokenCaps
     /\ filter.all \/ Required(t).class = "lifecycle" \/ t \in filter.topics}

AnswerIsWhatIsSent ==
  \A m \in setup.messages : m.kind = "filter" =>
    \A c \in Consumers :
      LET filter == [all |-> m.mode = "all", topics |-> m.topics] IN
      /\ AdmittedTopics(Caps(c), filter) = SentUnder(Caps(c), filter)
      /\ ~filter.all => Unknown(Caps(c), filter) = filter.topics \ SentUnder(Caps(c), filter)

(* A Pong tells the truth about the logic thread.  Alive: it ticked within *)
(* the threshold.  Not alive: its last tick, as the reader saw it, is past *)
(* the threshold but for the interval in which a tick need not stamp.      *)
PongIsTrue ==
  \A c \in Consumers : \A i \in DOMAIN answers[c] :
    LET a == answers[c][i] IN a.kind = "pong" =>
      /\ a.alive => a.tick # Never /\ a.now - a.tick.at < a.threshold
      /\ ~a.alive /\ a.tick # Never
           => a.now - a.tick.at > a.threshold - a.tick.interval

(* The cap on a type URL holds of every message that is served, however    *)
(* its frame is laid out: what the walk steps over, groups and all, hides  *)
(* no URL that the decoder reads, and it stops nowhere the decoder goes on. *)
NoUrlPastTheCap ==
  \A m \in setup.messages : Fits(m) /\ Decodes(m.body) =>
    \A url \in TypeUrls(m.body) : url.length <= limits.url

(* Every frame a consumer sends comes to one end, and what it is answered  *)
(* is so.                                                                  *)
AnswersAreTrue == TypeOK /\ OneEndEach /\ AnswerIsWhatIsSent /\ PongIsTrue /\ NoUrlPastTheCap

=============================================================================
