# dcs-bridge: TLA+ models, checks and proofs

dcs-bridge carries records between a running DCS World simulation and consumers
on TCP. This directory models the part of it that is hard to get right: lock-free
queues between threads, a writer thread that fans records out, connections that
come and go, a process-global state reconfigured under all of them, and what stands at
either end: the Lua drivers with the files generated for them, and the client.

Paths below are relative to the repository; `broker/` is `crates/broker/src/`.

## 1. The system

Two Lua states run on the simulation's *logic thread*: the hook driver's and the
sim driver's. Both call the *shim*, a C library around one process-global
`Bridge`. Nothing on the logic thread may block. The other threads are the
broker's: a listener, one writer thread, and two threads per connection. What the
Lua states register and emit through is written at build time by the *generator*;
`dcsb`, a process of its own, is the consumer that comes with the bridge.

    Lua (logic thread)                writer thread        per connection
    begin/put/commit --> commit ring --> fan_out --> 3 rings --> drainer --> socket
    poll <-- lane ring <------------- deliver <-------------- reader <-- socket
    configure/register --> Bridge       ^ control channel: attach, answer,
                                          authenticated, filter, detach, stop

### Inventory

| Part | State | Operations | Hard behaviour | What makes it correct | Here |
|---|---|---|---|---|---|
| Ring (`broker/ring.rs`) | slots with stamps, two indices, two cursors, a drop count | `push` (evicts the oldest), `offer`, `pop`, `len`, drop | two threads on one slot; eviction against a claim; wrap-around | each record goes out once or is counted, in order; no slot is reached twice; push never panics or spins for good | `Ring` |
| Sleeping (`fanout.rs` `ParkFlag`, `Waker`, `Writer::run`) | flag, unpark token, control channel | push and wake, send and wake, look and park | lost wake-ups; control starved by records; stop against sleep | a sleeper has nothing to do, or is being woken | `WriterLoop` |
| Fan-out (`fanout.rs`) | connections with caps, filter, numbers; retained set; counts | attach, answer, authenticate, filter, detach, commit, reply | two queues drained by one thread; replay against live records; eviction ahead of the retained set | who sees what, in which order, and what is counted when lost | `Fanout` |
| A connection's queue (`fanout.rs` `Outbox`, `Drain`) | three rings, held records, next number | `push` by class, `pop` in number order | three rings looked at one by one while they fill | numbers come in order, gaps are exactly the losses | `Outbox`, `Stream` |
| Bridge (`broker/state.rs`, `config.rs`) | configuration in force, frozen cap, rings and listener started, schema, session count | `configure`, `SetEnabled`, `hold_schema`, `register_classes`, `authenticate`, `disconnected` | two writers of one configuration; what a failed call leaves; who froze what first | in force is what was allocated; no swap lost; the rules hold | `Configure` |
| Transport (`broker/transport.rs`) | listener, `open`, `stop`, `closing`, `written` | accept, drain, write, park, drop | two threads ending each other; drop racing an accept | everything ends together; drop returns | `Connection` |
| Inbound (`broker/inbound.rs`) | a session, a deadline, windows | read a frame, answer, authenticate, deliver, refuse, run | the answer that must go out before the close; every exit gives the slot back; windows read by two threads' clocks | slot and refusal accounting; a cap means what it says | `Connection` (how it begins and ends), `Inbound` (what it does in between) |
| Inbound lanes (`state.rs` `Lane`, `deliver`, `poll`) | two rings, each under a lock | `deliver`, `poll` | several readers, one logic thread; the registry read before the ring is locked | a record is delivered or refused and told, never both | `Inbound` |
| Registry (`broker/registry.rs`) | classes, routes, caps, replies, slots | four merges, lookups | a table applies whole or not at all, in any order of registrars | additive, conflict-free; no record opens under half a registration | `Registry` |
| Heartbeat, loading, epoch (`state.rs`) | stamp + 1, flags | `tick`, `set_epoch`, `liveness` | read by other threads, zero means never, the interval moves | a Pong is true within the interval | `Inbound`, `HookDriver` |
| Encoder (`broker/encode.rs`, the put calls of `lua-module`) | buffer, open gaps, address and topic of the record in progress | `begin`, `begin_to`, puts, `message`, `end_message`, `commit` | lengths filled in backwards at the buffer's edge; a record abandoned, or its encoder replaced | what is committed decodes to what was put, and goes where its own begin said | `Encoder` |
| Shim (`lua-module/src/lib.rs`) | the Lua stack | argument reading of every other call | tables in `lua_next`'s order; `longjmp` over Rust frames | a table is read whole or refused; the stack is clean on every way out | `Shim` |
| Hook driver (`HookDriver.lua`), loader | config, loading, held record, switch, discarded topics, counters | start, frame, load begin and end, dispatch, reload, inject | callbacks that raise half way; a reload inside a dispatch | no record lost or run twice; driver and broker on the same file | `HookDriver` |
| Sim driver (`SimDriver.lua`) | its route | load | two routes to one load | loaded once | `HookDriver` (its load) |
| Generator (`generator/src`) | the schema read, the files written | read, refuse, emit; in Lua: emitters, the wire reader | files written apart, loaded by two states in any order; every legal way to write a message | files agree with each other and with the broker; the reader reads what a protobuf library would | `Generator`, `Decoder` |
| Client (`cli/src`) | a socket, a deadline, a capture file; an install's files and logs | `tail`, `record`, `replay`, `ping`, `schema`, `send`, `doctor` | a stream that ends anywhere, runs stopped in a write, a log of several starts | a capture is the frames that came; gaps are losses; an exit code is true; a wait ends | `Client`, `Doctor` |
| Handshake, topic names, `sync.rs` | none of their own | text, constants | - | - | not modelled |

`PROJECT.json` lists every part with its status, and every hazard at its line.

## 2. The modules

| Module | Stands for | Composes |
|---|---|---|
| `Ring` | `ring.rs`, one load, compare-exchange or move per step | |
| `RingInv` | the ring's inductive invariant | extends `Ring` |
| `LossyQueue` | what a ring promises: a bounded queue that loses its oldest and counts it | implemented by `Ring` |
| `WriterLoop` | commit and its wake, `Writer::run`, the senders | extends `RingInv`: the commit ring is `Ring`, step by step |
| `WriterLoopProofs` | the proofs about it and about `Ring`, with the arithmetic of the wrap-around | extends `WriterLoop` |
| `Fanout` | commits, control messages, fan-out, replay, consumers | the commit ring as a bounded sequence, as `LossyQueue` has it |
| `FanoutProofs` | its inductive invariant and the proofs | extends `Fanout` |
| `Stream` | one consumer's numbers: given out, replaced, read in order | implemented by `Outbox` |
| `Outbox` | `Connection::push`, `Outbox::push`, `Drain::pop` | three rings as `LossyQueue` has them |
| `OutboxProofs` | the proofs about it | extends `Outbox` |
| `Configure` | `configure` and the calls that race it | |
| `ConfigureProofs` | the proofs about it | extends `Configure` |
| `Connection` | listener, reader, drainer and the drop of all | queue as `Outbox`, parking as `WriterLoop` has them |
| `ConnectionProofs` | its inductive invariant and the proofs | extends `Connection` |
| `Registry` | the merges and lookups of `registry.rs`, opening a record | |
| `Envelope` | the walk over a frame that caps its type URL, and what the decoder makes of the frame | |
| `Inbound` | `inbound.rs` `serve`, the Bridge calls it makes, `poll`, `tick` | extends `Registry`, `Envelope` |
| `InboundProofs` | its inductive invariant and the proofs | extends `Inbound` |
| `Encoder` | the put calls over `encode.rs` | |
| `Shim` | the other calls of the Lua module | |
| `HookDriver` | `HookDriver.lua` and the loader, the broker's side of a reload | |
| `LuaProofs` | the Lua side: inductive invariants and proofs of `Encoder`, `Shim` and `HookDriver` | extends the three, which share no name |
| `Generator` | `records.rs`, `emit.rs`; registering and calling what they wrote | extends `Registry` |
| `Decoder` | `wire.lua` on the shapes `Generator` writes | extends `Generator` |
| `Doctor` | `doctor.rs`, `dcslog.rs`, an install that changes | |
| `Client` | the other verbs, sockets, captures and exit codes | extends `Doctor`; its bridge is an instance of `Stream` |
| `ClientProofs` | its inductive invariant and the proofs | extends `Client` |
| `MC*` | constants for TLC | |

**Ring.** `stamp[s]` is the slot's packed `AtomicU64` (an index and empty, full or held
by one end), `value[s]` its cell, `pIndex`, `pCursor` and `cIndex`, `cCursor` what each
handle keeps to itself, `write` and `read` the indices `len` reads. `push`, `offer` and
`pop` are program counters with one action for every atomic access and every move of a
value, so an eviction may fall between any two steps of the consumer. The source makes
the stamp and index accesses SeqCst, which is what licenses interleaving; the Loom and
Miri tests beside the code are about orderings.

**WriterLoop.** The commit ring is `Ring` itself, step by step. `wake_if_parked` is two
steps (load the flag, unpark); `park_unless` is raise, look, park, lower, and its look
reads the two indices one after the other. `thread::park` is a token. Senders unpark
without looking at the flag. The writer takes all control, then a batch of the ring, and
looks some more times before it parks.

**Fanout.** A step is a whole control message, one record of a batch, or one record of a
replay: the writer thread does nothing else in between, but the readers and the logic thread
go on. `stream[c]` is
everything numbered for a connection, in order, and `boundaries[c]` how full its
LIFECYCLE ring is; what the other rings evict is `Outbox`'s subject. A `setup` chosen at
the start holds the sizes, the vocabulary of records, tokens and filters, and the bounds.

**Outbox.** A ring is a set of numbers, its least the oldest. An eviction and a put are
steps of the writer thread, and a look, a take and a leave of the drainer, which goes
over the three rings again while a pass has taken anything.

**Configure.** Eight keys stand for the table of `config.rs`: live and restart-tier ones,
the two pairs a rule ties, and those something is sized from. `schema_sha256` is
taken out of a table before the rest applies, and may disagree with the schema held. `configure` is lock, merge,
bind, swap; `SetEnabled` is lock-and-copy, swap; `authenticate` is match-and-load, then a
compare-exchange that may fail for no reason.

**Connection.** `stop`, `open`, `closing`, `written`, the sends and the park token are
each read or written in a step of their own. A consumer may send, stop reading, or leave
at any point; `serve`'s deadline may pass at any point before a session. A failed
`try_clone` at accept drops the socket and is left out.

**Registry.** A table is a set of rows that may repeat or contradict each other; a merge
is one step, because the code holds the write lock for all of it. It checks every row
first (`Agrees`, and the LIFECYCLE cap for classes) and only then stores them.

**Inbound and Envelope.** A frame is a record with a `kind` and a body; a body is a sequence of
fields, groups and what ends them, and a length is a small number compared with the cap of
the frame or of the type URL. `Fields` is the walk, and `TypeUrls` what the decoder reads,
written over the nesting of groups. A record for Lua goes through five steps: the
connection's window, everyone's window, the lookup, the offer, the refusal with its two
capped answers. Registrations, polls, ticks, configures and a clock move between them.
`tick` is two steps and `liveness` three, as the atomics they read. `admitted` is a history:
when the connection's window, or everyone's, let a record in.

**Encoder.** The buffer is a sequence of cells, and a varint is in base 4 where the code's
is in base 128, so that the buffer's edge and the widths of a length come up in
buffers of 15 and 26 cells. `begin` with its two wrappers, the gaps kept on a stack, the
poisoning of a record by a failed put, `commit` and the pending address are as the code's.
Before the first `begin` there is no encoder (`NoEncoder`), which has discarded nothing.

**Shim.** A Lua value is its type and content, a table a function, and `lua_next` an
arbitrary choice among the keys not yet walked. Each nested walk keeps what it pushed on
`stack`, and pops it on each way out as the code's `settop` calls do. `given` is a history
of what the broker was handed in a call, to compare with its arguments. Tables are finite,
and a key that is a number is one number (`SaneCalls`).

**HookDriver.** DCS runs one callback at a time, so a callback is a sequence of steps on
`pc` which only a reader thread (commands stored, `SetEnabled`) and an operator (the file
edited) come between. A configuration file is what its keys mean to the properties.

**Generator and Decoder.** A topic is a package, a sequence of parts, and a name. A file
is its tables: `emit` writes classes, routes, caps, replies, emitters, and the shapes a
decoder needs. Two Lua states load the files and register table by table in any order.
`Decoder` reads a body byte by byte, with 3 bits to a varint's byte and words of 8 where
the code has 7 and 32; its recursion is a stack. The reference it is compared with
(`Meaning`) is written over the fields that were sent and never over bytes.

**Client and Doctor.** A frame crosses the socket as two halves, its length and its body,
and a capture is the same halves in a file; a run may be killed between any two steps, and a
write to the file may fail before either half (`WriteFails`). A connect of `ping` or `doctor` may use up any part of the wait.
The bridge at the other end gives out numbers, loses some, the handshake's too, and hands on the
rest as `Stream` says. What `tail` should tell is `Gaps`: the losses, but for those `Hidden`
where a capture joins two sessions, lost ahead of the later one's first frame under a number
the earlier one had reached: there the numbers do not skip. A replay runs alone, and a capture is not recorded from its own replay. An install is
the build each file came from, and the log what the loader of that
build writes at a start; `doctor` judges by the newest start in it.

**How properties are stated.** An invariant of a run is a conjunction of named parts, each
with its comment: `OutboxInv`, `LoopInv`, `InForceIsSound`, `StreamHasBothEnds`,
`ReachesWhoItIsFor`, `AnswersAreTrue`, `RecordsAreTheirOwn`, `CallsAreClean`,
`ReadsInside` and `GeneratedIsRight` are such conjunctions, the type invariant one part
of them where there is one.

## 3. The runs

All bounds are constants named in the modules.

| Run | Instance | Shows |
|---|---|---|
| `ring` | 2 slots, 7 records, push and offer mixed | the inductive invariant, exclusion, no panic, empty means empty; `Ring` implements `LossyQueue`, and with it that each record comes to one end, in order; push returns although the consumer may never move again |
| `writer` | ring of 2, 3 records, 2 control messages | nobody sleeps on work, control waits one batch at most, everything committed or sent is taken, a stop ends the thread |
| `fanout` | 2 connections under five setups: `World`, `Behind`, `Filtered`, `Replies`, `PastTheMask` | handshake numbered first, commit order, every session still held has the latest boundaries its token covers although another falls behind and is closed, nobody is sent what token or filter withhold, losses and addressed records are counted |
| `outbox` | rings of 2, 1, 1; 5 numbers | gaps are losses, each counted under its label; a pop looks four times at most; `Outbox` implements `Stream`, and with it order |
| `configure` | 3 consumers, 6 tables, 2 topics, 2 hashes | in force is what was allocated, the rules hold, a refusal changes nothing in force, no swap lost, the session count exact |
| `connection` | 1 consumer, 1 ping, 1 record | handshake first on the wire, a refusal out before the close, the slot back although the drainer never runs, silent consumers closed; if every thread runs, both ends end together and the drop returns |
| `inbound` | 2 consumers under six setups: `Lanes`, `Rates`, `Answers`, `Tables`, `Beats`, `Frames` | Lua is handed what a token covered, once and in order; every record has one end, counted and told; a filter's answer is what fan-out will send; a Pong is true; no table half applied and no record opened under one; what a window turns away, it turns away with its cap used up; no frame with a type URL past the cap is served |
| `encoder` | 4 topics, 5 kinds of put, 5 puts and 2 begins, buffers of 15 and 26 | a tail decodes to its puts; it goes where its own begin said; every record opened is accounted for |
| `hook` | 5 files, 3 commands, 2 loads, 1 edit, 1 `SetEnabled` | each command once and in order; one configuration on both sides; the sim driver once in a load; commands handled in the end though the clock stop for good, and the switch heard if it answers |
| `shim` | every call, with tables wrong in each place | read whole or refused unseen; nothing left on the stack or in a frame a raise crosses |
| `decoder` | 8 requests, 2 sides; bodies of 2 fields out of 29, whole and cut everywhere | the reader answers as a protobuf library would and stays inside each message; the files agree; emitters put what they were given |
| `client` | captures by two runs stopped or failing in a write, and their replay; `tail`, `ping`, `schema`, `send`, `doctor` | a capture is the frames that came, only a stopped or failed run's last one cut; gaps are losses, but for those a join hides; exit codes are true; every question ends |

**Why the bounds are enough.** The ring's behaviour depends on indices by lap: two slots
and three laps meet every pair of slot states, a slot evicted and refilled behind the
consumer included, and the proofs cover every capacity. One producer and one consumer is
all a ring has. The merge has three rings by construction; rings of one and of two give an
eviction before, at and after the drainer's look. Two connections tell "this one" from
"the other one"; three consumers for two sessions give a race that one of them loses. In
`configure`, `Apart` keeps more than one consumer from being there at once with something
registered or a hash in play: sessions and registrations share nothing but the
configuration. A connection's threads meet another's only through the writer thread and
the session count, so one connection, with its accept under way or over, covers the drop.

In `inbound`, a second is two ticks of the clock and time runs to three or four, so a window
is opened, used up, crossed and opened again; rings of one and two are full after as many
records. In `encoder`, five puts nest two messages (`MAX_DEPTH` of the instance), fill
either buffer exactly and overrun it, and the two begins give a record abandoned, refused
or raised on and one after it. In `hook`, three commands over caps of one and two leave one
held over a callback, waiting behind a reload, and on the ring. In `decoder`, two fields
give every merge, order and repetition, and the cuts every position; the word of 8 bits
keeps the one relation of the code's numbers that matters, that seven does not divide 32
and the last byte has bits to spare. In `client`, three frames are a handshake, an answer and
a record, four one more to lose; a socket of two halves lets either end go in a frame; three
moves of an install are an extraction, a start and one change after it.

**Fairness.** Weak fairness stands for the operating system running a thread that can
run. It is never on a consumer (to send, read, connect or leave), on Lua (to commit,
configure or drop anything), or on a socket write completing. `ring` has it on the
producer inside a call alone, and `connection` on the readers and the passing of time
alone, so what they show of those threads waits for nobody; the properties that need the
other threads say so (`OthersRun =>`). `OthersRun` lets a shutdown
return a blocked write, which it does not on Windows for a send already blocked. `hook`
has weak fairness on a callback's own steps and strong fairness either on frames in which
the clock answers or on frames in which it does not: DCS calls frames for as long as it runs,
also while it loads, and its clock may stop for good. Commands are handled under both
(the driver dispatches before it raises); the switch, polled by the clock, is heard where
the clock answers (`ClockAnswers =>`). `client` has weak fairness on the
client's own steps, a replay's included, and on the passing of time; nothing is asked of
the bridge, the peer or the user.

**Deadlock** is checked where the system goes on for ever (`configure`, `shim`). Elsewhere
the bounds end the run or the system can stop, and the liveness properties say what must
not get stuck.

### Disagreements found

Each is a property stated beside the others, which the run of its module does not ask for,
and TLC finds it violated: with the configuration named, or for 9 and 10 with `MCClient.cfg`
and the property in the place of those it asks for.

1. `NextPushFindsRoom` (`MCRingNextPush.cfg`): a comment (`broker/ring.rs:101`) promises
   that after a record was turned away the next push finds room; a consumer still inside
   its slot turns the next one away as well.
2. `ResultBeforeRecords` (`MCFanoutReply.cfg`): `broker/fanout.rs:793` promises the
   `AuthResult` before the first record. The writer thread reads control before a batch
   and not within one, so a reply committed during a batch overtakes the `AuthResult` sent
   before it.
3. `ReplayFits` (`MCConfigureReplay.cfg`): the rule that the LIFECYCLE ring holds the
   retained set is checked before the frozen cap replaces the file's value
   (`broker/state.rs:709`), so a registration ahead of the first `configure` leaves values
   in force that break it. Every later `configure` is then refused by that rule.
4. `ReturnsEverySlot` (`MCConnectionLift.cfg`): `set_read_timeout(None)?` runs between
   taking a session's slot and storing the session (`broker/inbound.rs:906`), so its
   failure keeps the slot.
5. `HandshakeFirst` with a small ring (`MCConnectionSmallRing.cfg`): the reader runs before
   the drainer has the queue, and the handshake can be evicted by answers; the first frame
   is then not the handshake.
6. `RefusedBeginLeavesIt` (`MCEncoderRefused.cfg`): a `begin` that raises for an
   unregistered topic promises the record in progress "left as it was"
   (`crates/lua-module/src/lib.rs:1619`); when the frame cap has moved since, `opening`
   has replaced the encoder, and the record with it, before the topic is looked up.
7. `NamesTheFirstMissing` (`MCShimDense.cfg`): `dense_length` promises to name "the first
   position that is missing" (`crates/lua-module/src/lib.rs:539`); for a key that is no
   position it names the number of keys walked before it plus one, in `lua_next`'s order.
8. `ReadsWhatWasSent` for a map entry without its value (`MCDecoderEntry.cfg`): a library may
   leave out a value that is an empty message; `map[entry.key] = entry.value`
   (`crates/generator/src/wire.lua:331`) then stores nil and the key is lost, where the
   comment above says a map reads as a table from each entry's key to its value. The run
   `decoder` sends such values in full.
9. `LeavesWholeFrames`: a stopped `record` leaves "whole frames behind it and nothing else"
   (`cli/src/record.rs:30`, and ADR 0033, lines 33-34). Stopped, or failing, inside
   `write_all` it leaves a part of one, as `record.rs:56` says and `whole_frames` is there to
   find; the next run onto the file is refused until somebody cuts it.
10. `JoinGoesBackToOne`: where a capture joins two sessions, `seq` goes "back to 1" (ADR 0033,
   lines 34-36; `record.rs:7` has `tail` read it "from `seq` 1 with no gap line"). By 5 the
   later session's handshake may be lost; it then starts past 1, and `tail` says "out of
   order" and no gap, or a gap shorter than what was lost (`cli/src/tail.rs:42`).

The built hook driver configures before anything registers, so 3 needs another caller;
5, and 10 with it, need as many answers (a consumer's `Ping`s) or records of its class as the
DURABLE ring holds before the drainer's first pop; 6 needs a live change of `max_frame_bytes`
inside a record.

## 4. The proofs

Eight modules hold theorems; what follows holds for every value of the constants that
their `ASSUME`s allow. TLC evaluates every `ASSUME` in the passing runs.

| Module | States of the runs' properties | And |
|---|---|---|
| `WriterLoopProofs` | `SlotsAreExclusive`, `PushNeverPanics`, `NoneMeansEmpty`, `RingInvariant`, `ImplementsQueue` (refinement), `LoopInv` | `RingTypes`, `RingOwnership` |
| `OutboxProofs` | `OutboxInv`, `ImplementsStream` (refinement) | |
| `FanoutProofs` | `InCommitOrder`, `SeesTheWorld`, `NothingEscapesTheFilter`, `ReachesWhoItIsFor` | `FanoutIsSafe` |
| `ConnectionProofs` | `StreamHasBothEnds`, where a queue has `Room` | `ConnectionIsSafe`, `ConnectionRefusalIsOut` |
| `ConfigureProofs` | `InForceIsSound`, `RefusalChangesNothing` | `ConfigureInductive` |
| `InboundProofs` | `DeliveredAsEntitled`, `AnswersAreTrue`, `OpenedAsRegistered`, `RateIsHeld` | `InboundIsSafe` |
| `LuaProofs` | `EachCommandOnce`, `FileIsInForce`, `SimDriverOnce`, `RecordsAreTheirOwn`, `CallsAreClean` | `HookIsSafe` |
| `ClientProofs` | `CaptureIsWhatCame`, `TailTellsTheLosses`, `ExitIsTrue` | `ClientIsSafe` |

Each proof is an inductive invariant, a lemma per action (or per kind of step) that it is
kept, and the properties read off it. TLC has checked every one of these invariants on the
instance of its run before it was proved: those of `Ring`, `Outbox` and `WriterLoop` are
invariants of the runs; `ConfigureInv`, `FanoutInvariant`, `ConnectionInvariant`, `HookInv`,
`InboundInv`, `RateInv`, `RecordInv`, `ShimInv` and `ClientInv` were added to the cfg of their
run through a module that extends the MC module and the proof module (without the parts that
only give a variable its type where its set of values is infinite).

**Ring.** Assumed: the capacity is a positive integer, which `Ring::split` asserts; the bound
on records is a natural number. `SlotsAreExclusive` is not inductive: it says nothing about
which index a stamp carries, so a consumer one lap behind could find its slot claimed.
`OwnershipInv` (module `RingInv`) adds it: cursors are indices modulo the capacity; a stamp's
index falls on its own slot; an empty slot waits for an index within one lap ahead of the last
stored; a full one holds one of the last `Capacity` stored and not before the consumer; a
held one is where its thread stands. Each action then disturbs one slot, and two slots one
lap apart are told apart by `ModGap` (two indices less than a capacity apart fall on
different slots). `OrderInv` adds the records: those in the slots come in the order of their
indices, and the one a push has in hand is the newest of all. That is what makes the
refinement go through: an eviction replaces the *oldest* record of `LossyQueue` although
another thread is between two accesses of a neighbouring slot. The abstract queue's bound
asks for the cardinality of the full slots, which a lemma takes up and down by one a step.

**Outbox.** Assumed: each ring has a positive capacity. Three strengthenings. `Placed`: a
number is in exactly one of its ring, a hand, on its way in, handed on, lost, or closing;
without it a gap could be a record counted twice. `PutHasRoom`: between an eviction and its put
nothing else takes the room. `PassInv`: a pass that has popped nothing leaves behind it only
what is younger than its start, which makes the least number in hand the least there is, and
every pass but this one has filled a hand, which makes them four. Each step of the queue is
then a step of `Stream` or leaves it alone; a record stays in the same abstract place while it
moves from a ring to a hand.

**WriterLoop.** Assumed: a batch is of one record at least. `SleepsOnNothing` speaks of a
thread that sleeps; `SendsAreSeen` and `PushesAreSeen` of the steps before. From the look at
the channel on, a message that is there has a wake owed or a token given. From the load of the
write index under the flag on, an index that has moved since has its push still ahead of its
own look at the flag, or a token given. The last is where the order of the code's four
accesses is used: raise before look, publish before load. The commit ring is `Ring` itself and
the ring's ownership is part of the invariant.

**Fanout.** Assumed: what a `Setup` may be (`SetupsAssumption`), and that `NoOne` is no
connection. `ChannelInv` says what is in the control channel for a connection and in which
order: its `Attach` ahead of all else, its `Authenticated` once and behind its `AuthResult`, the
last filter before the answer to the k-th one no older than that one. `RecordsInv` orders the
records: what is in the commit ring is younger than what left it, the retained set holds one
boundary a slot, and in the middle of a replay the boundaries behind it are told and the ones
ahead newer than all the newcomer has. `AccountsInv` equates what was sent to a connection
with what waits, is numbered, or had nowhere to go, and the eviction counter with the boundaries
evicted. `SeesTheWorld` needs the last two parts together: a replay runs a record at a time,
and nothing but the replay is fanned out to the newcomer until it ends.

**Connection.** `ConnectionIsSafe` keeps a ledger: frames written, in the drainer's hand,
queued, and control messages pending for a consumer. Before a session it is at most what the
reader has counted in `answered`; the refusal is in one of these places, or the ledger is short
of the count, and then the wait for `written` to reach it runs into `FLUSH_WAIT`. This is
`RefusalIsOut` for a queue of any capacity. That the handshake is the first frame on the wire
needs more: `StreamHasBothEnds` is proved where `Room` holds, which is that a handshake, an
answer to every frame sent and every record fit the queue (1 + `MaxPings` + 1 + `MaxRecords` <=
`Capacity`). The instance of the run fits exactly. The hypothesis cannot be dropped:
disagreement 5 is its counterexample. Under it the handshake stays the oldest of the
queue until the drainer has it (`Foremost`).

**Configure.** Assumed: every default passes its own key's check and no token is configured by
default (`DefaultAssumption`, `config.rs` `keys` and `Config::default`); what a table gives for
a count is an integer, and a table is finite (`TablesAssumption`: a Lua number is a double,
and a fraction or a value that is no number is refused by `Key::check` as a zero is, which
stands for it); a consumer is not the logic thread (`ConnsAssumption`). The theorems cover what
the run's constraint `Apart` leaves out: sessions and registrations may be there together.
`InForceIsSound` speaks of what is in force, and the next swap puts in force what a
thread holds in a local. `ConfigureInv` (module `Configure`) adds it: `LocalsInv`, the locals'
ranges, and that a count in force is positive; `CallInv`, that what a call is about to swap in
obeys the rules, carries the frozen cap and the rings already bound, and takes a later call's
restart-tier keys from what is in force; `AllocatedInv`, that a frozen cap never moves and
nothing is bound before it is; `SessionsInv`, that nobody is counted before the first
configuration, that a limit read by a consumer is the limit in force (a restart-tier key, so no
later call moves it), and that a `SetEnabled`'s copy differs from what is in force in the
switch alone, which is what its lock is for. `schema_sha256` is taken out of a table before
the rest of it applies; `RestIsATable` says the rest is a table the other lemmas know.

**HookDriver.** Assumed: the files are settings, the routes the two there are, `None` is
neither a setting nor a number. `CommandInv` puts a command in one place of a line (handled,
in hand, held from one dispatch to the next, on the ring), and the step that moves it keeps
the line as it is. `FileInv` says that driver and broker are on one file but for the two
halves of a reload, and that the memory of keys is as deep as the ring allocated *while* a
reload is between them: `reload` reads the file that was checked against the size in force.
`LoadInv` says that on the stock route nothing has run in a load until its end, without which
the end of a load could run the sim driver a second time.

**Inbound.** Assumed: consumers and topics are finite; what a setup holds is what the config
table and the wire can give (`InboundAssumption`; an interval of zero is refused by
`Key::check`); `AuthAck` is no topic. Every step of a reader is one of six kinds for the
record in hand: it has none (`Quietly`), takes one in (`Begins`), goes on (`Moves`), or ends
it lost, stored or refused (`Loses`, `Stores`, `Refuses`). `PendingInv` says that a
connection's last record alone can be under way; `TakenInv` that the rings, polled or not,
hold exactly the records stored, each on one ring; `ToldInv` that an answer names the end its
record had; `CountsInv` (`RefusedCounted`, `TurnedCounted`) that each counter is the size of
the set it counts, give or take the record being refused now. `DeliveredAsEntitled` also needs
the capability that was checked still to be the topic's when the ring is locked: `RegistryInv`
has it, because registration only ever adds (`Grows`). For the heartbeat, `BeatInv` carries
the stamp beside the tick it was made at: never before it, and less than an interval behind
one that did not store. An interval is at least one tick, which is what makes zero mean
never. That no frame served has a type URL past the cap is a lemma about `Envelope`
(`WalkGivesWhatIsRead`): the walk and the decoder agree on which fields are inside a group, by
counting the starts and ends before a field with an injection between them.

*Windows.* `RateIsHeld` rests on a second invariant, `RateInv`, beside `InboundInv`: a
window holds what was let in since it opened (`Late`), which is under some cap, and what the
one before it let in is within a second before its start (`Early`), at most some cap as well.
A second reaches back into one window at most, hence two caps (`TwoCaps`), however the caps
were changed in between. A full window opened less than a second ago, so whoever it turns
away has used the cap up within the second (`FullWindow`). Everyone's window counts at most
what was let in since: a thread opens it at the clock it read, and is let in then or later
(`TotalHolds`). A refusal's window counts the answers that were sent (`RefusalsHold`).

**Encoder.** Nothing is assumed. `RecordInv`: an encoder has its state and how many it has
discarded; a record in progress has the address and topic of the `begin` that opened it.
Each put, and each `message` and `end_message`, leaves both alone (`Same`): `begin`, `commit`
and a discard alone move a record in or out of progress, and each moves one counter with it.
The sum of the counters goes through an encoder being replaced (`OpenCounts`), which is the
record that nobody counts.

**Shim.** Assumed: `SaneCalls`, as above. `ShimInv` says of each step what the walks under way
have on the stack (`Walk`, `AtRow`, `InTokens`, `InList`, `AtEntry`, `InEntry`); a stack holds
any Lua value, so that it is known by its length alone (`Tuple`). Every exit pops what the
walks under it pushed, so that nothing of theirs is left at the bridge or at a raise.
`Measuring` is the measure of a list: the keys seen so far are positions, counted once each,
so the count is the highest of them exactly when the list has no hole (`DenseIsList`, with the
cardinality of the positions). A value that will not do makes its row one that is not sound,
so a refusal is rightful, and a table taken is the rows of the one given, each once.

**Client.** Assumed: a socket holds a half at least, a wait is a natural number, a setup's
runs are names; a build is a positive number. `ClientInv` follows a frame: numbered, lost or
handed on by the bridge (`Numbered`, `Gone`), the handshake no less than the rest; the frames told to a client in order, with what
is missing before one of them lost (`Told`); the halves under way in the socket, from the
bridge or from a replay; the capture twice as long as what was kept but for a last half, which
a run that ends with 0 has written (`FileInv`). What `tail` counts as missing is then the losses between two frames it was told of, or at a
join those above the number before (`Gaps`),
and a client's answer is the bridge's, which is what its exit code says.

**Only model-checked.** `TailSaysWhatWasPut`, because a tail is decoded by a fold over its
puts and a varint's digits come from a recursive function: that the two undo each other is
an induction over data. `ReadsInside` and `GeneratedIsRight`, because `Generator` and
`Decoder` use RECURSIVE operators. Every liveness property (`PushReturns`, `CommittedIsFanned`,
`StopReturns`, `SlotIsFreed`, `SilentIsClosed`, `EndsTogether`, `EveryCommandIsHandled`,
`SwitchIsHeard`, `RunsEnd`), since the prover reaches neither fairness nor ENABLED. Some
definitions are written with a set of records, a sequence of times or an explicit function
where a fold or `@@` would also do (`Refused`, `AllTold`, `Since`, `Beside`), so that they can
be reasoned about.

## 5. Not modelled, and what comes next

Memory orderings weaker than sequential consistency; allocation failure; 64-bit indices
running over (584 years at a record per nanosecond); a Windows
send that a shutdown does not return, except that `SlotIsFreed` needs no drainer. The other
keys of `config.rs` change nothing in what is modelled: they are read and compared alike.

- *Handshake, topic names, `sync.rs`*: values fixed at start, constants, re-exports.
- *Loading flag*: nothing sets it, so only the running threshold is reached.
- *Generator*: headers, annotations, quoting and renaming of parameters, the schema's hash,
  `float` and `double`, the bytes of the plugin's own request. An emitter's parameter that
  is renamed to avoid a reserved word is a matter of spelling.
- *Sim driver*: its copy of the file reader; it does nothing after it is loaded.
- *Hook driver*: what its log lines say, the code of extension files.
- *Client*: wording, hex and token files beyond "cannot be read", several write directories
  at once, the configuration's note of `doctor`.
- *Lua module*: `luaopen`'s table and version marker, Lua out of memory in a push.

What is left to prove: `TailSaysWhatWasPut` of `Encoder`. Its lengths and gaps can be
reasoned about without recursion, its numbers cannot. `Generator` and `Decoder` have RECURSIVE
operators and stay with TLC, and so does liveness.
