---------------------------- MODULE ClientProofs ----------------------------
(***************************************************************************)
(* Proofs about Client, for any list of runs, any socket buffer, any wait  *)
(* and any number of frames and sessions: a capture is what came and whole *)
(* but for its last half, tail's gaps are the bridge's losses, and an exit *)
(* code says what happened.                                                *)
(***************************************************************************)
EXTENDS Client, FiniteSetTheorems, SequenceTheorems, TLAPS

-----------------------------------------------------------------------------
(* The inductive invariant.                                                *)

Verbs  == {"tail", "ping", "schema", "send", "record", "doctor"}
Contents ==
  {"none", "handshake", "handshake+hash", "accepted", "refused", "alive", "dead", "set", "no-set",
   "record"} \cup UNION {s.strange : s \in Setups}
Frame  == [session : Nat, seq : Nat, content : Contents]
RunSet ==
  [verb : Verbs \cup {"none"}, phase : {"none", "read", "write", "wait"}, got : Frame, left : 0..Wait,
   last : Nat, gaps : Nat, dropped : Nat, refused : BOOLEAN, hash : BOOLEAN,
   failed : BOOLEAN, sound : BOOLEAN]

ClientTypes ==
  /\ setup \in Setups /\ runs \in Seq(STRING)
  /\ seq \in Nat \ {0} /\ live \in SUBSET Nat /\ lost \in SUBSET Nat /\ handed \in SUBSET Nat
  /\ content \in Seq(Contents)
  /\ server \in {"none", "bridge", "listening", "serving", "draining"}
  /\ socket \in Seq(Frame \X {1, 2}) /\ Len(socket) <= Buffer
  /\ owes \in Frame /\ open \in {"open", "closed", "reset"}
  /\ run \in RunSet /\ exit \in Code \cup {Killed}
  /\ file \in Seq(Frame \X {1, 2}) /\ pos \in 0..Len(file) /\ served \in {"none", "serving", "exit-0", "exit-1", "exit-2"}
  /\ session \in Nat /\ gone \in Seq(SUBSET Nat)
  /\ kept \in Seq(Frame) /\ seen \in Seq(Frame)

(* The bridge's numbers: each is in the queue, lost or handed on, those in *)
(* the queue after those handed on.                                        *)
Numbered ==
  /\ live \cup lost \cup handed = 1..(seq - 1)
  /\ lost \cap (live \cup handed) = {}
  /\ \A h \in handed, l \in live : h < l
  /\ Len(content) = seq - 1

(* What each earlier connection lost. *)
Gone ==
  /\ session = 0 => gone = <<>>
  /\ session > 0 => Len(gone) = session - 1
  /\ \A s \in DOMAIN gone : gone[s] \subseteq Nat \ {0} /\ IsFiniteSet(gone[s])

(* Frames as a bridge, or several one after another, handed them on: what  *)
(* is not among them before one of them, its bridge lost.                  *)
InOrder(frames) ==
  \A i, j \in DOMAIN frames : i < j =>
    /\ frames[i].session <= frames[j].session
    /\ frames[i].session = frames[j].session => frames[i].seq < frames[j].seq

Explained(frames) ==
  \A i \in DOMAIN frames : \A m \in 1..(frames[i].seq - 1) :
    \/ m \in LostOf(frames[i].session)
    \/ \E j \in 1..(i - 1) : frames[j].session = frames[i].session /\ frames[j].seq = m

Told(frames) ==
  /\ \A i \in DOMAIN frames :
       /\ frames[i].session \in 1..session /\ frames[i].seq >= 1
       /\ frames[i].seq \notin LostOf(frames[i].session)
       /\ frames[i].session = session => frames[i].seq \in handed
  /\ InOrder(frames)
  /\ Explained(frames)

ToldInv == Told(kept) /\ Told(seen)

(* The capture is the halves of what was kept; a run of record between two *)
(* frames has it whole, and so has one that ended with 0; one inside a     *)
(* frame lacks that frame's last.                                          *)
FileInv ==
  /\ 2 * Len(kept) - 1 <= Len(file) /\ Len(file) <= 2 * Len(kept)
  /\ \A k \in 1..Len(kept) :
       /\ file[2 * k - 1] = <<kept[k], 1>>
       /\ 2 * k <= Len(file) => file[2 * k] = <<kept[k], 2>>
  /\ exit = Running /\ run.verb = "record" =>
       IF run.phase = "write"
         THEN Len(kept) > 0 /\ Len(file) = 2 * Len(kept) - 1 /\ kept[Len(kept)] = run.got
         ELSE Len(file) = 2 * Len(kept)
  /\ exit = 0 /\ run.verb = "record" => Len(file) = 2 * Len(kept)

(* What a run is at. *)
RunInv ==
  /\ exit = Running => run.verb \in Verbs /\ run.phase # "none"
  /\ run.phase = "write" => run.verb = "record"
  /\ run.phase = "wait" => run.verb = "send" /\ Seen({"accepted"})
  /\ run.verb = "schema" => (run.hash <=> Seen({"handshake+hash"}))
  /\ run.verb = "doctor" => (run.failed = ~run.sound)
  /\ exit = Running /\ run.verb = "doctor" => ~Seen({"alive", "dead"})

(* What a run of tail or record has made of what it took. *)
Bad(f) == f.content \in {"refused", "bad-answer"}

TakenInv ==
  /\ run.verb = "tail" =>
       /\ run.last = IF seen = <<>> THEN 0 ELSE seen[Len(seen)].seq
       /\ \A f \in Came : Bad(f) => run.refused
  /\ exit = Running /\ run.verb = "record" =>
       \A f \in Came : Bad(f) => run.refused \/ (run.phase = "write" /\ f = run.got)

(* What the reader holds of a frame it has not taken. *)
Got == IF run.phase = "write" THEN NoFrame ELSE run.got

(* The connection to a bridge that lives: its halves follow each other, in *)
(* order, what was handed on was taken or is on its way, and nothing on    *)
(* its way was taken.                                                      *)
Bridged == exit = Running /\ server = "bridge" /\ open # "reset"

Taken == {f.seq : f \in {g \in Range(IF run.verb = "record" THEN kept ELSE seen) : g.session = session}}

Coming == {socket[i][1].seq : i \in {j \in DOMAIN socket : socket[j][2] = 2}}
            \cup (IF owes = NoFrame THEN {} ELSE {owes.seq})

Paired ==
  /\ \A i \in DOMAIN socket : socket[i][2] = 2 =>
       IF i = 1 THEN Got = socket[i][1] ELSE socket[i - 1] = <<socket[i][1], 1>>
  /\ owes # NoFrame =>
       IF socket = <<>> THEN Got = owes ELSE socket[Len(socket)] = <<owes, 1>>

Ascending ==
  \A i, j \in DOMAIN socket : i < j =>
    /\ socket[i][1].seq <= socket[j][1].seq
    /\ socket[i][2] = 2 => socket[i][1].seq < socket[j][1].seq

OnItsWay ==
  /\ \A i \in DOMAIN socket : socket[i][1].session = session /\ socket[i][1].seq \in handed
  /\ owes # NoFrame => owes.session = session
  /\ handed = Taken \cup Coming
  /\ \A n \in Coming, m \in Taken : m < n
  /\ Paired /\ Ascending

BridgeInv ==
  /\ open = "reset" => socket = <<>>
  /\ Bridged => OnItsWay
  /\ exit = Running /\ server = "bridge" => \A i \in DOMAIN seen : seen[i].session = session

(* The connection to a replay: what is on its way is the capture between   *)
(* what the reader took and what the replay wrote.                         *)
Read    == 2 * Len(seen) + (IF Got = NoFrame THEN 0 ELSE 1)
Written == pos - (IF owes = NoFrame THEN 0 ELSE 1)

Served ==
  /\ open # "reset" /\ run.verb # "record" /\ (server # "serving" => owes = NoFrame /\ open = "closed")
  /\ pos % 2 = 0 /\ Read + Len(socket) = Written
  /\ \A i \in DOMAIN socket : socket[i] = file[Read + i]
  /\ Len(seen) <= Len(kept) /\ \A i \in DOMAIN seen : seen[i] = kept[i]
  /\ Got # NoFrame => Len(seen) < Len(kept) /\ Got = kept[Len(seen) + 1]
  /\ owes # NoFrame => pos > 0 /\ <<owes, 1>> = file[pos - 1]

ReplayInv ==
  /\ server = "serving" => open = "open"
  /\ server \in {"serving", "draining"} => seq = 1
  /\ server = "listening" => pos = 0
  /\ exit = Running => session > 0 /\ server # "listening"
  /\ exit = Running /\ server # "bridge" => Served /\ seq = 1

(* The log's newest start is the one that came last. *)
BannerOf(start) == [words |-> {"loading"}, loader |-> start.loader, driver |-> start.driver]

LogInv ==
  /\ installed \in [Shipped -> Int]
  /\ installed["driver"] \in Builds \cup {Missing} /\ installed["broker"] \in Builds \cup {Missing}
  /\ log \in Seq([words : SUBSET {"loading", "disabled", "stop"}, loader : Int, driver : Int])
  /\ newest \in [outcome : {"none", "off", "started", "stopped"}, loader : Int, driver : Int]
  /\ newest.outcome = "none" => log = <<>>
  /\ newest.outcome = "off" => log # <<>> /\ log[Len(log)].words = {"disabled"}
  /\ newest.outcome = "started" => log # <<>> /\ log[Len(log)] = BannerOf(newest)
  /\ newest.outcome = "stopped" =>
       Len(log) >= 2 /\ log[Len(log) - 1] = BannerOf(newest) /\ "stop" \in log[Len(log)].words

-----------------------------------------------------------------------------
(* What the steps do to the run, and the types of all they leave behind.   *)

LEMMA NoFrameTyped == NoFrame \in Frame /\ Idle \in RunSet /\ Running \in Code /\ {0, 1, 2} \subseteq Code
<1>1. Wait \in Nat
  BY ClientAssumption
<1>2. NoFrame \in Frame
  BY DEF NoFrame, Frame, Contents
<1>3. 0 \in 0..Wait
  BY <1>1
<1>4. Idle \in RunSet
  BY <1>2, <1>3 DEF Idle, RunSet
<1>. QED
  BY <1>2, <1>4 DEF Running, Code

LEMMA EndsTyped ==
  ASSUME run.verb \in Verbs, NEW outcome, Ends(outcome)
  PROVE  exit' \in {0, 1, 2} /\ run' = run
  BY DEF Ends, Verbs, tail_verb, record_verb, ping_verb, doctor_verb, schema_verb, send_verb

LEMMA GoOnTyped ==
  ASSUME NEW r \in RunSet, GoOn(r)
  PROVE  exit' = Running /\ run' \in RunSet /\ run' = [r EXCEPT !.got = NoFrame]
  BY NoFrameTyped DEF GoOn, RunSet, Frame

LEMMA CountedTyped ==
  ASSUME NEW r \in RunSet, NEW f \in Frame
  PROVE  /\ Counted(r, f) \in RunSet
         /\ Counted(r, f).verb = r.verb /\ Counted(r, f).phase = r.phase /\ Counted(r, f).left = r.left
         /\ Counted(r, f).hash = r.hash /\ Counted(r, f).failed = r.failed /\ Counted(r, f).sound = r.sound
         /\ Counted(r, f).last = f.seq
         /\ Counted(r, f).refused = (r.refused \/ Bad(f))
         /\ Counted(r, f).gaps = IF f.seq > r.last + 1 THEN r.gaps + 1 ELSE r.gaps
         /\ Counted(r, f).dropped = IF f.seq > r.last + 1 THEN r.dropped + (f.seq - r.last - 1) ELSE r.dropped
<1>1. Bad(f) \in BOOLEAN /\ (f.content \in {"refused", "bad-answer"}) = Bad(f)
  BY DEF Bad
<1>2. PICK gaps : gaps = IF f.seq > r.last + 1 THEN r.gaps + 1 ELSE r.gaps
  OBVIOUS
<1>3. PICK dropped : dropped = IF f.seq > r.last + 1 THEN r.dropped + (f.seq - r.last - 1) ELSE r.dropped
  OBVIOUS
<1>4. r.gaps \in Nat /\ r.dropped \in Nat /\ r.last \in Nat /\ f.seq \in Nat /\ r.refused \in BOOLEAN
  BY DEF RunSet, Frame
<1>5. gaps \in Nat /\ dropped \in Nat
  BY <1>2, <1>3, <1>4
<1>6. PICK b \in BOOLEAN : b = (r.refused \/ Bad(f))
  BY <1>4
<1>7. Counted(r, f) = [r EXCEPT !.gaps = gaps, !.dropped = dropped, !.refused = b, !.last = f.seq]
  BY <1>1, <1>2, <1>3, <1>6 DEF Counted, RunSet
<1>. QED
  BY <1>2, <1>3, <1>4, <1>5, <1>6, <1>7 DEF RunSet

-----------------------------------------------------------------------------
(* The bridge's numbers.                                                   *)

LEMMA NumbersOnly ==
  ASSUME ClientTypes, Handshake \/ ReadAsk \/ Record \/ Strange
  PROVE  \E c \in Contents : Number(c)
<1>1. CASE Handshake
  BY <1>1 DEF Handshake, Contents
<1>2. CASE ReadAsk
  BY <1>2 DEF ReadAsk, Contents
<1>3. CASE Record
  BY <1>3 DEF Record, Contents
<1>4. CASE Strange
  BY <1>4 DEF Strange, Contents, ClientTypes
<1>. QED
  BY <1>1, <1>2, <1>3, <1>4

LEMMA NumberStep ==
  ASSUME ClientTypes, Numbered, NEW c \in Contents, Number(c)
  PROVE  /\ seq' = seq + 1 /\ live' \in SUBSET Nat /\ lost' \in SUBSET Nat /\ handed' = handed
         /\ content' \in Seq(Contents) /\ Numbered'
         /\ lost \subseteq lost'
         /\ \A n \in lost' \ lost : n \in Nat /\ n \notin handed /\ \A h \in handed : h < n
<1>1. /\ seq \in Nat \ {0} /\ live \in SUBSET Nat /\ lost \in SUBSET Nat /\ handed \in SUBSET Nat
      /\ content \in Seq(Contents)
  BY DEF ClientTypes
<1>2. content' = Append(content, c)
  BY DEF Number
<1>3. Len(content') = Len(content) + 1 /\ content' \in Seq(Contents)
  BY <1>1, <1>2
<1>4. /\ seq' = seq + 1 /\ handed' = handed
      /\ \/ live' = live \cup {seq} /\ lost' = lost
         \/ lost' = lost \cup {seq} /\ live' = live
         \/ \E r \in live : live' = (live \ {r}) \cup {seq} /\ lost' = lost \cup {r}
  BY DEF Number, Bridge!Number, Bridge!Replace
<1>5. \A h \in handed : h < seq
  BY <1>1 DEF Numbered
<1>6. seq \notin live \cup lost \cup handed
  BY <1>1 DEF Numbered
<1>7. 1..seq = (1..(seq - 1)) \cup {seq} /\ seq' - 1 = seq
  BY <1>1, <1>4
<1>8. Len(content') = seq' - 1
  BY <1>1, <1>3, <1>4 DEF Numbered
<1>9. /\ live' \cup lost' \cup handed' = 1..(seq' - 1)
      /\ lost' \cap (live' \cup handed') = {}
  <2>1. \A r \in live : r \notin lost /\ r \notin handed /\ r # seq
    BY <1>1, <1>5, <1>6 DEF Numbered
  <2>2. CASE live' = live \cup {seq} /\ lost' = lost
    BY <1>4, <1>6, <1>7, <2>2 DEF Numbered
  <2>3. CASE lost' = lost \cup {seq} /\ live' = live
    BY <1>4, <1>6, <1>7, <2>3 DEF Numbered
  <2>4. CASE \E r \in live : live' = (live \ {r}) \cup {seq} /\ lost' = lost \cup {r}
    <3>1. PICK r \in live : live' = (live \ {r}) \cup {seq} /\ lost' = lost \cup {r}
      BY <2>4
    <3>. QED
      BY <1>4, <1>6, <1>7, <2>1, <3>1 DEF Numbered
  <2>. QED
    BY <1>4, <2>2, <2>3, <2>4
<1>10. \A h \in handed', l \in live' : h < l
  BY <1>4, <1>5 DEF Numbered
<1>11. \A n \in lost' \ lost : n \in Nat /\ n \notin handed /\ \A h \in handed : h < n
  BY <1>1, <1>4, <1>5, <1>6 DEF Numbered
<1>. QED
  BY <1>1, <1>2, <1>3, <1>4, <1>8, <1>9, <1>10, <1>11 DEF Numbered

LEMMA HandOnStep ==
  ASSUME ClientTypes, Numbered, HandOn
  PROVE  \E n \in live :
           /\ n \in Nat \ {0} /\ live' = live \ {n} /\ handed' = handed \cup {n} /\ seq' = seq /\ lost' = lost
           /\ content' = content /\ Numbered' /\ Write(FrameOf(n)) /\ FrameOf(n) \in Frame
           /\ \A h \in handed : h < n
<1>1. /\ seq \in Nat \ {0} /\ live \in SUBSET Nat /\ lost \in SUBSET Nat /\ handed \in SUBSET Nat
      /\ content \in Seq(Contents) /\ session \in Nat
  BY DEF ClientTypes
<1>2. PICK n \in live : (\A s \in live : n <= s) /\ live' = live \ {n} /\ handed' = handed \cup {n}
                        /\ seq' = seq /\ lost' = lost
  BY DEF HandOn, Bridge!HandOn
<1>3. live \ live' = {n}
  BY <1>2
<1>4. Write(FrameOf(n)) /\ content' = content
  BY <1>3 DEF HandOn
<1>5. n \in 1..(seq - 1) /\ Len(content) = seq - 1
  BY DEF Numbered
<1>6. n \in DOMAIN content
  BY <1>1, <1>5
<1>7. content[n] \in Contents
  BY <1>1, <1>6
<1>8. FrameOf(n) \in Frame
  BY <1>1, <1>5, <1>7 DEF FrameOf, Frame
<1>9. \A h \in handed : h < n
  BY DEF Numbered
<1>10. Numbered'
  <2>1. \A h \in handed', l \in live' : h < l
    <3>1. \A l \in live' : n < l
      BY <1>1, <1>2
    <3>. QED
      BY <1>2, <3>1 DEF Numbered
  <2>2. live' \cup lost' \cup handed' = 1..(seq' - 1) /\ lost' \cap (live' \cup handed') = {}
    BY <1>2 DEF Numbered
  <2>. QED
    BY <1>2, <1>4, <2>1, <2>2 DEF Numbered
<1>. QED
  BY <1>1, <1>2, <1>4, <1>5, <1>8, <1>9, <1>10

LEMMA NumberedInit == Init => Numbered
  BY DEF Init, Bridge!Init, Numbered

LEMMA NumberedStep ==
  ASSUME ClientTypes, Numbered, [Next]_vars
  PROVE  Numbered'
<1>1. CASE Handshake \/ ReadAsk \/ Record \/ Strange
  BY <1>1, NumbersOnly, NumberStep
<1>2. CASE HandOn
  BY <1>2, HandOnStep
<1>3. CASE \E v \in Verbs : StartConnects(v)
  BY <1>3 DEF StartConnects, Numbered
<1>4. CASE UNCHANGED bridgeVars
  BY <1>4 DEF bridgeVars, Numbered
<1>5. CASE HoldSchema
  BY <1>5 DEF HoldSchema, Numbered
<1>6. CASE WriteRest \/ Drip \/ BridgeEnds \/ StartReplay \/ (\E v \in Verbs : StartFails(v))
  BY <1>4, <1>6 DEF WriteRest, Drip, BridgeEnds, StartReplay, StartFails
<1>7. CASE ReadStep \/ Tick \/ Kill \/ WriteFails
  BY <1>4, <1>7 DEF ReadStep, Tick, Kill, WriteFails, TakeHalf, TakeFrame, RecordFrame, RecordRest, ReadEnds,
                    ReadTimesOut, clientElse
<1>8. CASE ReplayStep
  BY <1>4, <1>6, <1>8 DEF ReplayStep, ReplayWrite, ReplayDone, ReplayAlone, Discard, ReplayExit, replayElse
<1>9. CASE Install
  BY <1>4, <1>9 DEF Install
<1>10. CASE UNCHANGED vars
  BY <1>4, <1>10 DEF vars
<1>. QED
  BY <1>1, <1>2, <1>3, <1>5, <1>6, <1>7, <1>8, <1>9, <1>10 DEF Next, BridgeNext, Start, Verbs

-----------------------------------------------------------------------------
(* Every step is one of these; some leave the connection, the run and the  *)
(* capture alone.                                                          *)

Quiet ==
  UNCHANGED <<setup, runs, seq, live, lost, handed, content, server, socket, owes, open, run, exit, file,
              replayVars, historyVars>>

LEMMA StepIs ==
  ASSUME ClientTypes, [Next]_vars
  PROVE  \/ \E c \in Contents : Number(c)
         \/ HandOn \/ WriteRest \/ Drip \/ BridgeEnds
         \/ \E v \in Verbs : StartConnects(v)
         \/ \E v \in Verbs : StartFails(v)
         \/ StartReplay
         \/ TakeHalf \/ TakeFrame \/ RecordFrame \/ RecordRest \/ ReadEnds \/ ReadTimesOut \/ Tick \/ Kill \/ WriteFails
         \/ ReplayWrite \/ ReplayDone \/ ReplayAlone \/ ReplayExit
         \/ Quiet
<1>1. CASE Handshake \/ ReadAsk \/ Record \/ Strange
  BY <1>1, NumbersOnly
<1>2. CASE HoldSchema \/ Discard \/ Install \/ UNCHANGED vars
  <2>1. CASE HoldSchema
    BY <2>1 DEF HoldSchema, Quiet
  <2>2. CASE Discard
    BY <2>2 DEF Discard, Quiet, replayElse, bridgeVars
  <2>3. CASE Install
    BY <2>3 DEF Install, Quiet, bridgeVars
  <2>4. CASE UNCHANGED vars
    BY <2>4 DEF vars, Quiet, bridgeVars
  <2>. QED
    BY <1>2, <2>1, <2>2, <2>3, <2>4
<1>3. CASE BridgeNext
  BY <1>1, <1>2, <1>3 DEF BridgeNext
<1>4. CASE Start
  BY <1>4 DEF Start, Verbs
<1>5. CASE ReadStep
  BY <1>5 DEF ReadStep
<1>6. CASE ReplayStep
  BY <1>2, <1>6 DEF ReplayStep
<1>. QED
  BY <1>2, <1>3, <1>4, <1>5, <1>6 DEF Next

LEMMA TakesTyped ==
  ASSUME ClientTypes, RunInv, exit = Running, NEW f \in Frame,
         TailTakes(f) \/ PingTakes(f) \/ SchemaTakes(f) \/ SendTakes(f)
  PROVE  /\ run' \in RunSet /\ exit' \in {0, 1, 2, Running}
         /\ run'.verb = run.verb
         /\ exit' # Running => run' = run
         /\ exit' = Running => run'.got = NoFrame
         /\ run'.failed = run.failed /\ run'.sound = run.sound
         /\ run'.phase = run.phase \/ run'.phase = "wait"
<1>1. run \in RunSet /\ run.verb \in Verbs
  BY DEF ClientTypes, RunInv
<1>2. ASSUME NEW outcome, Ends(outcome)
      PROVE  exit' \in {0, 1, 2} /\ run' = run
  BY <1>1, <1>2, EndsTyped
<1>3. {0, 1, 2} \cap {Running} = {}
  BY DEF Running
<1>4. ASSUME NEW r \in RunSet, GoOn(r), r.verb = run.verb, r.failed = run.failed, r.sound = run.sound,
             r.phase = run.phase \/ r.phase = "wait"
      PROVE  /\ run' \in RunSet /\ exit' = Running /\ run'.verb = run.verb /\ run'.got = NoFrame
             /\ run'.failed = run.failed /\ run'.sound = run.sound
             /\ run'.phase = run.phase \/ run'.phase = "wait"
  <2>1. exit' = Running /\ run' \in RunSet /\ run' = [r EXCEPT !.got = NoFrame]
    BY <1>4, GoOnTyped
  <2>. QED
    BY <1>4, <2>1 DEF RunSet
<1>5. CASE TailTakes(f)
  <2>1. GoOn(Counted(run, f))
    BY <1>5 DEF TailTakes
  <2>. QED
    BY <1>1, <1>4, <2>1, CountedTyped
<1>6. CASE GoOn(run)
  BY <1>1, <1>4, <1>6
<1>7. CASE PingTakes(f)
  BY <1>1, <1>2, <1>3, <1>6, <1>7 DEF PingTakes
<1>8. CASE SchemaTakes(f)
  <2>1. CASE GoOn([run EXCEPT !.hash = TRUE])
    <3>1. PICK r : r = [run EXCEPT !.hash = TRUE]
      OBVIOUS
    <3>2. r \in RunSet /\ r.verb = run.verb /\ r.failed = run.failed /\ r.sound = run.sound /\ r.phase = run.phase
      BY <1>1, <3>1 DEF RunSet
    <3>. QED
      BY <1>4, <2>1, <3>1, <3>2
  <2>. QED
    BY <1>1, <1>2, <1>3, <1>6, <1>8, <2>1 DEF SchemaTakes
<1>9. CASE SendTakes(f)
  <2>1. CASE GoOn([run EXCEPT !.phase = "wait", !.left = Wait])
    <3>1. PICK r : r = [run EXCEPT !.phase = "wait", !.left = Wait]
      OBVIOUS
    <3>2. Wait \in 0..Wait
      BY ClientAssumption
    <3>3. r \in RunSet /\ r.verb = run.verb /\ r.failed = run.failed /\ r.sound = run.sound /\ r.phase = "wait"
      BY <1>1, <3>1, <3>2 DEF RunSet
    <3>. QED
      BY <1>4, <2>1, <3>1, <3>3
  <2>. QED
    BY <1>1, <1>2, <1>3, <1>6, <1>9, <2>1 DEF SendTakes
<1>. QED
  BY <1>5, <1>7, <1>8, <1>9

LEMMA SequencesTyped ==
  ASSUME ClientTypes
  PROVE  /\ run \in RunSet
         /\ file \in Seq(Frame \X {1, 2}) /\ kept \in Seq(Frame) /\ seen \in Seq(Frame)
         /\ socket \in Seq(Frame \X {1, 2})
         /\ Len(file) \in Nat /\ Len(kept) \in Nat /\ Len(seen) \in Nat /\ Len(socket) \in Nat
         /\ DOMAIN socket = 1..Len(socket) /\ DOMAIN seen = 1..Len(seen) /\ DOMAIN kept = 1..Len(kept)
<1>1. /\ file \in Seq(Frame \X {1, 2}) /\ kept \in Seq(Frame) /\ seen \in Seq(Frame)
      /\ socket \in Seq(Frame \X {1, 2}) /\ run \in RunSet
  BY DEF ClientTypes
<1>. QED
  BY <1>1

LEMMA TypesInit == Init => ClientTypes
<1> SUFFICES ASSUME Init PROVE ClientTypes
  OBVIOUS
<1>1. setup \in Setups /\ runs \in Seq(STRING)
  BY ClientAssumption DEF Init
<1>2. seq = 1 /\ live = {} /\ lost = {} /\ handed = {} /\ content = <<>>
  BY DEF Init, Bridge!Init
<1>3. socket = <<>> /\ file = <<>> /\ gone = <<>> /\ kept = <<>> /\ seen = <<>> /\ Len(socket) <= Buffer
      /\ pos \in 0..Len(file)
  BY ClientAssumption DEF Init
<1>4. run \in RunSet /\ exit \in Code /\ owes \in Frame
  BY NoFrameTyped DEF Init
<1>. QED
  BY <1>1, <1>2, <1>3, <1>4 DEF Init, ClientTypes

(* What the two ends do to the socket keeps it in its buffer. *)
LEMMA AppendHalf ==
  ASSUME ClientTypes, NEW f \in Frame, NEW h \in {1, 2}, Len(socket) < Buffer,
         socket' = Append(socket, <<f, h>>)
  PROVE  socket' \in Seq(Frame \X {1, 2}) /\ Len(socket') = Len(socket) + 1 /\ Len(socket') <= Buffer
<1>1. socket \in Seq(Frame \X {1, 2}) /\ <<f, h>> \in Frame \X {1, 2} /\ Buffer \in Nat
  BY ClientAssumption DEF ClientTypes
<1>2. Len(socket') = Len(socket) + 1 /\ socket' \in Seq(Frame \X {1, 2})
  BY <1>1
<1>. QED
  BY <1>1, <1>2

LEMMA TakeHead ==
  ASSUME ClientTypes, socket # <<>>, socket' = Tail(socket)
  PROVE  /\ Head(socket) = socket[1] /\ socket[1] = <<socket[1][1], socket[1][2]>>
         /\ socket[1][1] \in Frame /\ socket[1][2] \in {1, 2}
         /\ socket' \in Seq(Frame \X {1, 2}) /\ Len(socket') = Len(socket) - 1 /\ Len(socket') <= Buffer
         /\ \A i \in DOMAIN socket' : i + 1 \in DOMAIN socket /\ socket'[i] = socket[i + 1]
<1>1. socket \in Seq(Frame \X {1, 2}) /\ Len(socket) <= Buffer /\ Buffer \in Nat
  BY ClientAssumption DEF ClientTypes
<1>2. Len(socket) \in Nat \ {0} /\ socket[1] \in Frame \X {1, 2}
  BY <1>1
<1>3. socket' \in Seq(Frame \X {1, 2}) /\ Len(socket') = Len(socket) - 1
      /\ \A i \in 1..Len(socket') : socket'[i] = socket[i + 1]
  BY <1>1, <1>2
<1>4. DOMAIN socket = 1..Len(socket) /\ DOMAIN socket' = 1..Len(socket')
  BY <1>1, <1>3
<1>5. \A i \in DOMAIN socket' : i + 1 \in DOMAIN socket /\ socket'[i] = socket[i + 1]
  BY <1>2, <1>3, <1>4
<1>. QED
  BY <1>1, <1>2, <1>3, <1>5

LEMMA FileHalf ==
  ASSUME ClientTypes, NEW f \in Frame, NEW h \in {1, 2}, file' = Append(file, <<f, h>>)
  PROVE  /\ file' \in Seq(Frame \X {1, 2}) /\ Len(file') = Len(file) + 1 /\ pos \in 0..Len(file')
         /\ \A i \in 1..Len(file) : file'[i] = file[i]
         /\ file'[Len(file) + 1] = <<f, h>>
<1>1. file \in Seq(Frame \X {1, 2}) /\ <<f, h>> \in Frame \X {1, 2} /\ pos \in 0..Len(file)
  BY DEF ClientTypes
<1>. QED
  BY <1>1

(* The frame that a replay writes next. *)
LEMMA WholeFrame ==
  ASSUME ClientTypes, WholeAt(pos)
  PROVE  file[pos + 1][1] \in Frame /\ pos + 2 \in 0..Len(file)
<1>1. file \in Seq(Frame \X {1, 2}) /\ pos \in 0..Len(file) /\ pos + 2 <= Len(file)
  BY DEF ClientTypes, WholeAt
<1>2. pos + 1 \in 1..Len(file) /\ pos + 2 \in 0..Len(file)
  BY <1>1
<1>3. file[pos + 1] \in Frame \X {1, 2}
  BY <1>1, <1>2
<1>. QED
  BY <1>2, <1>3

LEMMA TypesStep ==
  ASSUME ClientTypes, Numbered, RunInv, FileInv, [Next]_vars
  PROVE  ClientTypes'
<1>0. /\ setup \in Setups /\ runs \in Seq(STRING)
      /\ seq \in Nat \ {0} /\ live \in SUBSET Nat /\ lost \in SUBSET Nat /\ handed \in SUBSET Nat
      /\ content \in Seq(Contents) /\ run \in RunSet /\ owes \in Frame /\ run.got \in Frame
      /\ socket \in Seq(Frame \X {1, 2}) /\ Len(socket) <= Buffer
      /\ session \in Nat /\ gone \in Seq(SUBSET Nat) /\ kept \in Seq(Frame) /\ seen \in Seq(Frame)
      /\ exit = Running => run.verb \in Verbs
      /\ file \in Seq(Frame \X {1, 2}) /\ Len(file) \in Nat /\ pos \in 0..Len(file)
  <2>1. file \in Seq(Frame \X {1, 2}) /\ run \in RunSet
    BY DEF ClientTypes
  <2>2. Len(file) \in Nat /\ run.got \in Frame
    BY <2>1 DEF RunSet
  <2>. QED
    BY <2>1, <2>2 DEF ClientTypes, RunInv
<1>. USE NoFrameTyped
<1>1. ASSUME NEW c \in Contents, Number(c) PROVE ClientTypes'
  <2>1. /\ seq' \in Nat \ {0} /\ live' \in SUBSET Nat /\ lost' \in SUBSET Nat /\ handed' \in SUBSET Nat
        /\ content' \in Seq(Contents)
    <3>1. /\ seq' = seq + 1 /\ live' \in SUBSET Nat /\ lost' \in SUBSET Nat /\ handed' = handed
          /\ content' \in Seq(Contents)
      BY <1>1, NumberStep
    <3>. QED
      BY <1>0, <3>1
  <2>2. UNCHANGED <<setup, runs, server, socket, owes, open, run, exit, file, pos, served, session, gone,
                    kept, seen>>
    BY <1>1 DEF Number, replayVars, historyVars
  <2>. QED
    BY <2>1, <2>2 DEF ClientTypes
<1>2. CASE HandOn
  <2>1. PICK n \in live : /\ live' = live \ {n} /\ handed' = handed \cup {n} /\ n \in Nat
                          /\ seq' = seq /\ lost' = lost /\ content' = content
                          /\ Write(FrameOf(n)) /\ FrameOf(n) \in Frame
    BY <1>2, HandOnStep
  <2>2. socket' \in Seq(Frame \X {1, 2}) /\ Len(socket') <= Buffer /\ owes' \in Frame
    <3>1. Len(socket) < Buffer /\ socket' = Append(socket, <<FrameOf(n), 1>>) /\ owes' = FrameOf(n)
      BY <2>1 DEF Write
    <3>. QED
      BY <2>1, <3>1, AppendHalf
  <2>. QED
    BY <1>2, <2>1, <2>2 DEF ClientTypes, HandOn, replayVars, historyVars
<1>3. CASE WriteRest
  <2>1. Len(socket) < Buffer /\ socket' = Append(socket, <<owes, 2>>) /\ owes' = NoFrame
    BY <1>3 DEF WriteRest
  <2>2. socket' \in Seq(Frame \X {1, 2}) /\ Len(socket') <= Buffer
    BY <1>0, <2>1, AppendHalf
  <2>. QED
    BY <1>3, <2>1, <2>2 DEF ClientTypes, WriteRest, bridgeVars, replayVars, historyVars
<1>4. CASE Drip
  <2>1. socket = <<>> /\ socket' = <<<<owes, 1>>>>
    BY <1>4 DEF Drip
  <2>2. socket' \in Seq(Frame \X {1, 2}) /\ Len(socket') = 1
    BY <1>0, <2>1
  <2>3. Len(socket') <= Buffer
    BY <2>2, ClientAssumption
  <2>. QED
    BY <1>4, <2>2, <2>3 DEF ClientTypes, Drip, bridgeVars, replayVars, historyVars
<1>5. CASE BridgeEnds
  <2>1. socket' \in Seq(Frame \X {1, 2}) /\ Len(socket') <= Buffer /\ open' \in {"open", "closed", "reset"}
    <3>1. CASE open' = "closed" /\ UNCHANGED socket
      BY <1>0, <3>1
    <3>2. CASE open' = "reset" /\ socket' = <<>>
      BY <3>2, ClientAssumption
    <3>. QED
      BY <1>5, <3>1, <3>2 DEF BridgeEnds
  <2>. QED
    BY <1>5, <2>1 DEF ClientTypes, BridgeEnds, bridgeVars, replayVars, historyVars
<1>6. ASSUME NEW v \in Verbs, StartConnects(v) PROVE ClientTypes'
  <2>1. runs' \in Seq(STRING)
    BY <1>0, <1>6 DEF StartConnects, Begin
  <2>2. gone' \in Seq(SUBSET Nat)
    BY <1>0, <1>6 DEF StartConnects
  <2>3. run' \in RunSet
    <3>1. PICK left \in ask(v) :
            run' = [Idle EXCEPT !.verb = v, !.phase = "read", !.left = left,
                                !.failed = (v = "doctor" /\ ReportFails), !.sound = Sound]
      BY <1>6 DEF StartConnects
    <3>2. left \in 0..Wait
      BY ClientAssumption DEF ask
    <3>3. PICK r : r = [Idle EXCEPT !.verb = v, !.phase = "read", !.left = left]
      OBVIOUS
    <3>4. r \in RunSet
      BY <3>2, <3>3 DEF RunSet
    <3>5. (v = "doctor" /\ ReportFails) \in BOOLEAN /\ Sound \in BOOLEAN
      BY DEF Sound, ReportFails
    <3>6. run' = [r EXCEPT !.failed = (v = "doctor" /\ ReportFails), !.sound = Sound]
      BY <3>1, <3>3 DEF Idle
    <3>. QED
      BY <3>4, <3>5, <3>6 DEF RunSet
  <2>4. /\ seq' = 1 /\ live' = {} /\ lost' = {} /\ handed' = {} /\ content' = <<>>
        /\ socket' = <<>> /\ owes' = NoFrame /\ open' = "open" /\ exit' = Running /\ seen' = <<>>
        /\ session' = session + 1 /\ server' \in {"serving", "bridge"}
        /\ UNCHANGED <<setup, file, pos, served, kept>>
    BY <1>6 DEF StartConnects, replayVars
  <2>5. socket' \in Seq(Frame \X {1, 2}) /\ Len(socket') <= Buffer
    BY <2>4, ClientAssumption
  <2>6. seen' \in Seq(Frame) /\ content' \in Seq(Contents) /\ session' \in Nat
    BY <1>0, <2>4
  <2>7. exit' \in Code /\ pos' \in 0..Len(file') /\ file' \in Seq(Frame \X {1, 2}) /\ kept' \in Seq(Frame)
        /\ setup' \in Setups /\ served' \in {"none", "serving", "exit-0", "exit-1", "exit-2"}
    BY <2>4 DEF ClientTypes
  <2>8. seq' \in Nat \ {0} /\ live' \in SUBSET Nat /\ lost' \in SUBSET Nat /\ handed' \in SUBSET Nat
        /\ owes' \in Frame /\ open' \in {"open", "closed", "reset"}
        /\ server' \in {"none", "bridge", "listening", "serving", "draining"}
    BY <2>4
  <2>. QED
    BY <2>1, <2>2, <2>3, <2>5, <2>6, <2>7, <2>8 DEF ClientTypes
<1>7. ASSUME NEW v \in Verbs, StartFails(v) PROVE ClientTypes'
  <2>1. runs' \in Seq(STRING)
    BY <1>0, <1>7 DEF StartFails, Begin
  <2>2. run' \in RunSet
    <3>1. run' = [Idle EXCEPT !.verb = v, !.failed = (v = "doctor" /\ ReportFails), !.sound = Sound]
      BY <1>7 DEF StartFails
    <3>2. (v = "doctor" /\ ReportFails) \in BOOLEAN /\ Sound \in BOOLEAN
      BY DEF Sound, ReportFails
    <3>. QED
      BY <3>1, <3>2 DEF RunSet
  <2>3. exit' \in {0, 1, 2} /\ seen' = <<>> /\ seen' \in Seq(Frame)
    BY <1>7 DEF StartFails
  <2>4. /\ UNCHANGED <<setup, seq, live, lost, handed, content, server, socket, owes, open, file, pos, served>>
        /\ UNCHANGED <<session, gone, kept>>
    BY <1>7 DEF StartFails, bridgeVars, replayVars
  <2>. QED
    BY <2>1, <2>2, <2>3, <2>4 DEF ClientTypes
<1>8. CASE StartReplay
  <2>1. runs' \in Seq(STRING)
    <3>1. runs # <<>> /\ runs' = Tail(runs)
      BY <1>8 DEF StartReplay, Begin
    <3>. QED
      BY <1>0, <3>1
  <2>2. pos' \in 0..Len(file) /\ served' \in {"exit-2", "serving"} /\ server' \in {server, "listening"}
    <3>1. pos' \in 0..Len(file)
      <4>1. pos' = 0
        BY <1>8 DEF StartReplay
      <4>. QED
        BY <1>0, <4>1
    <3>. QED
      BY <1>8, <3>1 DEF StartReplay
  <2>. QED
    BY <1>8, <2>1, <2>2 DEF StartReplay, ClientTypes, bridgeVars, historyVars
<1>9. CASE TakeHalf
  <2>1. socket # <<>> /\ socket' = Tail(socket) /\ exit = Running
    BY <1>9 DEF TakeHalf, Reading
  <2>2. socket' \in Seq(Frame \X {1, 2}) /\ Len(socket') <= Buffer /\ Head(socket)[1] \in Frame
    BY <2>1, TakeHead
  <2>3. run' \in RunSet /\ exit' \in Code
    <3>1. CASE Ends("invalid")
      BY <1>0, <2>1, <3>1, EndsTyped
    <3>2. CASE exit' = Running /\ run' = [run EXCEPT !.got = Head(socket)[1]]
      BY <1>0, <2>2, <3>2 DEF RunSet
    <3>. QED
      BY <1>9, <3>1, <3>2 DEF TakeHalf
  <2>. QED
    BY <1>9, <2>2, <2>3 DEF TakeHalf, ClientTypes, clientElse, bridgeVars, replayVars
<1>10. CASE TakeFrame
  <2>1. socket # <<>> /\ socket' = Tail(socket) /\ exit = Running
    BY <1>10 DEF TakeFrame, Reading
  <2>2. socket' \in Seq(Frame \X {1, 2}) /\ Len(socket') <= Buffer /\ Head(socket)[1] \in Frame
    BY <2>1, TakeHead
  <2>3. run' \in RunSet /\ exit' \in Code /\ seen' \in Seq(Frame)
    <3>1. CASE Head(socket)[1].content = "garbage"
      <4>1. Ends("invalid") /\ seen' = seen
        BY <1>10, <3>1 DEF TakeFrame
      <4>. QED
        BY <1>0, <2>1, <4>1, EndsTyped
    <3>2. CASE Head(socket)[1].content # "garbage"
      <4>1. PICK f \in Frame : f = Head(socket)[1]
        BY <2>2
      <4>2. seen' = Append(seen, f) /\ (TailTakes(f) \/ PingTakes(f) \/ SchemaTakes(f) \/ SendTakes(f))
        BY <1>10, <3>2, <4>1 DEF TakeFrame
      <4>3. seen' \in Seq(Frame)
        BY <1>0, <4>1, <4>2
      <4>4. run' \in RunSet /\ exit' \in {0, 1, 2, Running}
        BY <2>1, <4>2, TakesTyped
      <4>. QED
        BY <4>3, <4>4
    <3>. QED
      BY <3>1, <3>2
  <2>. QED
    BY <1>10, <2>2, <2>3 DEF TakeFrame, ClientTypes, clientElse, bridgeVars, replayVars
<1>11. CASE RecordFrame
  <2>1. socket # <<>> /\ socket' = Tail(socket)
    BY <1>11 DEF RecordFrame
  <2>2. socket' \in Seq(Frame \X {1, 2}) /\ Len(socket') <= Buffer /\ Head(socket)[1] \in Frame
    BY <2>1, TakeHead
  <2>3. file' \in Seq(Frame \X {1, 2}) /\ pos \in 0..Len(file')
    BY <1>11, <2>2, FileHalf DEF RecordFrame
  <2>4. kept' \in Seq(Frame)
    BY <1>0, <1>11, <2>2 DEF RecordFrame
  <2>5. run' \in RunSet
    BY <1>0, <1>11 DEF RecordFrame, RunSet
  <2>. QED
    BY <1>11, <2>2, <2>3, <2>4, <2>5 DEF RecordFrame, ClientTypes, clientElse, bridgeVars, replayVars
<1>12. CASE RecordRest
  <2>1. file' = Append(file, <<run.got, 2>>) /\ exit = Running /\ exit' = Running
    BY <1>12 DEF RecordRest, GoOn
  <2>2. file' \in Seq(Frame \X {1, 2}) /\ pos \in 0..Len(file')
    BY <1>0, <2>1, FileHalf
  <2>3. run' \in RunSet
    <3>1. PICK r : r = [run EXCEPT !.phase = "read", !.refused = @ \/ run.got.content \in {"refused", "bad-answer"}]
      OBVIOUS
    <3>2. r \in RunSet
      BY <1>0, <3>1 DEF RunSet
    <3>. QED
      BY <1>12, <3>1, <3>2, GoOnTyped DEF RecordRest
  <2>. QED
    BY <1>12, <2>1, <2>2, <2>3 DEF RecordRest, ClientTypes, clientElse, bridgeVars, replayVars
<1>13. CASE ReadEnds \/ ReadTimesOut
  <2>1. PICK outcome : Ends(outcome)
    BY <1>13 DEF ReadEnds, ReadTimesOut
  <2>2. exit = Running
    BY <1>13 DEF ReadEnds, ReadTimesOut, Reading
  <2>3. exit' \in Code /\ run' = run
    BY <1>0, <2>1, <2>2, EndsTyped
  <2>. QED
    BY <1>13, <2>3 DEF ReadEnds, ReadTimesOut, ClientTypes, clientElse, bridgeVars, replayVars
<1>14. CASE Tick \/ Kill \/ WriteFails
  <2>1. run' \in RunSet
    <3>1. CASE Tick
      <4>1. run.left > 0 /\ run.left \in 0..Wait /\ run' = [run EXCEPT !.left = run.left - 1]
        BY <1>0, <3>1 DEF Tick, RunSet
      <4>2. run.left - 1 \in 0..Wait
        BY <4>1, ClientAssumption
      <4>. QED
        BY <1>0, <4>1, <4>2 DEF RunSet
    <3>. QED
      BY <1>0, <1>14, <3>1 DEF Kill, WriteFails
  <2>2. exit' \in Code \cup {Killed}
    BY <1>14 DEF Tick, Kill, WriteFails, ClientTypes
  <2>. QED
    BY <1>14, <2>1, <2>2 DEF Tick, Kill, WriteFails, ClientTypes, clientElse, bridgeVars, replayVars
<1>15. CASE ReplayWrite
  <2>1. Write(file[pos + 1][1]) /\ pos' = pos + 2 /\ WholeAt(pos)
    BY <1>15 DEF ReplayWrite
  <2>2. file[pos + 1][1] \in Frame /\ pos' \in 0..Len(file)
    BY <2>1, WholeFrame
  <2>3. owes' \in Frame /\ socket' \in Seq(Frame \X {1, 2}) /\ Len(socket') <= Buffer
    BY <2>1, <2>2, AppendHalf DEF Write
  <2>. QED
    BY <1>15, <2>2, <2>3 DEF ReplayWrite, ClientTypes, replayElse, bridgeVars, historyVars
<1>16. CASE ReplayDone \/ ReplayAlone \/ ReplayExit
  <2>1. pos' \in 0..Len(file) /\ server' \in {"draining", "none"} /\ open' \in {"open", "closed", "reset"}
        /\ served' \in {"none", "serving", "exit-0", "exit-1", "exit-2"}
    <3>0. pos \in 0..Len(file) /\ Len(file) \in 0..Len(file)
      BY <1>0
    <3>1. open \in {"open", "closed", "reset"}
          /\ served \in {"none", "serving", "exit-0", "exit-1", "exit-2"}
      BY DEF ClientTypes
    <3>2. CASE ReplayDone
      BY <3>0, <3>1, <3>2 DEF ReplayDone
    <3>3. CASE ReplayAlone
      BY <3>0, <3>1, <3>3 DEF ReplayAlone
    <3>4. CASE ReplayExit
      BY <3>0, <3>1, <3>4 DEF ReplayExit, replayVars
    <3>. QED
      BY <1>16, <3>2, <3>3, <3>4
  <2>. QED
    BY <1>16, <2>1 DEF ReplayDone, ReplayAlone, ReplayExit, ClientTypes, replayElse, bridgeVars, historyVars
<1>17. CASE Quiet
  BY <1>17 DEF Quiet, ClientTypes, replayVars, historyVars
<1>. QED
  BY <1>1, <1>2, <1>3, <1>4, <1>5, <1>6, <1>7, <1>8, <1>9, <1>10, <1>11, <1>12, <1>13, <1>14, <1>15,
     <1>16, <1>17, StepIs

LEMMA GoneInit == Init => Gone
  BY DEF Init, Gone

LEMMA GoneStep ==
  ASSUME ClientTypes, Numbered, Gone, [Next]_vars
  PROVE  Gone'
<1>1. ASSUME NEW v \in Verbs, StartConnects(v) PROVE Gone'
  <2>1. /\ session \in Nat /\ gone \in Seq(SUBSET Nat) /\ lost \in SUBSET Nat /\ seq \in Nat
        /\ session' = session + 1 /\ gone' = IF session = 0 THEN <<>> ELSE Append(gone, lost)
    BY <1>1 DEF ClientTypes, StartConnects
  <2>2. lost \subseteq Nat \ {0} /\ IsFiniteSet(lost)
    <3>1. lost \subseteq 1..(seq - 1)
      BY DEF Numbered
    <3>2. IsFiniteSet(1..(seq - 1))
      BY <2>1, FS_Interval
    <3>3. IsFiniteSet(lost)
      BY <3>1, <3>2, FS_Subset
    <3>. QED
      BY <3>1, <3>3
  <2>3. CASE session = 0
    BY <2>1, <2>3 DEF Gone
  <2>4. CASE session # 0
    <3>1. Len(gone) = session - 1 /\ gone' = Append(gone, lost)
      BY <2>1, <2>4 DEF Gone
    <3>2. Len(gone') = session' - 1 /\ session' > 0
      BY <2>1, <3>1
    <3>3. ASSUME NEW s \in DOMAIN gone'
          PROVE  gone'[s] \subseteq Nat \ {0} /\ IsFiniteSet(gone'[s])
      <4>1. CASE s \in DOMAIN gone
        <5>1. gone'[s] = gone[s]
          BY <2>1, <3>1, <4>1
        <5>. QED
          BY <4>1, <5>1 DEF Gone
      <4>2. CASE s \notin DOMAIN gone
        <5>1. gone'[s] = lost
          BY <2>1, <3>1, <3>3, <4>2
        <5>. QED
          BY <2>2, <5>1
      <4>. QED
        BY <4>1, <4>2
    <3>. QED
      BY <2>1, <3>2, <3>3 DEF Gone
  <2>. QED
    BY <2>3, <2>4
<1>2. CASE UNCHANGED <<session, gone>>
  BY <1>2 DEF Gone
<1>3. ASSUME NEW c \in Contents, Number(c) PROVE Gone'
  BY <1>2, <1>3 DEF Number, historyVars
<1>4. CASE HandOn \/ WriteRest \/ Drip \/ BridgeEnds
  BY <1>2, <1>4 DEF HandOn, WriteRest, Drip, BridgeEnds, historyVars
<1>5. ASSUME NEW v \in Verbs, StartFails(v) PROVE Gone'
  BY <1>2, <1>5 DEF StartFails
<1>6. CASE TakeHalf \/ TakeFrame \/ RecordFrame \/ RecordRest \/ ReadEnds \/ ReadTimesOut \/ Tick \/ Kill \/ WriteFails
  BY <1>2, <1>6 DEF TakeHalf, TakeFrame, RecordFrame, RecordRest, ReadEnds, ReadTimesOut, Tick, Kill, WriteFails, clientElse
<1>7. CASE StartReplay \/ ReplayWrite \/ ReplayDone \/ ReplayAlone \/ ReplayExit
  BY <1>2, <1>7 DEF StartReplay, ReplayWrite, ReplayDone, ReplayAlone, ReplayExit, replayElse, historyVars
<1>8. CASE Quiet
  BY <1>2, <1>8 DEF Quiet, historyVars
<1>. QED
  BY <1>1, <1>3, <1>4, <1>5, <1>6, <1>7, <1>8, StepIs

-----------------------------------------------------------------------------
(* The log, and what doctor makes of it.                                   *)

LEMMA LogInit == Init => LogInv
<1> SUFFICES ASSUME Init PROVE LogInv
  OBVIOUS
<1>1. installed = [f \in Shipped |-> Missing] /\ log = <<>> /\ newest = NotStarted
  BY DEF Init, InstallInit
<1>. QED
  BY <1>1 DEF LogInv, Shipped, Missing, NotStarted

LEMMA InstallOnly == [Next]_vars => [InstallNext]_installVars
<1> SUFFICES ASSUME [Next]_vars PROVE [InstallNext]_installVars
  OBVIOUS
<1>1. CASE UNCHANGED vars
  BY <1>1 DEF vars
<1>2. CASE BridgeNext
  BY <1>2 DEF BridgeNext, Handshake, ReadAsk, Record, Strange, HoldSchema, HandOn, WriteRest, Drip, BridgeEnds,
              Number
<1>3. CASE Start
  BY <1>3 DEF Start, StartReplay, StartConnects, StartFails
<1>4. CASE ReadStep \/ Tick \/ Kill \/ WriteFails
  BY <1>4 DEF ReadStep, Tick, Kill, WriteFails, TakeHalf, TakeFrame, RecordFrame, RecordRest, ReadEnds, ReadTimesOut,
              clientElse
<1>5. CASE ReplayStep
  BY <1>5 DEF ReplayStep, ReplayWrite, WriteRest, ReplayDone, ReplayAlone, Discard, ReplayExit, replayElse
<1>6. CASE Install
  BY <1>6 DEF Install
<1>. QED
  BY <1>1, <1>2, <1>3, <1>4, <1>5, <1>6 DEF Next

LEMMA LogStep ==
  ASSUME LogInv, [Next]_vars
  PROVE  LogInv'
<1> DEFINE LogLine == [words : SUBSET {"loading", "disabled", "stop"}, loader : Int, driver : Int]
<1>1. /\ installed \in [Shipped -> Int] /\ log \in Seq(LogLine)
      /\ installed["driver"] \in Builds \cup {Missing} /\ installed["broker"] \in Builds \cup {Missing}
      /\ newest \in [outcome : {"none", "off", "started", "stopped"}, loader : Int, driver : Int]
      /\ Builds \subseteq Nat \ {0} /\ Missing = 0
      /\ Shipped = {"loader", "driver", "broker", "rest"}
  BY InterfaceAssumption DEF LogInv, Missing, Shipped
<1>2. CASE UNCHANGED installVars
  BY <1>2 DEF installVars, LogInv, BannerOf
<1>3. ASSUME UNCHANGED <<log, newest>>, installed' \in [Shipped -> Int],
             installed'["driver"] \in Builds \cup {Missing}, installed'["broker"] \in Builds \cup {Missing}
      PROVE  LogInv'
  BY <1>3 DEF LogInv, BannerOf
<1>4. ASSUME NEW b \in Builds, Extract(b) PROVE LogInv'
  BY <1>1, <1>3, <1>4 DEF Extract
<1>5. ASSUME NEW f \in Shipped, NEW b \in Builds \cup {Missing}, ChangeFile(f, b) PROVE LogInv'
  BY <1>1, <1>3, <1>5 DEF ChangeFile
<1>6. CASE SwitchLoader
  <2>1. installed' = [installed EXCEPT !["loader"] = -installed["loader"]] /\ UNCHANGED <<log, newest>>
    BY <1>6 DEF SwitchLoader
  <2>. QED
    BY <1>1, <1>3, <2>1
<1>7. CASE StartDcs
  <2>1. PICK there \in {<<>>, log} :
       \/ /\ installed["loader"] = Missing
          /\ log' = there
          /\ newest' = IF there = <<>> THEN NotStarted ELSE newest
       \/ /\ log' = Append(there, Line({"disabled"}))
          /\ newest' = Started("off")
       \/ /\ log' = Append(there, Banner)
          /\ newest' = Started("started")
       \/ /\ \E stop \in Stops : log' = there \o <<Banner, stop>>
          /\ newest' = Started("stopped")
    BY <1>7 DEF StartDcs
  <2>2. there \in Seq(LogLine) /\ installed' = installed
    <3>1. installed' = installed
      BY <1>7 DEF StartDcs
    <3>2. <<>> \in Seq(LogLine)
      OBVIOUS
    <3>. QED
      BY <1>1, <2>1, <3>1, <3>2
  <2>3. /\ Banner \in LogLine /\ Line({"disabled"}) \in LogLine /\ Stops \subseteq LogLine
        /\ \A o \in {"off", "started", "stopped"} :
             Started(o) \in [outcome : {"none", "off", "started", "stopped"}, loader : Int, driver : Int]
        /\ \A o \in {"off", "started", "stopped"} : Banner = BannerOf(Started(o)) /\ Started(o).outcome = o
        /\ \A stop \in Stops : "stop" \in stop.words
        /\ Line({"disabled"}).words = {"disabled"}
    BY <1>1 DEF Banner, Line, Stops, Started, BannerOf
  <2>4. CASE log' = there /\ newest' = IF there = <<>> THEN NotStarted ELSE newest
    <3>1. CASE there = <<>>
      BY <1>1, <2>2, <2>4, <3>1 DEF LogInv, NotStarted
    <3>2. CASE there # <<>>
      <4>1. log' = log /\ newest' = newest
        BY <2>1, <2>4, <3>2
      <4>. QED
        BY <2>2, <4>1 DEF LogInv, BannerOf
    <3>. QED
      BY <3>1, <3>2
  <2>5. ASSUME NEW line \in LogLine, log' = Append(there, line)
        PROVE  log' \in Seq(LogLine) /\ log' # <<>> /\ log'[Len(log')] = line
    BY <2>2, <2>5
  <2>6. CASE log' = Append(there, Line({"disabled"})) /\ newest' = Started("off")
    <3>1. log' \in Seq(LogLine) /\ log' # <<>> /\ log'[Len(log')] = Line({"disabled"})
      BY <2>3, <2>5, <2>6
    <3>. QED
      BY <1>1, <2>2, <2>3, <2>6, <3>1 DEF LogInv
  <2>7. CASE log' = Append(there, Banner) /\ newest' = Started("started")
    <3>1. log' \in Seq(LogLine) /\ log' # <<>> /\ log'[Len(log')] = Banner
      BY <2>3, <2>5, <2>7
    <3>. QED
      BY <1>1, <2>2, <2>3, <2>7, <3>1 DEF LogInv
  <2>8. CASE (\E stop \in Stops : log' = there \o <<Banner, stop>>) /\ newest' = Started("stopped")
    <3>1. PICK stop \in Stops : log' = there \o <<Banner, stop>>
      BY <2>8
    <3>2. PICK banner \in LogLine : banner = Banner
      BY <2>3
    <3>3. stop \in LogLine
      BY <2>3
    <3>4. /\ log' \in Seq(LogLine) /\ Len(log') = Len(there) + 2
          /\ log'[Len(there) + 1] = banner /\ log'[Len(there) + 2] = stop
      BY <2>2, <3>1, <3>2, <3>3
    <3>5. Len(there) \in Nat
      BY <2>2
    <3>6. Len(log') >= 2 /\ Len(log') - 1 = Len(there) + 1 /\ log' # <<>>
      BY <3>4, <3>5
    <3>7. Len(log') >= 2 /\ log'[Len(log') - 1] = Banner /\ "stop" \in log'[Len(log')].words
      BY <2>3, <3>2, <3>4, <3>6
    <3>. QED
      BY <1>1, <2>2, <2>3, <2>8, <3>4, <3>7 DEF LogInv
  <2>. QED
    BY <2>1, <2>4, <2>6, <2>7, <2>8
<1>. QED
  BY <1>2, <1>4, <1>5, <1>6, <1>7, InstallOnly DEF InstallNext

(* The start doctor finds is the one that came last. *)
LEMMA NewestStartIs ==
  ASSUME LogInv
  PROVE  /\ newest.outcome \in {"none", "off"} => NewestStart.start # "banner"
         /\ newest.outcome = "started" =>
              NewestStart = [start |-> "banner", loader |-> newest.loader, driver |-> newest.driver,
                             stopped |-> FALSE]
         /\ newest.outcome = "stopped" => NewestStart.start = "banner" /\ NewestStart.stopped
<1> DEFINE starts == {i \in DOMAIN log : IsStart(log[i])}
           at     == CHOOSE i \in starts : \A j \in starts : j <= i
<1>1. log \in Seq([words : SUBSET {"loading", "disabled", "stop"}, loader : Int, driver : Int])
      /\ DOMAIN log = 1..Len(log) /\ Len(log) \in Nat
  BY DEF LogInv
<1>2. ASSUME NEW n \in starts, \A j \in starts : j <= n PROVE at = n
  <2>1. at \in starts /\ \A j \in starts : j <= at
    BY <1>2
  <2>2. at <= n /\ n <= at
    BY <1>2, <2>1
  <2>. QED
    BY <1>1, <1>2, <2>1, <2>2
<1>3. NewestStart = IF starts = {} THEN NoStart
                    ELSE IF "loading" \notin log[at].words THEN [start |-> "disabled"]
                    ELSE [start |-> "banner", loader |-> log[at].loader, driver |-> log[at].driver,
                          stopped |-> \E i \in DOMAIN log : i > at /\ "stop" \in log[i].words]
  BY DEF NewestStart
<1>4. IsStart(BannerOf(newest)) /\ "loading" \in BannerOf(newest).words
      /\ BannerOf(newest).loader = newest.loader /\ BannerOf(newest).driver = newest.driver
  BY DEF IsStart, BannerOf
<1>5. CASE newest.outcome = "none"
  <2>1. starts = {}
    BY <1>5 DEF LogInv
  <2>. QED
    BY <1>3, <1>5, <2>1 DEF NoStart
<1>6. CASE newest.outcome = "off"
  <2>1. log # <<>> /\ log[Len(log)].words = {"disabled"}
    BY <1>6 DEF LogInv
  <2>2. Len(log) \in starts
    BY <1>1, <2>1 DEF IsStart
  <2>3. at = Len(log)
    BY <1>1, <1>2, <2>2
  <2>. QED
    BY <1>3, <1>6, <2>1, <2>2, <2>3
<1>7. CASE newest.outcome = "started"
  <2>1. log # <<>> /\ log[Len(log)] = BannerOf(newest)
    BY <1>7 DEF LogInv
  <2>2. Len(log) \in starts
    BY <1>1, <1>4, <2>1
  <2>3. at = Len(log)
    BY <1>1, <1>2, <2>2
  <2>4. ~ \E i \in DOMAIN log : i > at /\ "stop" \in log[i].words
    <3>1. \A i \in DOMAIN log : ~(i > Len(log))
      <4>. HIDE DEF starts, at
      <4>. QED
        BY <1>1
    <3>. QED
      BY <2>3, <3>1
  <2>. QED
    BY <1>3, <1>4, <1>7, <2>1, <2>2, <2>3, <2>4
<1>8. CASE newest.outcome = "stopped"
  <2>1. Len(log) >= 2 /\ log[Len(log) - 1] = BannerOf(newest) /\ "stop" \in log[Len(log)].words
    BY <1>8 DEF LogInv
  <2>2. Len(log) - 1 \in starts /\ Len(log) \notin starts
    BY <1>1, <1>4, <2>1 DEF IsStart
  <2>3. \A j \in starts : j <= Len(log) - 1
    BY <1>1, <2>2
  <2>4. at = Len(log) - 1
    BY <1>2, <2>2, <2>3
  <2>5. \E i \in DOMAIN log : i > at /\ "stop" \in log[i].words
    <3>1. Len(log) \in DOMAIN log /\ Len(log) > Len(log) - 1
      BY <1>1, <2>1
    <3>. QED
      BY <2>1, <2>4, <3>1, Zenon
  <2>. QED
    BY <1>3, <1>4, <1>8, <2>1, <2>2, <2>4, <2>5
<1>. QED
  BY <1>5, <1>6, <1>7, <1>8 DEF LogInv

(* doctor's files pass exactly when the install is sound. *)
LEMMA ReportIsTrue ==
  ASSUME LogInv
  PROVE  ReportFails = ~Sound
<1>1. /\ installed \in [Shipped -> Int] /\ newest.outcome \in {"none", "off", "started", "stopped"}
      /\ newest \in [outcome : {"none", "off", "started", "stopped"}, loader : Int, driver : Int]
  BY DEF LogInv
<1>2. CASE \E f \in Shipped : installed[f] = Missing
  BY <1>2 DEF ReportFails, placement, Sound
<1>3. CASE \A f \in Shipped : installed[f] # Missing
  <2>1. "fail" \notin placement /\ installed["driver"] # Missing /\ installed["broker"] # Missing
    BY <1>3 DEF placement, Shipped
  <2>2. "fail" \in Interfaces <=> ~(driver_interface = broker_interface /\ driver_interface # 0)
    BY <2>1 DEF Interfaces
  <2>3. newest = Started("started") <=>
          newest.outcome = "started" /\ newest.loader = installed["loader"] /\ newest.driver = installed["driver"]
    BY <1>1 DEF Started
  <2>4. "fail" \in StartLines <=> newest # Started("started")
    <3>1. CASE newest.outcome \in {"none", "off"}
      BY <2>3, <3>1, NewestStartIs DEF StartLines
    <3>2. CASE newest.outcome = "stopped"
      BY <2>3, <3>2, NewestStartIs DEF StartLines
    <3>3. CASE newest.outcome = "started"
      <4>1. NewestStart.start = "banner" /\ NewestStart.loader = newest.loader
            /\ NewestStart.driver = newest.driver /\ NewestStart.stopped = FALSE
        BY <3>3, NewestStartIs
      <4>. QED
        BY <2>3, <3>3, <4>1 DEF StartLines, SameBuild
    <3>. QED
      BY <1>1, <3>1, <3>2, <3>3
  <2>5. ReportFails <=> "fail" \in StartLines \/ "fail" \in Interfaces
    BY <2>1 DEF ReportFails
  <2>6. Sound <=> newest = Started("started") /\ driver_interface = broker_interface /\ driver_interface # 0
    BY <1>3 DEF Sound, driver_interface, broker_interface
  <2>7. ReportFails \in BOOLEAN /\ Sound \in BOOLEAN
    BY DEF ReportFails, Sound
  <2>. QED
    BY <2>2, <2>4, <2>5, <2>6, <2>7
<1>. QED
  BY <1>2, <1>3

-----------------------------------------------------------------------------
(* What a run is at.                                                       *)

LEMMA RunInit == Init => RunInv
  BY DEF Init, Idle, RunInv, Running

LEMMA SeenGrows ==
  ASSUME seen \in Seq(Frame), NEW f \in Frame, seen' = Append(seen, f)
  PROVE  /\ Range(seen') = Range(seen) \cup {f}
         /\ seen' # <<>> /\ Len(seen') = Len(seen) + 1 /\ seen'[Len(seen')] = f
         /\ \A i \in DOMAIN seen : i \in DOMAIN seen' /\ seen'[i] = seen[i]
<1>1. Len(seen) \in Nat /\ DOMAIN seen = 1..Len(seen) /\ DOMAIN seen' = 1..(Len(seen) + 1)
      /\ seen'[Len(seen) + 1] = f /\ \A i \in 1..Len(seen) : seen'[i] = seen[i]
  OBVIOUS
<1>2. Range(seen') = {seen'[i] : i \in 1..(Len(seen) + 1)} /\ Range(seen) = {seen[i] : i \in 1..Len(seen)}
  BY <1>1 DEF Range
<1>3. 1..(Len(seen) + 1) = (1..Len(seen)) \cup {Len(seen) + 1}
  BY <1>1
<1>4. Range(seen') = Range(seen) \cup {f}
  BY <1>1, <1>2, <1>3
<1>. QED
  BY <1>1, <1>4

LEMMA KeptGrows ==
  ASSUME kept \in Seq(Frame), NEW f \in Frame, kept' = Append(kept, f)
  PROVE  /\ Range(kept') = Range(kept) \cup {f}
         /\ Len(kept') = Len(kept) + 1 /\ kept'[Len(kept')] = f
         /\ \A i \in DOMAIN kept : i \in DOMAIN kept' /\ kept'[i] = kept[i]
<1>1. Len(kept) \in Nat /\ DOMAIN kept = 1..Len(kept) /\ DOMAIN kept' = 1..(Len(kept) + 1)
      /\ kept'[Len(kept) + 1] = f /\ Len(kept') = Len(kept) + 1 /\ \A i \in 1..Len(kept) : kept'[i] = kept[i]
  OBVIOUS
<1>2. Range(kept') = {kept'[i] : i \in 1..(Len(kept) + 1)} /\ Range(kept) = {kept[i] : i \in 1..Len(kept)}
  BY <1>1 DEF Range
<1>3. 1..(Len(kept) + 1) = (1..Len(kept)) \cup {Len(kept) + 1}
  BY <1>1
<1>4. Range(kept') = Range(kept) \cup {f}
  BY <1>1, <1>2, <1>3
<1>. QED
  BY <1>1, <1>4

LEMMA RunStep ==
  ASSUME ClientTypes, RunInv, FileInv, LogInv, [Next]_vars
  PROVE  RunInv'
<1>1. run \in RunSet /\ seen \in Seq(Frame)
  BY DEF ClientTypes
<1>2. CASE UNCHANGED <<run, seen>> /\ exit' \in {exit, 0, 1, 2, Killed}
  BY <1>2 DEF RunInv, Seen, Running, Killed
<1>3. ASSUME NEW c \in Contents, Number(c) PROVE RunInv'
  BY <1>2, <1>3 DEF Number, historyVars
<1>4. CASE HandOn \/ WriteRest \/ Drip \/ BridgeEnds
  BY <1>2, <1>4 DEF HandOn, WriteRest, Drip, BridgeEnds, historyVars
<1>5. ASSUME NEW v \in Verbs, StartConnects(v) PROVE RunInv'
  <2>1. PICK left \in ask(v) :
          run' = [Idle EXCEPT !.verb = v, !.phase = "read", !.left = left,
                              !.failed = (v = "doctor" /\ ReportFails), !.sound = Sound]
    BY <1>5 DEF StartConnects
  <2>2. run'.verb = v /\ run'.phase = "read" /\ run'.hash = FALSE /\ run'.sound = Sound
        /\ run'.failed = (v = "doctor" /\ ReportFails)
    BY <2>1 DEF Idle
  <2>3. seen' = <<>> /\ Range(seen') = {}
    BY <1>5 DEF StartConnects, Range
  <2>4. v = "doctor" => run'.failed = ~run'.sound
    BY <2>2, ReportIsTrue DEF ReportFails, Sound
  <2>. QED
    BY <2>2, <2>3, <2>4 DEF RunInv, Seen
<1>6. ASSUME NEW v \in Verbs, StartFails(v) PROVE RunInv'
  <2>1. run' = [Idle EXCEPT !.verb = v, !.failed = (v = "doctor" /\ ReportFails), !.sound = Sound]
        /\ exit' \in {1, 2}
    BY <1>6 DEF StartFails
  <2>2. run'.verb = v /\ run'.phase = "none" /\ run'.hash = FALSE /\ run'.sound = Sound
        /\ run'.failed = (v = "doctor" /\ ReportFails)
    BY <2>1 DEF Idle
  <2>3. seen' = <<>> /\ Range(seen') = {}
    BY <1>6 DEF StartFails, Range
  <2>4. v = "doctor" => run'.failed = ~run'.sound
    BY <2>2, ReportIsTrue DEF ReportFails, Sound
  <2>. QED
    BY <2>1, <2>2, <2>3, <2>4 DEF RunInv, Seen, Running
<1>7. CASE TakeHalf
  <2>1. exit = Running /\ run.verb \in Verbs /\ run.phase \in {"read", "wait"} /\ seen' = seen
    BY <1>7 DEF TakeHalf, Reading, RunInv
  <2>2. CASE Ends("invalid")
    BY <1>2, <2>1, <2>2, EndsTyped
  <2>3. CASE exit' = Running /\ run' = [run EXCEPT !.got = Head(socket)[1]]
    BY <1>1, <2>1, <2>3 DEF RunInv, RunSet, Seen
  <2>. QED
    BY <1>7, <2>2, <2>3 DEF TakeHalf
<1>8. CASE TakeFrame
  <2>1. exit = Running /\ run.verb \in Verbs /\ run.phase \in {"read", "wait"} /\ run.verb # "record"
        /\ socket # <<>> /\ socket' = Tail(socket)
    BY <1>8 DEF TakeFrame, Reading, RunInv
  <2>2. CASE Head(socket)[1].content = "garbage"
    <3>1. Ends("invalid") /\ seen' = seen
      BY <1>8, <2>2 DEF TakeFrame
    <3>. QED
      BY <1>2, <2>1, <3>1, EndsTyped
  <2>3. CASE Head(socket)[1].content # "garbage"
    <3>1. PICK f \in Frame : f = Head(socket)[1]
      BY <2>1, TakeHead
    <3>2. seen' = Append(seen, f) /\ (TailTakes(f) \/ PingTakes(f) \/ SchemaTakes(f) \/ SendTakes(f))
      BY <1>8, <2>3, <3>1 DEF TakeFrame
    <3>3. Range(seen') = Range(seen) \cup {f}
      BY <1>1, <3>2, SeenGrows
    <3>4. /\ run' \in RunSet /\ exit' \in {0, 1, 2, Running} /\ run'.verb = run.verb
          /\ run'.failed = run.failed /\ run'.sound = run.sound
          /\ run'.phase = run.phase \/ run'.phase = "wait"
          /\ exit' # Running => run' = run
      BY <2>1, <3>2, TakesTyped
    <3>5. Seen({"accepted"}) => Seen({"accepted"})'
      BY <3>3 DEF Seen
    <3>6. CASE run.verb = "tail"
      <4>1. GoOn(Counted(run, f))
        BY <3>2, <3>6 DEF TailTakes, PingTakes, SchemaTakes, SendTakes
      <4>2. Counted(run, f) \in RunSet /\ Counted(run, f).phase = run.phase
        BY <1>1, CountedTyped
      <4>3. run'.phase = run.phase
        BY <4>1, <4>2, GoOnTyped DEF RunSet
      <4>. QED
        BY <2>1, <3>4, <3>6, <4>3 DEF RunInv
    <3>7. CASE run.verb \in {"ping", "doctor"}
      <4>1. PingTakes(f)
        BY <3>2, <3>7 DEF TailTakes, SchemaTakes, SendTakes
      <4>2. GoOn(run) => run'.phase = run.phase
        BY <1>1, GoOnTyped DEF RunSet
      <4>3. run'.phase = run.phase
        BY <2>1, <4>1, <4>2, EndsTyped DEF PingTakes
      <4>4. exit' = Running => f.content \notin {"alive", "dead"}
        <5>1. ASSUME f.content \in {"alive", "dead"} PROVE exit' # Running
          <6>1. Ends(f.content)
            BY <4>1, <5>1 DEF PingTakes
          <6>. QED
            BY <2>1, <6>1, EndsTyped DEF Running
        <5>. QED
          BY <5>1
      <4>5. exit' = Running /\ run'.verb = "doctor" => ~Seen({"alive", "dead"})'
        BY <2>1, <3>3, <3>4, <4>4 DEF Seen, RunInv
      <4>. QED
        BY <2>1, <3>4, <3>7, <4>3, <4>5 DEF RunInv
    <3>8. CASE run.verb = "schema"
      <4>1. SchemaTakes(f)
        BY <3>2, <3>8 DEF TailTakes, PingTakes, SendTakes
      <4>2. /\ run'.phase = run.phase
            /\ run'.hash <=> (run.hash \/ f.content = "handshake+hash")
        <5>1. CASE GoOn(run) /\ f.content # "handshake+hash"
          BY <1>1, <5>1, GoOnTyped DEF RunSet
        <5>2. CASE f.content = "handshake+hash"
          <6>1. PICK r : r = [run EXCEPT !.hash = TRUE]
            OBVIOUS
          <6>2. r \in RunSet /\ r.hash = TRUE /\ r.phase = run.phase
            BY <1>1, <6>1 DEF RunSet
          <6>3. GoOn(r)
            BY <4>1, <5>2, <6>1 DEF SchemaTakes
          <6>4. run' = [r EXCEPT !.got = NoFrame]
            BY <6>2, <6>3, GoOnTyped
          <6>. QED
            BY <5>2, <6>2, <6>4 DEF RunSet
        <5>3. CASE (\E o : Ends(o)) /\ f.content # "handshake+hash"
          BY <2>1, <5>3, EndsTyped
        <5>. QED
          BY <4>1, <5>1, <5>2, <5>3 DEF SchemaTakes
      <4>3. run'.hash <=> Seen({"handshake+hash"})'
        BY <3>3, <3>8, <4>2 DEF Seen, RunInv
      <4>. QED
        BY <2>1, <3>4, <3>8, <4>2, <4>3 DEF RunInv
    <3>9. CASE run.verb = "send"
      <4>1. SendTakes(f)
        BY <3>2, <3>9 DEF TailTakes, PingTakes, SchemaTakes
      <4>2. run'.phase = "wait" => run.phase = "wait" \/ f.content = "accepted"
        <5>1. GoOn(run) => run'.phase = run.phase
          BY <1>1, GoOnTyped DEF RunSet
        <5>2. (\E o : Ends(o)) => run'.phase = run.phase
          BY <2>1, EndsTyped
        <5>. QED
          BY <4>1, <5>1, <5>2 DEF SendTakes
      <4>3. run'.phase = "wait" => Seen({"accepted"})'
        BY <3>3, <3>5, <4>2 DEF Seen, RunInv
      <4>. QED
        BY <2>1, <3>4, <3>9, <4>3 DEF RunInv
    <3>. QED
      BY <2>1, <3>6, <3>7, <3>8, <3>9 DEF Verbs
  <2>. QED
    BY <2>2, <2>3
<1>9. CASE RecordFrame \/ RecordRest
  <2>1. exit = Running /\ run.verb = "record" /\ exit' = Running /\ seen' = seen
    BY <1>9 DEF RecordFrame, RecordRest, Reading, RunInv, GoOn
  <2>2. run'.verb = run.verb /\ run'.phase \in {"write", "read"}
    BY <1>1, <1>9 DEF RecordFrame, RecordRest, GoOn, RunSet
  <2>. QED
    BY <2>1, <2>2 DEF RunInv, Verbs
<1>10. CASE ReadEnds \/ ReadTimesOut
  <2>1. (\E outcome : Ends(outcome)) /\ run.verb \in Verbs /\ seen' = seen
    BY <1>10 DEF ReadEnds, ReadTimesOut, Reading, RunInv
  <2>. QED
    BY <1>2, <2>1, EndsTyped
<1>11. CASE Tick
  <2>1. run' = [run EXCEPT !.left = run.left - 1] /\ seen' = seen /\ exit' = exit
    BY <1>11 DEF Tick
  <2>. QED
    BY <1>1, <2>1 DEF RunInv, RunSet, Seen
<1>12. CASE Kill \/ WriteFails
  BY <1>2, <1>12 DEF Kill, WriteFails
<1>13. CASE StartReplay \/ ReplayWrite \/ ReplayDone \/ ReplayAlone \/ ReplayExit
  BY <1>2, <1>13 DEF StartReplay, ReplayWrite, ReplayDone, ReplayAlone, ReplayExit, replayElse, historyVars
<1>14. CASE Quiet
  BY <1>2, <1>14 DEF Quiet, historyVars
<1>. QED
  BY <1>3, <1>4, <1>5, <1>6, <1>7, <1>8, <1>9, <1>10, <1>11, <1>12, <1>13, <1>14, StepIs

-----------------------------------------------------------------------------
(* The capture.                                                            *)

LEMMA FileInit == Init => FileInv
  BY DEF Init, FileInv, Running

(* A file that ends inside a frame is one that record leaves alone. *)
LEMMA AppendedWhole ==
  ASSUME ClientTypes, FileInv, whole_frames = Len(file)
  PROVE  Len(file) = 2 * Len(kept)
<1>1. Len(file) \in Nat /\ Len(kept) \in Nat
  BY SequencesTyped
<1>2. SUFFICES ASSUME Len(file) = 2 * Len(kept) - 1 PROVE FALSE
  BY <1>1 DEF FileInv
<1> DEFINE p == Len(file) - 1
<1>3. p \in 0..Len(file) /\ p % 2 = 0 /\ ~WholeAt(p)
  BY <1>1, <1>2 DEF WholeAt
<1>4. ASSUME NEW q \in 0..(p - 1), q % 2 = 0 PROVE WholeAt(q)
  <2>1. PICK k \in Nat : q = 2 * k
    <3>1. q \in Nat
      BY <1>1, <1>2
    <3>. QED
      BY <1>4, <3>1
  <2>2. k + 1 \in 1..Len(kept) /\ q + 1 = 2 * (k + 1) - 1 /\ q + 2 = 2 * (k + 1) /\ q + 2 <= Len(file)
    BY <1>1, <1>2, <1>4, <2>1
  <2>3. file[q + 1] = <<kept[k + 1], 1>> /\ file[q + 2] = <<kept[k + 1], 2>>
    BY <2>2 DEF FileInv
  <2>. QED
    BY <2>2, <2>3 DEF WholeAt
<1>5. whole_frames % 2 = 0
  BY <1>3, <1>4 DEF whole_frames
<1>. QED
  BY <1>1, <1>2, <1>5

(* The frame that record writes is the one whose first half it took. *)
LEMMA RecordsGot ==
  ASSUME ClientTypes, RunInv, BridgeInv, ReplayInv, RecordFrame
  PROVE  /\ OnItsWay /\ exit = Running /\ run.verb = "record" /\ run.phase = "read" /\ server = "bridge"
         /\ socket # <<>> /\ socket' = Tail(socket) /\ socket[1][2] = 2 /\ Head(socket) = socket[1]
         /\ run.got = socket[1][1] /\ socket[1][1] \in Frame
<1>1. exit = Running /\ run.verb = "record" /\ run.phase \in {"read", "wait"} /\ socket # <<>>
      /\ Head(socket)[2] = 2 /\ socket' = Tail(socket)
  BY DEF RecordFrame, Reading
<1>2. server = "bridge" /\ open # "reset"
  BY <1>1 DEF ReplayInv, Served, BridgeInv
<1>3. OnItsWay
  BY <1>1, <1>2 DEF BridgeInv, Bridged
<1>4. Head(socket) = socket[1] /\ socket[1][1] \in Frame /\ 1 \in DOMAIN socket
  <2>1. socket \in Seq(Frame \X {1, 2})
    BY DEF ClientTypes
  <2>. QED
    BY <1>1, <2>1, TakeHead
<1>5. Got = socket[1][1] /\ Got = run.got
  BY <1>1, <1>3, <1>4 DEF OnItsWay, Paired, Got
<1>. QED
  BY <1>1, <1>2, <1>3, <1>4, <1>5 DEF RunInv

LEMMA FileStep ==
  ASSUME ClientTypes, RunInv, FileInv, BridgeInv, ReplayInv, [Next]_vars
  PROVE  FileInv'
<1>1. run \in RunSet /\ Len(file) \in Nat /\ Len(kept) \in Nat /\ file \in Seq(Frame \X {1, 2}) /\ kept \in Seq(Frame)
  BY SequencesTyped
<1>2. CASE UNCHANGED <<file, kept>> /\ exit = Running /\ run'.verb = run.verb
           /\ (run.verb = "record" => run'.phase = run.phase /\ run.phase # "write")
  BY <1>2 DEF FileInv
<1>17. CASE UNCHANGED <<file, kept>> /\ exit' \notin {0, Running}
  BY <1>17 DEF FileInv
<1>3. CASE UNCHANGED <<file, kept, run, exit>>
  BY <1>3 DEF FileInv
<1>4. ASSUME NEW c \in Contents, Number(c) PROVE FileInv'
  BY <1>3, <1>4 DEF Number, historyVars
<1>5. CASE HandOn \/ WriteRest \/ Drip \/ BridgeEnds
  BY <1>3, <1>5 DEF HandOn, WriteRest, Drip, BridgeEnds, historyVars
<1>6. ASSUME NEW v \in Verbs, StartConnects(v) PROVE FileInv'
  <2>1. run'.verb = v /\ run'.phase = "read" /\ UNCHANGED <<file, kept>>
    BY <1>6 DEF StartConnects, Idle
  <2>2. exit' = Running /\ Running # 0 /\ (v = "record" => Len(file) = 2 * Len(kept))
    BY <1>6, AppendedWhole DEF StartConnects, MayRun, Running
  <2>. QED
    BY <2>1, <2>2 DEF FileInv
<1>7. ASSUME NEW v \in Verbs, StartFails(v) PROVE FileInv'
  <2>1. exit' \notin {0, Running} /\ UNCHANGED <<file, kept>>
    BY <1>7 DEF StartFails, Running
  <2>. QED
    BY <1>17, <2>1
<1>8. CASE TakeHalf
  <2>1. exit = Running /\ run.verb \in Verbs /\ run.phase \in {"read", "wait"} /\ UNCHANGED <<file, kept>>
    BY <1>8 DEF TakeHalf, Reading, RunInv
  <2>2. CASE Ends("invalid")
    BY <1>2, <2>1, <2>2, EndsTyped DEF Running
  <2>3. CASE exit' = Running /\ run' = [run EXCEPT !.got = Head(socket)[1]]
    <3>1. run'.verb = run.verb /\ run'.phase = run.phase
      BY <1>1, <2>3 DEF RunSet
    <3>. QED
      BY <1>2, <2>1, <3>1
  <2>. QED
    BY <1>8, <2>2, <2>3 DEF TakeHalf
<1>9. CASE TakeFrame
  <2>1. run.verb # "record" /\ run.verb \in Verbs /\ exit = Running /\ socket # <<>> /\ socket' = Tail(socket)
        /\ UNCHANGED <<file, kept>>
    BY <1>9 DEF TakeFrame, Reading, RunInv
  <2>2. run'.verb = run.verb
    BY <1>9, <2>1, TakeHead, TakesTyped, EndsTyped DEF TakeFrame
  <2>. QED
    BY <1>2, <2>1, <2>2
<1>10. CASE RecordFrame
  <2>1. PICK f \in Frame : f = socket[1][1]
    BY <1>10, RecordsGot
  <2>2. /\ file' = Append(file, <<f, 1>>) /\ kept' = Append(kept, f) /\ run' = [run EXCEPT !.phase = "write"]
        /\ run.got = f /\ run.verb = "record" /\ run.phase = "read" /\ exit = Running
    BY <1>10, <2>1, RecordsGot DEF RecordFrame
  <2>3. /\ Len(file') = Len(file) + 1 /\ (\A i \in 1..Len(file) : file'[i] = file[i])
        /\ file'[Len(file) + 1] = <<f, 1>>
    BY <2>2, FileHalf
  <2>4. /\ Len(kept') = Len(kept) + 1 /\ (\A i \in 1..Len(kept) : kept'[i] = kept[i])
        /\ kept'[Len(kept) + 1] = f
    BY <1>1, <2>2
  <2>5. Len(file) = 2 * Len(kept)
    BY <2>2 DEF FileInv
  <2>6. ASSUME NEW k \in 1..Len(kept')
        PROVE  /\ file'[2 * k - 1] = <<kept'[k], 1>>
               /\ 2 * k <= Len(file') => file'[2 * k] = <<kept'[k], 2>>
    <3>1. CASE k = Len(kept) + 1
      <4>1. 2 * k - 1 = Len(file) + 1 /\ ~(2 * k <= Len(file'))
        BY <1>1, <2>3, <2>5, <3>1
      <4>. QED
        BY <2>3, <2>4, <3>1, <4>1
    <3>2. CASE k # Len(kept) + 1
      <4>1. k \in 1..Len(kept) /\ 2 * k - 1 \in 1..Len(file) /\ 2 * k \in 1..Len(file)
        BY <1>1, <2>4, <2>5, <2>6, <3>2
      <4>2. file[2 * k - 1] = <<kept[k], 1>> /\ file[2 * k] = <<kept[k], 2>>
        BY <2>5, <4>1 DEF FileInv
      <4>3. file'[2 * k - 1] = file[2 * k - 1] /\ file'[2 * k] = file[2 * k] /\ kept'[k] = kept[k]
        BY <2>3, <2>4, <4>1
      <4>. QED
        BY <4>2, <4>3
    <3>. QED
      BY <3>1, <3>2
  <2>7. run'.phase = "write" /\ run'.got = f /\ exit' # 0
    BY <1>1, <1>10, <2>2 DEF RunSet, RecordFrame, Running
  <2>8. 2 * Len(kept') - 1 = Len(file') /\ Len(kept') > 0 /\ Len(file') <= 2 * Len(kept')
    BY <1>1, <2>3, <2>4, <2>5
  <2>9. kept'[Len(kept')] = f
    BY <2>4
  <2>. QED
    BY <2>6, <2>7, <2>8, <2>9 DEF FileInv
<1>11. CASE RecordRest
  <2>1. /\ file' = Append(file, <<run.got, 2>>) /\ kept' = kept /\ exit = Running /\ run.phase = "write"
        /\ run.verb = "record" /\ run.got \in Frame
    BY <1>1, <1>11 DEF RecordRest, RunInv, RunSet
  <2>2. /\ Len(file') = Len(file) + 1 /\ (\A i \in 1..Len(file) : file'[i] = file[i])
        /\ file'[Len(file) + 1] = <<run.got, 2>>
    BY <2>1, FileHalf
  <2>3. Len(kept) > 0 /\ Len(file) = 2 * Len(kept) - 1 /\ kept[Len(kept)] = run.got
    BY <2>1 DEF FileInv
  <2>4. ASSUME NEW k \in 1..Len(kept)
        PROVE  /\ file'[2 * k - 1] = <<kept[k], 1>>
               /\ file'[2 * k] = <<kept[k], 2>>
    <3>1. 2 * k - 1 \in 1..Len(file)
      BY <1>1, <2>3
    <3>2. CASE k = Len(kept)
      <4>1. 2 * k = Len(file) + 1
        BY <1>1, <2>3, <3>2
      <4>. QED
        BY <2>2, <2>3, <3>1, <3>2, <4>1 DEF FileInv
    <3>3. CASE k # Len(kept)
      <4>1. 2 * k \in 1..Len(file)
        BY <1>1, <2>3, <3>3
      <4>. QED
        <5>1. file[2 * k - 1] = <<kept[k], 1>> /\ file[2 * k] = <<kept[k], 2>>
          BY <2>4, <4>1 DEF FileInv
        <5>. QED
          BY <2>2, <3>1, <4>1, <5>1
    <3>. QED
      BY <3>2, <3>3
  <2>5. run'.phase = "read" /\ exit' # 0
    BY <1>1, <1>11 DEF RecordRest, GoOn, RunSet, Running
  <2>6. Len(file') = 2 * Len(kept)
    BY <1>1, <2>2, <2>3
  <2>. QED
    BY <1>1, <2>1, <2>4, <2>5, <2>6 DEF FileInv
<1>12. CASE ReadEnds \/ ReadTimesOut
  <2>1. (\E outcome : Ends(outcome)) /\ exit = Running /\ run.verb \in Verbs /\ UNCHANGED <<file, kept>>
    BY <1>12 DEF ReadEnds, ReadTimesOut, Reading, RunInv
  <2>2. run' = run
    BY <2>1, EndsTyped
  <2>3. run.verb = "record" => run.phase # "write"
    BY <1>12 DEF ReadEnds, ReadTimesOut, Reading, Timed
  <2>. QED
    BY <1>2, <2>1, <2>2, <2>3
<1>13. CASE Tick
  <2>1. run'.verb = run.verb /\ run.verb # "record"
    BY <1>1, <1>13 DEF Tick, Timed, RunSet
  <2>. QED
    BY <1>2, <1>13, <2>1 DEF Tick
<1>14. CASE Kill \/ WriteFails
  BY <1>17, <1>14 DEF Kill, WriteFails, Killed, Running
<1>15. CASE StartReplay \/ ReplayWrite \/ ReplayDone \/ ReplayAlone \/ ReplayExit
  BY <1>3, <1>15 DEF StartReplay, ReplayWrite, ReplayDone, ReplayAlone, ReplayExit, replayElse, historyVars
<1>16. CASE Quiet
  BY <1>3, <1>16 DEF Quiet, historyVars
<1>. QED
  BY <1>4, <1>5, <1>6, <1>7, <1>8, <1>9, <1>10, <1>11, <1>12, <1>13, <1>14, <1>15, <1>16, StepIs

-----------------------------------------------------------------------------
(* The connection to a bridge.                                             *)

Seconds(halves) == {halves[i][1].seq : i \in {j \in DOMAIN halves : halves[j][2] = 2}}

LEMMA SecondsAppend ==
  ASSUME socket \in Seq(Frame \X {1, 2}), NEW f \in Frame, NEW h \in {1, 2}, socket' = Append(socket, <<f, h>>)
  PROVE  /\ Seconds(socket') = Seconds(socket) \cup (IF h = 2 THEN {f.seq} ELSE {})
         /\ Len(socket') = Len(socket) + 1 /\ socket'[Len(socket) + 1] = <<f, h>>
         /\ \A i \in DOMAIN socket : i \in DOMAIN socket' /\ socket'[i] = socket[i]
         /\ DOMAIN socket' = DOMAIN socket \cup {Len(socket) + 1}
<1>1. Len(socket) \in Nat /\ DOMAIN socket = 1..Len(socket) /\ DOMAIN socket' = 1..(Len(socket) + 1)
      /\ Len(socket') = Len(socket) + 1
      /\ socket'[Len(socket) + 1] = <<f, h>> /\ \A i \in 1..Len(socket) : socket'[i] = socket[i]
  OBVIOUS
<1>2. 1..(Len(socket) + 1) = (1..Len(socket)) \cup {Len(socket) + 1}
  BY <1>1
<1>3. <<f, h>>[1] = f /\ <<f, h>>[2] = h
  OBVIOUS
<1>4. PICK n : n = Len(socket) + 1
  OBVIOUS
<1>5. DOMAIN socket' = DOMAIN socket \cup {n} /\ n \notin DOMAIN socket /\ socket'[n][1] = f /\ socket'[n][2] = h
      /\ \A i \in DOMAIN socket : socket'[i] = socket[i]
  BY <1>1, <1>2, <1>3, <1>4
<1>6. Seconds(socket') = Seconds(socket) \cup (IF h = 2 THEN {f.seq} ELSE {})
  <2>1. ASSUME NEW x PROVE x \in Seconds(socket') <=> x \in Seconds(socket) \/ (h = 2 /\ x = f.seq)
    <3>1. x \in Seconds(socket') <=> \E i \in DOMAIN socket' : socket'[i][2] = 2 /\ x = socket'[i][1].seq
      BY DEF Seconds
    <3>2. x \in Seconds(socket) <=> \E i \in DOMAIN socket : socket[i][2] = 2 /\ x = socket[i][1].seq
      BY DEF Seconds
    <3>. QED
      BY <1>5, <3>1, <3>2, Zenon
  <2>. QED
    BY <2>1
<1>. QED
  BY <1>1, <1>2, <1>6

LEMMA SecondsTail ==
  ASSUME ClientTypes, socket # <<>>, socket' = Tail(socket)
  PROVE  Seconds(socket) = Seconds(socket') \cup (IF socket[1][2] = 2 THEN {socket[1][1].seq} ELSE {})
<1>1. /\ DOMAIN socket = 1..Len(socket) /\ Len(socket) \in Nat \ {0}
      /\ DOMAIN socket' = 1..(Len(socket) - 1)
      /\ \A i \in DOMAIN socket' : i + 1 \in DOMAIN socket /\ socket'[i] = socket[i + 1]
  BY SequencesTyped, TakeHead
<1>2. ASSUME NEW n \in Seconds(socket), n \notin Seconds(socket')
      PROVE  socket[1][2] = 2 /\ n = socket[1][1].seq
  <2>1. PICK i \in DOMAIN socket : socket[i][2] = 2 /\ n = socket[i][1].seq
    BY DEF Seconds
  <2>2. ASSUME i # 1 PROVE FALSE
    <3>1. i - 1 \in DOMAIN socket' /\ (i - 1) + 1 = i
      BY <1>1, <2>1, <2>2
    <3>2. socket'[i - 1] = socket[i]
      BY <1>1, <3>1
    <3>3. n \in Seconds(socket')
      BY <2>1, <3>1, <3>2 DEF Seconds
    <3>. QED
      BY <1>2, <3>3
  <2>. QED
    BY <2>1, <2>2
<1>3. Seconds(socket') \subseteq Seconds(socket)
  BY <1>1 DEF Seconds
<1>4. socket[1][2] = 2 => socket[1][1].seq \in Seconds(socket)
  BY <1>1 DEF Seconds
<1>. QED
  BY <1>2, <1>3, <1>4

LEMMA ComingIs == Coming = Seconds(socket) \cup (IF owes = NoFrame THEN {} ELSE {owes.seq})
  BY DEF Coming, Seconds

LEMMA AscendingTail ==
  ASSUME ClientTypes, socket # <<>>, socket' = Tail(socket), Ascending
  PROVE  Ascending'
<1>1. /\ Len(socket) \in Nat /\ DOMAIN socket' = 1..(Len(socket) - 1)
      /\ \A i \in DOMAIN socket' : i + 1 \in DOMAIN socket /\ socket'[i] = socket[i + 1]
  BY SequencesTyped, TakeHead
<1>2. SUFFICES ASSUME NEW i \in DOMAIN socket', NEW j \in DOMAIN socket', i < j
               PROVE  /\ socket'[i][1].seq <= socket'[j][1].seq
                      /\ socket'[i][2] = 2 => socket'[i][1].seq < socket'[j][1].seq
  BY DEF Ascending
<1>3. i + 1 \in DOMAIN socket /\ j + 1 \in DOMAIN socket /\ i + 1 < j + 1
      /\ socket'[i] = socket[i + 1] /\ socket'[j] = socket[j + 1]
  BY <1>1, <1>2
<1>. QED
  BY <1>3 DEF Ascending

(* A half that goes out after all there are. *)
LEMMA AscendingAppend ==
  ASSUME socket \in Seq(Frame \X {1, 2}), NEW f \in Frame, NEW h \in {1, 2}, socket' = Append(socket, <<f, h>>),
         Ascending,
         \A i \in DOMAIN socket : socket[i][1].seq <= f.seq /\ (socket[i][2] = 2 => socket[i][1].seq < f.seq)
  PROVE  Ascending'
<1>1. /\ Len(socket) \in Nat /\ DOMAIN socket = 1..Len(socket)
      /\ Len(socket') = Len(socket) + 1 /\ socket'[Len(socket) + 1] = <<f, h>>
      /\ \A i \in DOMAIN socket : socket'[i] = socket[i]
      /\ DOMAIN socket' = DOMAIN socket \cup {Len(socket) + 1}
  BY SecondsAppend
<1>2. SUFFICES ASSUME NEW i \in DOMAIN socket', NEW j \in DOMAIN socket', i < j
               PROVE  /\ socket'[i][1].seq <= socket'[j][1].seq
                      /\ socket'[i][2] = 2 => socket'[i][1].seq < socket'[j][1].seq
  BY DEF Ascending
<1>3. i \in DOMAIN socket /\ socket'[i] = socket[i]
  BY <1>1, <1>2
<1>4. CASE j \in DOMAIN socket
  BY <1>1, <1>2, <1>3, <1>4 DEF Ascending
<1>5. CASE j = Len(socket) + 1
  <2>1. socket'[j][1] = f
    BY <1>1, <1>5
  <2>. QED
    BY <1>3, <2>1
<1>. QED
  BY <1>1, <1>4, <1>5

LEMMA BridgeInit == Init => BridgeInv
  BY DEF Init, BridgeInv, Bridged, Running

(* What is on its way is left as it is. *)
LEMMA OnItsWaySame ==
  ASSUME OnItsWay, UNCHANGED <<socket, owes, session, handed, kept, seen>>, run'.verb = run.verb, Got' = Got
  PROVE  OnItsWay'
<1>1. Taken' = Taken
  BY DEF Taken
<1>2. Coming' = Coming
  BY DEF Coming
<1>3. Paired' /\ Ascending'
  BY DEF OnItsWay, Paired, Ascending
<1>. QED
  BY <1>1, <1>2, <1>3 DEF OnItsWay

LEMMA HandOnKeeps ==
  ASSUME ClientTypes, Numbered, OnItsWay, HandOn
  PROVE  OnItsWay'
<1>1. PICK n \in live : /\ n \in Nat \ {0} /\ handed' = handed \cup {n} /\ Write(FrameOf(n)) /\ FrameOf(n) \in Frame
                        /\ \A h \in handed : h < n
  BY HandOnStep
<1>2. PICK f \in Frame : f = FrameOf(n)
  BY <1>1
<1>3. f.session = session /\ f.seq = n /\ f # NoFrame
  BY <1>1, <1>2 DEF FrameOf, NoFrame
<1>4. owes = NoFrame /\ owes' = f /\ socket' = Append(socket, <<f, 1>>)
      /\ UNCHANGED <<session, kept, seen, run>>
  BY <1>1, <1>2 DEF Write, HandOn, historyVars
<1>5. /\ Seconds(socket') = Seconds(socket) /\ socket'[Len(socket) + 1] = <<f, 1>> /\ Len(socket') = Len(socket) + 1
      /\ \A i \in DOMAIN socket : i \in DOMAIN socket' /\ socket'[i] = socket[i]
      /\ DOMAIN socket' = DOMAIN socket \cup {Len(socket) + 1}
      /\ Len(socket) \in Nat /\ DOMAIN socket = 1..Len(socket) /\ socket \in Seq(Frame \X {1, 2})
  <2>1. /\ socket \in Seq(Frame \X {1, 2}) /\ Len(socket) \in Nat /\ DOMAIN socket = 1..Len(socket)
    BY SequencesTyped
  <2>2. PICK h \in {1, 2} : h = 1
    OBVIOUS
  <2>3. socket' = Append(socket, <<f, h>>)
    BY <1>4, <2>2
  <2>4. /\ Seconds(socket') = Seconds(socket) \cup (IF h = 2 THEN {f.seq} ELSE {})
        /\ Len(socket') = Len(socket) + 1 /\ socket'[Len(socket) + 1] = <<f, h>>
        /\ \A i \in DOMAIN socket : i \in DOMAIN socket' /\ socket'[i] = socket[i]
        /\ DOMAIN socket' = DOMAIN socket \cup {Len(socket) + 1}
    BY <2>1, <2>3, SecondsAppend
  <2>. QED
    BY <2>1, <2>2, <2>4
<1>6. Coming' = Coming \cup {n}
  BY <1>3, <1>4, <1>5, ComingIs DEF Coming, Seconds
<1>7. Taken' = Taken
  BY <1>4 DEF Taken
<1>8. \A i \in DOMAIN socket : socket[i][1].seq < n
  BY <1>1 DEF OnItsWay
<1>9. Ascending'
  <2>1. \A i \in DOMAIN socket : socket[i][1].seq <= f.seq /\ (socket[i][2] = 2 => socket[i][1].seq < f.seq)
    <3>1. \A i \in DOMAIN socket : socket[i][1].seq \in Nat
      BY <1>5 DEF Frame
    <3>. QED
      BY <1>1, <1>3, <1>8, <3>1
  <2>. QED
    BY <1>4, <1>5, <2>1, AscendingAppend DEF OnItsWay
<1>10. Paired'
  <2>1. Got' = Got
    BY <1>4 DEF Got
  <2>2. ASSUME NEW i \in DOMAIN socket', socket'[i][2] = 2
        PROVE  IF i = 1 THEN Got' = socket'[i][1] ELSE socket'[i - 1] = <<socket'[i][1], 1>>
    <3>1. i \in DOMAIN socket /\ socket'[i] = socket[i]
      BY <1>5, <2>2
    <3>2. i # 1 => i - 1 \in DOMAIN socket
      BY <1>5, <3>1
    <3>. QED
      BY <1>5, <2>1, <2>2, <3>1, <3>2 DEF OnItsWay, Paired
  <2>3. socket' # <<>> /\ socket'[Len(socket')] = <<owes', 1>>
    BY <1>4, <1>5
  <2>. QED
    BY <2>2, <2>3 DEF Paired
<1>11. \A i \in DOMAIN socket' : socket'[i][1].session = session' /\ socket'[i][1].seq \in handed'
  <2>1. ASSUME NEW i \in DOMAIN socket, i \in DOMAIN socket'
        PROVE  socket'[i][1].session = session' /\ socket'[i][1].seq \in handed'
    BY <1>1, <1>4, <1>5, <2>1 DEF OnItsWay
  <2>2. socket'[Len(socket) + 1][1] = f
    BY <1>5
  <2>. QED
    BY <1>1, <1>3, <1>4, <1>5, <2>1, <2>2
<1>12. \A k \in Coming', m \in Taken' : m < k
  <2>1. Taken \subseteq handed
    BY DEF OnItsWay
  <2>. QED
    BY <1>1, <1>6, <1>7, <2>1 DEF OnItsWay
<1>13. handed' = Taken' \cup Coming'
  BY <1>1, <1>6, <1>7 DEF OnItsWay
<1>. QED
  BY <1>3, <1>4, <1>9, <1>10, <1>11, <1>12, <1>13 DEF OnItsWay

LEMMA WriteRestKeeps ==
  ASSUME ClientTypes, OnItsWay, WriteRest
  PROVE  OnItsWay'
<1>1. PICK f \in Frame : f = owes
  BY DEF ClientTypes
<1>2. owes = f /\ f # NoFrame /\ owes' = NoFrame /\ socket' = Append(socket, <<f, 2>>)
      /\ UNCHANGED <<session, handed, kept, seen, run>>
  BY <1>1 DEF WriteRest, bridgeVars, historyVars
<1>3. /\ Seconds(socket') = Seconds(socket) \cup {f.seq}
      /\ socket'[Len(socket) + 1] = <<f, 2>> /\ Len(socket') = Len(socket) + 1
      /\ \A i \in DOMAIN socket : i \in DOMAIN socket' /\ socket'[i] = socket[i]
      /\ DOMAIN socket' = DOMAIN socket \cup {Len(socket) + 1}
      /\ Len(socket) \in Nat /\ DOMAIN socket = 1..Len(socket) /\ socket \in Seq(Frame \X {1, 2})
  BY <1>2, SecondsAppend, SequencesTyped
<1>4. Coming' = Coming
  <2>1. Coming = Seconds(socket) \cup {f.seq}
    BY <1>2, ComingIs
  <2>2. Coming' = Seconds(socket')
    BY <1>2 DEF Coming, Seconds
  <2>. QED
    BY <1>3, <2>1, <2>2
<1>5. Taken' = Taken /\ Got' = Got
  BY <1>2 DEF Taken, Got
<1>6. f.session = session /\ f.seq \in handed
  BY <1>2 DEF OnItsWay, Coming
<1>7. IF socket = <<>> THEN Got = f ELSE socket[Len(socket)] = <<f, 1>>
  BY <1>2 DEF OnItsWay, Paired
<1>8. Ascending'
  <2>1. ASSUME NEW i \in DOMAIN socket
        PROVE  socket[i][1].seq <= f.seq /\ (socket[i][2] = 2 => socket[i][1].seq < f.seq)
    <3>1. socket # <<>> /\ Len(socket) \in DOMAIN socket /\ i \in 1..Len(socket)
      BY <1>3
    <3>2. socket[Len(socket)][1] = f /\ socket[Len(socket)][2] = 1
      BY <1>7, <3>1
    <3>3. CASE i = Len(socket)
      <4>1. f.seq \in Nat
        BY DEF Frame
      <4>. QED
        BY <3>2, <3>3, <4>1
    <3>4. CASE i # Len(socket)
      <4>1. i < Len(socket)
        BY <1>3, <3>1, <3>4
      <4>. QED
        BY <3>1, <3>2, <4>1 DEF OnItsWay, Ascending
    <3>. QED
      BY <3>3, <3>4
  <2>. QED
    BY <1>2, <1>3, <2>1, AscendingAppend DEF OnItsWay
<1>9. Paired'
  <2>1. ASSUME NEW i \in DOMAIN socket', socket'[i][2] = 2
        PROVE  IF i = 1 THEN Got' = socket'[i][1] ELSE socket'[i - 1] = <<socket'[i][1], 1>>
    <3>1. CASE i \in DOMAIN socket
      <4>1. i # 1 => i - 1 \in DOMAIN socket
        BY <1>3, <3>1
      <4>. QED
        BY <1>3, <1>5, <2>1, <3>1, <4>1 DEF OnItsWay, Paired
    <3>2. CASE i = Len(socket) + 1
      <4>1. socket'[i][1] = f
        BY <1>3, <3>2
      <4>2. CASE socket = <<>>
        BY <1>3, <1>5, <1>7, <3>2, <4>1, <4>2
      <4>3. CASE socket # <<>>
        <5>1. i # 1 /\ i - 1 = Len(socket) /\ Len(socket) \in DOMAIN socket
          BY <1>3, <3>2, <4>3
        <5>. QED
          BY <1>3, <1>7, <4>1, <4>3, <5>1
      <4>. QED
        BY <4>2, <4>3
    <3>. QED
      BY <1>3, <3>1, <3>2
  <2>. QED
    BY <1>2, <2>1 DEF Paired
<1>10. \A i \in DOMAIN socket' : socket'[i][1].session = session' /\ socket'[i][1].seq \in handed'
  <2>1. ASSUME NEW i \in DOMAIN socket, i \in DOMAIN socket'
        PROVE  socket'[i][1].session = session' /\ socket'[i][1].seq \in handed'
    BY <1>2, <1>3, <2>1 DEF OnItsWay
  <2>2. socket'[Len(socket) + 1][1] = f
    BY <1>3
  <2>. QED
    BY <1>2, <1>3, <1>6, <2>1, <2>2
<1>. QED
  BY <1>2, <1>4, <1>5, <1>8, <1>9, <1>10 DEF OnItsWay

(* The peer that sends the first half again. *)
LEMMA DripKeeps ==
  ASSUME ClientTypes, OnItsWay, Drip
  PROVE  OnItsWay'
<1>1. PICK f \in Frame : f = owes
  BY DEF ClientTypes
<1>2. owes = f /\ f # NoFrame /\ owes' = owes /\ socket = <<>> /\ socket' = <<<<f, 1>>>>
      /\ UNCHANGED <<session, handed, kept, seen, run>>
  BY <1>1 DEF Drip, bridgeVars, historyVars
<1>3. DOMAIN socket' = {1} /\ Len(socket') = 1 /\ socket'[1] = <<f, 1>> /\ socket' # <<>>
  BY <1>2
<1>4. Coming' = Coming
  <2>1. Seconds(socket) = {} /\ Seconds(socket') = {}
    BY <1>2, <1>3 DEF Seconds
  <2>. QED
    BY <1>2, <2>1 DEF Coming, Seconds
<1>5. Taken' = Taken
  BY <1>2 DEF Taken
<1>6. f.session = session /\ f.seq \in handed
  BY <1>2 DEF OnItsWay, Coming
<1>7. Paired'
  BY <1>2, <1>3 DEF Paired
<1>8. Ascending'
  BY <1>3 DEF Ascending
<1>. QED
  BY <1>2, <1>3, <1>4, <1>5, <1>6, <1>7, <1>8 DEF OnItsWay

LEMMA TakeHalfKeeps ==
  ASSUME ClientTypes, RunInv, OnItsWay, TakeHalf, exit' = Running
  PROVE  OnItsWay'
<1>1. /\ exit = Running /\ run.phase \in {"read", "wait"} /\ run.verb = run.verb
      /\ socket # <<>> /\ Head(socket)[2] = 1 /\ socket' = Tail(socket)
      /\ UNCHANGED <<session, handed, kept, seen, owes>>
  BY DEF TakeHalf, Reading, clientElse, bridgeVars
<1>2. /\ Head(socket) = socket[1] /\ socket[1] = <<socket[1][1], socket[1][2]>> /\ socket[1][2] = 1
      /\ Len(socket') = Len(socket) - 1
      /\ \A i \in DOMAIN socket' : i + 1 \in DOMAIN socket /\ socket'[i] = socket[i + 1]
      /\ DOMAIN socket' = 1..Len(socket') /\ Len(socket) \in Nat /\ DOMAIN socket = 1..Len(socket)
      /\ run \in RunSet
  BY <1>1, TakeHead, SequencesTyped
<1>3. CASE run' = [run EXCEPT !.got = Head(socket)[1]]
  <2>1. run'.verb = run.verb /\ run'.phase = run.phase /\ run'.got = socket[1][1]
    BY <1>2, <1>3 DEF RunSet
  <2>2. Got' = socket[1][1]
    BY <1>1, <2>1 DEF Got
  <2>3. Taken' = Taken
    BY <1>1, <2>1 DEF Taken
  <2>4. Coming' = Coming
    <3>1. Seconds(socket) = Seconds(socket')
      BY <1>1, <1>2, SecondsTail
    <3>. QED
      BY <1>1, <3>1 DEF Coming, Seconds
  <2>5. Ascending'
    BY <1>1, AscendingTail DEF OnItsWay
  <2>6. Paired'
    <3>1. ASSUME NEW i \in DOMAIN socket', socket'[i][2] = 2
          PROVE  IF i = 1 THEN Got' = socket'[i][1] ELSE socket'[i - 1] = <<socket'[i][1], 1>>
      <4>1. i + 1 \in DOMAIN socket /\ socket'[i] = socket[i + 1] /\ i + 1 # 1 /\ (i + 1) - 1 = i
        BY <1>2
      <4>2. socket[i] = <<socket'[i][1], 1>>
        BY <3>1, <4>1 DEF OnItsWay, Paired
      <4>3. CASE i = 1
        BY <2>2, <4>2, <4>3
      <4>4. CASE i # 1
        <5>1. i - 1 \in DOMAIN socket' /\ (i - 1) + 1 = i
          BY <1>2, <4>4
        <5>2. socket'[i - 1] = socket[i]
          BY <1>2, <5>1
        <5>. QED
          BY <4>2, <4>4, <5>2
      <4>. QED
        BY <4>3, <4>4
    <3>2. ASSUME owes' # NoFrame
          PROVE  IF socket' = <<>> THEN Got' = owes' ELSE socket'[Len(socket')] = <<owes', 1>>
      <4>1. socket[Len(socket)] = <<owes', 1>>
        BY <1>1, <3>2 DEF OnItsWay, Paired
      <4>2. CASE socket' = <<>>
        <5>1. Len(socket) = 1
          BY <1>2, <4>2
        <5>. QED
          BY <2>2, <4>1, <4>2, <5>1
      <4>3. CASE socket' # <<>>
        <5>1. Len(socket') \in DOMAIN socket' /\ Len(socket') + 1 = Len(socket)
          <6>1. socket' \in Seq(Frame \X {1, 2})
            BY <1>1, TakeHead
          <6>. QED
            BY <1>2, <4>3, <6>1
        <5>2. socket'[Len(socket')] = socket[Len(socket)]
          BY <1>2, <5>1
        <5>. QED
          BY <4>1, <4>3, <5>2
      <4>. QED
        BY <4>2, <4>3
    <3>. QED
      BY <3>1, <3>2 DEF Paired
  <2>7. \A i \in DOMAIN socket' : socket'[i][1].session = session' /\ socket'[i][1].seq \in handed'
    BY <1>1, <1>2 DEF OnItsWay
  <2>. QED
    BY <1>1, <2>3, <2>4, <2>5, <2>6, <2>7 DEF OnItsWay
<1>4. CASE Ends("invalid") /\ Head(socket)[1].content = "too-long"
  <2>1. exit' \in {0, 1, 2}
    BY <1>1, <1>4, EndsTyped DEF RunInv
  <2>. QED
    BY <2>1 DEF Running
<1>. QED
  BY <1>3, <1>4 DEF TakeHalf

(* A frame is whole and off the socket, to one place or another. *)
LEMMA TakingKeeps ==
  ASSUME ClientTypes, OnItsWay, socket # <<>>, socket[1][2] = 2, socket' = Tail(socket), Got' = NoFrame,
         UNCHANGED <<session, handed, owes>>, Taken' = Taken \cup {socket[1][1].seq}
  PROVE  OnItsWay'
<1>1. /\ socket[1][1] \in Frame /\ socket' \in Seq(Frame \X {1, 2})
      /\ Len(socket') = Len(socket) - 1
      /\ \A i \in DOMAIN socket' : i + 1 \in DOMAIN socket /\ socket'[i] = socket[i + 1]
      /\ DOMAIN socket' = 1..Len(socket') /\ Len(socket) \in Nat /\ DOMAIN socket = 1..Len(socket)
  BY TakeHead, SequencesTyped
<1>2. PICK n \in Nat : n = socket[1][1].seq
  BY <1>1 DEF Frame
<1>3. 1 \in DOMAIN socket
  BY <1>1
<1>4. Coming = Coming' \cup {n}
  <2>1. Seconds(socket) = Seconds(socket') \cup {n}
    BY <1>2, SecondsTail
  <2>2. Coming' = Seconds(socket') \cup (IF owes = NoFrame THEN {} ELSE {owes.seq})
    BY DEF Coming, Seconds
  <2>. QED
    BY <2>1, <2>2, ComingIs
<1>5. owes # NoFrame => Len(socket) > 1 /\ socket[Len(socket)] = <<owes, 1>> /\ Len(socket) \in DOMAIN socket
  <2>1. ASSUME owes # NoFrame PROVE socket[Len(socket)] = <<owes, 1>>
    BY <2>1 DEF OnItsWay, Paired
  <2>2. owes # NoFrame => Len(socket) # 1
    BY <2>1
  <2>. QED
    BY <1>1, <1>3, <2>1, <2>2
<1>6. \A k \in Coming' : n < k
  <2>1. ASSUME NEW i \in DOMAIN socket' PROVE n < socket'[i][1].seq
    <3>1. i + 1 \in DOMAIN socket /\ socket'[i] = socket[i + 1] /\ 1 < i + 1
      BY <1>1
    <3>. QED
      BY <1>2, <1>3, <3>1 DEF OnItsWay, Ascending
  <2>2. owes # NoFrame => n < owes.seq
    <3>1. SUFFICES ASSUME owes # NoFrame PROVE n < owes.seq
      OBVIOUS
    <3>2. 1 < Len(socket) /\ Len(socket) \in DOMAIN socket /\ socket[Len(socket)][1] = owes
      BY <1>1, <1>5, <3>1
    <3>. QED
      BY <1>2, <1>3, <3>2 DEF OnItsWay, Ascending
  <2>3. Coming' = Seconds(socket') \cup (IF owes = NoFrame THEN {} ELSE {owes.seq})
    BY DEF Coming, Seconds
  <2>. QED
    BY <2>1, <2>2, <2>3 DEF Seconds
<1>7. \A k \in Coming', m \in Taken' : m < k
  <2>1. \A k \in Coming' : k \in Coming
    BY <1>4
  <2>. QED
    BY <1>2, <1>6, <2>1 DEF OnItsWay
<1>8. handed' = Taken' \cup Coming'
  BY <1>2, <1>4 DEF OnItsWay
<1>9. Ascending'
  BY AscendingTail DEF OnItsWay
<1>10. Paired'
  <2>1. ASSUME NEW i \in DOMAIN socket', socket'[i][2] = 2
        PROVE  IF i = 1 THEN Got' = socket'[i][1] ELSE socket'[i - 1] = <<socket'[i][1], 1>>
    <3>1. i + 1 \in DOMAIN socket /\ socket'[i] = socket[i + 1] /\ i + 1 # 1 /\ (i + 1) - 1 = i
      BY <1>1
    <3>2. socket[i] = <<socket'[i][1], 1>>
      BY <2>1, <3>1 DEF OnItsWay, Paired
    <3>3. i # 1
      BY <3>2
    <3>4. i - 1 \in DOMAIN socket' /\ (i - 1) + 1 = i
      BY <1>1, <3>3
    <3>5. socket'[i - 1] = socket[i]
      BY <1>1, <3>4
    <3>. QED
      BY <3>2, <3>3, <3>5
  <2>2. ASSUME owes' # NoFrame
        PROVE  IF socket' = <<>> THEN Got' = owes' ELSE socket'[Len(socket')] = <<owes', 1>>
    <3>1. Len(socket) > 1 /\ socket[Len(socket)] = <<owes', 1>>
      BY <1>5, <2>2
    <3>2. socket' # <<>> /\ Len(socket') \in DOMAIN socket' /\ Len(socket') + 1 = Len(socket)
      <4>1. Len(socket') \in 1..Len(socket') /\ Len(socket') + 1 = Len(socket) /\ Len(socket') > 0
        BY <1>1, <3>1
      <4>2. socket' # <<>>
        <5>1. ~(Len(<<>>) > 0)
          OBVIOUS
        <5>. QED
          BY <4>1, <5>1, Zenon
      <4>. QED
        BY <1>1, <4>1, <4>2
    <3>3. socket'[Len(socket')] = socket[Len(socket)]
      BY <1>1, <3>2
    <3>. QED
      BY <3>1, <3>2, <3>3
  <2>. QED
    BY <2>1, <2>2 DEF Paired
<1>11. \A i \in DOMAIN socket' : socket'[i][1].session = session' /\ socket'[i][1].seq \in handed'
  BY <1>1 DEF OnItsWay
<1>12. owes' # NoFrame => owes'.session = session'
  BY DEF OnItsWay
<1>. QED
  BY <1>7, <1>8, <1>9, <1>10, <1>11, <1>12 DEF OnItsWay

LEMMA BridgeStep ==
  ASSUME ClientTypes, Numbered, ToldInv, RunInv, BridgeInv, ReplayInv, [Next]_vars
  PROVE  BridgeInv'
<1>0. run \in RunSet /\ seen \in Seq(Frame) /\ DOMAIN seen = 1..Len(seen) /\ kept \in Seq(Frame)
  BY SequencesTyped
<1>1. CASE UNCHANGED <<socket, owes, open, server, session, handed, kept, seen, run>> /\ exit' \in {exit, 0, 1, 2, Killed}
  <2>1. Bridged' => Bridged
    BY <1>1 DEF Bridged, Running, Killed
  <2>2. run'.verb = run.verb /\ Got' = Got
    BY <1>1 DEF Got
  <2>3. Bridged' => OnItsWay'
    BY <1>1, <2>1, <2>2, OnItsWaySame DEF BridgeInv
  <2>. QED
    BY <1>1, <2>3 DEF BridgeInv, Running, Killed
<1>2. ASSUME NEW c \in Contents, Number(c) PROVE BridgeInv'
  <2>1. handed' = handed
    BY <1>2, NumberStep
  <2>. QED
    BY <1>1, <1>2, <2>1 DEF Number, historyVars
<1>3. CASE HandOn
  <2>1. Bridged /\ open' = open /\ open = "open" /\ server' = server /\ UNCHANGED <<seen, session>>
    BY <1>3 DEF HandOn, Bridging, Bridged, historyVars
  <2>. QED
    BY <1>3, <2>1, HandOnKeeps DEF BridgeInv, Bridged
<1>4. CASE WriteRest
  <2>1. open = "open" /\ open' = open /\ server' = server /\ exit' = exit /\ UNCHANGED <<seen, session>>
    BY <1>4 DEF WriteRest, historyVars
  <2>2. Bridged' => OnItsWay'
    BY <1>4, <2>1, WriteRestKeeps DEF BridgeInv, Bridged
  <2>. QED
    BY <2>1, <2>2 DEF BridgeInv
<1>5. CASE Drip
  <2>1. Bridged /\ open = "open" /\ open' = open /\ server' = server /\ exit' = exit /\ UNCHANGED <<seen, session>>
    BY <1>5 DEF Drip, Bridging, Bridged, historyVars
  <2>. QED
    BY <1>5, <2>1, DripKeeps DEF BridgeInv, Bridged
<1>6. CASE BridgeEnds
  <2>1. Bridged /\ server' = server /\ exit' = exit /\ UNCHANGED <<session, handed, kept, seen, run, owes>>
    BY <1>6 DEF BridgeEnds, Bridging, Bridged, historyVars, bridgeVars
  <2>2. CASE open' = "closed" /\ UNCHANGED socket
    <3>1. run'.verb = run.verb /\ Got' = Got
      BY <2>1 DEF Got
    <3>2. OnItsWay'
      BY <2>1, <2>2, <3>1, OnItsWaySame DEF BridgeInv
    <3>. QED
      BY <2>1, <2>2, <3>2 DEF BridgeInv
  <2>3. CASE open' = "reset" /\ socket' = <<>>
    BY <2>1, <2>3 DEF BridgeInv, Bridged
  <2>. QED
    BY <1>6, <2>2, <2>3 DEF BridgeEnds
<1>7. ASSUME NEW v \in Verbs, StartConnects(v) PROVE BridgeInv'
  <2>1. /\ socket' = <<>> /\ owes' = NoFrame /\ handed' = {} /\ session' = session + 1 /\ kept' = kept /\ seen' = <<>>
        /\ open' = "open"
    BY <1>7 DEF StartConnects
  <2>2. DOMAIN socket' = {} /\ Range(seen') = {} /\ DOMAIN seen' = {}
    BY <2>1 DEF Range
  <2>3. Coming' = {}
    BY <2>1, <2>2 DEF Coming
  <2>4. Taken' = {}
    <3>1. \A g \in Range(kept) : g.session # session'
      <4>1. session \in Nat
        BY DEF ClientTypes
      <4>2. \A i \in DOMAIN kept : kept[i].session \in 1..session
        BY DEF ToldInv, Told
      <4>. QED
        BY <2>1, <4>1, <4>2 DEF Range
    <3>. QED
      BY <2>1, <2>2, <3>1 DEF Taken
  <2>5. Paired' /\ Ascending'
    BY <2>1, <2>2 DEF Paired, Ascending
  <2>6. OnItsWay'
    BY <2>1, <2>2, <2>3, <2>4, <2>5 DEF OnItsWay
  <2>. QED
    BY <2>1, <2>2, <2>6 DEF BridgeInv
<1>8. ASSUME NEW v \in Verbs, StartFails(v) PROVE BridgeInv'
  <2>1. exit' # Running /\ UNCHANGED <<open, socket>>
    BY <1>8 DEF StartFails, Running
  <2>. QED
    BY <2>1 DEF BridgeInv, Bridged
<1>9. CASE StartReplay
  <2>1. exit' # Running /\ UNCHANGED <<open, socket>>
    BY <1>9 DEF StartReplay, Begin
  <2>. QED
    BY <2>1 DEF BridgeInv, Bridged
<1>10. CASE TakeHalf
  <2>1. exit = Running /\ UNCHANGED <<open, server, seen, session>> /\ socket # <<>> /\ socket' = Tail(socket)
    BY <1>10 DEF TakeHalf, Reading, clientElse
  <2>2. Bridged' => OnItsWay'
    BY <1>10, <2>1, TakeHalfKeeps DEF BridgeInv, Bridged
  <2>3. open' # "reset"
    BY <2>1 DEF BridgeInv
  <2>. QED
    BY <2>1, <2>2, <2>3 DEF BridgeInv
<1>11. CASE TakeFrame
  <2>1. /\ exit = Running /\ UNCHANGED <<open, server, session, kept, handed, owes>> /\ run.verb # "record"
        /\ run.verb \in Verbs
        /\ socket # <<>> /\ socket' = Tail(socket) /\ Head(socket) = socket[1] /\ socket[1][2] = 2
        /\ socket[1][1] \in Frame /\ run.phase # "write"
    BY <1>11, TakeHead DEF TakeFrame, Reading, clientElse, bridgeVars, RunInv
  <2>2. open' # "reset"
    BY <2>1 DEF BridgeInv
  <2>3. SUFFICES ASSUME Bridged' PROVE OnItsWay' /\ \A i \in DOMAIN seen' : seen'[i].session = session'
    BY <2>2 DEF BridgeInv, Bridged
  <2>4. OnItsWay /\ \A i \in DOMAIN seen : seen[i].session = session
    BY <2>1, <2>3 DEF Bridged, BridgeInv
  <2>5. exit' = Running
    BY <2>3 DEF Bridged
  <2>6. PICK f \in Frame : f = socket[1][1]
    BY <2>1
  <2>7. f.content # "garbage"
    <3>1. ASSUME f.content = "garbage" PROVE FALSE
      <4>1. Ends("invalid")
        BY <1>11, <2>1, <2>6, <3>1 DEF TakeFrame
      <4>. QED
        BY <2>1, <2>5, <4>1, EndsTyped DEF Running
    <3>. QED
      BY <3>1
  <2>8. seen' = Append(seen, f) /\ (TailTakes(f) \/ PingTakes(f) \/ SchemaTakes(f) \/ SendTakes(f))
    BY <1>11, <2>1, <2>6, <2>7 DEF TakeFrame
  <2>9. /\ Range(seen') = Range(seen) \cup {f} /\ Len(seen') = Len(seen) + 1 /\ seen'[Len(seen')] = f
        /\ \A i \in DOMAIN seen : seen'[i] = seen[i]
    BY <1>0, <2>8, SeenGrows
  <2>10. run'.verb = run.verb /\ run'.got = NoFrame
    BY <2>1, <2>5, <2>8, TakesTyped
  <2>11. Got' = NoFrame
    BY <2>10 DEF Got
  <2>12. f.session = session
    <3>1. 1 \in DOMAIN socket
      BY <2>1, SequencesTyped
    <3>. QED
      BY <2>4, <2>6, <3>1 DEF OnItsWay
  <2>13. Taken' = Taken \cup {f.seq}
    BY <2>1, <2>9, <2>10, <2>12 DEF Taken
  <2>14. OnItsWay'
    BY <2>1, <2>4, <2>6, <2>11, <2>13, TakingKeeps
  <2>15. \A i \in DOMAIN seen' : seen'[i].session = session'
    <3>1. DOMAIN seen' = 1..(Len(seen) + 1) /\ DOMAIN seen = 1..Len(seen) /\ Len(seen) \in Nat
      BY <1>0, <2>8
    <3>2. \A i \in DOMAIN seen' : i \in DOMAIN seen \/ i = Len(seen')
      BY <2>9, <3>1
    <3>. QED
      BY <2>1, <2>4, <2>9, <2>12, <3>2
  <2>. QED
    BY <2>14, <2>15
<1>12. CASE RecordFrame
  <2>1. /\ OnItsWay /\ exit = Running /\ run.verb = "record" /\ server = "bridge"
        /\ socket # <<>> /\ socket' = Tail(socket) /\ socket[1][2] = 2
        /\ Head(socket) = socket[1] /\ socket[1][1] \in Frame
    BY <1>12, RecordsGot
  <2>2. PICK f \in Frame : f = socket[1][1]
    BY <2>1
  <2>3. /\ kept' = Append(kept, f) /\ run' = [run EXCEPT !.phase = "write"]
        /\ UNCHANGED <<open, server, session, handed, owes, seen, exit>>
    BY <1>12, <2>1, <2>2 DEF RecordFrame, clientElse, bridgeVars
  <2>4. run'.verb = "record" /\ run'.phase = "write"
    BY <1>0, <2>1, <2>3 DEF RunSet
  <2>5. Got' = NoFrame
    BY <2>4 DEF Got
  <2>6. f.session = session
    <3>1. 1 \in DOMAIN socket
      BY <2>1, SequencesTyped
    <3>. QED
      BY <2>1, <2>2, <3>1 DEF OnItsWay
  <2>7. Range(kept') = Range(kept) \cup {f}
    BY <1>0, <2>3, KeptGrows
  <2>8. Taken' = Taken \cup {f.seq}
    BY <2>1, <2>3, <2>4, <2>6, <2>7 DEF Taken
  <2>9. OnItsWay'
    BY <2>1, <2>2, <2>3, <2>5, <2>8, TakingKeeps
  <2>10. open # "reset"
    BY <2>1 DEF BridgeInv
  <2>. QED
    BY <2>1, <2>3, <2>9, <2>10 DEF BridgeInv
<1>13. CASE RecordRest
  <2>1. /\ exit = Running /\ exit' = Running /\ run.phase = "write" /\ UNCHANGED <<socket, owes, open, server, session, handed, kept, seen>>
    BY <1>13 DEF RecordRest, GoOn, clientElse, bridgeVars
  <2>2. run'.verb = run.verb /\ run'.got = NoFrame
    BY <1>0, <1>13 DEF RecordRest, GoOn, RunSet
  <2>3. Got' = Got
    BY <2>1, <2>2 DEF Got
  <2>. QED
    BY <2>1, <2>2, <2>3, OnItsWaySame DEF BridgeInv, Bridged
<1>14. CASE ReadEnds \/ ReadTimesOut
  <2>1. /\ (\E outcome : Ends(outcome)) /\ run.verb \in Verbs
        /\ UNCHANGED <<socket, owes, open, server, session, handed, kept, seen>>
    BY <1>14 DEF ReadEnds, ReadTimesOut, Reading, RunInv, clientElse, bridgeVars
  <2>2. run' = run /\ exit' \in {0, 1, 2}
    BY <2>1, EndsTyped
  <2>. QED
    BY <1>1, <2>1, <2>2
<1>15. CASE Tick
  <2>1. UNCHANGED <<exit, socket, owes, open, server, session, handed, kept, seen>>
    BY <1>15 DEF Tick, clientElse, bridgeVars
  <2>2. run'.verb = run.verb /\ Got' = Got
    BY <1>0, <1>15 DEF Tick, RunSet, Got
  <2>. QED
    BY <2>1, <2>2, OnItsWaySame DEF BridgeInv, Bridged
<1>16. CASE Kill \/ WriteFails
  BY <1>1, <1>16 DEF Kill, WriteFails, clientElse, bridgeVars
<1>17. CASE ReplayWrite \/ ReplayDone \/ ReplayAlone \/ ReplayExit
  <2>1. server' # "bridge" /\ seen' = seen
    BY <1>17 DEF ReplayWrite, ReplayDone, ReplayAlone, ReplayExit, replayElse, historyVars
  <2>2. open' = "reset" => socket' = <<>>
    BY <1>17 DEF ReplayWrite, ReplayDone, ReplayAlone, ReplayExit, replayVars, BridgeInv
  <2>. QED
    BY <2>1, <2>2 DEF BridgeInv, Bridged
<1>18. CASE Quiet
  BY <1>1, <1>18 DEF Quiet, historyVars
<1>. QED
  BY <1>2, <1>3, <1>4, <1>5, <1>6, <1>7, <1>8, <1>9, <1>10, <1>11, <1>12, <1>13, <1>14, <1>15, <1>16, <1>17,
     <1>18, StepIs

-----------------------------------------------------------------------------
(* The connection to a replay.                                             *)

LEMMA ReplayInit == Init => ReplayInv
  BY DEF Init, ReplayInv, Running, Bridge!Init

(* What is on its way from a replay is left as it is. *)
LEMMA ServedSame ==
  ASSUME Served, UNCHANGED <<socket, owes, pos, kept, seen, file>>, run'.verb = run.verb, Got' = Got,
         open' # "reset", server' # "serving" => owes = NoFrame /\ open' = "closed"
  PROVE  Served'
<1>1. Read' = Read /\ Written' = Written
  BY DEF Read, Written
<1>. QED
  BY <1>1 DEF Served

LEMMA ReplayWriteKeeps ==
  ASSUME ClientTypes, FileInv, ToldInv, Served, ReplayWrite
  PROVE  Served'
<1>1. /\ server = "serving" /\ server' = server /\ WholeAt(pos) /\ pos' = pos + 2 /\ open' = open
      /\ Write(file[pos + 1][1]) /\ UNCHANGED <<run, file, kept, seen>>
  BY DEF ReplayWrite, replayElse, historyVars
<1>2. /\ Len(file) \in Nat /\ Len(kept) \in Nat /\ Len(seen) \in Nat /\ Len(socket) \in Nat /\ pos \in 0..Len(file)
      /\ pos + 2 <= Len(file) /\ pos % 2 = 0 /\ owes = NoFrame /\ DOMAIN seen = 1..Len(seen)
  BY <1>1, SequencesTyped DEF ClientTypes, Served, Write, WholeAt
<1>3. PICK k \in Nat : pos = 2 * k
  BY <1>2
<1>4. /\ k + 1 \in 1..Len(kept) /\ pos + 1 = 2 * (k + 1) - 1
      /\ file[pos + 1] = <<kept[k + 1], 1>> /\ kept[k + 1] \in Frame
  <2>1. k + 1 \in 1..Len(kept) /\ pos + 1 = 2 * (k + 1) - 1
    BY <1>2, <1>3 DEF FileInv
  <2>. QED
    BY <2>1, SequencesTyped DEF FileInv
<1>5. PICK f \in Frame : f = kept[k + 1]
  BY <1>4
<1>6. file[pos + 1] = <<f, 1>> /\ owes' = f /\ socket' = Append(socket, <<f, 1>>)
  BY <1>1, <1>4, <1>5 DEF Write
<1>7. /\ Len(socket') = Len(socket) + 1 /\ socket'[Len(socket) + 1] = <<f, 1>>
      /\ \A i \in DOMAIN socket : socket'[i] = socket[i]
      /\ DOMAIN socket' = DOMAIN socket \cup {Len(socket) + 1}
  <2>1. PICK h \in {1, 2} : h = 1
    OBVIOUS
  <2>2. socket' = Append(socket, <<f, h>>)
    BY <1>6, <2>1
  <2>. QED
    BY <2>1, <2>2, SecondsAppend, SequencesTyped
<1>8. f # NoFrame
  <2>1. k + 1 \in DOMAIN kept
    BY <1>4, SequencesTyped
  <2>2. f.session \in 1..session
    BY <1>5, <2>1 DEF ToldInv, Told
  <2>3. f.session # 0
    <3>1. PICK n : n = f.session
      OBVIOUS
    <3>2. session \in Nat
      BY DEF ClientTypes
    <3>. QED
      BY <2>2, <3>1, <3>2
  <2>4. NoFrame.session = 0
    BY DEF NoFrame
  <2>. QED
    BY <2>3, <2>4
<1>9. Got' = Got /\ Read' = Read
  BY <1>1 DEF Got, Read
<1>10. Read + Len(socket) = pos
  BY <1>2 DEF Served, Written
<1>11. Read' + Len(socket') = Written'
  <2>1. Written' = pos' - 1
    BY <1>6, <1>8 DEF Written
  <2>2. Read \in Nat
    BY <1>2 DEF Read
  <2>. QED
    BY <1>1, <1>2, <1>7, <1>9, <1>10, <2>1, <2>2
<1>12. ASSUME NEW i \in DOMAIN socket' PROVE socket'[i] = file'[Read' + i]
  <2>1. CASE i \in DOMAIN socket
    BY <1>1, <1>7, <1>9, <2>1 DEF Served
  <2>2. CASE i = Len(socket) + 1
    <3>1. Read \in Nat
      BY <1>2 DEF Read
    <3>2. Read + i = pos + 1
      BY <1>2, <1>10, <2>2, <3>1
    <3>. QED
      BY <1>1, <1>6, <1>7, <1>9, <2>2, <3>2
  <2>. QED
    BY <1>7, <2>1, <2>2
<1>13. pos' > 0 /\ <<owes', 1>> = file'[pos' - 1] /\ pos' % 2 = 0
  <2>1. pos' - 1 = pos + 1 /\ pos' > 0 /\ pos' % 2 = 0
    BY <1>1, <1>2
  <2>. QED
    BY <1>1, <1>6, <2>1
<1>. QED
  BY <1>1, <1>9, <1>11, <1>12, <1>13 DEF Served

LEMMA RestKeeps ==
  ASSUME ClientTypes, FileInv, Served, WriteRest
  PROVE  Served'
<1>1. PICK f \in Frame : f = owes
  BY DEF ClientTypes
<1>2. /\ owes = f /\ f # NoFrame /\ owes' = NoFrame /\ socket' = Append(socket, <<f, 2>>) /\ open = "open"
      /\ UNCHANGED <<run, file, kept, seen, pos, server, open>>
  BY <1>1 DEF WriteRest, replayVars, historyVars
<1>3. /\ Len(socket') = Len(socket) + 1 /\ socket'[Len(socket) + 1] = <<f, 2>>
      /\ \A i \in DOMAIN socket : socket'[i] = socket[i]
      /\ DOMAIN socket' = DOMAIN socket \cup {Len(socket) + 1}
  BY <1>2, SecondsAppend, SequencesTyped
<1>4. /\ Len(file) \in Nat /\ Len(kept) \in Nat /\ Len(seen) \in Nat /\ Len(socket) \in Nat /\ pos \in 0..Len(file)
  BY SequencesTyped DEF ClientTypes
<1>5. Got' = Got /\ Read' = Read /\ Read \in Nat
  BY <1>2, <1>4 DEF Got, Read
<1>6. Written = pos - 1 /\ Written' = pos /\ pos % 2 = 0 /\ pos > 0 /\ <<f, 1>> = file[pos - 1]
      /\ Read + Len(socket) = Written
  <2>1. /\ pos % 2 = 0 /\ pos > 0 /\ <<owes, 1>> = file[pos - 1] /\ Read + Len(socket) = Written
    BY <1>2 DEF Served
  <2>2. Written = pos - 1 /\ Written' = pos
    BY <1>2, <1>4 DEF Written
  <2>. QED
    BY <1>2, <2>1, <2>2
<1>7. file[pos] = <<f, 2>>
  <2>1. PICK k \in Nat : pos = 2 * k
    BY <1>4, <1>6
  <2>2. k \in 1..Len(kept) /\ 2 * k - 1 = pos - 1 /\ 2 * k <= Len(file)
    BY <1>4, <1>6, <2>1 DEF FileInv
  <2>3. file[pos - 1] = <<kept[k], 1>> /\ file[pos] = <<kept[k], 2>>
    BY <2>1, <2>2 DEF FileInv
  <2>. QED
    BY <1>6, <2>3
<1>8. Read' + Len(socket') = Written'
  BY <1>3, <1>4, <1>5, <1>6
<1>9. ASSUME NEW i \in DOMAIN socket' PROVE socket'[i] = file'[Read' + i]
  <2>1. CASE i \in DOMAIN socket
    BY <1>2, <1>3, <1>5, <2>1 DEF Served
  <2>2. CASE i = Len(socket) + 1
    <3>1. Read + i = pos
      BY <1>4, <1>5, <1>6, <2>2
    <3>. QED
      BY <1>2, <1>3, <1>5, <1>7, <2>2, <3>1
  <2>. QED
    BY <1>3, <2>1, <2>2
<1>. QED
  BY <1>2, <1>5, <1>6, <1>8, <1>9 DEF Served

(* What the reader finds at the socket's end is the next half of the file. *)
LEMMA NextHalf ==
  ASSUME ClientTypes, FileInv, Served, socket # <<>>
  PROVE  /\ Read \in Nat /\ Read + 1 \in 1..Len(file) /\ socket[1] = file[Read + 1]
         /\ socket[1][2] = 1 => Got = NoFrame /\ Len(seen) + 1 \in 1..Len(kept) /\ socket[1][1] = kept[Len(seen) + 1]
         /\ socket[1][2] = 2 => Got # NoFrame /\ Len(seen) + 1 \in 1..Len(kept) /\ socket[1][1] = kept[Len(seen) + 1]
<1>1. /\ Len(file) \in Nat /\ Len(kept) \in Nat /\ Len(seen) \in Nat /\ Len(socket) \in Nat /\ pos \in 0..Len(file)
      /\ 1 \in DOMAIN socket
  <2>1. Len(socket) \in Nat /\ DOMAIN socket = 1..Len(socket) /\ socket \in Seq(Frame \X {1, 2})
    BY SequencesTyped
  <2>2. Len(socket) > 0
    BY <2>1
  <2>3. pos \in 0..Len(file)
    BY DEF ClientTypes
  <2>4. Len(file) \in Nat /\ Len(kept) \in Nat /\ Len(seen) \in Nat
    BY SequencesTyped
  <2>5. 1 \in 1..Len(socket)
    BY <2>1, <2>2
  <2>. QED
    BY <2>1, <2>3, <2>4, <2>5
<1>2. Read \in Nat /\ Len(socket) > 0 /\ Read + Len(socket) = Written /\ Written <= pos
  <2>1. Read + Len(socket) = Written
    BY DEF Served
  <2>2. Read \in Nat
    BY <1>1 DEF Read
  <2>3. Written <= pos
    BY <1>1 DEF Written
  <2>4. Len(socket) > 0
    BY <1>1
  <2>. QED
    BY <2>1, <2>2, <2>3, <2>4
<1>3. Read + 1 \in 1..Len(file)
  BY <1>1, <1>2 DEF Written
<1>4. socket[1] = file[Read + 1]
  BY <1>1 DEF Served
<1>5. CASE Got = NoFrame
  <2>1. Read + 1 = 2 * (Len(seen) + 1) - 1
    BY <1>1, <1>5 DEF Read
  <2>2. Len(seen) + 1 \in 1..Len(kept)
    BY <1>1, <1>3, <2>1 DEF FileInv
  <2>3. socket[1] = <<kept[Len(seen) + 1], 1>>
    BY <1>4, <2>1, <2>2 DEF FileInv
  <2>. QED
    BY <1>2, <1>3, <1>4, <1>5, <2>2, <2>3
<1>6. CASE Got # NoFrame
  <2>1. Read + 1 = 2 * (Len(seen) + 1)
    BY <1>1, <1>6 DEF Read
  <2>2. Len(seen) + 1 \in 1..Len(kept) /\ 2 * (Len(seen) + 1) <= Len(file)
    BY <1>1, <1>3, <2>1 DEF FileInv
  <2>3. socket[1] = <<kept[Len(seen) + 1], 2>>
    BY <1>4, <2>1, <2>2 DEF FileInv
  <2>. QED
    BY <1>2, <1>3, <1>4, <1>6, <2>2, <2>3
<1>. QED
  BY <1>5, <1>6

LEMMA ServedTail ==
  ASSUME ClientTypes, Served, socket # <<>>, socket' = Tail(socket), UNCHANGED <<file, pos, owes>>,
         Read' = Read + 1, Read \in Nat
  PROVE  Read' + Len(socket') = Written' /\ \A i \in DOMAIN socket' : socket'[i] = file'[Read' + i]
<1>1. /\ Len(socket) \in Nat /\ DOMAIN socket' = 1..(Len(socket) - 1) /\ Len(socket') = Len(socket) - 1
      /\ \A i \in DOMAIN socket' : i + 1 \in DOMAIN socket /\ socket'[i] = socket[i + 1]
  BY SequencesTyped, TakeHead
<1>2. Written' = Written /\ Read + Len(socket) = Written
  BY DEF Written, Served
<1>3. ASSUME NEW i \in DOMAIN socket' PROVE socket'[i] = file'[Read' + i]
  <2>1. Read + (i + 1) = Read' + i /\ i + 1 \in DOMAIN socket
    BY <1>1
  <2>2. socket[i + 1] = file[Read + (i + 1)]
    BY <2>1 DEF Served
  <2>. QED
    BY <1>1, <2>1, <2>2
<1>. QED
  BY <1>1, <1>2, <1>3

LEMMA ServedTakes ==
  ASSUME ClientTypes, ToldInv, RunInv, FileInv, Served, TakeHalf \/ TakeFrame, exit' = Running
  PROVE  Served'
<1>1. /\ exit = Running /\ run.phase \in {"read", "wait"} /\ run.verb \in Verbs
      /\ socket # <<>> /\ socket' = Tail(socket)
      /\ UNCHANGED <<server, open, owes, pos, kept, file>>
  BY DEF TakeHalf, TakeFrame, Reading, clientElse, replayVars, RunInv
<1>2. /\ Read \in Nat /\ Read + 1 \in 1..Len(file) /\ socket[1] = file[Read + 1]
      /\ socket[1][2] = 1 => Got = NoFrame /\ Len(seen) + 1 \in 1..Len(kept) /\ socket[1][1] = kept[Len(seen) + 1]
      /\ socket[1][2] = 2 => Got # NoFrame /\ Len(seen) + 1 \in 1..Len(kept) /\ socket[1][1] = kept[Len(seen) + 1]
  BY <1>1, NextHalf
<1>3. Head(socket) = socket[1] /\ run \in RunSet /\ kept \in Seq(Frame) /\ seen \in Seq(Frame) /\ Len(seen) \in Nat
      /\ Len(kept) \in Nat /\ DOMAIN seen = 1..Len(seen) /\ DOMAIN kept = 1..Len(kept)
  BY <1>1, TakeHead, SequencesTyped
<1>4. ASSUME NEW i \in 1..Len(kept) PROVE kept[i] # NoFrame /\ kept[i] \in Frame
  <2>1. kept[i].session \in 1..session /\ session \in Nat
    BY <1>3 DEF ToldInv, Told, ClientTypes
  <2>2. kept[i].session # 0
    <3>1. PICK n : n = kept[i].session
      OBVIOUS
    <3>. QED
      BY <2>1, <3>1
  <2>3. NoFrame.session = 0
    BY DEF NoFrame
  <2>. QED
    BY <1>3, <2>2, <2>3
<1>5. CASE TakeHalf
  <2>1. Head(socket)[2] = 1 /\ seen' = seen /\ Got = NoFrame
    BY <1>2, <1>3, <1>5 DEF TakeHalf
  <2>2. ~Ends("invalid")
    BY <1>1, EndsTyped DEF Running
  <2>3. run' = [run EXCEPT !.got = Head(socket)[1]]
    BY <1>5, <2>2 DEF TakeHalf
  <2>4. run'.verb = run.verb /\ run'.phase = run.phase /\ run'.got = socket[1][1]
    BY <1>3, <2>3 DEF RunSet
  <2>5. Got' = kept[Len(seen) + 1] /\ Len(seen) + 1 \in 1..Len(kept) /\ Got' # NoFrame
    BY <1>1, <1>2, <1>3, <1>4, <2>1, <2>4 DEF Got
  <2>6. Read' = Read + 1
    BY <1>3, <2>1, <2>5 DEF Read
  <2>7. Read' + Len(socket') = Written' /\ \A i \in DOMAIN socket' : socket'[i] = file'[Read' + i]
    BY <1>1, <1>2, <2>6, ServedTail
  <2>8. Len(seen) < Len(kept)
    BY <1>3, <2>5
  <2>. QED
    BY <1>1, <2>1, <2>4, <2>5, <2>7, <2>8 DEF Served
<1>6. CASE TakeFrame
  <2>1. PICK f \in Frame : f = kept[Len(seen) + 1]
    BY <1>2, <1>3, <1>4, <1>6 DEF TakeFrame
  <2>2. Head(socket)[2] = 2 /\ socket[1][1] = f /\ Got # NoFrame /\ Len(seen) + 1 \in 1..Len(kept)
    BY <1>2, <1>3, <1>6, <2>1 DEF TakeFrame
  <2>3. ~Ends("invalid")
    BY <1>1, EndsTyped DEF Running
  <2>4. seen' = Append(seen, f) /\ (TailTakes(f) \/ PingTakes(f) \/ SchemaTakes(f) \/ SendTakes(f))
    BY <1>3, <1>6, <2>2, <2>3 DEF TakeFrame
  <2>5. run'.verb = run.verb /\ run'.got = NoFrame
    BY <1>1, <2>4, TakesTyped
  <2>6. Got' = NoFrame
    BY <2>5 DEF Got
  <2>7. Len(seen') = Len(seen) + 1 /\ DOMAIN seen' = 1..(Len(seen) + 1) /\ seen'[Len(seen) + 1] = f
        /\ \A i \in 1..Len(seen) : seen'[i] = seen[i]
    BY <1>3, <2>4
  <2>8. Read' = Read + 1
    BY <1>3, <2>2, <2>6, <2>7 DEF Read
  <2>9. Read' + Len(socket') = Written' /\ \A i \in DOMAIN socket' : socket'[i] = file'[Read' + i]
    BY <1>1, <1>2, <2>8, ServedTail
  <2>10. Len(seen') <= Len(kept) /\ \A i \in DOMAIN seen' : seen'[i] = kept[i]
    <3>1. Len(seen') <= Len(kept)
      BY <1>3, <2>2, <2>7
    <3>2. ASSUME NEW i \in DOMAIN seen' PROVE seen'[i] = kept[i]
      <4>1. CASE i \in 1..Len(seen)
        BY <1>3, <2>7, <4>1 DEF Served
      <4>2. CASE i \notin 1..Len(seen)
        <5>1. i = Len(seen) + 1
          BY <1>3, <2>7, <4>2
        <5>. QED
          BY <2>1, <2>7, <5>1
      <4>. QED
        BY <4>1, <4>2
    <3>. QED
      BY <3>1, <3>2
  <2>. QED
    BY <1>1, <2>5, <2>6, <2>9, <2>10 DEF Served
<1>. QED
  BY <1>5, <1>6

LEMMA ReplayStepKeeps ==
  ASSUME ClientTypes, Numbered, ToldInv, RunInv, FileInv, ReplayInv, [Next]_vars
  PROVE  ReplayInv'
<1>0. run \in RunSet /\ session \in Nat
  BY DEF ClientTypes
<1>1. CASE UNCHANGED <<seq, server, socket, owes, open, file, pos, session, kept, seen>>
           /\ (exit' = Running => exit = Running /\ run'.verb = run.verb /\ Got' = Got)
  <2>1. ASSUME exit' = Running, server' # "bridge" PROVE Served' /\ seq' = 1
    <3>1. Served /\ seq = 1
      BY <1>1, <2>1 DEF ReplayInv
    <3>2. open' # "reset" /\ (server' # "serving" => owes = NoFrame /\ open' = "closed")
      BY <1>1, <3>1 DEF Served
    <3>. QED
      BY <1>1, <2>1, <3>1, <3>2, ServedSame
  <2>. QED
    BY <1>1, <2>1 DEF ReplayInv
<1>2. CASE /\ server' = "bridge" /\ server = "bridge" /\ session' = session /\ exit' = exit
  BY <1>2 DEF ReplayInv
<1>3. ASSUME NEW c \in Contents, Number(c) PROVE ReplayInv'
  BY <1>2, <1>3 DEF Number, Bridging, historyVars
<1>4. CASE HandOn \/ Drip \/ BridgeEnds
  BY <1>2, <1>4 DEF HandOn, Drip, BridgeEnds, Bridging, historyVars
<1>5. CASE WriteRest
  <2>1. UNCHANGED <<seq, server, open, pos, session, exit>> /\ exit = Running
    BY <1>5 DEF WriteRest, bridgeVars, replayVars, historyVars
  <2>2. server # "bridge" => Served'
    BY <1>5, <2>1, RestKeeps DEF ReplayInv
  <2>. QED
    BY <2>1, <2>2 DEF ReplayInv
<1>6. ASSUME NEW v \in Verbs, StartConnects(v) PROVE ReplayInv'
  <2>1. /\ socket' = <<>> /\ owes' = NoFrame /\ seen' = <<>> /\ open' = "open" /\ seq' = 1
        /\ session' = session + 1 /\ server' = (IF server = "listening" THEN "serving" ELSE "bridge")
        /\ UNCHANGED <<pos, kept, file>> /\ (server = "listening" => v # "record")
    BY <1>6 DEF StartConnects, replayVars
  <2>2. run'.verb = v /\ run'.got = NoFrame /\ run'.phase = "read"
    BY <1>6 DEF StartConnects, Idle
  <2>3. server' # "bridge" => Served'
    <3>1. SUFFICES ASSUME server = "listening" PROVE Served'
      BY <2>1
    <3>2. pos' = 0 /\ v # "record" /\ server' = "serving"
      BY <2>1, <3>1 DEF ReplayInv
    <3>3. Got' = NoFrame
      BY <2>2 DEF Got
    <3>4. Len(seen') = 0 /\ Len(socket') = 0 /\ DOMAIN socket' = {} /\ DOMAIN seen' = {}
      BY <2>1
    <3>5. Read' = 0 /\ Written' = 0
      BY <2>1, <3>2, <3>3, <3>4 DEF Read, Written
    <3>6. Len(kept') \in Nat
      BY <2>1, SequencesTyped
    <3>. QED
      BY <2>1, <2>2, <3>2, <3>3, <3>4, <3>5, <3>6 DEF Served
  <2>. QED
    BY <1>0, <2>1, <2>3 DEF ReplayInv
<1>7. ASSUME NEW v \in Verbs, StartFails(v) PROVE ReplayInv'
  BY <1>1, <1>7 DEF StartFails, bridgeVars, replayVars, Running, ReplayInv
<1>8. CASE StartReplay
  <2>1. exit # Running /\ exit' = exit /\ server' \in {server, "listening"} /\ pos' = 0
        /\ server \notin {"serving", "draining"}
    BY <1>8 DEF StartReplay, Begin
  <2>. QED
    BY <2>1 DEF ReplayInv
<1>9. CASE TakeHalf \/ TakeFrame
  <2>1. exit = Running /\ UNCHANGED <<seq, server, open, pos, session>>
    BY <1>9 DEF TakeHalf, TakeFrame, Reading, clientElse, bridgeVars, replayVars
  <2>2. exit' = Running /\ server' # "bridge" => Served'
    BY <1>9, <2>1, ServedTakes DEF ReplayInv
  <2>. QED
    BY <2>1, <2>2 DEF ReplayInv
<1>10. CASE RecordFrame \/ RecordRest
  <2>1. exit = Running /\ run.verb = "record" /\ UNCHANGED <<server, session>> /\ exit' = exit
    BY <1>10 DEF RecordFrame, RecordRest, Reading, RunInv, clientElse, GoOn
  <2>2. server = "bridge"
    BY <2>1 DEF ReplayInv, Served
  <2>. QED
    BY <1>2, <2>1, <2>2
<1>11. CASE ReadEnds \/ ReadTimesOut
  <2>1. (\E outcome : Ends(outcome)) /\ run.verb \in Verbs
        /\ UNCHANGED <<seq, server, socket, owes, open, file, pos, session, kept, seen>>
    BY <1>11 DEF ReadEnds, ReadTimesOut, Reading, RunInv, clientElse, bridgeVars, replayVars
  <2>. QED
    BY <1>1, <2>1, EndsTyped DEF Running
<1>12. CASE Tick
  <2>1. UNCHANGED <<exit, seq, server, socket, owes, open, file, pos, session, kept, seen>>
    BY <1>12 DEF Tick, clientElse, bridgeVars, replayVars
  <2>2. run'.verb = run.verb /\ Got' = Got
    BY <1>0, <1>12 DEF Tick, RunSet, Got
  <2>. QED
    BY <1>1, <2>1, <2>2
<1>13. CASE Kill \/ WriteFails
  BY <1>1, <1>13 DEF Kill, WriteFails, Killed, Running, clientElse, bridgeVars, replayVars
<1>14. CASE ReplayWrite
  <2>1. UNCHANGED <<seq, server, open, session, exit>> /\ exit = Running /\ server = "serving"
    BY <1>14 DEF ReplayWrite, replayElse, bridgeVars, historyVars
  <2>2. Served'
    BY <1>14, <2>1, ReplayWriteKeeps DEF ReplayInv
  <2>. QED
    BY <2>1, <2>2 DEF ReplayInv
<1>15. CASE ReplayDone
  <2>1. /\ UNCHANGED <<seq, session, exit, socket, owes, pos, kept, seen, file, run>> /\ exit = Running
        /\ server = "serving" /\ server' = "draining" /\ open' = "closed" /\ owes = NoFrame
    BY <1>15 DEF ReplayDone, replayElse, bridgeVars, historyVars
  <2>2. Served'
    BY <2>1, ServedSame DEF ReplayInv, Got
  <2>. QED
    BY <2>1, <2>2 DEF ReplayInv
<1>16. CASE ReplayAlone
  <2>1. UNCHANGED <<seq, session, exit>> /\ exit # Running /\ server' = "draining" /\ server = "serving"
    BY <1>16 DEF ReplayAlone, replayElse, bridgeVars, historyVars
  <2>. QED
    BY <2>1 DEF ReplayInv
<1>17. CASE ReplayExit
  <2>1. /\ UNCHANGED <<seq, session, exit, socket, owes, pos, kept, seen, file, run, open>>
        /\ server = "draining" /\ server' = "none"
    BY <1>17 DEF ReplayExit, replayElse, bridgeVars, historyVars, replayVars
  <2>2. exit = Running => Served'
    <3>1. SUFFICES ASSUME exit = Running PROVE Served'
      OBVIOUS
    <3>2. Served
      BY <2>1, <3>1 DEF ReplayInv
    <3>3. open' # "reset" /\ owes = NoFrame /\ open' = "closed"
      BY <2>1, <3>2 DEF Served
    <3>. QED
      BY <2>1, <3>2, <3>3, ServedSame DEF Got
  <2>. QED
    BY <2>1, <2>2 DEF ReplayInv
<1>18. CASE Quiet
  BY <1>1, <1>18 DEF Quiet, historyVars, replayVars, Got
<1>. QED
  BY <1>3, <1>4, <1>5, <1>6, <1>7, <1>8, <1>9, <1>10, <1>11, <1>12, <1>13, <1>14, <1>15, <1>16, <1>17,
     <1>18, StepIs

-----------------------------------------------------------------------------
(* The frames that came, as the bridges numbered them.                     *)

LEMMA ToldInit == Init => ToldInv
  BY DEF Init, ToldInv, Told, InOrder, Explained

(* A bridge that loses more, or hands more on, takes nothing back. *)
LEMMA ToldSame ==
  ASSUME NEW frames \in Seq(Frame), Told(frames), UNCHANGED <<session, gone>>,
         lost \subseteq lost', handed \subseteq handed', lost' \cap handed \subseteq lost
  PROVE  Told(frames)'
<1>1. ASSUME NEW s PROVE LostOf(s) \subseteq LostOf(s)'
  BY DEF LostOf
<1>2. Explained(frames)'
  <2>1. ASSUME NEW i \in DOMAIN frames, NEW m \in 1..(frames[i].seq - 1)
        PROVE  \/ m \in LostOf(frames[i].session)'
               \/ \E j \in 1..(i - 1) : frames[j].session = frames[i].session /\ frames[j].seq = m
    BY <1>1, <2>1 DEF Told, Explained
  <2>. QED
    BY <2>1 DEF Explained
<1>3. ASSUME NEW i \in DOMAIN frames
      PROVE  /\ frames[i].session \in 1..session' /\ frames[i].seq >= 1
             /\ frames[i].seq \notin LostOf(frames[i].session)'
             /\ frames[i].session = session' => frames[i].seq \in handed'
  <2>1. /\ frames[i].session \in 1..session /\ frames[i].seq >= 1
        /\ frames[i].seq \notin LostOf(frames[i].session)
        /\ frames[i].session = session => frames[i].seq \in handed
    BY <1>3 DEF Told
  <2>. QED
    BY <2>1 DEF LostOf
<1>4. InOrder(frames)'
  BY DEF Told, InOrder
<1>. QED
  BY <1>2, <1>3, <1>4 DEF Told

(* A connection that begins: what the last one lost stays lost. *)
LEMMA ToldBefore ==
  ASSUME ClientTypes, Gone, NEW frames \in Seq(Frame), Told(frames),
         session' = session + 1, gone' = IF session = 0 THEN <<>> ELSE Append(gone, lost)
  PROVE  Told(frames)'
<1>1. session \in Nat /\ gone \in Seq(SUBSET Nat) /\ lost \in SUBSET Nat
  BY DEF ClientTypes
<1>2. ASSUME NEW s \in 1..session PROVE s # session' /\ s \in 1..session' /\ LostOf(s)' = LostOf(s)
  <2>1. session # 0 /\ Len(gone) = session - 1 /\ gone' = Append(gone, lost) /\ s # session'
    BY <1>1, <1>2 DEF Gone
  <2>2. CASE s = session
    <3>1. gone'[session] = lost
      BY <1>1, <2>1
    <3>. QED
      BY <1>1, <1>2, <2>1, <2>2, <3>1 DEF LostOf
  <2>3. CASE s # session
    <3>1. s \in 1..Len(gone)
      BY <1>1, <1>2, <2>1, <2>3
    <3>2. gone'[s] = gone[s]
      BY <1>1, <2>1, <3>1
    <3>. QED
      BY <1>1, <1>2, <2>1, <2>3, <3>2 DEF LostOf
  <2>. QED
    BY <2>2, <2>3
<1>3. ASSUME NEW i \in DOMAIN frames
      PROVE  /\ frames[i].session \in 1..session' /\ frames[i].seq >= 1
             /\ frames[i].seq \notin LostOf(frames[i].session)'
             /\ frames[i].session = session' => frames[i].seq \in handed'
             /\ LostOf(frames[i].session)' = LostOf(frames[i].session)
  <2>1. /\ frames[i].session \in 1..session /\ frames[i].seq >= 1
        /\ frames[i].seq \notin LostOf(frames[i].session)
    BY <1>3 DEF Told
  <2>2. PICK s \in 1..session : s = frames[i].session
    BY <2>1
  <2>3. s # session' /\ s \in 1..session' /\ LostOf(s)' = LostOf(s)
    BY <1>2
  <2>4. LostOf(frames[i].session)' = LostOf(frames[i].session)
    BY <2>2, <2>3
  <2>. QED
    BY <2>1, <2>2, <2>3, <2>4
<1>4. Explained(frames)'
  BY <1>3 DEF Told, Explained
<1>5. InOrder(frames)'
  BY DEF Told, InOrder
<1>. QED
  BY <1>3, <1>4, <1>5 DEF Told

LEMMA ToldMore ==
  ASSUME NEW frames \in Seq(Frame), NEW f \in Frame, Told(frames),
         f.session \in 1..session, f.seq >= 1, f.seq \notin LostOf(f.session), f.session = session => f.seq \in handed,
         \A i \in DOMAIN frames :
           frames[i].session <= f.session /\ (frames[i].session = f.session => frames[i].seq < f.seq),
         \A m \in 1..(f.seq - 1) :
           \/ m \in LostOf(f.session)
           \/ \E j \in DOMAIN frames : frames[j].session = f.session /\ frames[j].seq = m
  PROVE  Told(Append(frames, f))
<1>1. PICK more : more = Append(frames, f)
  OBVIOUS
<1>2. Len(frames) \in Nat /\ DOMAIN frames = 1..Len(frames)
  OBVIOUS
<1>3. PICK n \in Nat : n = Len(frames)
  BY <1>2
<1>4. DOMAIN more = 1..(n + 1) /\ more[n + 1] = f /\ \A i \in 1..n : more[i] = frames[i]
  BY <1>1, <1>3
<1>5. DOMAIN frames = 1..n
  BY <1>2, <1>3
<1>6. ASSUME NEW i \in DOMAIN more
      PROVE  /\ more[i].session \in 1..session /\ more[i].seq >= 1
             /\ more[i].seq \notin LostOf(more[i].session)
             /\ more[i].session = session => more[i].seq \in handed
  <2>1. CASE i \in 1..n
    BY <1>4, <1>5, <2>1 DEF Told
  <2>2. CASE i = n + 1
    BY <1>4, <2>2
  <2>. QED
    BY <1>4, <2>1, <2>2
<1>7. InOrder(more)
  <2>1. ASSUME NEW i \in DOMAIN more, NEW j \in DOMAIN more, i < j
        PROVE  /\ more[i].session <= more[j].session
               /\ more[i].session = more[j].session => more[i].seq < more[j].seq
    <3>1. i \in 1..n /\ more[i] = frames[i]
      BY <1>4, <2>1
    <3>2. CASE j \in 1..n
      BY <1>4, <1>5, <2>1, <3>1, <3>2 DEF Told, InOrder
    <3>3. CASE j = n + 1
      BY <1>4, <1>5, <3>1, <3>3
    <3>. QED
      BY <1>4, <3>2, <3>3
  <2>. QED
    BY <2>1 DEF InOrder
<1>8. Explained(more)
  <2>1. ASSUME NEW i \in DOMAIN more, NEW m \in 1..(more[i].seq - 1)
        PROVE  \/ m \in LostOf(more[i].session)
               \/ \E j \in 1..(i - 1) : more[j].session = more[i].session /\ more[j].seq = m
    <3>1. CASE i \in 1..n
      <4>1. more[i] = frames[i] /\ m \in 1..(frames[i].seq - 1) /\ i \in DOMAIN frames
        BY <1>4, <1>5, <2>1, <3>1
      <4>2. \/ m \in LostOf(frames[i].session)
            \/ \E j \in 1..(i - 1) : frames[j].session = frames[i].session /\ frames[j].seq = m
        BY <4>1 DEF Told, Explained
      <4>3. \A j \in 1..(i - 1) : more[j] = frames[j]
        BY <1>4, <3>1
      <4>. QED
        BY <4>1, <4>2, <4>3
    <3>2. CASE i = n + 1
      <4>1. more[i] = f /\ i - 1 = n
        BY <1>4, <3>2
      <4>. QED
        BY <1>4, <1>5, <2>1, <4>1
    <3>. QED
      BY <1>4, <3>1, <3>2
  <2>. QED
    BY <2>1 DEF Explained
<1>. QED
  BY <1>1, <1>6, <1>7, <1>8 DEF Told

LEMMA ToldPrefix ==
  ASSUME NEW frames \in Seq(Frame), NEW whole \in Seq(Frame), Told(whole), Len(frames) <= Len(whole),
         \A i \in DOMAIN frames : frames[i] = whole[i]
  PROVE  Told(frames)
<1>1. Len(frames) \in Nat /\ Len(whole) \in Nat /\ DOMAIN frames = 1..Len(frames) /\ DOMAIN whole = 1..Len(whole)
  OBVIOUS
<1>2. \A i \in DOMAIN frames : i \in DOMAIN whole /\ i \in Nat /\ \A j \in 1..(i - 1) : j \in DOMAIN frames
  BY <1>1
<1>3. InOrder(frames)
  BY <1>2 DEF Told, InOrder
<1>4. Explained(frames)
  <2>1. ASSUME NEW i \in DOMAIN frames, NEW m \in 1..(frames[i].seq - 1)
        PROVE  \/ m \in LostOf(frames[i].session)
               \/ \E j \in 1..(i - 1) : frames[j].session = frames[i].session /\ frames[j].seq = m
    <3>1. frames[i] = whole[i] /\ i \in DOMAIN whole /\ m \in 1..(whole[i].seq - 1)
      BY <1>2, <2>1
    <3>2. \/ m \in LostOf(whole[i].session)
          \/ \E j \in 1..(i - 1) : whole[j].session = whole[i].session /\ whole[j].seq = m
      BY <3>1 DEF Told, Explained
    <3>3. \A j \in 1..(i - 1) : frames[j] = whole[j]
      BY <1>2, <2>1
    <3>. QED
      BY <3>1, <3>2, <3>3
  <2>. QED
    BY <2>1 DEF Explained
<1>5. \A i \in DOMAIN frames :
        /\ frames[i].session \in 1..session /\ frames[i].seq >= 1
        /\ frames[i].seq \notin LostOf(frames[i].session)
        /\ frames[i].session = session => frames[i].seq \in handed
  BY <1>2 DEF Told
<1>. QED
  BY <1>3, <1>4, <1>5 DEF Told

(* The frame whose last half comes next is the first of those on their way. *)
LEMMA FirstComing ==
  ASSUME ClientTypes, OnItsWay, socket # <<>>, socket[1][2] = 2
  PROVE  /\ socket[1][1].session = session /\ socket[1][1].seq \in handed /\ socket[1][1].seq \in Coming
         /\ \A k \in Coming : socket[1][1].seq <= k
<1>1. Len(socket) \in Nat /\ DOMAIN socket = 1..Len(socket) /\ socket \in Seq(Frame \X {1, 2})
  BY SequencesTyped
<1>2. 1 \in DOMAIN socket /\ socket[1][1] \in Frame
  BY <1>1
<1>3. PICK n \in Nat : n = socket[1][1].seq
  BY <1>2 DEF Frame
<1>4. n \in Seconds(socket)
  BY <1>2, <1>3 DEF Seconds
<1>5. ASSUME NEW i \in DOMAIN socket PROVE n <= socket[i][1].seq
  <2>1. CASE i = 1
    BY <1>3, <2>1
  <2>2. CASE i # 1
    <3>1. 1 < i
      BY <1>1, <2>2
    <3>. QED
      BY <1>2, <1>3, <3>1 DEF OnItsWay, Ascending
  <2>. QED
    BY <2>1, <2>2
<1>6. ASSUME NEW k \in Seconds(socket) PROVE n <= k
  BY <1>5 DEF Seconds
<1>7. owes # NoFrame => n <= owes.seq
  <2>1. SUFFICES ASSUME owes # NoFrame PROVE n <= owes.seq
    OBVIOUS
  <2>2. socket[Len(socket)] = <<owes, 1>> /\ Len(socket) \in DOMAIN socket
    BY <1>1, <1>2, <2>1 DEF OnItsWay, Paired
  <2>3. socket[Len(socket)][1] = owes
    BY <2>2
  <2>. QED
    BY <1>5, <2>2, <2>3
<1>8. \A k \in Coming : n <= k
  BY <1>6, <1>7, ComingIs
<1>. QED
  BY <1>2, <1>3, <1>4, <1>8, ComingIs DEF OnItsWay

(* Taken off the connection, a frame follows those taken before it. *)
LEMMA ToldTaken ==
  ASSUME ClientTypes, Numbered, OnItsWay, session > 0, socket # <<>>, socket[1][2] = 2,
         NEW frames \in Seq(Frame), frames = (IF run.verb = "record" THEN kept ELSE seen), Told(frames)
  PROVE  Told(Append(frames, socket[1][1]))
<1>1. PICK f \in Frame : f = socket[1][1]
  <2>1. socket \in Seq(Frame \X {1, 2}) /\ 1 \in DOMAIN socket
    BY SequencesTyped
  <2>. QED
    BY <2>1
<1>2. f.session = session /\ f.seq \in handed /\ f.seq \in Coming /\ \A k \in Coming : f.seq <= k
  BY <1>1, FirstComing
<1>3. /\ seq \in Nat /\ live \in SUBSET Nat /\ lost \in SUBSET Nat /\ handed \in SUBSET Nat /\ session \in Nat
      /\ f.seq \in Nat
  BY DEF ClientTypes, Frame
<1>4. f.seq \in 1..(seq - 1) /\ f.seq \notin lost /\ \A l \in live : f.seq < l
  BY <1>2 DEF Numbered
<1>5. Taken = {g.seq : g \in {h \in Range(frames) : h.session = session}}
  BY DEF Taken
<1>6. \A t \in Taken : t < f.seq
  BY <1>2 DEF OnItsWay
<1>7. ASSUME NEW i \in DOMAIN frames
      PROVE  frames[i].session <= f.session /\ (frames[i].session = f.session => frames[i].seq < f.seq)
  <2>1. frames[i].session \in 1..session /\ frames[i] \in Range(frames)
    BY DEF Told, Range
  <2>2. frames[i].session = session => frames[i].seq \in Taken
    BY <1>5, <2>1
  <2>. QED
    BY <1>2, <1>3, <1>6, <2>1, <2>2
<1>8. ASSUME NEW m \in 1..(f.seq - 1)
      PROVE  \/ m \in LostOf(f.session)
             \/ \E j \in DOMAIN frames : frames[j].session = f.session /\ frames[j].seq = m
  <2>1. m \in 1..(seq - 1) /\ m < f.seq /\ m \in Nat
    BY <1>3, <1>4
  <2>2. m \notin live
    BY <1>3, <1>4, <2>1
  <2>3. m \notin Coming
    BY <1>2, <1>3, <2>1
  <2>4. m \in lost \/ m \in Taken
    BY <2>1, <2>2, <2>3 DEF Numbered, OnItsWay
  <2>5. m \in Taken => \E j \in DOMAIN frames : frames[j].session = f.session /\ frames[j].seq = m
    BY <1>2, <1>5 DEF Range
  <2>. QED
    BY <1>2, <2>4, <2>5 DEF LostOf
<1>9. f.session \in 1..session
  BY <1>2, <1>3
<1>10. f.seq >= 1 /\ f.seq \notin LostOf(f.session) /\ (f.session = session => f.seq \in handed)
  BY <1>2, <1>3, <1>4 DEF LostOf
<1>11. Told(Append(frames, f))
  BY <1>7, <1>8, <1>9, <1>10, ToldMore
<1>. QED
  BY <1>1, <1>11

LEMMA ToldStep ==
  ASSUME ClientTypes, Numbered, Gone, ToldInv, FileInv, RunInv, BridgeInv, ReplayInv, [Next]_vars
  PROVE  ToldInv'
<1>0. kept \in Seq(Frame) /\ seen \in Seq(Frame)
  BY SequencesTyped
<1>1. PICK k \in Seq(Frame) : k = kept
  BY <1>0
<1>2. PICK s \in Seq(Frame) : s = seen
  BY <1>0
<1>3. Told(k) /\ Told(s)
  BY <1>1, <1>2 DEF ToldInv
<1>4. CASE kept' = kept /\ seen' \in {seen, <<>>} /\ Told(k)' /\ Told(s)'
  <2>1. Told(kept)'
    BY <1>1, <1>4
  <2>2. Told(seen)'
    <3>1. CASE seen' = seen
      BY <1>2, <1>4, <3>1
    <3>2. CASE seen' = <<>>
      BY <3>2 DEF Told, InOrder, Explained
    <3>. QED
      BY <1>4, <3>1, <3>2
  <2>. QED
    BY <2>1, <2>2 DEF ToldInv
<1>5. CASE UNCHANGED <<session, gone, lost, handed, kept>> /\ seen' \in {seen, <<>>}
  BY <1>3, <1>4, <1>5, ToldSame
<1>6. ASSUME NEW c \in Contents, Number(c) PROVE ToldInv'
  <2>1. /\ lost \subseteq lost' /\ handed' = handed /\ lost' \cap handed \subseteq lost
        /\ UNCHANGED <<session, gone, kept, seen>>
    BY <1>6, NumberStep DEF Number, historyVars
  <2>. QED
    BY <1>3, <1>4, <2>1, ToldSame
<1>7. CASE HandOn
  <2>1. lost' = lost /\ handed \subseteq handed' /\ UNCHANGED <<session, gone, kept, seen>>
    BY <1>7, HandOnStep DEF HandOn, historyVars
  <2>. QED
    BY <1>3, <1>4, <2>1, ToldSame
<1>8. ASSUME NEW v \in Verbs, StartConnects(v) PROVE ToldInv'
  <2>1. /\ session' = session + 1 /\ gone' = (IF session = 0 THEN <<>> ELSE Append(gone, lost))
        /\ kept' = kept /\ seen' = <<>>
    BY <1>8 DEF StartConnects
  <2>2. Told(k)' /\ Told(s)'
    BY <1>3, <2>1, ToldBefore
  <2>. QED
    BY <1>4, <2>1, <2>2
<1>9. ASSUME NEW v \in Verbs, StartFails(v) PROVE ToldInv'
  BY <1>5, <1>9 DEF StartFails, bridgeVars
<1>10. CASE TakeFrame
  <2>1. /\ exit = Running /\ run.verb # "record" /\ socket # <<>> /\ Head(socket)[2] = 2
        /\ seen' = seen \/ seen' = Append(seen, Head(socket)[1])
        /\ UNCHANGED <<session, gone, lost, handed, kept>>
    BY <1>10 DEF TakeFrame, Reading, clientElse, bridgeVars
  <2>2. Head(socket) = socket[1] /\ socket[1][1] \in Frame
    BY <2>1, <1>10, TakeHead DEF TakeFrame
  <2>3. PICK f \in Frame : f = socket[1][1]
    BY <2>2
  <2>4. CASE seen' = seen
    BY <1>5, <2>1, <2>4
  <2>5. CASE seen' = Append(s, f)
    <3>1. PICK more \in Seq(Frame) : more = Append(s, f)
      <4>1. Append(s, f) \in Seq(Frame)
        OBVIOUS
      <4>. QED
        BY <4>1
    <3>2. Told(more)
      <4>1. CASE server = "bridge"
        <5>1. OnItsWay /\ session > 0
          BY <2>1, <4>1 DEF BridgeInv, Bridged, ReplayInv
        <5>2. s = (IF run.verb = "record" THEN kept ELSE seen)
          BY <1>2, <2>1
        <5>3. Told(Append(s, socket[1][1]))
          BY <1>3, <2>1, <2>2, <5>1, <5>2, ToldTaken
        <5>. QED
          BY <2>3, <3>1, <5>3
      <4>2. CASE server # "bridge"
        <5>1. Served
          BY <2>1, <4>2 DEF ReplayInv
        <5>2. Len(s) + 1 \in 1..Len(k) /\ f = k[Len(s) + 1]
          BY <1>1, <1>2, <2>1, <2>2, <2>3, <5>1, NextHalf
        <5>3. \A i \in DOMAIN s : s[i] = k[i]
          BY <1>1, <1>2, <5>1 DEF Served
        <5>4. Len(more) = Len(s) + 1 /\ DOMAIN more = 1..(Len(s) + 1) /\ more[Len(s) + 1] = f
              /\ DOMAIN s = 1..Len(s) /\ Len(s) \in Nat /\ \A i \in 1..Len(s) : more[i] = s[i]
          BY <3>1
        <5>5. \A i \in DOMAIN more : more[i] = k[i]
          <6>1. ASSUME NEW i \in 1..(Len(s) + 1) PROVE more[i] = k[i]
            <7>1. CASE i = Len(s) + 1
              BY <5>2, <5>4, <7>1
            <7>2. CASE i # Len(s) + 1
              <8>1. i \in 1..Len(s)
                BY <5>4, <7>2
              <8>. QED
                BY <5>3, <5>4, <8>1
            <7>. QED
              BY <7>1, <7>2
          <6>. QED
            BY <5>4, <6>1
        <5>6. Len(more) <= Len(k)
          <6>1. Len(k) \in Nat
            OBVIOUS
          <6>. QED
            BY <5>2, <5>4, <6>1
        <5>. QED
          BY <1>3, <5>5, <5>6, ToldPrefix
      <4>. QED
        BY <4>1, <4>2
    <3>3. Told(more)' /\ Told(k)'
      BY <1>3, <2>1, <3>2, ToldSame
    <3>. QED
      BY <1>1, <2>1, <2>5, <3>1, <3>3 DEF ToldInv
  <2>. QED
    BY <1>2, <2>1, <2>2, <2>3, <2>4, <2>5
<1>11. CASE RecordFrame
  <2>1. /\ exit = Running /\ run.verb = "record" /\ socket # <<>> /\ Head(socket)[2] = 2
        /\ kept' = Append(kept, Head(socket)[1])
        /\ UNCHANGED <<session, gone, lost, handed, seen>>
    BY <1>11 DEF RecordFrame, Reading, clientElse, bridgeVars
  <2>2. Head(socket) = socket[1] /\ socket[1][1] \in Frame
    BY <2>1, <1>11, TakeHead DEF RecordFrame
  <2>3. PICK f \in Frame : f = socket[1][1]
    BY <2>2
  <2>4. PICK more \in Seq(Frame) : more = Append(k, f)
    <3>1. Append(k, f) \in Seq(Frame)
      OBVIOUS
    <3>. QED
      BY <3>1
  <2>5. OnItsWay /\ session > 0
    BY <2>1 DEF BridgeInv, Bridged, ReplayInv, Served
  <2>6. k = (IF run.verb = "record" THEN kept ELSE seen)
    BY <1>1, <2>1
  <2>7. Told(Append(k, socket[1][1]))
    BY <1>3, <2>1, <2>2, <2>5, <2>6, ToldTaken
  <2>8. Told(more)
    BY <2>3, <2>4, <2>7
  <2>9. Told(more)' /\ Told(s)'
    BY <1>3, <2>1, <2>8, ToldSame
  <2>10. kept' = more /\ seen' = s
    BY <1>1, <1>2, <2>1, <2>2, <2>3, <2>4
  <2>. QED
    BY <2>9, <2>10 DEF ToldInv
<1>12. CASE WriteRest \/ Drip \/ BridgeEnds
  BY <1>5, <1>12 DEF WriteRest, Drip, BridgeEnds, historyVars, bridgeVars
<1>13. CASE TakeHalf \/ RecordRest \/ ReadEnds \/ ReadTimesOut \/ Tick \/ Kill \/ WriteFails
  BY <1>5, <1>13 DEF TakeHalf, RecordRest, ReadEnds, ReadTimesOut, Tick, Kill, WriteFails, clientElse, bridgeVars
<1>14. CASE StartReplay \/ ReplayWrite \/ ReplayDone \/ ReplayAlone \/ ReplayExit
  BY <1>5, <1>14 DEF StartReplay, ReplayWrite, ReplayDone, ReplayAlone, ReplayExit, replayElse, historyVars,
                     bridgeVars
<1>15. CASE Quiet
  BY <1>5, <1>15 DEF Quiet, historyVars
<1>. QED
  BY <1>6, <1>7, <1>8, <1>9, <1>10, <1>11, <1>12, <1>13, <1>14, <1>15, StepIs

-----------------------------------------------------------------------------
(* What a run of tail or record has made of what it took.                  *)

TailTook(f) ==
  /\ run.verb = "tail" /\ exit = Running /\ TakeFrame /\ f = socket[1][1] /\ seen' = Append(seen, f)
  /\ exit' = Running /\ run'.last = f.seq /\ run'.refused = (run.refused \/ Bad(f))
  /\ run'.gaps = IF f.seq > run.last + 1 THEN run.gaps + 1 ELSE run.gaps
  /\ run'.dropped = IF f.seq > run.last + 1 THEN run.dropped + (f.seq - run.last - 1) ELSE run.dropped

TailBegan == seen' = <<>> /\ run'.last = 0 /\ run'.gaps = 0 /\ run'.dropped = 0

TailStays ==
  /\ run.verb = "tail" /\ seen' = seen /\ session' = session
  /\ UNCHANGED <<run.last, run.gaps, run.dropped, run.refused>>

LEMMA TailTakesOne ==
  ASSUME ClientTypes, RunInv, TakeFrame, run.verb = "tail"
  PROVE  TailStays \/ \E f \in Frame : TailTook(f)
<1>1. exit = Running /\ socket # <<>> /\ socket' = Tail(socket) /\ run.verb \in Verbs /\ session' = session
  BY DEF TakeFrame, Reading, RunInv, clientElse
<1>2. Head(socket) = socket[1] /\ socket[1][1] \in Frame /\ run \in RunSet
  BY <1>1, TakeHead, SequencesTyped
<1>3. PICK f \in Frame : f = socket[1][1]
  BY <1>2
<1>4. CASE f.content = "garbage"
  <2>1. seen' = seen /\ run' = run
    BY <1>1, <1>2, <1>3, <1>4, EndsTyped DEF TakeFrame
  <2>. QED
    BY <1>1, <2>1 DEF TailStays
<1>5. CASE f.content # "garbage"
  <2>1. seen' = Append(seen, f) /\ (TailTakes(f) \/ PingTakes(f) \/ SchemaTakes(f) \/ SendTakes(f))
    BY <1>2, <1>3, <1>5 DEF TakeFrame
  <2>2. GoOn(Counted(run, f))
    BY <2>1 DEF TailTakes, PingTakes, SchemaTakes, SendTakes
  <2>3. PICK r \in RunSet : r = Counted(run, f)
    BY <1>2, CountedTyped
  <2>4. exit' = Running /\ run' = [r EXCEPT !.got = NoFrame]
    BY <2>2, <2>3, GoOnTyped
  <2>5. run'.last = r.last /\ run'.refused = r.refused /\ run'.gaps = r.gaps /\ run'.dropped = r.dropped
    BY <2>4 DEF RunSet
  <2>6. /\ r.last = f.seq /\ r.refused = (run.refused \/ Bad(f))
        /\ r.gaps = IF f.seq > run.last + 1 THEN run.gaps + 1 ELSE run.gaps
        /\ r.dropped = IF f.seq > run.last + 1 THEN run.dropped + (f.seq - run.last - 1) ELSE run.dropped
    BY <1>2, <2>3, CountedTyped
  <2>7. TailTook(f)
    BY <1>1, <1>3, <2>1, <2>4, <2>5, <2>6 DEF TailTook
  <2>. QED
    BY <2>7
<1>. QED
  BY <1>4, <1>5

LEMMA TailStepIs ==
  ASSUME ClientTypes, RunInv, [Next]_vars, run'.verb = "tail"
  PROVE  TailBegan \/ TailStays \/ \E f \in Frame : TailTook(f)
<1>0. run \in RunSet
  BY SequencesTyped
<1>1. CASE run' = run /\ seen' = seen /\ session' = session
  BY <1>1 DEF TailStays
<1>2. ASSUME NEW c \in Contents, Number(c) PROVE TailStays
  BY <1>2 DEF Number, historyVars, TailStays
<1>3. CASE HandOn \/ WriteRest \/ Drip \/ BridgeEnds
  BY <1>1, <1>3 DEF HandOn, WriteRest, Drip, BridgeEnds, historyVars
<1>4. ASSUME NEW v \in Verbs, StartConnects(v) \/ StartFails(v) PROVE TailBegan
  BY <1>4 DEF StartConnects, StartFails, Idle, TailBegan
<1>5. CASE TakeHalf
  <2>1. exit = Running /\ run.verb \in Verbs /\ seen' = seen /\ session' = session
    BY <1>5 DEF TakeHalf, Reading, RunInv, clientElse
  <2>2. CASE Ends("invalid")
    BY <1>1, <2>1, <2>2, EndsTyped
  <2>3. CASE run' = [run EXCEPT !.got = Head(socket)[1]]
    BY <1>0, <2>1, <2>3 DEF TailStays, RunSet
  <2>. QED
    BY <1>5, <2>2, <2>3 DEF TakeHalf
<1>6. CASE TakeFrame
  <2>1. run'.verb = run.verb
    <3>1. exit = Running /\ run.verb \in Verbs /\ socket # <<>> /\ socket' = Tail(socket)
      BY <1>6 DEF TakeFrame, Reading, RunInv
    <3>. QED
      BY <1>6, <3>1, TakeHead, TakesTyped, EndsTyped DEF TakeFrame
  <2>. QED
    BY <1>6, <2>1, TailTakesOne
<1>7. CASE RecordFrame \/ RecordRest
  <2>1. run.verb = "record" /\ exit = Running
    BY <1>7 DEF RecordFrame, RecordRest, Reading, RunInv
  <2>2. run'.verb = "record"
    BY <1>0, <1>7, <2>1 DEF RecordFrame, RecordRest, GoOn, RunSet
  <2>. QED
    BY <2>2
<1>8. CASE ReadEnds \/ ReadTimesOut
  <2>1. (\E outcome : Ends(outcome)) /\ run.verb \in Verbs /\ seen' = seen /\ session' = session
    BY <1>8 DEF ReadEnds, ReadTimesOut, Reading, RunInv, clientElse
  <2>. QED
    BY <1>1, <2>1, EndsTyped
<1>9. CASE Tick
  <2>1. run'.verb = run.verb /\ Timed(run.verb)
    BY <1>0, <1>9 DEF Tick, RunSet
  <2>. QED
    BY <2>1 DEF Timed
<1>10. CASE Kill \/ WriteFails
  BY <1>1, <1>10 DEF Kill, WriteFails, clientElse
<1>11. CASE StartReplay \/ ReplayWrite \/ ReplayDone \/ ReplayAlone \/ ReplayExit
  BY <1>1, <1>11 DEF StartReplay, ReplayWrite, ReplayDone, ReplayAlone, ReplayExit, replayElse, historyVars
<1>12. CASE Quiet
  BY <1>1, <1>12 DEF Quiet, historyVars
<1>. QED
  BY <1>2, <1>3, <1>4, <1>5, <1>6, <1>7, <1>8, <1>9, <1>10, <1>11, <1>12, StepIs

LEMMA TailTaken ==
  ASSUME ClientTypes, RunInv, TakenInv, [Next]_vars, run'.verb = "tail"
  PROVE  /\ run'.last = IF seen' = <<>> THEN 0 ELSE seen'[Len(seen')].seq
         /\ \A f \in Came' : Bad(f) => run'.refused
<1>1. seen \in Seq(Frame) /\ Came' = Range(seen')
  BY SequencesTyped DEF Came
<1>2. CASE TailBegan
  <2>1. Range(seen') = {}
    BY <1>2 DEF TailBegan, Range
  <2>. QED
    BY <1>1, <1>2, <2>1 DEF TailBegan
<1>3. CASE TailStays
  BY <1>1, <1>3 DEF TailStays, TakenInv, Came
<1>4. ASSUME NEW f \in Frame, TailTook(f)
      PROVE  /\ run'.last = IF seen' = <<>> THEN 0 ELSE seen'[Len(seen')].seq
             /\ \A g \in Came' : Bad(g) => run'.refused
  <2>1. Range(seen') = Range(seen) \cup {f} /\ seen' # <<>> /\ seen'[Len(seen')] = f
    BY <1>1, <1>4, SeenGrows DEF TailTook
  <2>2. run'.last = f.seq /\ run'.refused = (run.refused \/ Bad(f)) /\ run.verb = "tail"
    BY <1>4 DEF TailTook
  <2>3. \A g \in Range(seen) : Bad(g) => run.refused
    BY <2>2 DEF TakenInv, Came
  <2>. QED
    BY <1>1, <2>1, <2>2, <2>3
<1>. QED
  BY <1>2, <1>3, <1>4, TailStepIs

LEMMA RecordTaken ==
  ASSUME ClientTypes, ToldInv, RunInv, BridgeInv, ReplayInv, FileInv, TakenInv, [Next]_vars,
         exit' = Running, run'.verb = "record", NEW f \in Came', Bad(f)
  PROVE  run'.refused \/ (run'.phase = "write" /\ f = run'.got)
<1>0. run \in RunSet /\ kept \in Seq(Frame) /\ Came' = {g \in Range(kept') : g.session = session'}
  BY SequencesTyped DEF Came
<1>1. CASE exit = Running /\ run.verb = "record" /\ kept' = kept /\ session' = session
           /\ (run' = run \/ (run' = [run EXCEPT !.got = Head(socket)[1]] /\ run.phase # "write"))
  <2>1. Came' = Came
    BY <1>0, <1>1 DEF Came
  <2>2. run.refused \/ (run.phase = "write" /\ f = run.got)
    BY <1>1, <2>1 DEF TakenInv
  <2>. QED
    BY <1>0, <1>1, <2>2 DEF RunSet
<1>15. CASE UNCHANGED <<run, exit, kept, session>>
  <2>1. run' = run /\ exit' = exit /\ kept' = kept /\ session' = session
    BY <1>15
  <2>2. exit = Running /\ run.verb = "record"
    BY <2>1
  <2>. QED
    BY <1>1, <2>1, <2>2
<1>2. ASSUME NEW c \in Contents, Number(c) PROVE run'.refused \/ (run'.phase = "write" /\ f = run'.got)
  BY <1>15, <1>2 DEF Number, Bridging, historyVars
<1>3. CASE HandOn \/ WriteRest \/ Drip \/ BridgeEnds
  BY <1>15, <1>3 DEF HandOn, WriteRest, Drip, BridgeEnds, Bridging, historyVars
<1>4. ASSUME NEW v \in Verbs, StartConnects(v) PROVE FALSE
  <2>1. session' = session + 1 /\ kept' = kept
    BY <1>4 DEF StartConnects
  <2>2. PICK i \in DOMAIN kept : f = kept[i]
    BY <1>0, <2>1 DEF Range
  <2>3. f.session \in 1..session /\ session \in Nat
    BY <2>2 DEF ToldInv, Told, ClientTypes
  <2>. QED
    BY <1>0, <2>1, <2>3
<1>5. ASSUME NEW v \in Verbs, StartFails(v) PROVE FALSE
  BY <1>5 DEF StartFails, Running
<1>6. CASE TakeHalf
  <2>1. exit = Running /\ run.verb \in Verbs /\ run.phase \in {"read", "wait"} /\ UNCHANGED <<kept, session>>
    BY <1>6 DEF TakeHalf, Reading, RunInv, clientElse
  <2>2. ~Ends("invalid")
    BY <2>1, EndsTyped DEF Running
  <2>3. run' = [run EXCEPT !.got = Head(socket)[1]]
    BY <1>6, <2>2 DEF TakeHalf
  <2>4. run.verb = "record"
    BY <1>0, <2>3 DEF RunSet
  <2>. QED
    BY <1>1, <2>1, <2>3, <2>4
<1>7. CASE TakeFrame
  <2>1. exit = Running /\ run.verb \in Verbs /\ socket # <<>> /\ socket' = Tail(socket) /\ run.verb # "record"
    BY <1>7 DEF TakeFrame, Reading, RunInv
  <2>2. run'.verb = run.verb
    BY <1>7, <2>1, TakeHead, TakesTyped, EndsTyped DEF TakeFrame
  <2>. QED
    BY <2>1, <2>2
<1>8. CASE RecordFrame
  <2>1. PICK g \in Frame : g = socket[1][1]
    BY <1>8, RecordsGot
  <2>2. /\ kept' = Append(kept, g) /\ session' = session /\ run' = [run EXCEPT !.phase = "write"] /\ run.got = g
        /\ run.verb = "record" /\ run.phase = "read" /\ exit = Running
    BY <1>8, <2>1, RecordsGot DEF RecordFrame, clientElse
  <2>3. run'.phase = "write" /\ run'.got = g /\ run'.refused = run.refused
    BY <1>0, <2>2 DEF RunSet
  <2>4. f = g \/ f \in Came
    BY <1>0, <2>2, KeptGrows DEF Came
  <2>5. f \in Came => run.refused
    BY <2>2 DEF TakenInv
  <2>. QED
    BY <2>3, <2>4, <2>5
<1>9. CASE RecordRest
  <2>1. exit = Running /\ run.verb = "record" /\ run.phase = "write" /\ UNCHANGED <<kept, session>>
    BY <1>9 DEF RecordRest, RunInv, clientElse
  <2>2. PICK r : r = [run EXCEPT !.phase = "read", !.refused = @ \/ run.got.content \in {"refused", "bad-answer"}]
    OBVIOUS
  <2>3. r \in RunSet /\ r.refused = (run.refused \/ Bad(run.got))
    BY <1>0, <2>2 DEF RunSet, Bad
  <2>4. run'.refused = r.refused
    <3>1. GoOn(r)
      BY <1>9, <2>2 DEF RecordRest
    <3>2. run' = [r EXCEPT !.got = NoFrame]
      BY <2>3, <3>1, GoOnTyped
    <3>. QED
      BY <2>3, <3>2 DEF RunSet
  <2>5. f \in Came
    BY <1>0, <2>1 DEF Came
  <2>6. run.refused \/ f = run.got
    BY <2>1, <2>5 DEF TakenInv
  <2>. QED
    BY <2>3, <2>4, <2>6
<1>10. CASE ReadEnds \/ ReadTimesOut
  <2>1. (\E outcome : Ends(outcome)) /\ run.verb \in Verbs
    BY <1>10 DEF ReadEnds, ReadTimesOut, Reading, RunInv
  <2>. QED
    BY <2>1, EndsTyped DEF Running
<1>11. CASE Tick
  <2>1. run'.verb = run.verb /\ Timed(run.verb)
    BY <1>0, <1>11 DEF Tick, RunSet
  <2>. QED
    BY <2>1 DEF Timed
<1>12. CASE Kill \/ WriteFails
  BY <1>12 DEF Kill, WriteFails, Killed, Running
<1>13. CASE StartReplay \/ ReplayWrite \/ ReplayDone \/ ReplayAlone \/ ReplayExit
  BY <1>15, <1>13 DEF StartReplay, ReplayWrite, ReplayDone, ReplayAlone, ReplayExit, replayElse, historyVars
<1>14. CASE Quiet
  BY <1>15, <1>14 DEF Quiet, historyVars
<1>. QED
  BY <1>2, <1>3, <1>4, <1>5, <1>6, <1>7, <1>8, <1>9, <1>10, <1>11, <1>12, <1>13, <1>14, StepIs

LEMMA TakenInit == Init => TakenInv
  BY DEF Init, Idle, TakenInv, Running

LEMMA TakenStep ==
  ASSUME ClientTypes, ToldInv, RunInv, BridgeInv, ReplayInv, FileInv, TakenInv, [Next]_vars
  PROVE  TakenInv'
  BY TailTaken, RecordTaken DEF TakenInv

-----------------------------------------------------------------------------
(* tail's gaps are the bridges' losses.                                    *)

LEMMA IsLost ==
  ASSUME NEW frames, NEW x
  PROVE  x \in LostAmong(frames) <=>
           \E i \in DOMAIN frames : \E m \in LostOf(frames[i].session) :
             m < frames[i].seq /\ x = <<frames[i].session, m>>
  BY DEF LostAmong, LostBefore, Range

LEMMA IsHidden ==
  ASSUME NEW frames, NEW x
  PROVE  x \in Hidden(frames) <=>
           \E i \in Joins(frames) : \E m \in 1..frames[i - 1].seq :
             m < frames[i].seq /\ x = <<frames[i].session, m>>
  BY DEF Hidden

LEMMA LostTyped ==
  ASSUME ClientTypes, Numbered, Gone, NEW s \in 1..session
  PROVE  LostOf(s) \subseteq Nat \ {0}
<1>1. CASE s = session
  <2>1. lost \subseteq 1..(seq - 1)
    BY DEF Numbered
  <2>. QED
    BY <1>1, <2>1 DEF LostOf
<1>2. CASE s # session
  <2>1. Len(gone) = session - 1 /\ gone \in Seq(SUBSET Nat) /\ session \in Nat
    <3>1. session > 0
      BY DEF ClientTypes
    <3>. QED
      BY <3>1 DEF Gone, ClientTypes
  <2>2. s \in DOMAIN gone
    BY <1>2, <2>1
  <2>3. gone[s] \subseteq Nat \ {0}
    BY <2>2 DEF Gone
  <2>. QED
    BY <1>2, <2>3 DEF LostOf
<1>. QED
  BY <1>1, <1>2

(* What a frame tells has been lost since the one before it, of its own    *)
(* session or of another.                                                  *)
LEMMA LossesTold ==
  ASSUME ClientTypes, Numbered, Gone, NEW frames \in Seq(Frame), NEW f \in Frame,
         Told(frames), Told(Append(frames, f)),
         NEW last \in Nat, last = (IF frames = <<>> THEN 0 ELSE frames[Len(frames)].seq)
  PROVE  /\ f.session \in 1..session
         /\ \A m \in (last + 1)..(f.seq - 1) : m \in LostOf(f.session)
         /\ frames # <<>> /\ frames[Len(frames)].session = f.session =>
              \A m \in LostOf(f.session) : m > last \/ m < frames[Len(frames)].seq
         /\ ~(frames # <<>> /\ frames[Len(frames)].session = f.session) =>
              \A i \in DOMAIN frames : frames[i].session # f.session
         /\ \A i \in DOMAIN frames : frames[i].session = f.session => frames[i].seq <= last
<1>1. PICK n \in Nat : n = Len(frames)
  OBVIOUS
<1>2. DOMAIN frames = 1..n
  BY <1>1
<1>3. PICK more : more = Append(frames, f)
  OBVIOUS
<1>4. DOMAIN more = 1..(n + 1) /\ more[n + 1] = f /\ \A i \in 1..n : more[i] = frames[i]
  BY <1>1, <1>3
<1>5. f.seq \in Nat /\ session \in Nat /\ (n = 0 => last = 0) /\ (n > 0 => last = frames[n].seq)
  <2>1. n = 0 <=> frames = <<>>
    BY <1>1
  <2>2. f.seq \in Nat /\ session \in Nat
    BY DEF Frame, ClientTypes
  <2>3. n > 0 => last = frames[n].seq
    BY <1>1, <2>1
  <2>. QED
    BY <2>1, <2>2, <2>3
<1>6. f.session \in 1..session /\ f.seq >= 1 /\ Told(more)
  BY <1>3, <1>4 DEF Told
<1>7. ASSUME NEW i \in 1..n
      PROVE  /\ frames[i].session \in Nat /\ frames[i].seq \in Nat /\ frames[i].seq \notin LostOf(frames[i].session)
             /\ frames[i].session <= f.session /\ (frames[i].session = f.session => frames[i].seq < f.seq)
             /\ i < n => frames[i].session <= frames[n].session
                         /\ (frames[i].session = frames[n].session => frames[i].seq < frames[n].seq)
  <2>1. frames[i] \in Frame /\ i \in DOMAIN frames /\ frames[i] = more[i] /\ i \in DOMAIN more /\ n + 1 \in DOMAIN more
        /\ i < n + 1
    BY <1>2, <1>4
  <2>2. frames[i].session <= f.session /\ (frames[i].session = f.session => frames[i].seq < f.seq)
    BY <1>4, <1>6, <2>1 DEF Told, InOrder
  <2>3. i < n => frames[i].session <= frames[n].session
                 /\ (frames[i].session = frames[n].session => frames[i].seq < frames[n].seq)
    <3>1. n \in DOMAIN frames
      BY <1>2
    <3>. QED
      BY <2>1, <3>1 DEF Told, InOrder
  <2>4. frames[i].seq \notin LostOf(frames[i].session)
    BY <2>1 DEF Told
  <2>. QED
    BY <2>1, <2>2, <2>3, <2>4 DEF Frame
<1>8. ASSUME NEW m \in 1..(f.seq - 1)
      PROVE  m \in LostOf(f.session) \/ \E j \in 1..n : frames[j].session = f.session /\ frames[j].seq = m
  <2>1. n + 1 \in DOMAIN more /\ (n + 1) - 1 = n
    BY <1>4
  <2>2. \/ m \in LostOf(more[n + 1].session)
        \/ \E j \in 1..n : more[j].session = more[n + 1].session /\ more[j].seq = m
    BY <1>4, <1>6, <2>1 DEF Told, Explained
  <2>. QED
    BY <1>4, <2>2
<1>9. LostOf(f.session) \subseteq Nat \ {0}
  BY <1>6, LostTyped
<1>10. ASSUME NEW i \in 1..n, frames[i].session = f.session PROVE n > 0 /\ frames[n].session = f.session
  <2>1. n \in 1..n
    BY <1>10
  <2>. QED
    BY <1>5, <1>6, <1>7, <1>10, <2>1
<1>11. \A i \in DOMAIN frames : frames[i].session = f.session => frames[i].seq <= last
  <2>1. ASSUME NEW i \in 1..n, frames[i].session = f.session PROVE frames[i].seq <= last
    <3>1. n > 0 /\ frames[n].session = f.session /\ last = frames[n].seq
      BY <1>5, <1>10, <2>1
    <3>2. i = n \/ i < n
      BY <2>1
    <3>. QED
      BY <1>7, <2>1, <3>1, <3>2
  <2>. QED
    BY <1>2, <2>1
<1>12. CASE n > 0 /\ frames[n].session = f.session
  <2>1. n \in 1..n /\ last = frames[n].seq /\ last < f.seq /\ last \notin LostOf(f.session)
    BY <1>5, <1>7, <1>12
  <2>2. \A m \in (last + 1)..(f.seq - 1) : m \in LostOf(f.session)
    BY <1>2, <1>5, <1>8, <1>11
  <2>3. \A m \in LostOf(f.session) : m > last \/ m < frames[n].seq
    BY <1>9, <2>1
  <2>4. frames # <<>> /\ Len(frames) = n
    BY <1>1, <1>12
  <2>. QED
    BY <1>6, <1>11, <1>12, <2>2, <2>3, <2>4
<1>13. CASE ~(n > 0 /\ frames[n].session = f.session)
  <2>1. \A i \in 1..n : frames[i].session # f.session
    BY <1>10, <1>13
  <2>2. \A m \in (last + 1)..(f.seq - 1) : m \in LostOf(f.session)
    BY <1>5, <1>8, <2>1
  <2>3. ~(frames # <<>> /\ frames[Len(frames)].session = f.session)
    BY <1>1, <1>13
  <2>. QED
    BY <1>2, <1>6, <1>11, <2>1, <2>2, <2>3
<1>. QED
  BY <1>12, <1>13

Between(s, a, b)  == {<<s, m>> : m \in a..b}
LastOf(frames)    == IF frames = <<>> THEN 0 ELSE frames[Len(frames)].seq
NewLost(last, f)  == Between(f.session, last + 1, f.seq - 1)
NewStart(last, f) == IF f.seq > last + 1 THEN {<<f.session, last + 1>>} ELSE {}

LEMMA LossesGrow ==
  ASSUME ClientTypes, Numbered, Gone, NEW frames \in Seq(Frame), NEW f \in Frame,
         Told(frames), Told(Append(frames, f))
  PROVE  /\ Gaps(Append(frames, f)) = Gaps(frames) \cup NewLost(LastOf(frames), f)
         /\ Gaps(frames) \cap NewLost(LastOf(frames), f) = {}
         /\ Stretches(Gaps(frames) \cup NewLost(LastOf(frames), f)) =
              Stretches(Gaps(frames)) \cup NewStart(LastOf(frames), f)
         /\ NewStart(LastOf(frames), f) \cap Gaps(frames) = {}
<1>a. PICK last \in Nat : last = (IF frames = <<>> THEN 0 ELSE frames[Len(frames)].seq) /\ last = LastOf(frames)
  <2>1. CASE frames = <<>>
    BY <2>1 DEF LastOf
  <2>2. CASE frames # <<>>
    <3>1. Len(frames) \in DOMAIN frames /\ frames[Len(frames)] \in Frame
      BY <2>2
    <3>. QED
      BY <2>2, <3>1 DEF LastOf, Frame
  <2>. QED
    BY <2>1, <2>2
<1>b. PICK old : old = Gaps(frames)
  OBVIOUS
<1>c. PICK new : new = NewLost(last, f) /\ new = Between(f.session, last + 1, f.seq - 1)
  BY DEF NewLost
<1>1. PICK s \in 1..session : s = f.session
  BY <1>a, LossesTold
<1>2. /\ \A m \in (last + 1)..(f.seq - 1) : m \in LostOf(s)
      /\ frames # <<>> /\ frames[Len(frames)].session = s =>
           \A m \in LostOf(s) : m > last \/ m < frames[Len(frames)].seq
      /\ ~(frames # <<>> /\ frames[Len(frames)].session = s) => \A i \in DOMAIN frames : frames[i].session # s
      /\ \A i \in DOMAIN frames : frames[i].session = s => frames[i].seq <= last
  BY <1>a, <1>1, LossesTold
<1>3. PICK more : more = Append(frames, f)
  OBVIOUS
<1>4. /\ DOMAIN more = DOMAIN frames \cup {Len(frames) + 1} /\ more[Len(frames) + 1] = f
      /\ \A i \in DOMAIN frames : more[i] = frames[i]
  <2>1. Len(frames) \in Nat /\ DOMAIN frames = 1..Len(frames) /\ DOMAIN more = 1..(Len(frames) + 1)
        /\ more[Len(frames) + 1] = f /\ \A i \in 1..Len(frames) : more[i] = frames[i]
    BY <1>3
  <2>2. 1..(Len(frames) + 1) = (1..Len(frames)) \cup {Len(frames) + 1}
    BY <2>1
  <2>. QED
    BY <2>1, <2>2
<1>5. ASSUME NEW x
      PROVE  x \in LostAmong(frames) <=> \E i \in DOMAIN frames : \E m \in LostOf(frames[i].session) :
                                           m < frames[i].seq /\ x = <<frames[i].session, m>>
  BY IsLost
<1>6. f.seq \in Nat /\ \A i \in DOMAIN frames : frames[i].seq \in Nat
  <2>1. \A i \in DOMAIN frames : frames[i] \in Frame
    OBVIOUS
  <2>. QED
    BY <2>1 DEF Frame
<1>7. LostOf(s) \subseteq Nat \ {0}
  BY <1>1, LostTyped
<1>8. ASSUME NEW m, <<s, m>> \in old PROVE m \in Nat /\ m < last
  <2>0. <<s, m>> \in LostAmong(frames)
    BY <1>b, <1>8 DEF Gaps
  <2>1. PICK i \in DOMAIN frames : \E k \in LostOf(frames[i].session) :
                                     k < frames[i].seq /\ <<s, m>> = <<frames[i].session, k>>
    BY <1>5, <2>0
  <2>2. frames[i].session = s /\ m \in LostOf(s) /\ m < frames[i].seq
    BY <2>1
  <2>3. frames[i].seq \in Nat /\ frames[i].seq <= last
    BY <1>2, <1>6, <2>2
  <2>4. m \in Nat
    BY <1>7, <2>2
  <2>. QED
    BY <2>2, <2>3, <2>4
<1>9. ASSUME NEW x PROVE x \in new <=> \E m \in (last + 1)..(f.seq - 1) : x = <<s, m>>
  BY <1>c, <1>1 DEF Between
<1>15. PICK n \in Nat : n = Len(frames) /\ DOMAIN frames = 1..n /\ DOMAIN more = 1..(n + 1) /\ Len(more) = n + 1
  BY <1>3
<1>16. Joins(frames) \subseteq DOMAIN frames /\ \A i \in Joins(frames) : i - 1 \in DOMAIN frames
  BY <1>15 DEF Joins
<1>17. frames # <<>> => n \in DOMAIN frames /\ last = frames[n].seq
  BY <1>a, <1>15
<1>18. ASSUME NEW x
       PROVE  x \in LostAmong(more) <=> x \in LostAmong(frames) \/ \E m \in LostOf(s) : m < f.seq /\ x = <<s, m>>
  <2>1. x \in LostAmong(more) <=> \E i \in DOMAIN more : \E m \in LostOf(more[i].session) :
                                    m < more[i].seq /\ x = <<more[i].session, m>>
    BY IsLost
  <2>2. more[n + 1].session = s /\ more[n + 1].seq = f.seq /\ DOMAIN more = DOMAIN frames \cup {n + 1}
    BY <1>1, <1>4, <1>15
  <2>3. \A i \in DOMAIN frames : more[i] = frames[i]
    BY <1>4
  <2>. QED
    BY <1>5, <2>1, <2>2, <2>3
<1>19. ASSUME NEW x
       PROVE  x \in Hidden(more) <=>
                \/ x \in Hidden(frames)
                \/ /\ frames # <<>> /\ frames[Len(frames)].session # s
                   /\ \E m \in 1..last : m < f.seq /\ x = <<s, m>>
  <2>1. Joins(more) = Joins(frames) \cup (IF frames # <<>> /\ frames[Len(frames)].session # s THEN {n + 1} ELSE {})
    <3>1. ASSUME NEW i \in 2..n PROVE more[i - 1] = frames[i - 1] /\ more[i] = frames[i]
      BY <1>4, <1>15
    <3>2. n + 1 \in 2..(n + 1) <=> frames # <<>>
      BY <1>15
    <3>3. frames # <<>> => more[(n + 1) - 1] = frames[Len(frames)] /\ more[n + 1].session = s
      BY <1>1, <1>4, <1>15, <1>17
    <3>4. \A i \in 2..(n + 1) : i \in 2..n \/ i = n + 1
      OBVIOUS
    <3>5. \A i : i \in Joins(frames) <=> i \in 2..n /\ frames[i - 1].session # frames[i].session
      BY <1>15 DEF Joins
    <3>6. \A i : i \in Joins(more) <=> i \in 2..(n + 1) /\ more[i - 1].session # more[i].session
      BY <1>15 DEF Joins
    <3>7. \A i \in 2..n : i \in 2..(n + 1) /\ i # n + 1
      OBVIOUS
    <3>8. \A i \in 2..n : i \in Joins(more) <=> i \in Joins(frames)
      BY <3>1, <3>5, <3>6, <3>7
    <3>9. n + 1 \in Joins(more) <=> frames # <<>> /\ frames[Len(frames)].session # s
      BY <3>2, <3>3, <3>6
    <3>10. n + 1 \notin Joins(frames)
      BY <3>5
    <3>11. \A i : i \in Joins(more) => i \in 2..n \/ i = n + 1
      BY <3>4, <3>6
    <3>12. \A i : i \in Joins(frames) => i \in 2..n
      BY <3>5
    <3>. QED
      BY <3>8, <3>9, <3>10, <3>11, <3>12
  <2>2. x \in Hidden(more) <=> \E i \in Joins(more) : \E m \in 1..more[i - 1].seq :
                                  m < more[i].seq /\ x = <<more[i].session, m>>
    BY IsHidden
  <2>3. x \in Hidden(frames) <=> \E i \in Joins(frames) : \E m \in 1..frames[i - 1].seq :
                                    m < frames[i].seq /\ x = <<frames[i].session, m>>
    BY IsHidden
  <2>4. \A i \in Joins(frames) : more[i - 1] = frames[i - 1] /\ more[i] = frames[i]
    BY <1>4, <1>16
  <2>5. more[n + 1] = f /\ (frames # <<>> => more[(n + 1) - 1].seq = last)
    BY <1>4, <1>15, <1>17
  <2>. QED
    BY <1>1, <2>1, <2>2, <2>3, <2>4, <2>5
<1>10. Gaps(more) = old \cup new
  <2>1. ASSUME NEW x \in Gaps(more) PROVE x \in old \cup new
    <3>1. x \in LostAmong(more) /\ x \notin Hidden(more) /\ x \notin Hidden(frames)
      BY <1>19, <2>1 DEF Gaps
    <3>2. CASE x \in LostAmong(frames)
      BY <1>b, <3>1, <3>2 DEF Gaps
    <3>3. CASE x \notin LostAmong(frames)
      <4>1. PICK m \in LostOf(s) : m < f.seq /\ x = <<s, m>>
        BY <1>18, <3>1, <3>3
      <4>2. m \in Nat /\ m # 0
        BY <1>7
      <4>3. CASE m > last
        <5>1. m \in (last + 1)..(f.seq - 1)
          BY <1>6, <4>1, <4>2, <4>3
        <5>. QED
          BY <1>9, <4>1, <5>1
      <4>4. CASE ~(m > last)
        <5>1. m \in 1..last
          BY <4>2, <4>4
        <5>2. frames # <<>>
          BY <1>a, <5>1
        <5>3. frames[Len(frames)].session = s
          BY <1>19, <3>1, <4>1, <5>1, <5>2
        <5>4. m < frames[n].seq /\ n \in DOMAIN frames /\ frames[n].session = s
          BY <1>2, <1>15, <1>17, <4>4, <5>2, <5>3
        <5>5. x \in LostAmong(frames)
          BY <1>5, <4>1, <5>4
        <5>. QED
          BY <3>3, <5>5
      <4>. QED
        BY <4>3, <4>4
    <3>. QED
      BY <3>2, <3>3
  <2>2. ASSUME NEW x \in old PROVE x \in Gaps(more)
    <3>1. x \in LostAmong(frames) /\ x \notin Hidden(frames)
      BY <1>b, <2>2 DEF Gaps
    <3>2. ASSUME frames # <<>> /\ frames[Len(frames)].session # s, NEW m, x = <<s, m>> PROVE FALSE
      <4>1. PICK i \in DOMAIN frames : \E k \in LostOf(frames[i].session) :
                                         k < frames[i].seq /\ x = <<frames[i].session, k>>
        BY <1>5, <3>1
      <4>2. frames[i].session = s
        BY <3>2, <4>1
      <4>. QED
        BY <1>2, <3>2, <4>2
    <3>. QED
      BY <1>18, <1>19, <3>1, <3>2 DEF Gaps
  <2>3. ASSUME NEW x \in new PROVE x \in Gaps(more)
    <3>1. PICK m \in (last + 1)..(f.seq - 1) : x = <<s, m>>
      BY <1>9
    <3>2. m \in LostOf(s) /\ m < f.seq /\ m > last
      BY <1>2, <1>6
    <3>3. x \in LostAmong(more)
      BY <1>18, <3>1, <3>2
    <3>4. x \notin Hidden(frames)
      <4>1. SUFFICES ASSUME x \in Hidden(frames) PROVE FALSE
        OBVIOUS
      <4>2. PICK i \in Joins(frames) : \E k \in 1..frames[i - 1].seq : k < frames[i].seq /\ x = <<frames[i].session, k>>
        BY <4>1, IsHidden
      <4>3. frames[i].session = s /\ m < frames[i].seq /\ i \in DOMAIN frames
        BY <1>16, <3>1, <4>2
      <4>4. frames[i].seq \in Nat /\ frames[i].seq <= last
        BY <1>2, <1>6, <4>3
      <4>. QED
        BY <3>2, <4>3, <4>4
    <3>5. \A k \in 1..last : x # <<s, k>>
      BY <3>1, <3>2
    <3>. QED
      BY <1>19, <3>3, <3>4, <3>5 DEF Gaps
  <2>. QED
    BY <2>1, <2>2, <2>3
<1>11. old \cap new = {}
  <2>1. ASSUME NEW x \in old, x \in new PROVE FALSE
    <3>1. PICK m \in (last + 1)..(f.seq - 1) : x = <<s, m>>
      BY <1>9, <2>1
    <3>2. m < last
      BY <1>8, <2>1, <3>1
    <3>. QED
      BY <3>1, <3>2
  <2>. QED
    BY <2>1
<1>12. <<s, last + 1>> \notin old /\ <<s, last>> \notin old
  <2>1. ~(last + 1 < last) /\ ~(last < last)
    OBVIOUS
  <2>. QED
    BY <1>8, <2>1
<1>13. Stretches(old \cup new) = Stretches(old) \cup (IF f.seq > last + 1 THEN {<<s, last + 1>>} ELSE {})
  <2>1. ASSUME NEW x \in old PROVE x \in Stretches(old \cup new) <=> x \in Stretches(old)
    <3>0. PICK i \in DOMAIN frames : \E m \in LostOf(frames[i].session) : m < frames[i].seq /\ x = <<frames[i].session, m>>
      BY <1>5, <1>b, <2>1 DEF Gaps
    <3>1. PICK m \in LostOf(frames[i].session) : m < frames[i].seq /\ x = <<frames[i].session, m>>
      BY <3>0
    <3>2. PICK t : t = frames[i].session
      OBVIOUS
    <3>3. x = <<t, m>> /\ x[1] = t /\ x[2] = m
      BY <3>1, <3>2
    <3>4. <<t, m - 1>> \notin new
      <4>1. SUFFICES ASSUME <<t, m - 1>> \in new PROVE FALSE
        OBVIOUS
      <4>2. PICK k \in (last + 1)..(f.seq - 1) : <<t, m - 1>> = <<s, k>>
        BY <1>9, <4>1
      <4>3. t = s /\ m - 1 = k
        BY <4>2
      <4>4. m \in Nat /\ m < last
        BY <1>8, <3>3, <4>3
      <4>. QED
        BY <4>3, <4>4
    <3>5. x \in Stretches(old \cup new) <=> <<t, m - 1>> \notin old \cup new
      BY <3>3 DEF Stretches
    <3>6. x \in Stretches(old) <=> <<t, m - 1>> \notin old
      BY <3>3 DEF Stretches
    <3>. QED
      BY <3>4, <3>5, <3>6
  <2>2. ASSUME NEW m \in (last + 1)..(f.seq - 1) PROVE <<s, m>> \in Stretches(old \cup new) <=> m = last + 1
    <3>1. <<s, m>> \in new
      BY <1>9
    <3>2. <<s, m>>[1] = s /\ <<s, m>>[2] = m
      OBVIOUS
    <3>3. <<s, m>> \in Stretches(old \cup new) <=> <<s, m - 1>> \notin old \cup new
      BY <3>1, <3>2 DEF Stretches
    <3>4. CASE m = last + 1
      <4>1. m - 1 = last
        BY <3>4
      <4>2. <<s, last>> \notin new
        BY <1>9
      <4>. QED
        BY <1>12, <3>3, <3>4, <4>1, <4>2
    <3>5. CASE m # last + 1
      <4>1. m - 1 \in (last + 1)..(f.seq - 1)
        BY <1>6, <3>5
      <4>2. <<s, m - 1>> \in new
        BY <1>9, <4>1
      <4>. QED
        BY <3>3, <3>5, <4>2
    <3>. QED
      BY <3>4, <3>5
  <2>3. f.seq > last + 1 <=> last + 1 \in (last + 1)..(f.seq - 1)
    BY <1>6
  <2>4. \A x \in Stretches(old \cup new) : x \in old \/ x \in new
    BY DEF Stretches
  <2>5. ASSUME NEW x \in new
        PROVE  x \in Stretches(old \cup new) <=> x = <<s, last + 1>>
    <3>1. PICK m \in (last + 1)..(f.seq - 1) : x = <<s, m>>
      BY <1>9
    <3>. QED
      BY <2>2, <3>1
  <2>6. f.seq > last + 1 <=> <<s, last + 1>> \in new
    BY <1>9, <2>3
  <2>7. \A x \in Stretches(old) : x \in old
    BY DEF Stretches
  <2>8. \A x \in new : x \notin Stretches(old)
    BY <1>11, <2>7
  <2>9. ASSUME NEW x
        PROVE  x \in Stretches(old \cup new) <=> x \in Stretches(old) \/ (f.seq > last + 1 /\ x = <<s, last + 1>>)
    BY <1>12, <2>1, <2>4, <2>5, <2>6, <2>7, <2>8
  <2>. QED
    BY <2>9
<1>14. NewStart(last, f) = IF f.seq > last + 1 THEN {<<s, last + 1>>} ELSE {}
  BY <1>1 DEF NewStart
<1>. QED
  BY <1>a, <1>b, <1>c, <1>3, <1>10, <1>11, <1>12, <1>13, <1>14

LEMMA NewAreCounted ==
  ASSUME NEW s, NEW a \in Nat, NEW b \in Nat, NEW new, new = Between(s, a, b)
  PROVE  IsFiniteSet(new) /\ Cardinality(new) = IF b < a THEN 0 ELSE b - a + 1
<1>1. PICK P : P = a..b
  OBVIOUS
<1>2. PICK g : g = [m \in P |-> <<s, m>>]
  OBVIOUS
<1>3. g \in Bijection(P, new)
  <2>1. g \in [P -> new]
    BY <1>1, <1>2 DEF Between
  <2>2. \A m, k \in P : g[m] = g[k] => m = k
    BY <1>2
  <2>3. \A x \in new : \E m \in P : g[m] = x
    BY <1>1, <1>2 DEF Between
  <2>4. g \in Injection(P, new)
    <3>1. DOMAIN g = P
      BY <1>2
    <3>. QED
      BY <2>1, <2>2, <3>1 DEF Injection, IsInjective
  <2>5. g \in Surjection(P, new)
    BY <2>1, <2>3 DEF Surjection
  <2>. QED
    BY <2>4, <2>5 DEF Bijection
<1>4. IsFiniteSet(P) /\ Cardinality(P) = IF a > b THEN 0 ELSE b - a + 1
  <2>1. IsFiniteSet(a..b) /\ Cardinality(a..b) = IF a > b THEN 0 ELSE b - a + 1
    BY FS_Interval
  <2>. QED
    BY <1>1, <2>1
<1>5. IsFiniteSet(new) /\ Cardinality(new) = Cardinality(P)
  BY <1>3, <1>4, FS_Bijection DEF ExistsBijection
<1>. QED
  BY <1>4, <1>5

(* While a connection lasts, its bridge loses only after what it handed on. *)
LEMMA LossesStand ==
  ASSUME ClientTypes, Numbered, [Next]_vars, session' = session
  PROVE  gone' = gone /\ lost \subseteq lost' /\ \A n \in lost' \ lost : \A h \in handed : h < n
<1>1. CASE gone' = gone /\ lost' = lost
  BY <1>1
<1>2. ASSUME NEW c \in Contents, Number(c)
      PROVE  gone' = gone /\ lost \subseteq lost' /\ \A n \in lost' \ lost : \A h \in handed : h < n
  BY <1>2, NumberStep DEF Number, historyVars
<1>3. CASE HandOn
  BY <1>1, <1>3, HandOnStep DEF HandOn, historyVars
<1>4. ASSUME NEW v \in Verbs, StartConnects(v) PROVE FALSE
  <2>1. session \in Nat /\ session' = session + 1
    BY <1>4 DEF StartConnects, ClientTypes
  <2>. QED
    BY <2>1
<1>5. ASSUME NEW v \in Verbs, StartFails(v) PROVE gone' = gone /\ lost' = lost
  BY <1>5 DEF StartFails, bridgeVars
<1>6. CASE WriteRest \/ Drip \/ BridgeEnds
  BY <1>1, <1>6 DEF WriteRest, Drip, BridgeEnds, bridgeVars, historyVars
<1>7. CASE TakeHalf \/ TakeFrame \/ RecordFrame \/ RecordRest \/ ReadEnds \/ ReadTimesOut \/ Tick \/ Kill \/ WriteFails
  BY <1>1, <1>7 DEF TakeHalf, TakeFrame, RecordFrame, RecordRest, ReadEnds, ReadTimesOut, Tick, Kill, WriteFails, clientElse,
                    bridgeVars
<1>8. CASE StartReplay \/ ReplayWrite \/ ReplayDone \/ ReplayAlone \/ ReplayExit
  BY <1>1, <1>8 DEF StartReplay, ReplayWrite, ReplayDone, ReplayAlone, ReplayExit, replayElse, bridgeVars, historyVars
<1>9. CASE Quiet
  BY <1>1, <1>9 DEF Quiet, historyVars
<1>. QED
  BY <1>2, <1>3, <1>4, <1>5, <1>6, <1>7, <1>8, <1>9, StepIs

LEMMA LossesSame ==
  ASSUME NEW frames \in Seq(Frame), Told(frames), UNCHANGED <<session, gone>>, handed \in SUBSET Nat, lost' \in SUBSET Nat,
         lost \subseteq lost', \A n \in lost' \ lost : \A h \in handed : h < n
  PROVE  LostAmong(frames)' = LostAmong(frames)
<1>1. ASSUME NEW i \in DOMAIN frames, NEW m, m < frames[i].seq
      PROVE  m \in LostOf(frames[i].session)' <=> m \in LostOf(frames[i].session)
  <2>1. CASE frames[i].session = session
    <3>1. frames[i].seq \in handed
      BY <2>1 DEF Told
    <3>2. m \in lost' => m \in lost
      <4>1. SUFFICES ASSUME m \in lost', m \notin lost PROVE FALSE
        OBVIOUS
      <4>2. m \in Nat /\ frames[i].seq \in Nat /\ frames[i].seq < m
        BY <3>1, <4>1
      <4>. QED
        BY <1>1, <4>2
    <3>. QED
      BY <2>1, <3>2 DEF LostOf
  <2>2. CASE frames[i].session # session
    BY <2>2 DEF LostOf
  <2>. QED
    BY <2>1, <2>2
<1>2. ASSUME NEW x
      PROVE  x \in LostAmong(frames)' <=>
               \E i \in DOMAIN frames : \E m \in LostOf(frames[i].session)' :
                 m < frames[i].seq /\ x = <<frames[i].session, m>>
  BY DEF LostAmong, LostBefore, Range
<1>3. ASSUME NEW x PROVE x \in LostAmong(frames)' <=> x \in LostAmong(frames)
  BY <1>1, <1>2, IsLost
<1>. QED
  BY <1>3

(* Losses are counted, and so is what is told of them. *)
TellsFinitely == run.verb = "tail" => IsFiniteSet(Gaps(seen))

LEMMA TellsInit == Init => TellsFinitely /\ TailTellsTheLosses
  BY DEF Init, Idle, TellsFinitely, TailTellsTheLosses

LEMMA TellsTook ==
  ASSUME ClientTypes, Numbered, Gone, ToldInv, ToldInv', RunInv, TakenInv, TellsFinitely, TailTellsTheLosses,
         NEW f \in Frame, TailTook(f)
  PROVE  TellsFinitely' /\ TailTellsTheLosses'
<1>1. PICK s \in Seq(Frame) : s = seen
  BY SequencesTyped
<1>2. PICK more : more = Append(s, f)
  OBVIOUS
<1>3. seen' = more /\ run.verb = "tail" /\ UNCHANGED <<session, gone, lost>>
  BY <1>1, <1>2 DEF TailTook, TakeFrame, clientElse, bridgeVars
<1>4. more \in Seq(Frame)
  BY <1>2
<1>5. Told(s) /\ Told(more)
  <2>1. Told(more)'
    BY <1>3 DEF ToldInv
  <2>2. handed' = handed
    BY DEF TailTook, TakeFrame, clientElse, bridgeVars
  <2>. QED
    BY <1>1, <1>3, <2>1, <2>2 DEF ToldInv, Told, InOrder, Explained, LostOf
<1>6. PICK old : old = Gaps(s)
  OBVIOUS
<1>7. PICK last \in Nat : last = (IF s = <<>> THEN 0 ELSE s[Len(s)].seq) /\ last = run.last
  <2>1. run.last = IF seen = <<>> THEN 0 ELSE seen[Len(seen)].seq
    BY <1>3 DEF TakenInv
  <2>2. run.last \in Nat
    BY SequencesTyped DEF RunSet
  <2>. QED
    BY <1>1, <2>1, <2>2
<1>8. PICK new : new = NewLost(last, f)
  OBVIOUS
<1>9. /\ Gaps(more) = old \cup new /\ old \cap new = {}
      /\ Stretches(old \cup new) = Stretches(old) \cup NewStart(last, f)
      /\ NewStart(last, f) \cap old = {}
  <2>1. last = LastOf(s)
    BY <1>7 DEF LastOf
  <2>2. Told(Append(s, f)) /\ Told(s)
    BY <1>2, <1>5
  <2>. QED
    BY <1>1, <1>2, <1>6, <1>8, <2>1, <2>2, LossesGrow
<1>10. Gaps(seen)' = old \cup new
  <2>1. Gaps(more)' = Gaps(more)
    BY <1>3 DEF Gaps, Hidden, Joins, LostAmong, LostBefore, LostOf
  <2>. QED
    BY <1>3, <1>9, <2>1
<1>11. /\ IsFiniteSet(old) /\ run.dropped = Cardinality(old) /\ run.gaps = Cardinality(Stretches(old))
       /\ run.dropped \in Nat /\ run.gaps \in Nat
  BY <1>1, <1>3, <1>6, SequencesTyped DEF TellsFinitely, TailTellsTheLosses, RunSet
<1>12. f.seq \in Nat /\ f.seq >= 1
  <2>1. Len(more) \in DOMAIN more /\ more[Len(more)] = f
    BY <1>2
  <2>. QED
    BY <1>5, <2>1 DEF Told, Frame
<1>13. IsFiniteSet(new) /\ Cardinality(new) = IF f.seq > last + 1 THEN f.seq - last - 1 ELSE 0
  <2>1. PICK a \in Nat : a = last + 1
    OBVIOUS
  <2>2. PICK b \in Nat : b = f.seq - 1
    BY <1>12
  <2>3. new = Between(f.session, a, b)
    BY <1>8, <2>1, <2>2 DEF NewLost
  <2>4. IsFiniteSet(new) /\ Cardinality(new) = IF b < a THEN 0 ELSE b - a + 1
    BY <2>3, NewAreCounted
  <2>. QED
    BY <1>12, <2>1, <2>2, <2>4
<1>14. IsFiniteSet(old \cup new) /\ Cardinality(old \cup new) = Cardinality(old) + Cardinality(new)
  <2>1. IsFiniteSet(old \cup new)
        /\ Cardinality(old \cup new) = Cardinality(old) + Cardinality(new) - Cardinality(old \cap new)
    BY <1>11, <1>13, FS_Union
  <2>2. Cardinality(old \cap new) = 0
    BY <1>9, FS_EmptySet
  <2>3. Cardinality(old) \in Nat /\ Cardinality(new) \in Nat
    BY <1>11, <1>13, FS_CardinalityType
  <2>. QED
    BY <2>1, <2>2, <2>3
<1>15. Cardinality(Stretches(old \cup new)) =
         IF f.seq > last + 1 THEN Cardinality(Stretches(old)) + 1 ELSE Cardinality(Stretches(old))
  <2>1. Stretches(old) \in SUBSET old
    BY DEF Stretches
  <2>2. IsFiniteSet(Stretches(old))
    BY <1>11, <2>1, FS_Subset
  <2>3. CASE f.seq > last + 1
    <3>0. NewStart(last, f) = {<<f.session, last + 1>>}
      BY <2>3 DEF NewStart
    <3>1. <<f.session, last + 1>> \notin Stretches(old)
      BY <1>9, <2>1, <3>0
    <3>2. Stretches(old \cup new) = Stretches(old) \cup {<<f.session, last + 1>>}
      BY <1>9, <3>0
    <3>. QED
      BY <2>2, <2>3, <3>1, <3>2, FS_AddElement
  <2>4. CASE ~(f.seq > last + 1)
    BY <1>9, <2>4 DEF NewStart
  <2>. QED
    BY <2>3, <2>4
<1>16. /\ run'.gaps = IF f.seq > last + 1 THEN run.gaps + 1 ELSE run.gaps
       /\ run'.dropped = IF f.seq > last + 1 THEN run.dropped + (f.seq - last - 1) ELSE run.dropped
  BY <1>7 DEF TailTook
<1>17. run'.dropped = Cardinality(old \cup new)
  BY <1>7, <1>11, <1>12, <1>13, <1>14, <1>16
<1>18. run'.gaps = Cardinality(Stretches(old \cup new))
  BY <1>11, <1>15, <1>16
<1>19. Stretches(Gaps(seen))' = Stretches(old \cup new)
  BY <1>10 DEF Stretches
<1>. QED
  BY <1>10, <1>14, <1>17, <1>18, <1>19 DEF TellsFinitely, TailTellsTheLosses

LEMMA TellsStep ==
  ASSUME ClientTypes, ClientTypes', Numbered, Gone, ToldInv, ToldInv', RunInv, TakenInv, TellsFinitely,
         TailTellsTheLosses, [Next]_vars
  PROVE  TellsFinitely' /\ TailTellsTheLosses'
<1>1. CASE run'.verb # "tail"
  BY <1>1 DEF TellsFinitely, TailTellsTheLosses
<1>2. CASE TailBegan
  <2>1. Gaps(seen)' = {}
    BY <1>2 DEF TailBegan, Gaps, LostAmong, Range
  <2>2. Stretches(Gaps(seen))' = {}
    BY <2>1 DEF Stretches
  <2>3. Cardinality({}) = 0 /\ IsFiniteSet({})
    BY FS_EmptySet
  <2>4. run'.dropped = 0 /\ run'.gaps = 0
    BY <1>2 DEF TailBegan
  <2>. QED
    BY <2>1, <2>2, <2>3, <2>4 DEF TellsFinitely, TailTellsTheLosses
<1>3. CASE TailStays
  <2>1. PICK s \in Seq(Frame) : s = seen
    BY SequencesTyped
  <2>2. /\ run.verb = "tail" /\ seen' = s /\ session' = session /\ Told(s)
        /\ run'.dropped = run.dropped /\ run'.gaps = run.gaps
    BY <1>3, <2>1 DEF TailStays, ToldInv
  <2>3. /\ gone' = gone /\ lost \subseteq lost' /\ (\A n \in lost' \ lost : \A h \in handed : h < n)
        /\ handed \in SUBSET Nat /\ lost' \in SUBSET Nat
    BY <2>2, LossesStand DEF ClientTypes
  <2>4. Gaps(s)' = Gaps(s)
    <3>1. LostAmong(s)' = LostAmong(s)
      BY <2>2, <2>3, LossesSame
    <3>. QED
      BY <3>1 DEF Gaps, Hidden, Joins
  <2>5. Gaps(seen)' = Gaps(seen)
    BY <2>1, <2>2, <2>4
  <2>6. Stretches(Gaps(seen))' = Stretches(Gaps(seen))
    BY <2>5 DEF Stretches
  <2>. QED
    BY <2>2, <2>5, <2>6 DEF TellsFinitely, TailTellsTheLosses
<1>4. ASSUME NEW f \in Frame, TailTook(f) PROVE TellsFinitely' /\ TailTellsTheLosses'
  BY <1>4, TellsTook
<1>. QED
  BY <1>1, <1>2, <1>3, <1>4, TailStepIs

-----------------------------------------------------------------------------
(* What the exit code says.                                                *)

Gives(f) ==
  /\ exit = Running /\ seen' = Append(seen, f) /\ run' = run
  /\ (PingTakes(f) \/ SchemaTakes(f) \/ SendTakes(f)) /\ \E outcome : Ends(outcome)

GivesUp ==
  /\ exit = Running /\ seen' = seen /\ run' = run
  /\ \E outcome \in {"invalid", "closed", "cut", "timed-out"} : Ends(outcome)

LEMMA ExitsBy ==
  ASSUME ClientTypes, RunInv, [Next]_vars
  PROVE  \/ UNCHANGED <<run, exit, seen>>
         \/ exit' = Running
         \/ seen' = <<>> /\ exit' \in {1, 2} /\ (exit' = 1 => run'.verb = "doctor")
         \/ run' = run /\ run.verb \in {"tail", "record"}
         \/ GivesUp
         \/ \E f \in Frame : Gives(f)
<1>0. exit = Running => run.verb \in Verbs
  BY DEF RunInv
<1>1. ASSUME NEW c \in Contents, Number(c) PROVE UNCHANGED <<run, exit, seen>>
  BY <1>1 DEF Number, historyVars
<1>2. CASE HandOn \/ WriteRest \/ Drip \/ BridgeEnds
  BY <1>2 DEF HandOn, WriteRest, Drip, BridgeEnds, historyVars
<1>3. ASSUME NEW v \in Verbs, StartConnects(v) PROVE exit' = Running
  BY <1>3 DEF StartConnects
<1>4. ASSUME NEW v \in Verbs, StartFails(v)
      PROVE  seen' = <<>> /\ exit' \in {1, 2} /\ (exit' = 1 => run'.verb = "doctor")
  <2>1. run'.verb = v
    BY <1>4 DEF StartFails, Idle
  <2>. QED
    BY <1>4, <2>1 DEF StartFails
<1>5. CASE TakeHalf
  BY <1>0, <1>5, EndsTyped DEF TakeHalf, Reading, GivesUp
<1>6. CASE TakeFrame
  <2>1. exit = Running /\ run.verb \in Verbs /\ socket # <<>> /\ socket' = Tail(socket)
    BY <1>0, <1>6 DEF TakeFrame, Reading
  <2>2. PICK f \in Frame : f = Head(socket)[1]
    BY <2>1, TakeHead
  <2>3. CASE f.content = "garbage"
    BY <1>6, <2>1, <2>2, <2>3, EndsTyped DEF TakeFrame, GivesUp
  <2>4. CASE f.content # "garbage"
    <3>1. seen' = Append(seen, f) /\ (TailTakes(f) \/ PingTakes(f) \/ SchemaTakes(f) \/ SendTakes(f))
      BY <1>6, <2>2, <2>4 DEF TakeFrame
    <3>2. SUFFICES ASSUME exit' # Running PROVE Gives(f)
      OBVIOUS
    <3>3. ~TailTakes(f)
      BY <3>2 DEF TailTakes, GoOn
    <3>4. run' = run
      BY <2>1, <3>1, <3>2, TakesTyped
    <3>5. \E outcome : Ends(outcome)
      <4>1. CASE PingTakes(f)
        BY <3>2, <4>1 DEF PingTakes, GoOn
      <4>2. CASE SchemaTakes(f)
        BY <3>2, <4>2 DEF SchemaTakes, GoOn
      <4>3. CASE SendTakes(f)
        BY <3>2, <4>3 DEF SendTakes, GoOn
      <4>. QED
        BY <3>1, <3>3, <4>1, <4>2, <4>3
    <3>. QED
      BY <2>1, <3>1, <3>3, <3>4, <3>5 DEF Gives
  <2>. QED
    BY <2>3, <2>4
<1>7. CASE RecordFrame \/ RecordRest
  BY <1>7 DEF RecordFrame, RecordRest, Reading, GoOn
<1>8. CASE ReadEnds \/ ReadTimesOut
  <2>1. exit = Running /\ run.verb \in Verbs /\ seen' = seen
    BY <1>0, <1>8 DEF ReadEnds, ReadTimesOut, Reading
  <2>2. PICK outcome \in {"invalid", "closed", "cut", "timed-out"} : Ends(outcome)
    BY <1>8 DEF ReadEnds, ReadTimesOut
  <2>3. run' = run
    BY <2>1, <2>2, EndsTyped
  <2>. QED
    BY <2>1, <2>2, <2>3 DEF GivesUp
<1>9. CASE Tick
  BY <1>9 DEF Tick
<1>10. CASE Kill \/ WriteFails
  BY <1>10 DEF Kill, WriteFails
<1>11. CASE StartReplay \/ ReplayWrite \/ ReplayDone \/ ReplayAlone \/ ReplayExit
  BY <1>11 DEF StartReplay, ReplayWrite, ReplayDone, ReplayAlone, ReplayExit, replayElse, historyVars
<1>12. CASE Quiet
  BY <1>12 DEF Quiet, historyVars
<1>. QED
  BY <1>1, <1>2, <1>3, <1>4, <1>5, <1>6, <1>7, <1>8, <1>9, <1>10, <1>11, <1>12, StepIs

LEMMA EndsAs ==
  ASSUME NEW outcome, Ends(outcome)
  PROVE  /\ run.verb = "ping" => exit' = ping_verb(outcome)
         /\ run.verb = "schema" => exit' = schema_verb(outcome)
         /\ run.verb = "send" => exit' = send_verb(outcome)
         /\ run.verb = "doctor" => exit' = doctor_verb(outcome)
         /\ run.verb = "tail" => exit' = tail_verb(outcome)
         /\ run.verb = "record" => exit' = record_verb(outcome)
<1>1. run.verb = "ping" => exit' = ping_verb(outcome)
  BY DEF Ends
<1>2. run.verb = "schema" => exit' = schema_verb(outcome)
  BY DEF Ends
<1>3. run.verb = "send" => exit' = send_verb(outcome)
  BY DEF Ends
<1>4. run.verb = "doctor" => exit' = doctor_verb(outcome)
  BY DEF Ends
<1>5. run.verb = "tail" => exit' = tail_verb(outcome)
  BY DEF Ends
<1>6. run.verb = "record" => exit' = record_verb(outcome)
  BY DEF Ends
<1>. QED
  BY <1>1, <1>2, <1>3, <1>4, <1>5, <1>6

(* The answers: what ping, schema, send and doctor end with. *)
PingExit == run.verb = "ping" => (exit = 0 => LastSeen = "alive") /\ (exit = 1 => LastSeen = "dead")

SchemaExit ==
  run.verb = "schema" /\ exit = 0 =>
    /\ LastSeen \in {"set", "other-set"}
    /\ seen[1].content = "handshake+hash" => LastSeen = "set"

SendExit ==
  run.verb = "send" => (exit = 0 => Seen({"accepted"}))
                       /\ (exit = 1 /\ run.phase = "read" => LastSeen \in {"refused", "bad-answer"})

DoctorExit ==
  run.verb = "doctor" =>
    (exit = 0 <=> (exit \in {0, 1} /\ run.sound /\ seen # <<>> /\ LastSeen \in {"alive", "dead"}))

Answers == PingExit /\ SchemaExit /\ SendExit /\ DoctorExit

LEMMA AnswersInit == Init => Answers
  BY DEF Init, Idle, Answers, PingExit, SchemaExit, SendExit, DoctorExit

LEMMA AnswersGiven ==
  ASSUME ClientTypes, RunInv, NEW f \in Frame, Gives(f)
  PROVE  Answers'
<1>1. /\ exit = Running /\ run' = run /\ seen' = Append(seen, f) /\ run.verb \in Verbs /\ run.phase # "none"
      /\ PingTakes(f) \/ SchemaTakes(f) \/ SendTakes(f)
      /\ exit' \in {0, 1, 2}
  BY EndsTyped DEF Gives, RunInv
<1>2. seen \in Seq(Frame) /\ run \in RunSet
  BY SequencesTyped
<1>3. /\ seen' # <<>> /\ LastSeen' = f.content /\ Range(seen') = Range(seen) \cup {f}
      /\ \A i \in DOMAIN seen : seen'[i] = seen[i]
      /\ seen = <<>> => seen'[1] = f
      /\ seen # <<>> => 1 \in DOMAIN seen /\ seen'[1] = seen[1] /\ seen[1] \in Range(seen)
  <2>1. /\ seen' # <<>> /\ seen'[Len(seen')] = f /\ Range(seen') = Range(seen) \cup {f} /\ Len(seen') = Len(seen) + 1
        /\ \A i \in DOMAIN seen : seen'[i] = seen[i]
    BY <1>1, <1>2, SeenGrows
  <2>2. seen = <<>> => seen'[1] = f
    BY <2>1
  <2>3. seen # <<>> => 1 \in DOMAIN seen
    BY <1>2
  <2>4. seen # <<>> => seen[1] \in Range(seen)
    BY <2>3 DEF Range
  <2>5. LastSeen' = f.content
    BY <2>1 DEF LastSeen
  <2>. QED
    BY <2>1, <2>2, <2>3, <2>4, <2>5
<1>4. ASSUME GoOn(run) PROVE FALSE
  BY <1>1, <1>4 DEF GoOn, Running
<1>5. CASE run.verb = "ping"
  <2>1. PingTakes(f)
    BY <1>1, <1>5 DEF SchemaTakes, SendTakes
  <2>2. exit' = ping_verb(f.content) \/ (exit' = ping_verb("invalid"))
    BY <1>4, <1>5, <2>1 DEF PingTakes, Ends
  <2>3. PingExit'
    BY <1>1, <1>3, <2>2 DEF PingExit, ping_verb
  <2>. QED
    BY <1>1, <1>5, <2>3 DEF Answers, SchemaExit, SendExit, DoctorExit
<1>6. CASE run.verb = "schema"
  <2>1. SchemaTakes(f)
    BY <1>1, <1>6 DEF PingTakes, SendTakes
  <2>2. run.hash <=> Seen({"handshake+hash"})
    BY <1>6 DEF RunInv
  <2>3. SchemaExit'
    <3>1. SUFFICES ASSUME exit' = 0
                   PROVE  /\ f.content \in {"set", "other-set"}
                          /\ seen'[1].content = "handshake+hash" => f.content = "set"
      BY <1>3 DEF SchemaExit
    <3>2. ASSUME NEW r, GoOn(r) PROVE FALSE
      BY <3>1, <3>2 DEF GoOn, Running
    <3>3. ASSUME NEW outcome, Ends(outcome) PROVE outcome = "fetched"
      <4>1. schema_verb(outcome) = 0
        BY <1>6, <3>1, <3>3, EndsAs
      <4>. QED
        BY <4>1 DEF schema_verb
    <3>4. f.content = "set" \/ (f.content = "other-set" /\ ~run.hash)
      <4>1. f.content # "handshake+hash"
        BY <2>1, <3>2 DEF SchemaTakes
      <4>2. f.content \notin {"bad-answer", "bad-set"}
        BY <2>1, <3>3 DEF SchemaTakes
      <4>3. f.content \notin {"refused", "no-set"}
        <5>1. ASSUME f.content \in {"refused", "no-set"} PROVE FALSE
          <6>1. Ends(f.content)
            BY <2>1, <5>1 DEF SchemaTakes
          <6>. QED
            BY <3>3, <5>1, <6>1
        <5>. QED
          BY <5>1
      <4>4. CASE f.content = "other-set"
        <5>1. Ends(IF run.hash THEN "mismatch" ELSE "fetched")
          BY <2>1, <4>4 DEF SchemaTakes
        <5>2. (IF run.hash THEN "mismatch" ELSE "fetched") = "fetched"
          BY <3>3, <5>1
        <5>. QED
          BY <4>4, <5>2
      <4>5. CASE f.content \notin {"set", "other-set"}
        <5>1. GoOn(run)
          BY <2>1, <4>1, <4>2, <4>3, <4>5 DEF SchemaTakes
        <5>. QED
          BY <3>2, <5>1
      <4>. QED
        BY <4>4, <4>5
    <3>5. seen'[1].content = "handshake+hash" => f.content = "set"
      <4>1. SUFFICES ASSUME seen'[1].content = "handshake+hash", f.content = "other-set" PROVE FALSE
        BY <3>4
      <4>2. seen # <<>>
        BY <1>3, <4>1
      <4>3. seen[1].content = "handshake+hash" /\ seen[1] \in Range(seen)
        BY <1>3, <4>1, <4>2
      <4>4. Seen({"handshake+hash"})
        BY <4>3 DEF Seen
      <4>. QED
        BY <2>2, <3>4, <4>1, <4>4
    <3>. QED
      BY <3>4, <3>5
  <2>. QED
    BY <1>1, <1>6, <2>3 DEF Answers, PingExit, SendExit, DoctorExit
<1>7. CASE run.verb = "send"
  <2>1. SendTakes(f)
    BY <1>1, <1>7 DEF PingTakes, SchemaTakes
  <2>2. run.phase # "wait"
    BY <1>4, <2>1 DEF SendTakes
  <2>3. \/ f.content = "accepted" /\ Ends("sent")
        \/ f.content \in {"refused", "bad-answer"} /\ Ends("refused")
    <3>1. CASE f.content = "accepted"
      <4>1. ASSUME NEW r, GoOn(r) PROVE FALSE
        BY <1>1, <4>1 DEF GoOn, Running
      <4>. QED
        BY <2>1, <2>2, <3>1, <4>1 DEF SendTakes
    <3>2. CASE f.content \in {"refused", "bad-answer"}
      BY <2>1, <2>2, <3>2 DEF SendTakes
    <3>3. CASE f.content \notin {"accepted", "refused", "bad-answer"}
      BY <1>4, <2>1, <2>2, <3>3 DEF SendTakes
    <3>. QED
      BY <3>1, <3>2, <3>3
  <2>4. f.content = "accepted" => Seen({"accepted"})'
    BY <1>3 DEF Seen
  <2>5. \/ f.content = "accepted" /\ exit' = 0
        \/ f.content \in {"refused", "bad-answer"} /\ exit' = 1
    <3>1. Ends("sent") => exit' = 0
      BY <1>7, EndsAs DEF send_verb
    <3>2. Ends("refused") => exit' = 1
      <4>1. Ends("refused") => exit' = send_verb("refused")
        BY <1>7, EndsAs
      <4>. QED
        BY <4>1 DEF send_verb
    <3>. QED
      BY <2>3, <3>1, <3>2
  <2>6. SendExit'
    BY <1>1, <1>3, <2>4, <2>5 DEF SendExit
  <2>. QED
    BY <1>1, <1>7, <2>6 DEF Answers, PingExit, SchemaExit, DoctorExit
<1>8. CASE run.verb = "doctor"
  <2>1. PingTakes(f)
    BY <1>1, <1>8 DEF SchemaTakes, SendTakes
  <2>2. run.failed = ~run.sound /\ run.sound \in BOOLEAN
    BY <1>2, <1>8 DEF RunInv, RunSet
  <2>3. \/ f.content \in {"alive", "dead"} /\ exit' = doctor_verb(f.content)
        \/ f.content = "bad-pong" /\ exit' = doctor_verb("invalid")
    <3>1. CASE f.content = "bad-pong"
      BY <1>8, <2>1, <3>1 DEF PingTakes, Ends
    <3>2. CASE f.content \in {"alive", "dead"}
      <4>1. Ends(f.content)
        BY <2>1, <3>2 DEF PingTakes
      <4>. QED
        BY <1>8, <3>2, <4>1 DEF Ends
    <3>3. CASE f.content \notin {"bad-pong", "alive", "dead"}
      BY <1>4, <2>1, <3>3 DEF PingTakes
    <3>. QED
      BY <3>1, <3>2, <3>3
  <2>4. exit' = 0 <=> (run.sound /\ f.content \in {"alive", "dead"})
    <3>1. exit' = 0 <=> (~run.failed /\ f.content \in {"alive", "dead"})
      BY <2>3 DEF doctor_verb, port_within
    <3>2. ~run.failed <=> run.sound
      BY <2>2
    <3>. QED
      BY <3>1, <3>2
  <2>5. exit' \in {0, 1}
    BY <2>3 DEF doctor_verb
  <2>6. DoctorExit'
    BY <1>1, <1>3, <2>4, <2>5 DEF DoctorExit
  <2>. QED
    BY <1>1, <1>8, <2>6 DEF Answers, PingExit, SchemaExit, SendExit
<1>. QED
  BY <1>1, <1>5, <1>6, <1>7, <1>8 DEF PingTakes, SchemaTakes, SendTakes

LEMMA AnswersGivenUp ==
  ASSUME ClientTypes, RunInv, GivesUp
  PROVE  Answers'
<1>1. /\ exit = Running /\ run' = run /\ seen' = seen /\ run.verb \in Verbs /\ run.phase # "none"
      /\ exit' \in {0, 1, 2}
  BY EndsTyped DEF GivesUp, RunInv
<1>2. PICK outcome \in {"invalid", "closed", "cut", "timed-out"} : Ends(outcome)
  BY DEF GivesUp
<1>3. PingExit'
  <2>1. SUFFICES ASSUME run.verb = "ping" PROVE exit' = 2
    BY <1>1 DEF PingExit
  <2>2. exit' = ping_verb(outcome) /\ outcome \notin {"alive", "dead"}
    BY <1>2, <2>1, EndsAs
  <2>. QED
    BY <2>2 DEF ping_verb
<1>4. SchemaExit'
  <2>1. SUFFICES ASSUME run.verb = "schema" PROVE exit' # 0
    BY <1>1 DEF SchemaExit
  <2>2. exit' = schema_verb(outcome) /\ outcome \notin {"fetched"}
    BY <1>2, <2>1, EndsAs
  <2>. QED
    BY <1>2, <2>2 DEF schema_verb
<1>5. SendExit'
  <2>1. SUFFICES ASSUME run.verb = "send"
                 PROVE  (exit' = 0 => Seen({"accepted"})) /\ (exit' = 1 => run.phase # "read")
    BY <1>1 DEF SendExit, Seen
  <2>2. exit' = send_verb(outcome) /\ outcome \notin {"sent", "refused"}
    BY <1>2, <2>1, EndsAs
  <2>3. run.phase # "wait" => exit' # 0 /\ exit' # 1
    BY <2>2 DEF send_verb
  <2>4. run.phase = "wait" => Seen({"accepted"})
    BY DEF RunInv
  <2>. QED
    BY <2>3, <2>4
<1>6. DoctorExit'
  <2>1. SUFFICES ASSUME run.verb = "doctor"
                 PROVE  exit' # 0 /\ ~(seen # <<>> /\ LastSeen \in {"alive", "dead"})
    BY <1>1 DEF DoctorExit, LastSeen
  <2>2. exit' = doctor_verb(outcome) /\ outcome \notin {"alive", "dead"}
    BY <1>2, <2>1, EndsAs
  <2>3. exit' # 0
    BY <2>2 DEF doctor_verb, port_within
  <2>4. ~Seen({"alive", "dead"})
    BY <1>1, <2>1 DEF RunInv
  <2>5. seen # <<>> => seen[Len(seen)] \in Range(seen)
    <3>1. seen \in Seq(Frame)
      BY SequencesTyped
    <3>2. seen # <<>> => Len(seen) \in DOMAIN seen
      <4>1. Len(seen) \in Nat /\ DOMAIN seen = 1..Len(seen) /\ (seen # <<>> => Len(seen) # 0)
        BY <3>1
      <4>. QED
        BY <4>1
    <3>. QED
      BY <3>2 DEF Range
  <2>. QED
    BY <2>3, <2>4, <2>5 DEF Seen, LastSeen
<1>. QED
  BY <1>3, <1>4, <1>5, <1>6 DEF Answers

LEMMA AnswersStep ==
  ASSUME ClientTypes, RunInv, Answers, [Next]_vars
  PROVE  Answers'
<1>1. CASE UNCHANGED <<run, exit, seen>>
  BY <1>1 DEF Answers, PingExit, SchemaExit, SendExit, DoctorExit, LastSeen, Seen
<1>2. CASE exit' = Running
  <2>1. exit' \notin {0, 1}
    BY <1>2 DEF Running
  <2>2. PingExit' /\ SchemaExit' /\ SendExit'
    BY <2>1 DEF PingExit, SchemaExit, SendExit
  <2>3. DoctorExit'
    BY <2>1 DEF DoctorExit
  <2>. QED
    BY <2>2, <2>3 DEF Answers
<1>3. CASE seen' = <<>> /\ exit' \in {1, 2} /\ (exit' = 1 => run'.verb = "doctor")
  <2>1. exit' # 0 /\ (run'.verb # "doctor" => exit' \notin {0, 1})
    BY <1>3
  <2>2. PingExit' /\ SchemaExit' /\ SendExit'
    BY <2>1 DEF PingExit, SchemaExit, SendExit
  <2>3. DoctorExit'
    BY <1>3, <2>1 DEF DoctorExit
  <2>. QED
    BY <2>2, <2>3 DEF Answers
<1>4. CASE GivesUp
  BY <1>4, AnswersGivenUp
<1>5. ASSUME NEW f \in Frame, Gives(f) PROVE Answers'
  BY <1>5, AnswersGiven
<1>6. CASE run' = run /\ run.verb \in {"tail", "record"}
  BY <1>6 DEF Answers, PingExit, SchemaExit, SendExit, DoctorExit
<1>. QED
  BY <1>1, <1>2, <1>3, <1>4, <1>5, <1>6, ExitsBy

(* tail and record exit 0 only where they have taken all there was. *)
TakesAll == run.verb \in {"tail", "record"} /\ exit = 0 => NothingMissed

LEMMA TakesAllInit == Init => TakesAll
  BY DEF Init, TakesAll

LEMMA EndsWithAll ==
  ASSUME ClientTypes, RunInv, TakenInv, BridgeInv, ReplayInv, ReadEnds, run.verb \in {"tail", "record"}, exit' = 0
  PROVE  NothingMissed'
<1>1. /\ exit = Running /\ run.phase \in {"read", "wait"} /\ socket = <<>> /\ open # "open"
      /\ Ends(IF CleanEnd THEN "closed" ELSE "cut")
      /\ UNCHANGED <<seq, handed, server, socket, owes, open, pos, session, kept, seen>>
  BY DEF ReadEnds, Reading, clientElse, bridgeVars, replayVars
<1>2. PICK outcome : outcome = IF CleanEnd THEN "closed" ELSE "cut"
  OBVIOUS
<1>3. Ends(outcome)
  BY <1>1, <1>2
<1>4. run' = run
  BY <1>3, EndsTyped, <1>1 DEF Verbs
<1>5. outcome = "closed" /\ ~run.refused
  <2>1. tail_verb(outcome) = 0 \/ record_verb(outcome) = 0
    BY <1>3, EndsAs
  <2>. QED
    BY <2>1 DEF tail_verb, record_verb
<1>6. open = "closed" /\ run.got = NoFrame /\ Got = NoFrame
  BY <1>1, <1>2, <1>5 DEF CleanEnd, Got
<1>7. Came' = Came
  BY <1>1, <1>4 DEF Came
<1>8. \A f \in Came : f.content \notin {"refused", "bad-answer"}
  <2>1. CASE run.verb = "tail"
    BY <1>5, <2>1 DEF TakenInv, Bad
  <2>2. CASE run.verb = "record"
    BY <1>1, <1>5, <2>2 DEF TakenInv, Bad
  <2>. QED
    BY <2>1, <2>2
<1>9. CASE server = "bridge"
  <2>1. OnItsWay
    BY <1>1, <1>6, <1>9 DEF BridgeInv, Bridged
  <2>2. owes = NoFrame
    BY <1>1, <1>6, <2>1 DEF OnItsWay, Paired
  <2>3. Coming = {}
    BY <1>1, <2>2 DEF Coming
  <2>4. handed = Taken
    BY <2>1, <2>3 DEF OnItsWay
  <2>5. Taken = {f.seq : f \in Came}
    <3>1. CASE run.verb = "record"
      BY <3>1 DEF Taken, Came
    <3>2. CASE run.verb = "tail"
      <4>1. \A g \in Range(seen) : g.session = session
        BY <1>1, <1>9 DEF BridgeInv, Range
      <4>2. {g \in Range(seen) : g.session = session} = Came
        BY <3>2, <4>1 DEF Came
      <4>3. Taken = {f.seq : f \in {g \in Range(seen) : g.session = session}}
        BY <3>2 DEF Taken
      <4>. QED
        BY <4>2, <4>3
    <3>. QED
      BY <3>1, <3>2
  <2>. QED
    BY <1>1, <1>6, <1>7, <1>8, <1>9, <2>4, <2>5 DEF NothingMissed
<1>10. CASE server # "bridge"
  <2>1. Served /\ seq = 1
    BY <1>1, <1>10 DEF ReplayInv
  <2>2. server \in {"draining", "none"} => 2 * Len(seen) = pos
    <3>1. Len(seen) \in Nat /\ Len(socket) = 0
      BY <1>1, SequencesTyped
    <3>2. pos \in Nat
      BY DEF ClientTypes
    <3>3. server \in {"draining", "none"} => owes = NoFrame
      BY <2>1 DEF Served
    <3>4. Read + Len(socket) = Written
      BY <2>1 DEF Served
    <3>. QED
      BY <1>6, <3>1, <3>2, <3>3, <3>4 DEF Read, Written
  <2>3. ~(seq' > 1)
    BY <1>1, <2>1
  <2>4. server' \in {"draining", "none"} => 2 * Len(seen') = pos'
    BY <1>1, <2>2
  <2>. QED
    BY <1>1, <1>6, <1>7, <1>8, <2>3, <2>4 DEF NothingMissed
<1>. QED
  BY <1>9, <1>10

LEMMA AllStays ==
  ASSUME ClientTypes, ReplayInv, TakesAll, run.verb \in {"tail", "record"}, exit = 0,
         StartReplay \/ ReplayAlone \/ ReplayExit \/ Quiet
  PROVE  NothingMissed'
<1>1. NothingMissed /\ open = "closed"
  BY DEF TakesAll, NothingMissed
<1>2. UNCHANGED <<run, seq, handed, session, kept, seen>> /\ Came' = Came
  <2>1. UNCHANGED <<run, seq, handed, session, kept, seen>>
    BY DEF StartReplay, ReplayAlone, ReplayExit, Quiet, replayElse, bridgeVars, historyVars
  <2>. QED
    BY <2>1 DEF Came
<1>3. CASE StartReplay
  <2>1. /\ open' = open /\ pos' = 0 /\ server' = (IF file = <<>> THEN server ELSE "listening")
    BY <1>3 DEF StartReplay
  <2>2. CASE file = <<>>
    <3>1. pos = 0
      <4>1. Len(file) = 0 /\ pos \in 0..Len(file)
        BY <2>2 DEF ClientTypes
      <4>. QED
        BY <4>1
    <3>. QED
      BY <1>1, <1>2, <2>1, <2>2, <3>1 DEF NothingMissed
  <2>3. CASE file # <<>>
    BY <1>1, <1>2, <2>1, <2>3 DEF NothingMissed
  <2>. QED
    BY <2>2, <2>3
<1>4. CASE ReplayAlone
  BY <1>1, <1>4 DEF ReplayAlone, ReplayInv
<1>5. CASE ReplayExit
  <2>1. server = "draining" /\ open' = open /\ pos' = pos
    BY <1>5 DEF ReplayExit, replayVars
  <2>. QED
    BY <1>1, <1>2, <2>1 DEF NothingMissed
<1>6. CASE Quiet
  BY <1>1, <1>2, <1>6 DEF Quiet, replayVars, NothingMissed
<1>. QED
  BY <1>3, <1>4, <1>5, <1>6

LEMMA TakesAllStep ==
  ASSUME ClientTypes, RunInv, TakenInv, BridgeInv, ReplayInv, TakesAll, [Next]_vars
  PROVE  TakesAll'
<1>0. SUFFICES ASSUME run'.verb \in {"tail", "record"}, exit' = 0 PROVE NothingMissed'
  BY DEF TakesAll
<1>1. ASSUME NEW c \in Contents, Number(c) PROVE FALSE
  BY <1>0, <1>1 DEF Number, Bridging, Running
<1>2. CASE HandOn \/ WriteRest \/ Drip \/ BridgeEnds
  BY <1>0, <1>2 DEF HandOn, WriteRest, Drip, BridgeEnds, Bridging, Running
<1>3. ASSUME NEW v \in Verbs, StartConnects(v) \/ StartFails(v) PROVE FALSE
  BY <1>0, <1>3 DEF StartConnects, StartFails, Running
<1>4. CASE TakeHalf \/ TakeFrame
  <2>1. /\ exit = Running /\ run.verb \in Verbs
        /\ socket # <<>> /\ socket' = Tail(socket)
    BY <1>4 DEF TakeHalf, TakeFrame, Reading, RunInv
  <2>2. ASSUME Ends("invalid") PROVE FALSE
    <3>1. run.verb \in {"tail", "record"}
      BY <1>0, <2>1, <2>2, EndsTyped
    <3>2. tail_verb("invalid") = 1 /\ record_verb("invalid") = 1
      BY DEF tail_verb, record_verb
    <3>. QED
      BY <1>0, <2>2, <3>1, <3>2, EndsAs
  <2>3. CASE TakeHalf
    BY <1>0, <2>2, <2>3 DEF TakeHalf, Running
  <2>4. CASE TakeFrame
    <3>1. PICK f \in Frame : f = Head(socket)[1]
      BY <2>1, TakeHead
    <3>2. TailTakes(f) \/ PingTakes(f) \/ SchemaTakes(f) \/ SendTakes(f)
      BY <2>2, <2>4, <3>1 DEF TakeFrame
    <3>3. run'.verb = run.verb
      BY <2>1, <3>2, TakesTyped
    <3>4. TailTakes(f)
      BY <1>0, <3>2, <3>3, <2>4 DEF PingTakes, SchemaTakes, SendTakes
    <3>. QED
      BY <1>0, <3>4 DEF TailTakes, GoOn, Running
  <2>. QED
    BY <1>4, <2>3, <2>4
<1>5. CASE RecordFrame \/ RecordRest
  BY <1>0, <1>5 DEF RecordFrame, RecordRest, Reading, GoOn, Running, clientElse
<1>6. CASE ReadEnds
  <2>1. (\E outcome : Ends(outcome)) /\ run.verb \in Verbs
    BY <1>6 DEF ReadEnds, Reading, RunInv
  <2>2. run' = run
    BY <2>1, EndsTyped
  <2>. QED
    BY <1>0, <1>6, <2>2, EndsWithAll
<1>7. CASE ReadTimesOut
  <2>1. Ends("timed-out") /\ run.verb \in Verbs /\ Timed(run.verb)
    BY <1>7 DEF ReadTimesOut, RunInv
  <2>2. run' = run
    BY <2>1, EndsTyped
  <2>. QED
    BY <1>0, <2>1, <2>2 DEF Timed
<1>8. CASE Tick \/ Kill \/ WriteFails
  BY <1>0, <1>8 DEF Tick, Kill, WriteFails, Running, Killed
<1>9. CASE ReplayWrite \/ ReplayDone
  BY <1>0, <1>9 DEF ReplayWrite, ReplayDone, replayElse, Running
<1>10. CASE StartReplay \/ ReplayAlone \/ ReplayExit \/ Quiet
  <2>1. run' = run /\ exit' = exit
    BY <1>10 DEF StartReplay, ReplayAlone, ReplayExit, Quiet, replayElse
  <2>. QED
    BY <1>0, <1>10, <2>1, AllStays
<1>. QED
  BY <1>1, <1>2, <1>3, <1>4, <1>5, <1>6, <1>7, <1>8, <1>9, <1>10, StepIs

(* A replay that means to exit 0 has read the capture to its end. *)
ReplayedAll == server = "draining" /\ served = "exit-0" => pos = Len(file)

LEMMA ReplayedAllInit == Init => ReplayedAll
  BY DEF Init, ReplayedAll

LEMMA ReplayedAllStep ==
  ASSUME ClientTypes, RunInv, ReplayInv, ReplayedAll, [Next]_vars
  PROVE  ReplayedAll'
<1>0. SUFFICES ASSUME server' = "draining", served' = "exit-0" PROVE pos' = Len(file')
  BY DEF ReplayedAll
<1>1. CASE UNCHANGED <<server, served, pos, file>>
  BY <1>0, <1>1 DEF ReplayedAll
<1>2. ASSUME NEW c \in Contents, Number(c) PROVE UNCHANGED <<server, served, pos, file>>
  BY <1>2 DEF Number, replayVars
<1>3. CASE HandOn \/ WriteRest \/ Drip \/ BridgeEnds
  BY <1>1, <1>3 DEF HandOn, WriteRest, Drip, BridgeEnds, replayVars
<1>4. ASSUME NEW v \in Verbs, StartConnects(v) PROVE FALSE
  BY <1>0, <1>4 DEF StartConnects
<1>5. ASSUME NEW v \in Verbs, StartFails(v) PROVE UNCHANGED <<server, served, pos, file>>
  BY <1>5 DEF StartFails, replayVars
<1>6. CASE StartReplay
  BY <1>0, <1>6 DEF StartReplay, Begin
<1>7. CASE TakeHalf \/ TakeFrame \/ ReadEnds \/ ReadTimesOut \/ Tick \/ Kill \/ WriteFails
  BY <1>1, <1>7 DEF TakeHalf, TakeFrame, ReadEnds, ReadTimesOut, Tick, Kill, WriteFails, clientElse, replayVars
<1>8. CASE RecordFrame \/ RecordRest
  <2>1. exit = Running /\ run.verb = "record" /\ server' = server
    BY <1>8 DEF RecordFrame, RecordRest, Reading, RunInv, clientElse
  <2>2. server = "bridge"
    BY <2>1 DEF ReplayInv, Served
  <2>. QED
    BY <1>0, <2>1, <2>2
<1>9. CASE ReplayWrite
  BY <1>0, <1>9 DEF ReplayWrite
<1>10. CASE ReplayDone
  BY <1>0, <1>10 DEF ReplayDone, replayElse
<1>11. CASE ReplayAlone
  BY <1>0, <1>11 DEF ReplayAlone, replayElse
<1>12. CASE ReplayExit
  BY <1>0, <1>12 DEF ReplayExit
<1>13. CASE Quiet
  BY <1>1, <1>13 DEF Quiet, replayVars
<1>. QED
  BY <1>1, <1>2, <1>3, <1>4, <1>5, <1>6, <1>7, <1>8, <1>9, <1>10, <1>11, <1>12, <1>13, StepIs

LEMMA ExitIs == RunInv /\ TakesAll /\ Answers /\ ReplayedAll => ExitIsTrue
<1>1. RunInv => (run.verb = "doctor" => run.failed = ~run.sound)
  BY DEF RunInv
<1>. QED
  BY <1>1 DEF ExitIsTrue, TakesAll, Answers, PingExit, SchemaExit, SendExit, DoctorExit, ReplayedAll

(* The halves of the frames that were kept. *)
LEMMA HalvesAre ==
  ASSUME NEW frames \in Seq(Frame), NEW k \in 1..Len(frames)
  PROVE  Halves(frames)[2 * k - 1] = <<frames[k], 1>> /\ Halves(frames)[2 * k] = <<frames[k], 2>>
<1>1. PICK n \in Nat : n = Len(frames)
  OBVIOUS
<1>2. 2 * k - 1 \in 1..(2 * n) /\ 2 * k \in 1..(2 * n)
  BY <1>1
<1>3. (2 * k - 1 + 1) \div 2 = k /\ (2 * k + 1) \div 2 = k
  BY <1>1
<1>4. 2 - ((2 * k - 1) % 2) = 1 /\ 2 - ((2 * k) % 2) = 2
  BY <1>1
<1>5. \A i \in 1..(2 * n) : Halves(frames)[i] = <<frames[(i + 1) \div 2], 2 - (i % 2)>>
  BY <1>1 DEF Halves
<1>. QED
  BY <1>2, <1>3, <1>4, <1>5

LEMMA FileIsPrefix ==
  ASSUME ClientTypes, FileInv
  PROVE  /\ IsPrefix(file, Halves(kept)) /\ Len(Halves(kept)) - Len(file) <= 1
         /\ exit = 0 /\ run.verb = "record" => file = Halves(kept)
<1>1. /\ file \in Seq(Frame \X {1, 2}) /\ kept \in Seq(Frame)
      /\ 2 * Len(kept) - 1 <= Len(file) /\ Len(file) <= 2 * Len(kept)
  BY SequencesTyped DEF FileInv
<1>2. PICK n \in Nat : n = Len(kept)
  BY <1>1
<1>3. PICK m \in Nat : m = Len(file)
  BY <1>1
<1>4. PICK H : H = Halves(kept)
  OBVIOUS
<1>5. \A i \in 1..(2 * n) : H[i] \in Frame \X {1, 2}
  <2>1. ASSUME NEW i \in 1..(2 * n) PROVE H[i] \in Frame \X {1, 2}
    <3>1. PICK k \in 1..n : i = 2 * k - 1 \/ i = 2 * k
      <4>1. (i + 1) \div 2 \in 1..n /\ (i = 2 * ((i + 1) \div 2) - 1 \/ i = 2 * ((i + 1) \div 2))
        BY <1>2
      <4>. QED
        BY <4>1
    <3>2. H[i] = <<kept[k], 1>> \/ H[i] = <<kept[k], 2>>
      BY <1>1, <1>2, <1>4, <3>1, HalvesAre
    <3>3. kept[k] \in Frame
      BY <1>1, <1>2
    <3>. QED
      BY <3>2, <3>3
  <2>. QED
    BY <2>1
<1>6. H \in Seq(Frame \X {1, 2}) /\ Len(H) = 2 * n
  <2>1. H = [i \in 1..(2 * n) |-> H[i]]
    BY <1>2, <1>4 DEF Halves
  <2>2. H \in [1..(2 * n) -> Frame \X {1, 2}] /\ 2 * n \in Nat
    BY <1>2, <1>5, <2>1
  <2>. QED
    BY <2>2
<1>7. ASSUME NEW i \in 1..m PROVE file[i] = H[i]
  <2>1. PICK k \in 1..n : i = 2 * k - 1 \/ i = 2 * k
    <3>1. (i + 1) \div 2 \in 1..n /\ (i = 2 * ((i + 1) \div 2) - 1 \/ i = 2 * ((i + 1) \div 2))
      BY <1>1, <1>2, <1>3
    <3>. QED
      BY <3>1
  <2>2. Halves(kept)[2 * k - 1] = <<kept[k], 1>> /\ Halves(kept)[2 * k] = <<kept[k], 2>>
    BY <1>1, <1>2, HalvesAre
  <2>3. file[2 * k - 1] = <<kept[k], 1>> /\ (2 * k <= m => file[2 * k] = <<kept[k], 2>>)
    BY <1>2, <1>3 DEF FileInv
  <2>. QED
    BY <1>4, <2>1, <2>2, <2>3
<1>8. SubSeq(file, 1, m) = SubSeq(H, 1, m)
  <2>1. m <= Len(H) /\ m <= Len(file)
    BY <1>1, <1>2, <1>3, <1>6
  <2>2. SubSeq(file, 1, m) = [i \in 1..m |-> file[i]] /\ SubSeq(H, 1, m) = [i \in 1..m |-> H[i]]
    BY <1>1, <1>3, <1>6, <2>1
  <2>. QED
    BY <1>7, <2>2
<1>9. Len(file) <= Len(H) /\ Len(H) - Len(file) <= 1
  BY <1>1, <1>2, <1>3, <1>6
<1>10. exit = 0 /\ run.verb = "record" => file = H
  <2>1. SUFFICES ASSUME exit = 0 /\ run.verb = "record" PROVE file = H
    OBVIOUS
  <2>2. Len(file) = Len(H) /\ m = Len(H)
    BY <1>2, <1>3, <1>6, <2>1 DEF FileInv
  <2>. QED
    BY <1>1, <1>6, <1>7, <2>2
<1>. QED
  BY <1>3, <1>4, <1>8, <1>9, <1>10 DEF IsPrefix

LEMMA CaptureIs == ClientTypes /\ FileInv => CaptureIsWhatCame
<1>1. SUFFICES ASSUME ClientTypes, FileInv PROVE CaptureIsWhatCame
  OBVIOUS
<1>2. run \in RunSet /\ Len(socket) <= Buffer
  BY <1>1 DEF ClientTypes
<1>3. TypeOK
  BY <1>1, <1>2 DEF ClientTypes, TypeOK, RunSet
<1>. QED
  BY <1>1, <1>3, FileIsPrefix DEF CaptureIsWhatCame

-----------------------------------------------------------------------------
(* The theorems.                                                           *)

ClientInv ==
  /\ ClientTypes /\ Numbered /\ Gone /\ ToldInv /\ FileInv /\ RunInv /\ TakenInv
  /\ BridgeInv /\ ReplayInv /\ LogInv
  /\ TellsFinitely /\ TailTellsTheLosses /\ TakesAll /\ Answers /\ ReplayedAll

LEMMA ClientInvInit == Init => ClientInv
  BY TypesInit, NumberedInit, GoneInit, ToldInit, FileInit, RunInit, TakenInit, BridgeInit, ReplayInit, LogInit,
     TellsInit, TakesAllInit, AnswersInit, ReplayedAllInit
  DEF ClientInv

LEMMA ClientInvStep == ClientInv /\ [Next]_vars => ClientInv'
<1>1. SUFFICES ASSUME ClientInv, [Next]_vars PROVE ClientInv'
  OBVIOUS
<1>2. /\ ClientTypes /\ Numbered /\ Gone /\ ToldInv /\ FileInv /\ RunInv /\ TakenInv /\ BridgeInv /\ ReplayInv
      /\ LogInv /\ TellsFinitely /\ TailTellsTheLosses /\ TakesAll /\ Answers /\ ReplayedAll
  BY <1>1 DEF ClientInv
<1>3. ClientTypes' /\ Numbered' /\ Gone'
  BY <1>1, <1>2, TypesStep, NumberedStep, GoneStep
<1>4. ToldInv' /\ FileInv'
  BY <1>1, <1>2, ToldStep, FileStep
<1>5. RunInv' /\ TakenInv' /\ LogInv'
  BY <1>1, <1>2, RunStep, TakenStep, LogStep
<1>6. BridgeInv' /\ ReplayInv'
  BY <1>1, <1>2, BridgeStep, ReplayStepKeeps
<1>7. TellsFinitely' /\ TailTellsTheLosses'
  BY <1>1, <1>2, <1>3, <1>4, TellsStep
<1>8. TakesAll' /\ Answers' /\ ReplayedAll'
  BY <1>1, <1>2, TakesAllStep, AnswersStep, ReplayedAllStep
<1>. QED
  BY <1>3, <1>4, <1>5, <1>6, <1>7, <1>8 DEF ClientInv

(* The inductive invariant holds in every reachable state: whatever runs   *)
(* follow each other, however the bridge numbers, loses and ends.          *)
THEOREM ClientIsSafe == Spec => []ClientInv
<1>. QED
  BY ClientInvInit, ClientInvStep, PTL DEF Spec

(* A capture is the frames that came, one after the other and each whole   *)
(* but for the last, over runs of record stopped at any point, and the     *)
(* last too after a run that ended with 0: what record_verb writes and     *)
(* whole_frames lets it append to.                                         *)
THEOREM ClientCaptureIsWhatCame == Spec => []CaptureIsWhatCame
<1>1. ClientInv => CaptureIsWhatCame
  BY CaptureIs DEF ClientInv
<1>. QED
  BY <1>1, ClientIsSafe, PTL

(* What tail counts as dropped, and in how many gaps, is what the bridge   *)
(* lost before the last frame shown of each session, live or replayed, but *)
(* for losses at the head of a later session whose numbers the one before  *)
(* it had reached.                                                         *)
THEOREM ClientTailTellsTheLosses == Spec => []TailTellsTheLosses
<1>1. ClientInv => TailTellsTheLosses
  BY DEF ClientInv
<1>. QED
  BY <1>1, ClientIsSafe, PTL

(* What the exit codes of tail, record, ping, schema, send, doctor and     *)
(* replay say is so.                                                       *)
THEOREM ClientExitIsTrue == Spec => []ExitIsTrue
<1>1. ClientInv => ExitIsTrue
  BY ExitIs DEF ClientInv
<1>. QED
  BY <1>1, ClientIsSafe, PTL

=============================================================================
