------------------------------- MODULE Client -------------------------------
(***************************************************************************)
(* The command line client, crates/cli: runs of `dcsb`, one after another, *)
(* against a bridge, or against another dcsb that serves a capture.        *)
(*                                                                         *)
(* The bridge's queue is the Stream that Outbox implements: what it lost   *)
(* is a gap in its numbers.  A frame crosses the socket in two halves, its *)
(* length and its body, so that either end may go in between; a capture is *)
(* the same halves in a file.                                              *)
(***************************************************************************)
EXTENDS Doctor, FiniteSets

CONSTANTS
  Setups,   (* Situations: [runs, strange, kills, installs, hands], and a bound, *)
            (* frames: how many a bridge numbers on a connection.          *)
  Buffer,   (* How many halves the socket holds.                           *)
  Wait      (* ANSWER_WAIT, in ticks.                                      *)

ASSUME ClientAssumption ==
  /\ Buffer \in Nat \ {0} /\ Wait \in Nat
  /\ \A s \in Setups : s.runs \in Seq(STRING)

VARIABLES
  setup, runs,                  (* The situation; the verbs yet to be run. *)
  seq, live, lost, handed,      (* The bridge's queue for this connection. *)
  content, holds,               (* What each number carries; whether the bridge has a schema. *)
  asks,                         (* What the client wrote and no one read.  *)
  server,                       (* "none", "bridge", or the replay's state. *)
  socket, owes, open,           (* Halves in flight; the frame half written; the peer's end. *)
  run, exit,                    (* The run, and its exit code.             *)
  file, pos, served,            (* The capture; how far replay read it; replay's result. *)
  session, gone, kept, seen     (* Histories: connections, what each lost, the frames recorded and read. *)

bridgeVars  == <<seq, live, lost, handed, content, holds>>
replayVars  == <<pos, served>>
historyVars == <<session, gone, kept, seen>>
vars == <<setup, runs, bridgeVars, asks, server, socket, owes, open, run, exit, file,
          replayVars, historyVars, installVars>>

Bridge == INSTANCE Stream

NoFrame == [session |-> 0, seq |-> 0, content |-> "none"]
Running == 9
Code    == {0, 1, 2, Running}
Killed  == 8

Idle == [verb |-> "none", phase |-> "none", got |-> NoFrame, left |-> 0, last |-> 0,
         gaps |-> 0, dropped |-> 0, refused |-> FALSE, hash |-> FALSE, failed |-> FALSE,
         sound |-> FALSE]

Init ==
  /\ setup \in Setups /\ runs = setup.runs
  /\ Bridge!Init /\ content = <<>> /\ holds = FALSE /\ asks = <<>>
  /\ server = "none" /\ socket = <<>> /\ owes = NoFrame /\ open = "closed"
  /\ run = Idle /\ exit = 2
  /\ file = <<>> /\ pos = 0 /\ served = "none"
  /\ session = 0 /\ gone = <<>> /\ kept = <<>> /\ seen = <<>>
  /\ InstallInit

-----------------------------------------------------------------------------
(* The bridge's end of the connection.                                     *)

Bridging == server = "bridge" /\ open = "open" /\ exit = Running

FrameOf(n) == [session |-> session, seq |-> n, content |-> content[n]]

(* A frame is numbered and may be lost at once, or another for it: the     *)
(* handshake too, which answers crowd out ahead of the drainer's first pop. *)
Number(c) ==
  /\ Bridging /\ seq <= setup.frames /\ (seq = 1 <=> c \in {"handshake", "handshake+hash"})
  /\ Bridge!Number \/ Bridge!Replace
  /\ content' = Append(content, c)
  /\ UNCHANGED <<setup, runs, holds, server, socket, owes, open, run, exit, file,
                 replayVars, historyVars, installVars>>

Handshake == Number(IF holds THEN "handshake+hash" ELSE "handshake") /\ UNCHANGED asks

Accepted == \E n \in DOMAIN content : content[n] = "accepted"
Refused  == \E n \in DOMAIN content : content[n] = "refused"

(* The reader thread: the client's frames in order, none past a refusal. *)
ReadAsk ==
  /\ asks # <<>> /\ ~Refused
  /\ asks' = Tail(asks)
  /\ \/ Head(asks) = "auth" /\ \E c \in {"accepted", "refused"} : Number(c)
     \/ Head(asks) = "ping" /\ \E c \in {"alive", "dead"} : Number(c)
     \/ Head(asks) = "schema" /\ Number(IF holds THEN "set" ELSE "no-set")
     \/ Head(asks) = "record" /\ Number("record")

Record == Accepted /\ ~Refused /\ Number("record") /\ UNCHANGED asks

(* A peer that is no bridge, or one of another version. *)
Strange == \E c \in setup.strange : Number(c) /\ UNCHANGED asks

HoldSchema ==
  /\ setup.hands /\ Bridging /\ ~holds /\ holds' = TRUE
  /\ UNCHANGED <<setup, runs, seq, live, lost, handed, content, asks, server, socket, owes, open,
                 run, exit, file, replayVars, historyVars, installVars>>

(* The first half of a frame goes out, by a bridge or a replay, and the rest. *)
Write(f) ==
  /\ owes = NoFrame /\ Len(socket) < Buffer
  /\ owes' = f /\ socket' = Append(socket, <<f, 1>>)

HandOn ==
  /\ Bridging /\ Bridge!HandOn
  /\ \E n \in live \ live' : Write(FrameOf(n))
  /\ UNCHANGED <<setup, runs, content, holds, asks, server, open, run, exit, file,
                 replayVars, historyVars, installVars>>

WriteRest ==
  /\ open = "open" /\ exit = Running /\ owes # NoFrame /\ Len(socket) < Buffer
  /\ owes' = NoFrame /\ socket' = Append(socket, <<owes, 2>>)
  /\ UNCHANGED <<setup, runs, bridgeVars, asks, server, open, run, exit, file,
                 replayVars, historyVars, installVars>>

(* A peer that sends its frame a byte at a time, and never the last one. *)
Drip ==
  /\ Bridging /\ "drip" \in setup.strange /\ owes # NoFrame /\ socket = <<>>
  /\ socket' = <<<<owes, 1>>>>
  /\ UNCHANGED <<setup, runs, bridgeVars, asks, server, owes, open, run, exit, file,
                 replayVars, historyVars, installVars>>

(* The bridge closes the connection; or DCS goes down wherever it is, and  *)
(* what is in flight may go with it.                                       *)
BridgeEnds ==
  /\ Bridging
  /\ \/ open' = "closed" /\ UNCHANGED socket
     \/ open' = "reset" /\ socket' = <<>>
  /\ UNCHANGED <<setup, runs, bridgeVars, asks, server, owes, run, exit, file,
                 replayVars, historyVars, installVars>>

BridgeNext ==
  Handshake \/ ReadAsk \/ Record \/ Strange \/ HoldSchema \/ HandOn \/ WriteRest \/ Drip \/ BridgeEnds

-----------------------------------------------------------------------------
(* A run begins.                                                           *)

Timed(v)  == v \in {"ping", "doctor", "schema", "send"}
Asked(v)  == CASE v \in {"ping", "doctor"} -> <<"ping">>
               [] v = "schema"             -> <<"auth", "schema">>
               [] v = "send"               -> <<"auth", "record">>
               [] OTHER                    -> <<"auth">>

WholeAt(p) == p + 2 <= Len(file) /\ file[p + 1][2] = 1 /\ file[p + 2] = <<file[p + 1][1], 2>>

(* Where a capture's whole frames end: read one by one from its start. *)
whole_frames ==
  CHOOSE p \in 0..Len(file) :
    p % 2 = 0 /\ ~WholeAt(p) /\ \A q \in 0..(p - 1) : q % 2 = 0 => WholeAt(q)

(* Mutant: any file is appended to. *)
MayRun_AnyFile(v) == v # "replay"

(* A capture that ends inside a frame is not appended to. *)
MayRun(v) == v # "replay" /\ (v = "record" => whole_frames = Len(file))

Begin(v) ==
  /\ exit # Running /\ server \notin {"serving", "draining"}
  /\ runs # <<>> /\ v = Head(runs) /\ runs' = Tail(runs)

(* What is left of the wait once connected: a ping's connect, which tries  *)
(* one address after another, and its answer share it.                     *)
ask(v) == IF v \in {"ping", "doctor"} THEN 0..Wait ELSE {Wait}

(* Connected, and the verb's frames are written.  There is one capture, and *)
(* no one records what is served from it onto its own end.                 *)
StartConnects(v) ==
  /\ Begin(v) /\ MayRun(v) /\ (server = "listening" => v # "record")
  /\ server' = IF server = "listening" THEN "serving" ELSE "bridge"
  /\ session' = session + 1 /\ gone' = IF session = 0 THEN <<>> ELSE Append(gone, lost)
  /\ seq' = 1 /\ live' = {} /\ lost' = {} /\ handed' = {} /\ content' = <<>>
  /\ asks' = Asked(v) /\ socket' = <<>> /\ owes' = NoFrame /\ open' = "open"
  /\ \E left \in ask(v) :
       run' = [Idle EXCEPT !.verb = v, !.phase = "read", !.left = left,
                           !.failed = (v = "doctor" /\ ReportFails), !.sound = Sound]
  /\ exit' = Running /\ seen' = <<>>
  /\ UNCHANGED <<setup, holds, file, replayVars, kept, installVars>>

(* No token or payload to send, a file not to be appended to, or nothing   *)
(* that takes the connection: nothing is learned, but doctor has files to  *)
(* report on, unless it found no directory.                                *)
StartFails(v) ==
  /\ Begin(v) /\ v # "replay"
  /\ \/ v = "doctor" /\ exit' = 1
     \/ (v = "doctor" => ~write_dirs) /\ exit' = 2
  /\ run' = [Idle EXCEPT !.verb = v, !.failed = (v = "doctor" /\ ReportFails), !.sound = Sound]
  /\ seen' = <<>>
  /\ UNCHANGED <<setup, bridgeVars, asks, server, socket, owes, open, file,
                 replayVars, session, gone, kept, installVars>>

StartReplay ==
  /\ Begin("replay")
  /\ server' = IF file = <<>> THEN server ELSE "listening"
  /\ pos' = 0 /\ served' = IF file = <<>> THEN "exit-2" ELSE "serving"
  /\ UNCHANGED <<setup, bridgeVars, asks, socket, owes, open, run, exit, file,
                 historyVars, installVars>>

-----------------------------------------------------------------------------
(* The run reads: fill, read_frame_bytes, and what each verb does with it. *)

clientElse == <<setup, runs, bridgeVars, asks, server, owes, open, replayVars,
                session, gone, installVars>>

Reading == exit = Running /\ run.phase \in {"read", "wait"} /\ (Timed(run.verb) => run.left > 0)

(* What each verb exits with, by what reading came to: an outcome of its    *)
(* own, "closed" at the end of a frame, "cut" inside one or by a reset,    *)
(* "invalid", or "timed-out".                                              *)
tail_verb(outcome)   == IF outcome = "closed" /\ ~run.refused THEN 0 ELSE 1
record_verb(outcome) == IF outcome = "closed" /\ ~run.refused THEN 0 ELSE 1
ping_verb(outcome)   == IF outcome = "alive" THEN 0 ELSE IF outcome = "dead" THEN 1 ELSE 2
doctor_verb(outcome) == IF port_within(outcome) = "ok" /\ ~run.failed THEN 0 ELSE 1
schema_verb(outcome) ==
  CASE outcome = "fetched" -> 0
    [] outcome \in {"mismatch", "no-set", "refused"} -> 1
    [] OTHER -> 2
send_verb(outcome) ==
  CASE outcome = "sent" -> 0
    [] outcome = "refused" -> 1
    [] OTHER -> IF run.phase # "wait" THEN 2
                ELSE IF outcome \in {"closed", "timed-out"} THEN 0 ELSE 1

Ends(outcome) ==
  /\ exit' = CASE run.verb = "tail"   -> tail_verb(outcome)
               [] run.verb = "record" -> record_verb(outcome)
               [] run.verb = "ping"   -> ping_verb(outcome)
               [] run.verb = "doctor" -> doctor_verb(outcome)
               [] run.verb = "schema" -> schema_verb(outcome)
               [] run.verb = "send"   -> send_verb(outcome)
  /\ run' = run

GoOn(r) == exit' = Running /\ run' = [r EXCEPT !.got = NoFrame]

(* Mutant: a gap is one record. *)
Counted_ByGap(r, f) ==
  [r EXCEPT !.gaps    = IF f.seq > r.last + 1 THEN @ + 1 ELSE @,
            !.dropped = IF f.seq > r.last + 1 THEN @ + 1 ELSE @,
            !.refused = @ \/ f.content \in {"refused", "bad-answer"},
            !.last    = f.seq]

(* tail: a number that skips is a gap, one that goes back is out of order. *)
Counted(r, f) ==
  [r EXCEPT !.gaps    = IF f.seq > r.last + 1 THEN @ + 1 ELSE @,
            !.dropped = IF f.seq > r.last + 1 THEN @ + (f.seq - r.last - 1) ELSE @,
            !.refused = @ \/ f.content \in {"refused", "bad-answer"},
            !.last    = f.seq]

TailTakes(f) == run.verb = "tail" /\ GoOn(Counted(run, f))

PingTakes(f) ==
  /\ run.verb \in {"ping", "doctor"}
  /\ CASE f.content = "bad-pong"           -> Ends("invalid")
       [] f.content \in {"alive", "dead"} -> Ends(f.content)
       [] OTHER                           -> GoOn(run)

(* The set is written if it is the one the handshake named, when it did. *)
SchemaTakes(f) ==
  /\ run.verb = "schema"
  /\ CASE f.content = "handshake+hash"             -> GoOn([run EXCEPT !.hash = TRUE])
       [] f.content \in {"bad-answer", "bad-set"}  -> Ends("invalid")
       [] f.content \in {"refused", "no-set"}      -> Ends(f.content)
       [] f.content = "set"                        -> Ends("fetched")
       [] f.content = "other-set"                  -> Ends(IF run.hash THEN "mismatch" ELSE "fetched")
       [] OTHER                                    -> GoOn(run)

(* Accepted, send is done, or goes on printing for as long as it was told. *)
SendTakes(f) ==
  /\ run.verb = "send"
  /\ IF run.phase = "wait" THEN GoOn(run)
     ELSE CASE f.content = "accepted" -> Ends("sent") \/ GoOn([run EXCEPT !.phase = "wait", !.left = Wait])
            [] f.content \in {"refused", "bad-answer"} -> Ends("refused")
            [] OTHER                  -> GoOn(run)

(* Mutant: the deadline is each read's own. *)
TakeHalf_ReadsOwnDeadline ==
  /\ Reading /\ socket # <<>> /\ Head(socket)[2] = 1 /\ socket' = Tail(socket)
  /\ IF Head(socket)[1].content = "too-long" THEN Ends("invalid")
     ELSE exit' = Running /\ run' = [run EXCEPT !.got = Head(socket)[1], !.left = Wait]
  /\ UNCHANGED <<clientElse, file, kept, seen>>

TakeHalf ==
  /\ Reading /\ socket # <<>> /\ Head(socket)[2] = 1 /\ socket' = Tail(socket)
  /\ IF Head(socket)[1].content = "too-long" THEN Ends("invalid")
     ELSE exit' = Running /\ run' = [run EXCEPT !.got = Head(socket)[1]]
  /\ UNCHANGED <<clientElse, file, kept, seen>>

TakeFrame ==
  /\ Reading /\ run.verb # "record"
  /\ socket # <<>> /\ Head(socket)[2] = 2 /\ socket' = Tail(socket)
  /\ LET f == Head(socket)[1] IN
       IF f.content = "garbage" THEN Ends("invalid") /\ UNCHANGED seen
       ELSE /\ seen' = Append(seen, f)
            /\ TailTakes(f) \/ PingTakes(f) \/ SchemaTakes(f) \/ SendTakes(f)
  /\ UNCHANGED <<clientElse, file, kept>>

(* record writes the bytes whatever they are, in as many writes as it takes. *)
RecordFrame ==
  /\ Reading /\ run.verb = "record"
  /\ socket # <<>> /\ Head(socket)[2] = 2 /\ socket' = Tail(socket)
  /\ file' = Append(file, <<Head(socket)[1], 1>>) /\ kept' = Append(kept, Head(socket)[1])
  /\ run' = [run EXCEPT !.phase = "write"]
  /\ UNCHANGED <<clientElse, exit, seen>>

RecordRest ==
  /\ exit = Running /\ run.phase = "write"
  /\ file' = Append(file, <<run.got, 2>>)
  /\ GoOn([run EXCEPT !.phase = "read", !.refused = @ \/ run.got.content \in {"refused", "bad-answer"}])
  /\ UNCHANGED <<clientElse, socket, kept, seen>>

CleanEnd == open = "closed" /\ run.got = NoFrame

ReadEnds ==
  /\ Reading /\ socket = <<>> /\ open # "open"
  /\ Ends(IF CleanEnd THEN "closed" ELSE "cut")
  /\ UNCHANGED <<clientElse, socket, file, kept, seen>>

(* Time passes for a run that has a deadline, and is up. *)
Tick ==
  /\ exit = Running /\ Timed(run.verb) /\ run.left > 0
  /\ run' = [run EXCEPT !.left = @ - 1]
  /\ UNCHANGED <<clientElse, exit, socket, file, kept, seen>>

ReadTimesOut ==
  /\ exit = Running /\ Timed(run.verb) /\ run.left = 0
  /\ Ends("timed-out")
  /\ UNCHANGED <<clientElse, socket, file, kept, seen>>

(* The user stops a run that would go on for as long as the bridge does. *)
Kill ==
  /\ setup.kills /\ exit = Running /\ run.verb \in {"tail", "record"}
  /\ exit' = Killed
  /\ UNCHANGED <<clientElse, run, socket, file, kept, seen>>

(* The file takes none of a frame, or not the rest of it. *)
WriteFails ==
  /\ exit = Running /\ run.verb = "record"
  /\ run.phase = "write" \/ (socket # <<>> /\ Head(socket)[2] = 2)
  /\ exit' = 1
  /\ UNCHANGED <<clientElse, run, socket, file, kept, seen>>

ReadStep == TakeHalf \/ TakeFrame \/ RecordFrame \/ RecordRest \/ ReadEnds \/ ReadTimesOut

-----------------------------------------------------------------------------
(* The replay: the capture's frames whole, then the write side is shut, and *)
(* what the consumer sends is read until it has closed or five seconds on. *)

replayElse == <<setup, runs, bridgeVars, run, exit, file, historyVars, installVars>>

ReplayWrite ==
  /\ server = "serving" /\ open = "open" /\ exit = Running /\ WholeAt(pos)
  /\ Write(file[pos + 1][1]) /\ pos' = pos + 2
  /\ UNCHANGED <<replayElse, asks, server, open, served>>

ReplayDone ==
  /\ server = "serving" /\ exit = Running /\ owes = NoFrame /\ ~WholeAt(pos)
  /\ server' = "draining" /\ open' = "closed"
  /\ served' = IF pos = Len(file) THEN "exit-0" ELSE "exit-1"
  /\ UNCHANGED <<replayElse, asks, socket, owes, pos>>

(* A consumer that has left: a write to it fails, at once or after the     *)
(* system has taken what there was left to write.                          *)
ReplayAlone ==
  /\ server = "serving" /\ exit # Running
  /\ server' = "draining" /\ open' = "closed"
  /\ \/ served' = "exit-1" /\ UNCHANGED pos
     \/ whole_frames = Len(file) /\ served' = "exit-0" /\ pos' = Len(file)
  /\ UNCHANGED <<replayElse, asks, socket, owes>>

Discard ==
  /\ server \in {"serving", "draining"} /\ asks # <<>>
  /\ asks' = <<>>
  /\ UNCHANGED <<replayElse, server, socket, owes, open, replayVars>>

(* The consumer has closed, or its time is up; what it wrote was read, as  *)
(* each of the reader's slices is far shorter than the time it waits.      *)
ReplayExit ==
  /\ server = "draining" /\ asks = <<>>
  /\ server' = "none"
  /\ UNCHANGED <<replayElse, asks, socket, owes, open, replayVars>>

ReplayStep == ReplayWrite \/ (server = "serving" /\ WriteRest) \/ ReplayDone \/ ReplayAlone
                \/ Discard \/ ReplayExit

-----------------------------------------------------------------------------
Install ==
  /\ setup.installs /\ runs # <<>> /\ InstallNext
  /\ UNCHANGED <<setup, runs, bridgeVars, asks, server, socket, owes, open, run, exit, file,
                 replayVars, historyVars>>

Start == StartReplay \/ \E v \in {"tail", "ping", "schema", "send", "record", "doctor"} :
                          StartConnects(v) \/ StartFails(v)

Next == BridgeNext \/ Start \/ ReadStep \/ Tick \/ Kill \/ WriteFails \/ ReplayStep \/ Install

(* dcsb's threads are scheduled, and time passes.  Nothing is asked of the *)
(* bridge, the user or the peer.                                           *)
Spec ==
  /\ Init /\ [][Next]_vars
  /\ WF_vars(ReadStep) /\ WF_vars(Tick)
  /\ WF_vars(ReplayStep) /\ WF_vars(Discard)

-----------------------------------------------------------------------------
TypeOK ==
  /\ runs \in Seq(STRING) /\ open \in {"open", "closed", "reset"}
  /\ server \in {"none", "bridge", "listening", "serving", "draining"}
  /\ exit \in Code \cup {Killed} /\ run.phase \in {"none", "read", "write", "wait"}
  /\ run.left \in 0..Wait /\ run.last \in Nat /\ run.dropped \in Nat /\ run.gaps \in Nat
  /\ Len(socket) <= Buffer /\ pos \in 0..Len(file)

(* A capture is the frames that came, one after the other and each whole,  *)
(* over runs stopped at any point.  A run that was stopped, or could not   *)
(* write, may leave its last frame cut; one that ends with 0 leaves none.  *)
Halves(frames) == [i \in 1..(2 * Len(frames)) |-> <<frames[(i + 1) \div 2], 2 - (i % 2)>>]

CaptureIsWhatCame ==
  /\ TypeOK
  /\ IsPrefix(file, Halves(kept)) /\ Len(Halves(kept)) - Len(file) <= 1
  /\ run.verb = "record" /\ exit = 0 => file = Halves(kept)

(* record.rs 30-31, and ADR 0033: "a run that is stopped leaves whole      *)
(* frames behind it and nothing else".  It does not: a run stopped, or     *)
(* failed, within write_all leaves a part of a frame, which is what        *)
(* whole_frames is there to find (record.rs 56).                           *)
LeavesWholeFrames == exit # Running => file = Halves(kept)

(* "A seq that skips means records were dropped and nothing else": live or *)
(* out of a capture of several sessions, what tail adds up is what the     *)
(* bridge lost before the last frame shown of each, in as many stretches,  *)
(* but for what it lost ahead of a later session's first frame under a     *)
(* number the session before it had reached: there the numbers go back, or *)
(* on, and tail has no gap to tell.                                        *)
LostOf(s) == IF s = session THEN lost ELSE gone[s]

LostBefore(f) == {<<f.session, n>> : n \in {m \in LostOf(f.session) : m < f.seq}}
LostAmong(frames) == UNION {LostBefore(f) : f \in Range(frames)}

Joins(frames)  == {i \in 2..Len(frames) : frames[i - 1].session # frames[i].session}
Hidden(frames) ==
  UNION {{<<frames[i].session, n>> : n \in {m \in 1..frames[i - 1].seq : m < frames[i].seq}} :
           i \in Joins(frames)}
Gaps(frames) == LostAmong(frames) \ Hidden(frames)

Stretches(losses) == {p \in losses : <<p[1], p[2] - 1>> \notin losses}

TailTellsTheLosses ==
  run.verb = "tail" =>
    /\ run.dropped = Cardinality(Gaps(seen))
    /\ run.gaps = Cardinality(Stretches(Gaps(seen)))

(* ADR 0033: a join of two sessions "reads as `seq` going back to 1".  A   *)
(* session whose handshake was lost starts past it.                        *)
JoinGoesBackToOne == run.verb = "tail" => \A i \in Joins(seen) : seen[i].seq = 1

(* What a run's exit code says is so. *)
LastSeen == seen[Len(seen)].content
Seen(contents) == \E f \in Range(seen) : f.content \in contents

(* The frames a run that takes all there is has taken on this connection. *)
Came == IF run.verb = "record" THEN {f \in Range(kept) : f.session = session} ELSE Range(seen)

NothingMissed ==
  /\ IF seq > 1 THEN handed = {f.seq : f \in Came}
     ELSE server \in {"draining", "none"} => 2 * Len(seen) = pos
  /\ open = "closed" /\ \A f \in Came : f.content \notin {"refused", "bad-answer"}

ExitIsTrue ==
  /\ run.verb \in {"tail", "record"} /\ exit = 0 => NothingMissed
  /\ run.verb = "ping" => (exit = 0 => LastSeen = "alive") /\ (exit = 1 => LastSeen = "dead")
  /\ run.verb = "schema" /\ exit = 0 =>
       /\ LastSeen \in {"set", "other-set"}
       /\ seen[1].content = "handshake+hash" => LastSeen = "set"
  /\ run.verb = "send" => (exit = 0 => Seen({"accepted"}))
                          /\ (exit = 1 /\ run.phase = "read" => LastSeen \in {"refused", "bad-answer"})
  /\ run.verb = "doctor" =>
       /\ run.failed = ~run.sound
       /\ exit = 0 <=> (exit \in {0, 1} /\ run.sound /\ seen # <<>> /\ LastSeen \in {"alive", "dead"})
  /\ server = "draining" /\ served = "exit-0" => pos = Len(file)

(* A question is answered or given up, however slowly the peer talks, and  *)
(* a replay with a consumer comes to its end.                              *)
RunsEnd ==
  /\ (exit = Running /\ Timed(run.verb)) ~> (exit # Running)
  /\ (server = "serving") ~> (server \notin {"serving", "draining"})

=============================================================================
