------------------------------- MODULE Doctor -------------------------------
(***************************************************************************)
(* What `dcsb doctor` makes of an install by its files (crates/cli/src/    *)
(* doctor.rs and dcslog.rs), beside the install itself: releases extracted *)
(* over one another, files edited and lost, and DCS starting in between,   *)
(* whose loader writes the log that doctor reads.                          *)
(*                                                                         *)
(* A file is the build it came from, which stands for the size and time it *)
(* is named by.  The loader of build b with ENABLED = false is -b.         *)
(***************************************************************************)
EXTENDS Integers, Sequences, SequencesExt

CONSTANTS
  Interface,   (* [builds -> their interface version, 0 where none is named]. *)
  MaxMoves     (* Bound: how often the install changes or DCS starts.      *)

Builds  == DOMAIN Interface
Missing == 0
Shipped == {"loader", "driver", "broker", "rest"}  (* rest: the other four. *)

ASSUME InterfaceAssumption == Builds \subseteq Nat \ {0} /\ Interface \in [Builds -> Nat]

VARIABLES
  installed,   (* [Shipped -> the file that is there].                     *)
  log,         (* Logs/dcs.log: the lines that hold DCSBridge.             *)
  newest,      (* History: the newest start of this log, as it went.       *)
  moves        (* Bound's counter.                                         *)

installVars == <<installed, log, newest, moves>>

NotStarted == [outcome |-> "none", loader |-> Missing, driver |-> Missing]

InstallInit ==
  /\ installed = [f \in Shipped |-> Missing]
  /\ log = <<>> /\ newest = NotStarted /\ moves = 0

-----------------------------------------------------------------------------
(* The user's hands on the install, and DCS starting.                      *)

Move == moves < MaxMoves /\ moves' = moves + 1

Extract(b) ==
  /\ Move /\ installed' = [f \in Shipped |-> b]
  /\ UNCHANGED <<log, newest>>

ChangeFile(f, b) ==
  /\ Move /\ installed[f] # b /\ installed' = [installed EXCEPT ![f] = b]
  /\ UNCHANGED <<log, newest>>

SwitchLoader ==
  /\ Move /\ installed["loader"] # Missing
  /\ installed' = [installed EXCEPT !["loader"] = -@]
  /\ UNCHANGED <<log, newest>>

(* What each line of the loader's says; a stop quotes an error, whose free *)
(* text may hold the words the banner begins with.                         *)
Line(words)      == [words |-> words, loader |-> Missing, driver |-> Missing]
Banner           == [words |-> {"loading"}, loader |-> installed["loader"],
                     driver |-> installed["driver"]]
Stops            == {Line({"stop"}), [Banner EXCEPT !.words = @ \cup {"stop"}]}

(* The hook driver needs every file of its own, and a broker of its own    *)
(* interface; its configuration may stop it besides.                       *)
MayStart ==
  /\ \A f \in Shipped : installed[f] # Missing
  /\ Interface[installed["driver"]] = Interface[installed["broker"]]

Started(outcome) ==
  [outcome |-> outcome, loader |-> installed["loader"], driver |-> installed["driver"]]

(* DCS begins its log anew, or goes on with the one that is there. *)
StartDcs ==
  /\ Move
  /\ \E there \in {<<>>, log} :
       \/ /\ installed["loader"] = Missing
          /\ log' = there
          /\ newest' = IF there = <<>> THEN NotStarted ELSE newest
       \/ /\ installed["loader"] < 0
          /\ log' = Append(there, Line({"disabled"}))
          /\ newest' = Started("off")
       \/ /\ installed["loader"] > 0 /\ MayStart
          /\ log' = Append(there, Banner)
          /\ newest' = Started("started")
       \/ /\ installed["loader"] > 0
          /\ \E stop \in Stops : log' = there \o <<Banner, stop>>
          /\ newest' = Started("stopped")
  /\ UNCHANGED installed

InstallNext ==
  \/ \E b \in Builds : Extract(b)
  \/ \E f \in Shipped, b \in Builds \cup {Missing} : ChangeFile(f, b)
  \/ SwitchLoader
  \/ StartDcs

-----------------------------------------------------------------------------
(* doctor's checks, each a mark.                                           *)

placement == {IF installed[f] # Missing THEN "ok" ELSE "fail" : f \in Shipped}

NoStart == [start |-> "none"]

(* Mutant: the banner's words are looked for first. *)
IsStart_BannerFirst(line) == line.words \cap {"loading", "disabled"} # {}

(* A stop is told first: the error it quotes may hold the banner's words. *)
IsStart(line) == line.words \cap {"loading", "disabled"} # {} /\ "stop" \notin line.words

(* The last line that is a start's, stopped by any stop after a banner. *)
NewestStart ==
  LET starts == {i \in DOMAIN log : IsStart(log[i])}
      at     == CHOOSE i \in starts : \A j \in starts : j <= i
  IN IF starts = {} THEN NoStart
     ELSE IF "loading" \notin log[at].words THEN [start |-> "disabled"]
     ELSE [start |-> "banner", loader |-> log[at].loader, driver |-> log[at].driver,
           stopped |-> \E i \in DOMAIN log : i > at /\ "stop" \in log[i].words]

SameBuild(start) == start.loader = installed["loader"] /\ start.driver = installed["driver"]

StartLines ==
  IF NewestStart.start # "banner" THEN {"fail"}
  ELSE {IF SameBuild(NewestStart) THEN "ok" ELSE "fail",
        IF NewestStart.stopped THEN "fail" ELSE "ok"}

(* The version a file names where it is looked for, in a line of the hook  *)
(* driver and between the broker's marker and a NUL; 0 if there is none.   *)
driver_interface == Interface[installed["driver"]]
broker_interface == Interface[installed["broker"]]

(* Two files that do not both read are a note; placement has said which. *)
Interfaces ==
  IF Missing \in {installed["driver"], installed["broker"]} THEN {"note"}
  ELSE {IF driver_interface = broker_interface /\ driver_interface # 0 THEN "ok" ELSE "fail"}

ReportFails == "fail" \in placement \cup StartLines \cup Interfaces

(* doctor's last check: a Pong that reads is "ok", whatever it says of the *)
(* sim; a connection refused, closed, cut or silent is a failure.          *)
port_within(outcome) == IF outcome \in {"alive", "dead"} THEN "ok" ELSE "fail"

(* Told of no directory, doctor looks for one that holds the loader. *)
write_dirs == installed["loader"] # Missing

-----------------------------------------------------------------------------
(* What the report is about: every file is there, of builds that go        *)
(* together, and the newest start ran the files there are, to the end.     *)
Sound ==
  /\ \A f \in Shipped : installed[f] # Missing
  /\ newest = Started("started")
  /\ Interface[installed["driver"]] = Interface[installed["broker"]]
  /\ Interface[installed["driver"]] # 0

=============================================================================
