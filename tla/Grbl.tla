-------------------------------- MODULE Grbl --------------------------------
(***************************************************************************)
(* What the bridge knows about a GRBL controller, and how it comes to know *)
(* it: the vocabulary of grbl/parse.go and the reading that                *)
(* grbl/observer.go keeps.  A line of text is abstracted to the report it  *)
(* parses to; positions, feeds and counters that no decision reads are     *)
(* left out.                                                               *)
(***************************************************************************)
EXTENDS Naturals

\* The words GRBL uses for what it is doing, "Unknown" for the empty state of
\* a controller that has not said, and "Unfamiliar" for any word of a newer
\* firmware.
States == {"Unknown", "Idle", "Run", "Hold", "Jog", "Alarm", "Door", "Check",
           "Home", "Sleep", "Unfamiliar"}

\* Beam and Setting have three values each: "Unknown" is an answer of its own.
Beams    == {"Unknown", "On", "Off"}
Settings == {"Unknown", "On", "Off"}

\* An unrecognised state counts as moving.
Moving(state) == state \notin {"Idle", "Alarm", "Sleep", "Check", "Unknown"}

\* Not the opposite of Moving: a held machine is at rest and still busy.
AtRest(state) == state \in {"Idle", "Hold", "Alarm", "Sleep", "Check", "Door"}

(***************************************************************************)
(* One line from the controller.  A status report that carried no Ov:      *)
(* field says nothing about the outputs: its beam is "Unknown".            *)
(***************************************************************************)
Report == [kind : {"status", "welcome"}, state : States, beam : Beams]

StatusReport(state, beam) == [kind |-> "status", state |-> state, beam |-> beam]

WelcomeReport == [kind |-> "welcome", state |-> "Unknown", beam |-> "Off"]

(***************************************************************************)
(* The reading.  age stands for Reports - BeamReports, the status reports  *)
(* seen since one mentioned the outputs, counted up to the cap maxAge that *)
(* the caller gives; an age of maxAge also stands for BeamUnix = 0.        *)
(***************************************************************************)
Reading(maxAge) ==
  [state : States, beam : Beams, laserMode : Settings, age : 0 .. maxAge]

\* Observer.Reset, for a port that has just been opened.
NoReading(maxAge) ==
  [state |-> "Unknown", beam |-> "Unknown", laserMode |-> "Unknown", age |-> maxAge]

\* Older(m, maxAge) is one more report without a word about the outputs.
Older(m, maxAge) == IF m.age < maxAge THEN m.age + 1 ELSE maxAge

\* Observer.apply for a status report: only one that carried Ov: changes the
\* reading of the beam.
ApplyStatus(m, report, maxAge) ==
  IF report.beam = "Unknown"
  THEN [m EXCEPT !.state = report.state, !.age = Older(m, maxAge)]
  ELSE [m EXCEPT !.state = report.state, !.beam = report.beam, !.age = 0]

\* Observer.apply for the banner: a reset forgets the state, turns the outputs
\* off and keeps the stored settings.
ApplyWelcome(m) == [m EXCEPT !.state = "Unknown", !.beam = "Off", !.age = 0]

Apply(m, report, maxAge) ==
  IF report.kind = "welcome" THEN ApplyWelcome(m) ELSE ApplyStatus(m, report, maxAge)

\* Observer.ForgetBeam drops the answer and the date on it.
ForgetBeam(m, maxAge) == [m EXCEPT !.beam = "Unknown", !.age = maxAge]

=============================================================================
