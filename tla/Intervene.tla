----------------------------- MODULE Intervene -----------------------------
(***************************************************************************)
(* proxy/intervene.go and the part of proxy/supervise.go that starts an    *)
(* intervention: the ladder that Decide is the table of, carried out       *)
(* against a controller that answers later, with senders that come and go, *)
(* an operator at the web interface, a port that can disappear and a       *)
(* daemon that can be told to stop.                                        *)
(*                                                                         *)
(* One ladder runs at a time (interveneMu): pc # "idle" is the lock being  *)
(* held.  Module Bridge models how the lock and the sender's connection    *)
(* are handed over; here a sender is attached or not.                      *)
(***************************************************************************)
EXTENDS Safety, Sequences

CONSTANTS
  OnDisconnect,        \* the configured policy
  BeamEvidenceReports, \* reports after which "on" is a memory (30 in the code)
  MaxRounds,           \* the bound of intervene's loop (5 in the code)
  SlowAnswers,         \* may BeamConfirm run out although the controller is up?
  OthersCommand,       \* the cases to look at: behaviours in which a sender or
                       \* the operator may command a machine that a ladder is
                       \* working on, and behaviours in which nobody does
  SlowingWords,        \* the words for the state of a machine that slows down on
                       \* a feed hold
  Faults,              \* which of "port" and "abort" may strike
  MaxAsks,             \* bound: questions before HoldSettle or BeamConfirm run out
  MaxWire,             \* bound: reports in flight at once
  MaxGone              \* bound: disconnects waiting for the lock at once

ASSUME PolicyAssumption == OnDisconnect \in Policies
\* More turns than there are rungs to send.
ASSUME RoundsAssumption == MaxRounds \in Nat /\ MaxRounds > 3
ASSUME BoundAssumption ==
  /\ BeamEvidenceReports \in Nat
  /\ MaxAsks \in Nat \ {0} /\ MaxWire \in Nat \ {0} /\ MaxGone \in Nat
  /\ Faults \subseteq {"port", "abort"}
  /\ SlowAnswers \in BOOLEAN /\ OthersCommand \subseteq BOOLEAN
  /\ SlowingWords \subseteq {"Run", "Hold"} /\ SlowingWords # {}

VARIABLES
  ctl,       \* the controller: its state, its output, what it last said of it, $32,
             \* and whether others may command it in the middle of a ladder
  wire,      \* reports it has sent and the bridge has not read
  obs,       \* the observer's reading
  port,      \* is the serial port open?
  client,    \* is a sender attached?
  gone,      \* disconnects whose handler has not run yet
  queued, stale, \* handlers that wait for the lock: with the port that is open, and
             \* with one that has been lost since they read it
  abort,     \* has the daemon been told to stop?
  since,     \* has the watchdog seen the beam on at an earlier tick?
  pc,        \* where the ladder is
  trigger, tried, step, takenOver,
  round,     \* how often the ladder has looked again
  asks,      \* status requests of the present wait or poll
  held       \* is the port the ladder was given still open?

machine == <<ctl, wire>>
link    == <<port, client, gone, queued, stale, abort, since>>
ladder  == <<pc, trigger, tried, step, takenOver, round, asks, held>>
vars    == <<machine, obs, link, ladder>>

\* One more than the reports that still count as evidence.
MaxAge == BeamEvidenceReports + 1

PCs == {"idle", "look", "take", "wait", "settle", "act", "forget", "poll", "listen"}

Controller == [state : {"Idle", "Run", "Slowing", "Hold", "Alarm", "Boot"},
               beam : BOOLEAN, said : BOOLEAN, laser : {"On", "Off"},
               crowd : BOOLEAN]

-----------------------------------------------------------------------------
(***************************************************************************)
(* The controller, as the comments of proxy/ and the simulator of          *)
(* proxy/beam_test.go describe GRBL.                                       *)
(***************************************************************************)

\* The words a report may have for the state.  GRBL 1.1 says "Hold:1" while a
\* feed hold slows the axes down and "Hold:0" when they stand, and parseStatus
\* drops what follows the colon; the controller of proxy_test.go says "Run".
StateWords(c) == IF c.state = "Slowing" THEN SlowingWords ELSE {c.state}

\* What a real-time command may turn the controller into.  A feed hold acts
\* only on motion, which takes a while to end; the spindle-stop
\* override is a toggle, acts only in a hold, and some firmware ignores it; a
\* soft reset puts the output out whatever $32 says.
Effect(c, command) ==
  CASE command = "FeedHold" ->
         IF c.state = "Run"
         THEN {[c EXCEPT !.state = "Slowing"]}
         ELSE {c}
    [] command = "SpindleStop" ->
         IF c.state = "Hold" THEN {c, [c EXCEPT !.beam = ~@]} ELSE {c}
    [] command = "SoftReset" ->
         {[c EXCEPT !.state = "Boot", !.beam = FALSE, !.said = FALSE]}
    [] command = "Resume" ->
         IF c.state = "Hold"
         THEN {[c EXCEPT !.state = "Run", !.beam = b] : b \in BOOLEAN}
         ELSE {c}

BeamWord(c) == IF c.beam THEN "On" ELSE "Off"

\* A status request.  The outputs are mentioned at once when they changed and
\* otherwise when their turn comes, which due forces; a booting controller
\* does not answer.
Asked(due) ==
  IF ctl.state = "Boot" THEN UNCHANGED machine
  ELSE /\ Len(wire) < MaxWire
       /\ \E word \in StateWords(ctl) :
            \/ /\ wire' = Append(wire, StatusReport(word, BeamWord(ctl)))
               /\ ctl' = [ctl EXCEPT !.said = ctl.beam]
            \/ /\ ctl.beam = ctl.said /\ ~due
               /\ wire' = Append(wire, StatusReport(word, "Unknown"))
               /\ UNCHANGED ctl

\* The planner works through what it holds: the next block lights or darkens
\* the beam, or there is none and the axes stop with the output as it is.
CtlRuns ==
  /\ ctl.state = "Run"
  /\ \/ ctl' = [ctl EXCEPT !.beam = ~@]
     \/ ctl' = [ctl EXCEPT !.state = "Idle"]
  /\ UNCHANGED <<wire, obs, link, ladder>>

\* The feed hold is complete: in laser mode the beam is out.
CtlHolds ==
  /\ ctl.state = "Slowing"
  /\ ctl' = [ctl EXCEPT !.state = "Hold", !.beam = @ /\ ctl.laser = "Off"]
  /\ UNCHANGED <<wire, obs, link, ladder>>

\* The banner.  A reset that interrupted motion leaves an alarm behind.
CtlBoots ==
  /\ ctl.state = "Boot" /\ port /\ Len(wire) < MaxWire
  /\ wire' = Append(wire, WelcomeReport)
  /\ \E s \in {"Idle", "Alarm"} : ctl' = [ctl EXCEPT !.state = s]
  /\ UNCHANGED <<obs, link, ladder>>

\* serveDevice hands the next line to the observer.
Deliver ==
  /\ port /\ wire # <<>>
  /\ obs' = Apply(obs, Head(wire), MaxAge)
  /\ wire' = Tail(wire)
  /\ UNCHANGED <<ctl, link, ladder>>

\* A $$ dump, asked for by the opening questions or by the sender.
LearnLaserMode ==
  /\ port /\ ctl.state # "Boot" /\ obs.laserMode = "Unknown"
  /\ obs' = [obs EXCEPT !.laserMode = ctl.laser]
  /\ UNCHANGED <<machine, link, ladder>>

-----------------------------------------------------------------------------
(***************************************************************************)
(* The sender, the operator and the adapter.                               *)
(***************************************************************************)

\* Disconnects that nobody has reacted to yet.
Departed == gone + queued + stale

Connect ==
  /\ ~client /\ ~abort /\ Departed < MaxGone
  /\ client' = TRUE
  /\ UNCHANGED <<machine, obs, port, gone, queued, stale, abort, since, ladder>>

\* serveClient's end: the connection is retired and onClientGone is next.
Leave ==
  /\ client
  /\ client' = FALSE /\ gone' = gone + 1
  /\ UNCHANGED <<machine, obs, port, queued, stale, abort, since, ladder>>

\* G-code, an unlock, or the sender's own hold and resume.
ClientSends ==
  /\ client /\ port /\ (pc = "idle" \/ ctl.crowd)
  /\ \/ /\ ctl.state \in {"Idle", "Alarm"}
        /\ \E s \in {"Idle", "Run"}, b \in BOOLEAN :
             ctl' = [ctl EXCEPT !.state = s, !.beam = b]
     \/ \E command \in {"FeedHold", "Resume"} : ctl' \in Effect(ctl, command)
  /\ UNCHANGED <<wire, obs, link, ladder>>

\* Do for hold and resume: only with nobody connected, and without the lock.
OperatorSends ==
  /\ ~client /\ port /\ (pc = "idle" \/ ctl.crowd)
  /\ \E command \in {"FeedHold", "Resume"} : ctl' \in Effect(ctl, command)
  /\ UNCHANGED <<wire, obs, link, ladder>>

\* Do for stop: the lock, the take-over, the reset.
OperatorStops ==
  /\ pc = "idle" /\ port
  /\ client' = FALSE
  /\ ctl' \in Effect(ctl, "SoftReset")
  /\ UNCHANGED <<wire, obs, port, gone, queued, stale, abort, since, ladder>>

\* The adapter goes away; serveDevice drops the sender with it, and whoever has
\* read the port has a dead one.
PortLost ==
  /\ port /\ "port" \in Faults
  /\ port' = FALSE /\ held' = FALSE /\ wire' = <<>> /\ since' = FALSE
  /\ client' = FALSE
  /\ gone' = IF client THEN gone + 1 ELSE gone
  /\ queued' = 0 /\ stale' = stale + queued
  /\ UNCHANGED <<ctl, obs, abort>>
  /\ UNCHANGED <<pc, trigger, tried, step, takenOver, round, asks>>

\* Opening it again resets the controller and forgets the reading.
PortOpened ==
  /\ ~port /\ ~abort
  /\ port' = TRUE
  /\ ctl' \in Effect(ctl, "SoftReset")
  /\ obs' = NoReading(MaxAge)
  /\ UNCHANGED <<wire, client, gone, queued, stale, abort, since, ladder>>

\* The daemon is told to stop.
Abort ==
  /\ ~abort /\ "abort" \in Faults
  /\ abort' = TRUE
  /\ UNCHANGED <<machine, obs, port, client, gone, queued, stale, since, ladder>>

-----------------------------------------------------------------------------
(***************************************************************************)
(* The ladder.                                                             *)
(***************************************************************************)

Sit == [policy |-> OnDisconnect, trigger |-> trigger, state |-> obs.state,
        beam |-> obs.beam, laserMode |-> obs.laserMode, tried |-> tried]

\* intervene is entered with its variables fresh and the port that was read
\* before the lock was taken, which is open or not.
Start(t, open) ==
  /\ pc = "idle"
  /\ pc' = "look" /\ trigger' = t /\ held' = open
  /\ tried' = {} /\ step' = "None" /\ takenOver' = FALSE
  /\ round' = 0 /\ asks' = 0

\* It returns: the lock is free and its variables are gone.
Ended ==
  /\ pc' = "idle" /\ trigger' = "ClientGone" /\ held' = FALSE
  /\ tried' = {} /\ step' = "None" /\ takenOver' = FALSE
  /\ round' = 0 /\ asks' = 0

GoTo(p) ==
  pc' = p /\ UNCHANGED <<trigger, tried, step, takenOver, round, asks, held>>

\* On the way to the answer, one question more was asked.
AskAndGoTo(p) ==
  /\ pc' = p /\ asks' = asks + 1
  /\ UNCHANGED <<trigger, tried, step, takenOver, round, held>>

\* onClientGone: nothing to do for a daemon that stops or a port that is gone.
\* It asks nobody whether another sender has arrived in the meantime ...
OnClientGone ==
  /\ gone > 0
  /\ gone' = gone - 1
  /\ queued' = IF abort \/ ~port THEN queued ELSE queued + 1
  /\ UNCHANGED <<machine, obs, port, client, stale, abort, since, ladder>>

\* ... and waits for the lock with the port it has read, however old that is by
\* the time its turn comes.
LockTaken ==
  /\ \/ queued > 0 /\ Start("ClientGone", TRUE) /\ queued' = queued - 1 /\ UNCHANGED stale
     \/ stale > 0 /\ Start("ClientGone", FALSE) /\ stale' = stale - 1 /\ UNCHANGED queued
  /\ UNCHANGED <<machine, obs, port, client, gone, abort, since>>

\* One turn of the loop: read, decide, and either stop here or go on to the
\* take-over, the wait or the command.
Look ==
  /\ pc = "look"
  /\ LET d == Decide(Sit) IN
       IF abort \/ round = MaxRounds \/ d \in {"None", "Unconfirmed"}
       THEN Ended
       ELSE /\ step' = d
            /\ pc' = IF trigger # "ClientGone" /\ ~takenOver THEN "take"
                     ELSE IF WaitForRest(Sit) THEN "wait" ELSE "act"
            /\ UNCHANGED <<trigger, tried, takenOver, round, asks, held>>
  /\ UNCHANGED <<machine, obs, link>>

\* takeOverFromClient, once per ladder.  Only a ladder for ClientGone waits for
\* rest, so what follows is the command.
TakeOver ==
  /\ pc = "take"
  /\ client' = FALSE /\ takenOver' = TRUE /\ pc' = "act"
  /\ UNCHANGED <<machine, obs, port, gone, queued, stale, abort, since>>
  /\ UNCHANGED <<trigger, tried, step, round, asks, held>>

\* waitUntilStill asks; with the port gone it gives up.
Wait ==
  /\ pc = "wait"
  /\ IF held THEN Asked(FALSE) /\ AskAndGoTo("settle")
             ELSE UNCHANGED machine /\ GoTo("act")
  /\ UNCHANGED <<obs, link>>

\* Mutant: the first tick is taken for standstill.
SettleAtOnce ==
  /\ pc = "settle" /\ (held => wire = <<>>)
  /\ IF abort THEN Ended ELSE GoTo("act")
  /\ UNCHANGED <<machine, obs, link>>

\* Mutant: the wait has no deadline.
SettleUntimed ==
  /\ pc = "settle" /\ (held => wire = <<>>)
  /\ IF AtRest(obs.state) \/ client \/ abort
     THEN IF abort THEN Ended ELSE GoTo("act")
     ELSE GoTo("wait")
  /\ UNCHANGED <<machine, obs, link>>

\* Its tick, which is longer after the question than an answer needs, or the
\* end of HoldSettle.  However it returns, intervene only checks for the end
\* of the daemon before it sends the reset.
Settle ==
  /\ pc = "settle" /\ (held => wire = <<>>)
  /\ IF AtRest(obs.state) \/ client \/ abort \/ asks = MaxAsks
     THEN IF abort THEN Ended ELSE GoTo("act")
     ELSE GoTo("wait")
  /\ UNCHANGED <<machine, obs, link>>

\* Mutant: a write that fails is tried again instead of ending the ladder.
ActRetries ==
  /\ pc = "act" /\ held
  /\ ctl' \in Effect(ctl, step)
  /\ tried' = tried \cup {step} /\ step' = "None" /\ pc' = "forget"
  /\ asks' = 0
  /\ UNCHANGED <<trigger, takenOver, round, held>>
  /\ UNCHANGED <<wire, obs, link>>

\* writeOwn: a write that fails ends the ladder.
Act ==
  /\ pc = "act"
  /\ IF held
     THEN /\ ctl' \in Effect(ctl, step)
          /\ tried' = tried \cup {step} /\ step' = "None" /\ pc' = "forget"
          /\ asks' = 0
          /\ UNCHANGED <<trigger, takenOver, round, held>>
     ELSE Ended /\ UNCHANGED ctl
  /\ UNCHANGED <<wire, obs, link>>

\* pollBeam begins by forgetting what was known of the beam.
Forget ==
  /\ pc = "forget"
  /\ obs' = ForgetBeam(obs, MaxAge)
  /\ GoTo("poll")
  /\ UNCHANGED <<machine, link>>

\* After pollBeam: a newcomer ends a reaction to their predecessor leaving.
PollOver ==
  IF client /\ trigger = "ClientGone" THEN Ended
  ELSE /\ pc' = "look" /\ round' = round + 1 /\ asks' = 0
       /\ UNCHANGED <<trigger, tried, step, takenOver, held>>

\* Unless answers may be slow, BeamConfirm is long enough for the outputs'
\* turn to come.
Poll ==
  /\ pc = "poll"
  /\ IF held
     THEN Asked(~SlowAnswers /\ asks + 1 = MaxAsks) /\ AskAndGoTo("listen")
     ELSE UNCHANGED machine /\ PollOver
  /\ UNCHANGED <<obs, link>>

\* The tick of pollBeam, or the end of BeamConfirm.
Listen ==
  /\ pc = "listen" /\ (held => wire = <<>>)
  /\ IF obs.beam # "Unknown" \/ client \/ abort \/ asks = MaxAsks
     THEN PollOver ELSE GoTo("poll")
  /\ UNCHANGED <<machine, obs, link>>

-----------------------------------------------------------------------------
(***************************************************************************)
(* The watchdog, one tick at a time; it is busy while it carries out a     *)
(* ladder of its own.                                                      *)
(***************************************************************************)

WatchFree == ~abort /\ port /\ (pc = "idle" \/ trigger = "ClientGone")

WatchAsks ==
  /\ WatchFree
  /\ Asked(FALSE)
  /\ UNCHANGED <<obs, link, ladder>>

\* beamOnSince is set, or cleared.
WatchSees ==
  /\ WatchFree
  /\ since' = (obs.beam = "On") /\ since' # since
  /\ UNCHANGED <<machine, obs, port, client, gone, queued, stale, abort, ladder>>

\* The beam has been on for longer than the grace.  Whether the machine moved
\* is left open; the evidence for a stationary beam has to be recent.
WatchActs ==
  /\ WatchFree /\ since /\ obs.beam = "On" /\ OnDisconnect # "none"
  /\ since' = FALSE
  /\ \/ ~client /\ Start("BeamUnattended", TRUE)
     \/ obs.age <= BeamEvidenceReports /\ Start("BeamStationary", TRUE)
  /\ UNCHANGED <<machine, obs, port, client, gone, queued, stale, abort>>

-----------------------------------------------------------------------------
Init ==
  /\ \E laser \in {"On", "Off"}, crowd \in OthersCommand :
       ctl = [state |-> "Boot", beam |-> FALSE, said |-> FALSE, laser |-> laser,
              crowd |-> crowd]
  /\ wire = <<>> /\ obs = NoReading(MaxAge)
  /\ port = TRUE /\ client = FALSE /\ abort = FALSE /\ since = FALSE
  /\ gone = 0 /\ queued = 0 /\ stale = 0
  /\ pc = "idle" /\ trigger = "ClientGone" /\ tried = {} /\ step = "None"
  /\ takenOver = FALSE /\ round = 0 /\ asks = 0 /\ held = FALSE

Climb == Look \/ TakeOver \/ Wait \/ Settle \/ Act \/ Forget \/ Poll \/ Listen

Watch == WatchAsks \/ WatchSees \/ WatchActs

Environment == \/ CtlRuns \/ CtlHolds \/ CtlBoots \/ LearnLaserMode \/ Connect \/ Leave
               \/ ClientSends \/ OperatorSends \/ OperatorStops
               \/ PortLost \/ PortOpened \/ Abort

Next == Deliver \/ OnClientGone \/ LockTaken \/ Climb \/ Watch \/ Environment

Spec == Init /\ [][Next]_vars

-----------------------------------------------------------------------------
(***************************************************************************)
(* Correctness.                                                            *)
(***************************************************************************)

\* The type invariant.  A report is in flight only as far as the bound allows, a
\* sender is attached only while its own disconnect can still be counted, a
\* handler has the open port only while there is one, no wait and no poll asks
\* more questions than its time is long, and a ladder has a command in hand
\* exactly on the way from the decision to the write.
TypeOK ==
  /\ ctl \in Controller /\ wire \in Seq(Report) /\ Len(wire) <= MaxWire
  /\ obs \in Reading(MaxAge)
  /\ port \in BOOLEAN /\ client \in BOOLEAN /\ abort \in BOOLEAN /\ since \in BOOLEAN
  /\ {gone, queued, stale} \subseteq 0 .. MaxGone
  /\ Departed <= MaxGone /\ (client => Departed < MaxGone) /\ (queued > 0 => port)
  /\ pc \in PCs /\ trigger \in Triggers /\ tried \in SUBSET Rungs
  /\ step \in Rungs \cup {"None"} /\ takenOver \in BOOLEAN
  /\ round \in Nat /\ asks \in 0 .. MaxAsks /\ held \in BOOLEAN
  /\ step # "None" <=> pc \in {"take", "wait", "settle", "act"}

\* "Each step sets a flag that stops it being recommended twice" (intervene):
\* whatever the controller reports in between, one ladder never chooses a rung
\* it has already sent.  For the spindle stop, a toggle, a second one would
\* light the beam again.
NoRungTwice == step \notin tried

\* That, and what else an intervention promises: seen through the rungs it has
\* sent and the turns it took, a ladder is an Escalation, which begins when no
\* other one is under way, commands only if the policy lets it, sends the sender
\* away before the watchdog's first command, and sends none a second time.
Ladder == INSTANCE Escalation WITH
  Causes     <- Triggers,
  NoCause    <- "None",
  Departure  <- "ClientGone",
  MayCommand <- OnDisconnect # "none",
  cause      <- IF pc = "idle" THEN "None" ELSE trigger,
  alone      <- takenOver,
  sent       <- tried,
  sends      <- IF pc \in {"forget", "poll", "listen"} THEN round + 1 ELSE round

EachRungOnce == Ladder!Spec

\* The loop of intervene is bounded by five turns; the comment above it says
\* the flags bound it already.  A ladder never stops because it ran out of
\* turns with something left to do.
LoopBoundNeverBites == pc = "look" => round < MaxRounds

\* Decide's promise to whoever is near the machine: unless the policy is
\* "none", a ladder does not give up on a beam it knows to be on before it has
\* sent the one command that puts it out whatever $32 says.
BeamAddressed ==
  [][pc = "look" /\ pc' = "idle" /\ ~abort /\ obs.beam = "On" /\ OnDisconnect # "none"
     => "SoftReset" \in tried]_vars

\* The reason interveneMu and ForgetBeam exist: unless somebody else commands
\* the machine meanwhile (hold and resume take no lock), once a ladder has sent
\* a rung of its own, the spindle-stop toggle it may send next lights no beam
\* that is out.  There is one exception: in laser mode a hold that called itself
\* one before it was complete, as GRBL 1.1's does, puts the beam out after
\* "Hold" and "on" were read.  The first rung rests on what the watchdog last
\* heard and is left out: that reading may be older than the beam's last change.
ToggleNeverLights ==
  [][pc = "act" /\ pc' = "forget" /\ step = "SpindleStop" /\ tried # {}
     /\ ~ctl.beam /\ ~ctl.crowd
     => ~ctl'.beam \/ (ctl.laser = "On" /\ "Hold" \in SlowingWords)]_vars

\* When waitUntilStill ends before its time, with the port still there, no
\* newcomer and nobody else commanding, then whatever was in flight when it
\* began, the machine that is reset is not working through its job, and if its
\* axes still turn, they slow down in a hold that the last report has announced.
OnlyAHoldIsEarly ==
  [][pc = "settle" /\ pc' = "act" /\ held /\ ~client /\ ~ctl.crowd
     /\ asks < MaxAsks
     => ctl.state # "Run" /\ (ctl.state = "Slowing" => obs.state = "Hold")]_vars

\* A comment of waitUntilStill: "a machine on feed hold is standing still with a
\* job still in its buffer, which is exactly the state the hold was meant to
\* produce and exactly when the reset may safely follow."  A wait that ends
\* before its time, with the port still there and no newcomer, is followed by a
\* reset that finds the axes at rest.
RestMeansRest ==
  [][pc = "settle" /\ pc' = "act" /\ held /\ ~client /\ ~ctl.crowd
     /\ asks < MaxAsks
     => ctl.state \notin {"Run", "Slowing"}]_vars

\* StepNone ends a ladder without a word in the record, so it must be the end
\* of a beam that is really out: what Decide reads as "off" or as "unknown after
\* a soft reset" is dark at the controller nobody else has lit since.
QuietEndIsDark ==
  [][pc = "look" /\ pc' = "idle" /\ held /\ ~abort /\ tried # {} /\ Decide(Sit) = "None"
     /\ ~ctl.crowd => ~ctl.beam]_vars

\* A comment of waitUntilStill, on finding a sender connected: "A newcomer
\* takes charge; the bridge stops acting on its own."  A wait that a newcomer
\* ended is not followed by the reset.
NewcomerEndsTheWait ==
  [][pc = "settle" /\ pc' = "act" => ~client]_vars

-----------------------------------------------------------------------------
(***************************************************************************)
(* Fairness.  The controller halts, boots and reports; the ladder is a     *)
(* goroutine that is always scheduled, and its waits end by a ticker or a  *)
(* timer: the guard wire = <<>> of a tick is this model's way of saying    *)
(* that a tick is longer than an answer, not something that could disarm a *)
(* ticker, so the ladder gets strong fairness.  The watchdog ticks for as  *)
(* long as the daemon runs; it is busy during a ladder of its own and the  *)
(* line may be full, so it gets strong fairness too, and the controller    *)
(* mentions its outputs again and again (every twentieth report at the     *)
(* latest).  Nothing is assumed of the job, the sender, the operator or    *)
(* the adapter.                                                            *)
(***************************************************************************)
WatchHears == WatchAsks /\ wire' # wire /\ wire'[Len(wire')].beam # "Unknown"

Fairness ==
  /\ WF_vars(Deliver) /\ WF_vars(CtlHolds) /\ WF_vars(CtlBoots) /\ SF_vars(Climb)
  /\ SF_vars(WatchHears) /\ SF_vars(WatchSees \/ WatchActs)

FairSpec == Spec /\ Fairness

\* A ladder holds interveneMu, and Stop and the watchdog wait behind it: it
\* ends, whatever the controller, the adapter or a newcomer does meanwhile.
LadderEnds == (pc # "idle") ~> (pc = "idle")

\* What the watchdog is for: a beam that is on with nobody connected does not
\* stay on, however the job and the firmware behave, unless a sender comes, the
\* adapter goes or the daemon is told to stop.
UnattendedBeamGoesOut ==
  (port /\ ctl.beam /\ ~client) ~> (~ctl.beam \/ client \/ ~port \/ abort)

=============================================================================
