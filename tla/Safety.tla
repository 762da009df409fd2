------------------------------- MODULE Safety -------------------------------
(***************************************************************************)
(* proxy/safety.go: what the bridge does about a machine nobody is         *)
(* driving, as a decision separated from the act of carrying it out.       *)
(***************************************************************************)
EXTENDS Grbl

Policies == {"none", "hold", "reset"}

Triggers == {"ClientGone", "BeamUnattended", "BeamStationary"}

\* The steps that command the machine, in the order they were meant to be
\* climbed.
Rungs == {"FeedHold", "SpindleStop", "SoftReset"}

Steps == Rungs \cup {"None", "Unconfirmed"}

\* Everything a decision depends on.  tried is the set of rungs sent so far.
Situation == [policy : Policies, trigger : Triggers, state : States,
              beam : Beams, laserMode : Settings, tried : SUBSET Rungs]

(***************************************************************************)
(* The conditions Decide tests, in its order.                              *)
(***************************************************************************)

\* Nothing was sent yet and nothing needs stopping.
NothingToStop(s) ==
  /\ s.tried = {}
  /\ \/ ~Moving(s.state) /\ s.beam # "On"
     \/ AtRest(s.state) /\ s.beam = "Off"

\* Mutant: the flag of the feed hold is not looked at.
MotionAlways(s) == ~AtRest(s.state)

\* Motion comes first, if there is any.
MotionToStop(s) == "FeedHold" \notin s.tried /\ ~AtRest(s.state)

\* The spindle-stop override acts only in a hold.
OverrideReaches(s) == s.state = "Hold" /\ "SpindleStop" \notin s.tried

\* The default policy ends the job of a client that has gone.
EndsTheJob(s) ==
  /\ s.trigger = "ClientGone" /\ s.policy = "reset"
  /\ "SoftReset" \notin s.tried

\* With laser mode off a feed hold does not stop the output.
OutputIsASpindle(s) == s.laserMode = "Off" /\ "SoftReset" \notin s.tried

\* Mutant: a spindle stop is trusted to have worked.
LitTrusting(s) == IF OverrideReaches(s) THEN "SpindleStop" ELSE "Unconfirmed"

DecideLit(s) ==
  IF OverrideReaches(s) THEN "SpindleStop"
  ELSE IF "SoftReset" \in s.tried THEN "Unconfirmed" ELSE "SoftReset"

DecideDark(s) == IF EndsTheJob(s) THEN "SoftReset" ELSE "None"

\* Mutant: silence is taken for an answer.
UnknownIsDark(s) == DecideDark(s)

\* Mutant: silence is taken for a beam that is on.
UnknownIsLit(s) == DecideLit(s)

DecideUnknown(s) ==
  IF OutputIsASpindle(s) \/ EndsTheJob(s) THEN "SoftReset"
  ELSE IF "SoftReset" \in s.tried THEN "None" ELSE "Unconfirmed"

Decide(s) ==
  IF s.policy = "none" \/ NothingToStop(s) THEN "None"
  ELSE IF MotionToStop(s) THEN "FeedHold"
  ELSE IF s.beam = "On" THEN DecideLit(s)
  ELSE IF s.beam = "Off" THEN DecideDark(s)
  ELSE DecideUnknown(s)

\* A soft reset waits for the axes only when it ends a job, never when it puts
\* out a beam.
WaitForRest(s) ==
  /\ Decide(s) = "SoftReset"
  /\ s.beam = "Off" \/ (s.beam = "Unknown" /\ ~OutputIsASpindle(s))

=============================================================================
