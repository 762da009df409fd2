---------------------------- MODULE SafetyProofs ----------------------------
(***************************************************************************)
(* Facts about the table of proxy/safety.go, for every situation.          *)
(***************************************************************************)
EXTENDS Safety, TLAPS

\* Every situation has exactly one of the five steps for an answer: the three
\* conditions of DecideLit and the three beams leave no gap.
LEMMA DecideIsAStep ==
  ASSUME NEW s \in Situation
  PROVE  Decide(s) \in Steps
<1>1. s.beam \in {"Unknown", "On", "Off"}
  BY DEF Situation, Beams
<1>2. DecideLit(s) \in Steps
  BY DEF DecideLit, Steps, Rungs
<1>3. DecideDark(s) \in Steps
  BY DEF DecideDark, Steps, Rungs
<1>4. DecideUnknown(s) \in Steps
  BY DEF DecideUnknown, Steps, Rungs
<1>5. QED
  BY <1>1, <1>2, <1>3, <1>4 DEF Decide, Steps, Rungs

\* "Each step sets a flag that stops it being recommended twice": a rung that
\* has been sent is never the answer again.
LEMMA DecideIsFresh ==
  ASSUME NEW s \in Situation
  PROVE  Decide(s) \notin s.tried
<1>1. s.beam \in {"Unknown", "On", "Off"} /\ s.tried \subseteq Rungs
  BY DEF Situation, Beams
<1>2. "None" \notin s.tried /\ "Unconfirmed" \notin s.tried
  BY <1>1 DEF Rungs
<1>3. DecideLit(s) \notin s.tried
  BY <1>2 DEF DecideLit, OverrideReaches
<1>4. DecideDark(s) \notin s.tried
  BY <1>2 DEF DecideDark, EndsTheJob
<1>5. DecideUnknown(s) \notin s.tried
  BY <1>2 DEF DecideUnknown, EndsTheJob, OutputIsASpindle
<1>6. QED
  BY <1>1, <1>2, <1>3, <1>4, <1>5 DEF Decide, MotionToStop

\* "none is a promise that the bridge never commands the machine."
LEMMA NoneMeansNone ==
  ASSUME NEW s, s.policy = "none"
  PROVE  Decide(s) = "None"
BY DEF Decide

\* A beam known to be on is left alone only by the policy "none" or after the
\* soft reset.
LEMMA LitIsNotLeft ==
  ASSUME NEW s \in Situation, s.beam = "On", s.policy # "none",
         Decide(s) \in {"None", "Unconfirmed"}
  PROVE  "SoftReset" \in s.tried
<1>1. ~NothingToStop(s)
  BY DEF NothingToStop
<1>2. ~MotionToStop(s)
  BY <1>1 DEF Decide
<1>3. Decide(s) = DecideLit(s)
  BY <1>1, <1>2 DEF Decide
<1>4. QED
  BY <1>3 DEF DecideLit

\* Only the job of a sender that has gone is worth waiting for: a ladder of the
\* watchdog never waits for the axes before it puts a beam out.
LEMMA OnlyTheJobWaits ==
  ASSUME NEW s \in Situation, WaitForRest(s)
  PROVE  s.trigger = "ClientGone" /\ s.policy = "reset"
<1>1. Decide(s) = "SoftReset" /\ s.policy # "none"
  BY DEF WaitForRest, Decide
<1>2. CASE s.beam = "Off"
  <2>1. Decide(s) = DecideDark(s)
    BY <1>1, <1>2 DEF Decide
  <2>2. QED
    BY <1>1, <2>1 DEF DecideDark, EndsTheJob
<1>3. CASE s.beam = "Unknown" /\ ~OutputIsASpindle(s)
  <2>1. Decide(s) = DecideUnknown(s)
    BY <1>1, <1>3 DEF Decide
  <2>2. QED
    BY <1>1, <1>3, <2>1 DEF DecideUnknown, EndsTheJob
<1>4. QED
  BY <1>2, <1>3 DEF WaitForRest

=============================================================================
