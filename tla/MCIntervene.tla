---------------------------- MODULE MCIntervene ----------------------------
(***************************************************************************)
(* Instances of Intervene for TLC.  BeamEvidenceReports is 0 in all of     *)
(* them: the age of the evidence is "now" or "earlier".  The .cfg files    *)
(* differ in the policy, in what may fail and in whether others command    *)
(* the machine while a ladder works on it.                                 *)
(***************************************************************************)
EXTENDS Intervene

\* What $32 is matters most to a ladder that nobody disturbs; where somebody
\* does, laser mode is looked at.
MCInit == Init /\ (ctl.crowd => ctl.laser = "On")

MCSpec == MCInit /\ [][Next]_vars

\* A constraint: what the end of the daemon does to a ladder is looked at where
\* nobody else commands the machine.
StopUndisturbed == ctl.crowd => ~abort

\* Without laser mode the beam outlives a hold, so that every rung is needed.
MCFairInit == Init /\ ctl.laser = "Off"

MCFairSpec == MCFairInit /\ [][Next]_vars /\ Fairness
=============================================================================
