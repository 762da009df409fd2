--------------------------- MODULE InterveneProofs ---------------------------
(***************************************************************************)
(* What one ladder does, for every policy, every bound and every           *)
(* controller: the type invariant, the invariant that ties the rungs sent  *)
(* to the turns taken, and the properties of Intervene that follow.        *)
(***************************************************************************)
EXTENDS Intervene, SafetyProofs, SequenceTheorems

USE PolicyAssumption, RoundsAssumption, BoundAssumption
USE DEF PolicyAssumption, RoundsAssumption, BoundAssumption

-----------------------------------------------------------------------------
(***************************************************************************)
(* Type correctness.  asks is bounded because a wait and a poll are        *)
(* entered with no question asked and left when MaxAsks have been; what a  *)
(* command does is known because only a rung that was chosen is sent.      *)
(***************************************************************************)

\* Where the ladder is on its way to a command.
Sending == {"take", "wait", "settle", "act"}

Paced ==
  /\ pc \in {"look", "forget"} => asks = 0
  /\ pc \in {"wait", "poll"} => asks < MaxAsks
  /\ step # "None" <=> pc \in Sending

TypeInv == TypeOK /\ Paced

LinkTyped ==
  /\ port \in BOOLEAN /\ client \in BOOLEAN /\ abort \in BOOLEAN /\ since \in BOOLEAN
  /\ gone \in 0 .. MaxGone /\ queued \in 0 .. MaxGone /\ stale \in 0 .. MaxGone
  /\ Departed <= MaxGone /\ (client => Departed < MaxGone) /\ (queued > 0 => port)

LadderTyped ==
  /\ pc \in PCs /\ trigger \in Triggers /\ tried \in SUBSET Rungs
  /\ step \in Rungs \cup {"None"} /\ takenOver \in BOOLEAN
  /\ round \in Nat /\ asks \in 0 .. MaxAsks /\ held \in BOOLEAN

MachineTyped == ctl \in Controller /\ wire \in Seq(Report) /\ Len(wire) <= MaxWire

\* The invariant by the parts of the state its actions touch.
LEMMA TypeInvParts ==
  TypeInv <=> /\ MachineTyped /\ obs \in Reading(MaxAge)
              /\ LinkTyped /\ LadderTyped /\ Paced
BY DEF TypeInv, TypeOK, MachineTyped, LinkTyped, LadderTyped, Paced, Sending

\* A line that is delivered turns a reading into a reading.
LEMMA ApplyReads ==
  ASSUME NEW m \in Reading(MaxAge), NEW r \in Report
  PROVE  Apply(m, r, MaxAge) \in Reading(MaxAge)
<1>1. MaxAge \in Nat \ {0}
  BY DEF MaxAge
<1>2. Older(m, MaxAge) \in 0 .. MaxAge
  BY <1>1 DEF Older, Reading
<1>3. ApplyStatus(m, r, MaxAge) \in Reading(MaxAge)
  <2>1. r.state \in States /\ r.beam \in Beams /\ 0 \in 0 .. MaxAge
    BY <1>1 DEF Report
  <2>2. CASE r.beam = "Unknown"
    BY <1>2, <2>1, <2>2 DEF ApplyStatus, Reading
  <2>3. CASE r.beam # "Unknown"
    BY <1>2, <2>1, <2>3 DEF ApplyStatus, Reading
  <2>4. QED
    BY <2>2, <2>3
<1>4. ApplyWelcome(m) \in Reading(MaxAge)
  <2>1. "Unknown" \in States /\ "Off" \in Beams /\ 0 \in 0 .. MaxAge
    BY <1>1 DEF States, Beams
  <2>2. QED
    BY <2>1 DEF ApplyWelcome, Reading
<1>5. QED
  BY <1>3, <1>4 DEF Apply

LEMMA ForgetReads ==
  ASSUME NEW m \in Reading(MaxAge)
  PROVE  ForgetBeam(m, MaxAge) \in Reading(MaxAge) /\ NoReading(MaxAge) \in Reading(MaxAge)
<1>1. MaxAge \in 0 .. MaxAge
  BY DEF MaxAge
<1>2. QED
  BY <1>1 DEF ForgetBeam, NoReading, Reading, States, Beams, Settings

\* A command turns a controller into a controller.
LEMMA EffectIsController ==
  ASSUME NEW c \in Controller,
         NEW command \in {"FeedHold", "SpindleStop", "SoftReset", "Resume"},
         NEW d \in Effect(c, command)
  PROVE  d \in Controller
<1>1. CASE command = "FeedHold"
  <2>1. d = c \/ d = [c EXCEPT !.state = "Slowing"]
    BY <1>1 DEF Effect
  <2>2. [c EXCEPT !.state = "Slowing"] \in Controller
    BY DEF Controller
  <2>3. QED
    BY <2>1, <2>2
<1>2. CASE command = "SpindleStop"
  <2>1. d = c \/ d = [c EXCEPT !.beam = ~@]
    BY <1>2 DEF Effect
  <2>2. [c EXCEPT !.beam = ~@] \in Controller
    BY DEF Controller
  <2>3. QED
    BY <2>1, <2>2
<1>3. CASE command = "SoftReset"
  <2>1. d = [c EXCEPT !.state = "Boot", !.beam = FALSE, !.said = FALSE]
    BY <1>3 DEF Effect
  <2>2. [c EXCEPT !.state = "Boot", !.beam = FALSE, !.said = FALSE] \in Controller
    BY DEF Controller
  <2>3. QED
    BY <2>1, <2>2
<1>4. CASE command = "Resume"
  <2>1. d = c \/ \E b \in BOOLEAN : d = [c EXCEPT !.state = "Run", !.beam = b]
    BY <1>4 DEF Effect
  <2>2. \A b \in BOOLEAN : [c EXCEPT !.state = "Run", !.beam = b] \in Controller
    BY DEF Controller
  <2>3. QED
    BY <2>1, <2>2
<1>5. QED
  BY <1>1, <1>2, <1>3, <1>4

\* What is in flight and what the controller remembers having said stay what
\* they are when it is asked.
LEMMA AskedIsTyped ==
  ASSUME TypeOK, NEW due, Asked(due)
  PROVE  ctl' \in Controller /\ wire' \in Seq(Report) /\ Len(wire') <= MaxWire
<1>1. CASE UNCHANGED machine
  BY <1>1 DEF TypeOK, machine
<1>2. CASE ~ UNCHANGED machine
  <2>1. ctl' \in Controller
    BY <1>2 DEF Asked, TypeOK, Controller
  <2>2. StateWords(ctl) \subseteq States /\ BeamWord(ctl) \in Beams
    BY <1>2 DEF Asked, TypeOK, Controller, States, Beams, BeamWord, StateWords
  <2>3. PICK r \in Report : wire' = Append(wire, r) /\ Len(wire) < MaxWire
    <3>1. \A word \in StateWords(ctl) : StatusReport(word, BeamWord(ctl)) \in Report
      BY <2>2 DEF StatusReport, Report
    <3>2. \A word \in StateWords(ctl) : StatusReport(word, "Unknown") \in Report
      BY <2>2 DEF StatusReport, Report, Beams
    <3>3. QED
      BY <1>2, <3>1, <3>2 DEF Asked
  <2>4. wire \in Seq(Report) /\ Len(wire) \in Nat
    BY DEF TypeOK
  <2>5. Append(wire, r) \in Seq(Report) /\ Len(Append(wire, r)) = Len(wire) + 1
    BY <2>4
  <2>6. QED
    BY <2>1, <2>3, <2>4, <2>5
<1>3. QED
  BY <1>1, <1>2

(***************************************************************************)
(* The steps that only move the ladder.                                    *)
(***************************************************************************)
LEMMA StartIsTyped ==
  ASSUME NEW t \in Triggers, NEW open \in BOOLEAN, Start(t, open)
  PROVE  LadderTyped' /\ Paced'
<1>1. 0 \in 0 .. MaxAsks /\ {} \in SUBSET Rungs
  OBVIOUS
<1>2. QED
  BY <1>1 DEF Start, LadderTyped, Paced, Sending, PCs

LEMMA EndedIsTyped ==
  ASSUME Ended
  PROVE  LadderTyped' /\ Paced'
<1>1. 0 \in 0 .. MaxAsks /\ {} \in SUBSET Rungs
  OBVIOUS
<1>2. QED
  BY <1>1 DEF Ended, LadderTyped, Paced, Sending, PCs, Triggers

LEMMA GoToIsTyped ==
  ASSUME LadderTyped, NEW p \in PCs, GoTo(p),
         p \in {"look", "forget"} => asks = 0,
         p \in {"wait", "poll"} => asks < MaxAsks,
         step # "None" <=> p \in Sending
  PROVE  LadderTyped' /\ Paced'
BY DEF GoTo, LadderTyped, Paced, Sending

LEMMA AskAndGoToIsTyped ==
  ASSUME LadderTyped, asks < MaxAsks, NEW p \in {"settle", "listen"}, AskAndGoTo(p),
         step # "None" <=> p \in Sending
  PROVE  LadderTyped' /\ Paced'
<1>1. asks + 1 \in 0 .. MaxAsks
  BY DEF LadderTyped
<1>2. QED
  BY <1>1 DEF AskAndGoTo, LadderTyped, Paced, Sending, PCs

LEMMA PollOverIsTyped ==
  ASSUME LadderTyped, PollOver, step = "None"
  PROVE  LadderTyped' /\ Paced'
<1>1. CASE Ended
  BY <1>1, EndedIsTyped
<1>2. CASE ~Ended
  <2>1. 0 \in 0 .. MaxAsks /\ round + 1 \in Nat
    BY DEF LadderTyped
  <2>2. QED
    BY <1>2, <2>1 DEF PollOver, LadderTyped, Paced, Sending, PCs
<1>3. QED
  BY <1>1, <1>2

LEMMA InitIsTyped == Init => TypeInv
<1> SUFFICES ASSUME Init
             PROVE  TypeInv
  OBVIOUS
<1>1. ctl \in Controller /\ wire \in Seq(Report) /\ Len(wire) <= MaxWire
  BY DEF Init, Controller
<1>2. obs \in Reading(MaxAge)
  <2>1. MaxAge \in 0 .. MaxAge
    BY DEF MaxAge
  <2>2. QED
    BY <2>1 DEF Init, NoReading, Reading, States, Beams, Settings
<1>3. LinkTyped
  <2>1. 0 \in 0 .. MaxGone /\ 0 + 0 + 0 <= MaxGone /\ ~(0 > 0)
    OBVIOUS
  <2>2. gone = 0 /\ queued = 0 /\ stale = 0 /\ ~client
    BY DEF Init
  <2>3. port \in BOOLEAN /\ client \in BOOLEAN /\ abort \in BOOLEAN /\ since \in BOOLEAN
    BY DEF Init
  <2>4. QED
    BY <2>1, <2>2, <2>3 DEF LinkTyped, Departed
<1>4. LadderTyped /\ Paced
  <2>1. 0 \in 0 .. MaxAsks /\ {} \in SUBSET Rungs
    OBVIOUS
  <2>2. QED
    BY <2>1 DEF Init, LadderTyped, Paced, Sending, PCs, Triggers
<1>5. QED
  BY <1>1, <1>2, <1>3, <1>4, TypeInvParts DEF MachineTyped

LEMMA StepIsTyped == TypeInv /\ [Next]_vars => TypeInv'
<1> SUFFICES ASSUME TypeInv, [Next]_vars
             PROVE  TypeInv'
  OBVIOUS
<1>t. /\ MachineTyped /\ obs \in Reading(MaxAge)
      /\ LinkTyped /\ LadderTyped /\ Paced /\ TypeOK
  BY TypeInvParts DEF TypeInv
<1> SUFFICES /\ MachineTyped' /\ obs' \in Reading(MaxAge)
             /\ LinkTyped' /\ LadderTyped' /\ Paced'
  BY DEF TypeInv, TypeOK, MachineTyped, LinkTyped, LadderTyped, Paced, Sending
<1>u. /\ UNCHANGED machine => MachineTyped'
      /\ UNCHANGED link => LinkTyped'
      /\ UNCHANGED ladder => LadderTyped' /\ Paced'
  BY <1>t DEF machine, link, ladder, MachineTyped, LinkTyped, Departed, LadderTyped, Paced
<1>1. CASE UNCHANGED vars
  BY <1>1, <1>t, <1>u DEF vars
<1>2. CASE Deliver
  <2>1. Head(wire) \in Report /\ Tail(wire) \in Seq(Report)
        /\ Len(Tail(wire)) = Len(wire) - 1 /\ Len(wire) \in Nat
    BY <1>2, <1>t DEF Deliver, MachineTyped
  <2>2. obs' \in Reading(MaxAge)
    BY <1>2, <1>t, <2>1, ApplyReads DEF Deliver
  <2>3. MachineTyped'
    BY <1>2, <1>t, <2>1 DEF Deliver, MachineTyped
  <2>4. QED
    BY <1>2, <1>u, <2>2, <2>3 DEF Deliver
<1>3. CASE OnClientGone
  <2>1. LinkTyped'
    <3>1. CASE abort \/ ~port
      BY <1>3, <1>t, <3>1 DEF OnClientGone, LinkTyped, Departed
    <3>2. CASE ~abort /\ port
      BY <1>3, <1>t, <3>2 DEF OnClientGone, LinkTyped, Departed
    <3>3. QED
      BY <3>1, <3>2
  <2>2. QED
    BY <1>3, <1>t, <1>u, <2>1 DEF OnClientGone
<1>28. CASE LockTaken
  <2>1. LinkTyped'
    <3>1. CASE queued > 0 /\ queued' = queued - 1 /\ UNCHANGED stale
      BY <1>28, <1>t, <3>1 DEF LockTaken, LinkTyped, Departed
    <3>2. CASE stale > 0 /\ stale' = stale - 1 /\ UNCHANGED queued
      BY <1>28, <1>t, <3>2 DEF LockTaken, LinkTyped, Departed
    <3>3. QED
      BY <1>28, <3>1, <3>2 DEF LockTaken
  <2>2. LadderTyped' /\ Paced'
    BY <1>28, StartIsTyped DEF LockTaken, Triggers
  <2>3. QED
    BY <1>28, <1>t, <1>u, <2>1, <2>2 DEF LockTaken
<1>4. CASE Look
  <2>1. Sit \in Situation
    BY <1>t DEF Sit, Situation, Reading, LadderTyped
  <2>2. Decide(Sit) \in Rungs \cup {"None", "Unconfirmed"}
    BY <2>1, DecideIsAStep DEF Steps
  <2>3. LadderTyped' /\ Paced'
    <3>1. CASE Ended
      BY <3>1, EndedIsTyped
    <3>2. CASE ~Ended
      BY <1>4, <1>t, <2>2, <3>2 DEF Look, LadderTyped, Paced, Sending, PCs
    <3>3. QED
      BY <3>1, <3>2
  <2>4. QED
    BY <1>4, <1>t, <1>u, <2>3 DEF Look
<1>5. CASE TakeOver
  <2>1. LinkTyped' /\ LadderTyped' /\ Paced'
    BY <1>5, <1>t DEF TakeOver, LinkTyped, Departed, LadderTyped, Paced, Sending, PCs
  <2>2. QED
    BY <1>5, <1>t, <1>u, <2>1 DEF TakeOver
<1>6. CASE Wait
  <2>1. MachineTyped'
    BY <1>6, <1>t, <1>u, AskedIsTyped DEF Wait, MachineTyped
  <2>2. asks < MaxAsks
    BY <1>6, <1>t DEF Wait, Paced
  <2>3. LadderTyped' /\ Paced'
    BY <1>6, <1>t, <2>2, AskAndGoToIsTyped, GoToIsTyped DEF Wait, Paced, Sending, PCs
  <2>4. QED
    BY <1>6, <1>t, <1>u, <2>1, <2>3 DEF Wait
<1>7. CASE Settle
  <2>1. asks # MaxAsks => asks < MaxAsks
    BY <1>t DEF LadderTyped
  <2>2. LadderTyped' /\ Paced'
    BY <1>7, <1>t, <2>1, EndedIsTyped, GoToIsTyped DEF Settle, Paced, Sending, PCs
  <2>3. QED
    BY <1>7, <1>t, <1>u, <2>2 DEF Settle
<1>8. CASE Act
  <2>1. CASE held
    <3>1. step \in {"FeedHold", "SpindleStop", "SoftReset"} /\ ctl' \in Controller
      <4>1. step \in {"FeedHold", "SpindleStop", "SoftReset"}
        BY <1>8, <1>t DEF Act, LadderTyped, Paced, Sending, Rungs
      <4>2. QED
        BY <4>1, <1>8, <1>t, <2>1, EffectIsController DEF Act, MachineTyped
    <3>2. MachineTyped'
      BY <1>8, <1>t, <3>1 DEF Act, MachineTyped
    <3>3. 0 \in 0 .. MaxAsks /\ tried \cup {step} \in SUBSET Rungs
      BY <1>t, <3>1 DEF LadderTyped, Rungs
    <3>4. LadderTyped' /\ Paced'
      BY <1>8, <1>t, <2>1, <3>3 DEF Act, LadderTyped, Paced, Sending, PCs
    <3>5. QED
      BY <1>8, <1>t, <1>u, <3>2, <3>4 DEF Act
  <2>2. CASE ~held
    <3>1. Ended /\ UNCHANGED machine /\ UNCHANGED <<obs, link>>
      BY <1>8, <2>2 DEF Act, machine
    <3>2. QED
      BY <1>t, <1>u, <3>1, EndedIsTyped
  <2>3. QED
    BY <2>1, <2>2
<1>9. CASE Forget
  <2>1. obs' \in Reading(MaxAge)
    BY <1>9, <1>t, ForgetReads DEF Forget
  <2>2. asks = 0
    BY <1>9, <1>t DEF Forget, Paced
  <2>3. LadderTyped' /\ Paced'
    BY <1>9, <1>t, <2>2, GoToIsTyped DEF Forget, Paced, Sending, PCs
  <2>4. QED
    BY <1>9, <1>u, <2>1, <2>3 DEF Forget
<1>10. CASE Poll
  <2>1. MachineTyped'
    BY <1>10, <1>t, <1>u, AskedIsTyped DEF Poll, MachineTyped
  <2>2. asks < MaxAsks
    BY <1>10, <1>t DEF Poll, Paced
  <2>3. LadderTyped' /\ Paced'
    BY <1>10, <1>t, <2>2, AskAndGoToIsTyped, PollOverIsTyped DEF Poll, Paced, Sending
  <2>4. QED
    BY <1>10, <1>t, <1>u, <2>1, <2>3 DEF Poll
<1>11. CASE Listen
  <2>1. asks # MaxAsks => asks < MaxAsks
    BY <1>t DEF LadderTyped
  <2>2. LadderTyped' /\ Paced'
    BY <1>11, <1>t, <2>1, PollOverIsTyped, GoToIsTyped DEF Listen, Paced, Sending, PCs
  <2>3. QED
    BY <1>11, <1>t, <1>u, <2>2 DEF Listen
<1>12. CASE WatchAsks
  <2>1. MachineTyped'
    BY <1>12, <1>t, AskedIsTyped DEF WatchAsks, MachineTyped
  <2>2. QED
    BY <1>12, <1>t, <1>u, <2>1 DEF WatchAsks
<1>13. CASE WatchSees
  <2>1. LinkTyped'
    BY <1>13, <1>t DEF WatchSees, LinkTyped, Departed
  <2>2. QED
    BY <1>13, <1>t, <1>u, <2>1 DEF WatchSees
<1>14. CASE WatchActs
  <2>1. LinkTyped'
    BY <1>14, <1>t DEF WatchActs, LinkTyped, Departed
  <2>2. LadderTyped' /\ Paced'
    BY <1>14, StartIsTyped DEF WatchActs, Triggers
  <2>3. QED
    BY <1>14, <1>t, <1>u, <2>1, <2>2 DEF WatchActs
<1>15. CASE CtlRuns
  <2>1. MachineTyped'
    BY <1>15, <1>t DEF CtlRuns, Controller, MachineTyped
  <2>2. QED
    BY <1>15, <1>t, <1>u, <2>1 DEF CtlRuns
<1>26. CASE CtlHolds
  <2>1. MachineTyped'
    BY <1>26, <1>t DEF CtlHolds, Controller, MachineTyped
  <2>2. QED
    BY <1>26, <1>t, <1>u, <2>1 DEF CtlHolds
<1>16. CASE CtlBoots
  <2>1. ctl' \in Controller
    BY <1>16, <1>t DEF CtlBoots, Controller, MachineTyped
  <2>2. WelcomeReport \in Report
    BY DEF WelcomeReport, Report, States, Beams
  <2>3. wire' \in Seq(Report) /\ Len(wire') = Len(wire) + 1 /\ Len(wire) \in Nat
    BY <1>16, <1>t, <2>2 DEF CtlBoots, MachineTyped
  <2>4. MachineTyped'
    BY <1>16, <2>1, <2>3 DEF CtlBoots, MachineTyped
  <2>5. QED
    BY <1>16, <1>t, <1>u, <2>4 DEF CtlBoots
<1>17. CASE LearnLaserMode
  <2>1. ctl.laser \in Settings
    BY <1>t DEF Controller, Settings, MachineTyped
  <2>2. obs' \in Reading(MaxAge)
    BY <1>17, <1>t, <2>1 DEF LearnLaserMode, Reading
  <2>3. QED
    BY <1>17, <1>u, <2>2 DEF LearnLaserMode
<1>18. CASE Connect
  <2>1. LinkTyped'
    BY <1>18, <1>t DEF Connect, LinkTyped, Departed
  <2>2. QED
    BY <1>18, <1>t, <1>u, <2>1 DEF Connect
<1>19. CASE Leave
  <2>1. gone + 1 \in 0 .. MaxGone
    BY <1>19, <1>t DEF Leave, LinkTyped, Departed
  <2>2. Departed' <= MaxGone
    BY <1>19, <1>t DEF Leave, LinkTyped, Departed
  <2>3. LinkTyped'
    BY <1>19, <1>t, <2>1, <2>2 DEF Leave, LinkTyped
  <2>4. QED
    BY <1>19, <1>t, <1>u, <2>3 DEF Leave
<1>20. CASE ClientSends
  <2>1. ctl' \in Controller
    <3>1. CASE \E s \in {"Idle", "Run"}, b \in BOOLEAN :
                 ctl' = [ctl EXCEPT !.state = s, !.beam = b]
      BY <1>t, <3>1 DEF Controller, MachineTyped
    <3>2. CASE \E command \in {"FeedHold", "Resume"} : ctl' \in Effect(ctl, command)
      BY <1>t, <3>2, EffectIsController DEF MachineTyped
    <3>3. QED
      BY <1>20, <3>1, <3>2 DEF ClientSends
  <2>2. QED
    BY <1>20, <1>t, <1>u, <2>1 DEF ClientSends, MachineTyped
<1>21. CASE OperatorSends
  <2>1. ctl' \in Controller
    BY <1>21, <1>t, EffectIsController DEF OperatorSends, MachineTyped
  <2>2. QED
    BY <1>21, <1>t, <1>u, <2>1 DEF OperatorSends, MachineTyped
<1>22. CASE OperatorStops
  <2>1. MachineTyped' /\ LinkTyped'
    BY <1>22, <1>t, EffectIsController DEF OperatorStops, MachineTyped, LinkTyped, Departed
  <2>2. QED
    BY <1>22, <1>t, <1>u, <2>1 DEF OperatorStops
<1>23. CASE PortLost
  <2>1. LinkTyped'
    <3>1. gone' \in 0 .. MaxGone /\ gone' + (stale + queued) <= MaxGone
      BY <1>23, <1>t DEF PortLost, LinkTyped, Departed
    <3>2. stale + queued \in 0 .. MaxGone
      BY <1>t DEF LinkTyped, Departed
    <3>3. Departed' <= MaxGone /\ ~(queued' > 0) /\ queued' \in 0 .. MaxGone
      BY <1>23, <1>t, <3>1 DEF PortLost, LinkTyped, Departed
    <3>4. QED
      BY <1>23, <1>t, <3>1, <3>2, <3>3 DEF PortLost, LinkTyped
  <2>2. LadderTyped' /\ Paced'
    BY <1>23, <1>t DEF PortLost, LadderTyped, Paced
  <2>3. MachineTyped'
    <3>1. << >> \in Seq(Report) /\ Len(<< >>) = 0
      OBVIOUS
    <3>2. QED
      BY <1>23, <1>t, <3>1 DEF PortLost, MachineTyped
  <2>4. QED
    BY <1>23, <1>t, <2>1, <2>2, <2>3 DEF PortLost
<1>24. CASE PortOpened
  <2>1. MachineTyped' /\ LinkTyped'
    BY <1>24, <1>t, EffectIsController DEF PortOpened, MachineTyped, LinkTyped, Departed
  <2>2. obs' \in Reading(MaxAge)
    BY <1>24, <1>t, ForgetReads DEF PortOpened
  <2>3. QED
    BY <1>24, <1>t, <1>u, <2>1, <2>2 DEF PortOpened
<1>25. CASE Abort
  <2>1. LinkTyped'
    BY <1>25, <1>t DEF Abort, LinkTyped, Departed
  <2>2. QED
    BY <1>25, <1>t, <1>u, <2>1 DEF Abort
<1>27. QED
  BY <1>1, <1>2, <1>3, <1>4, <1>5, <1>6, <1>7, <1>8, <1>9, <1>10, <1>11, <1>12,
     <1>13, <1>14, <1>15, <1>16, <1>17, <1>18, <1>19, <1>20, <1>21, <1>22, <1>23,
     <1>24, <1>25, <1>26, <1>28 DEF Next, Climb, Watch, Environment

\* Every state of every behaviour is well typed: no reading is anything but
\* what a line can say, no wait or poll asks more than its share, and nothing
\* is in flight beyond the line's capacity.
THEOREM TypeCorrect == Spec => []TypeOK
<1>1. Spec => []TypeInv
  BY InitIsTyped, StepIsTyped, PTL DEF Spec
<1>2. TypeInv => TypeOK
  BY DEF TypeInv
<1>3. QED
  BY <1>1, <1>2, PTL

-----------------------------------------------------------------------------
(***************************************************************************)
(* The rungs.  NoRungTwice alone is not inductive for the loop bound: the  *)
(* strengthening counts the turns, one for every rung that has been sent   *)
(* and answered.                                                           *)
(***************************************************************************)
Flag(r) == IF r \in tried THEN 1 ELSE 0

Sent == Flag("FeedHold") + Flag("SpindleStop") + Flag("SoftReset")

Answering == {"forget", "poll", "listen"}

RungsInv ==
  /\ NoRungTwice
  /\ pc \notin Answering => round = Sent
  /\ pc \in Answering => round + 1 = Sent
  /\ pc \in {"wait", "settle"} => trigger = "ClientGone" /\ OnDisconnect = "reset"
  /\ OnDisconnect = "none" => pc \in {"idle", "look"} /\ tried = {}

LEMMA FreshLadder ==
  ASSUME tried' = {}, step' = "None", round' = 0, pc' \in {"idle", "look"}
  PROVE  RungsInv'
BY DEF RungsInv, NoRungTwice, Sent, Flag, Answering

LEMMA SameRungs ==
  ASSUME RungsInv, UNCHANGED <<tried, step, round, trigger>>,
         OnDisconnect # "none",
         pc \in Answering <=> pc' \in Answering,
         pc' \notin {"wait", "settle"} \/ pc \in {"wait", "settle"}
  PROVE  RungsInv'
BY DEF RungsInv, NoRungTwice, Sent, Flag

\* Sending a rung for the first time is one more rung sent.
LEMMA OneMore ==
  ASSUME tried \in SUBSET Rungs, step \in Rungs, step \notin tried,
         tried' = tried \cup {step}
  PROVE  Sent' = Sent + 1
<1>1. CASE step = "FeedHold"
  BY <1>1 DEF Sent, Flag
<1>2. CASE step = "SpindleStop"
  BY <1>2 DEF Sent, Flag
<1>3. CASE step = "SoftReset"
  BY <1>3 DEF Sent, Flag
<1>4. QED
  BY <1>1, <1>2, <1>3 DEF Rungs

LEMMA SentBound == Sent \in 0 .. 3
BY DEF Sent, Flag

LEMMA PollOverKeepsRungs ==
  ASSUME TypeInv, RungsInv, PollOver, pc \in Answering
  PROVE  RungsInv'
<1>1. CASE Ended
  BY <1>1, FreshLadder DEF Ended
<1>2. CASE ~Ended
  <2>1. round + 1 = Sent
    BY DEF RungsInv
  <2>2. QED
    BY <1>2, <2>1 DEF PollOver, RungsInv, NoRungTwice, Sent, Flag, Answering
<1>3. QED
  BY <1>1, <1>2

LEMMA StepKeepsRungs == TypeInv /\ RungsInv /\ [Next]_vars => RungsInv'
<1> SUFFICES ASSUME TypeInv, RungsInv, [Next]_vars
             PROVE  RungsInv'
  OBVIOUS
<1>t. LadderTyped /\ Paced /\ obs \in Reading(MaxAge)
  BY TypeInvParts
<1>n. pc \notin {"idle", "look"} => OnDisconnect # "none"
  BY DEF RungsInv
<1>1. CASE UNCHANGED ladder
  BY <1>1 DEF ladder, RungsInv, NoRungTwice, Sent, Flag
<1>2. CASE LockTaken
  BY <1>2, FreshLadder DEF LockTaken, Start
<1>3. CASE WatchActs
  BY <1>3, FreshLadder DEF WatchActs, Start
<1>4. CASE Look
  <2>1. CASE Ended
    BY <2>1, FreshLadder DEF Ended
  <2>2. CASE ~Ended
    <3>1. Sit \in Situation /\ Sit.tried = tried
          /\ Sit.policy = OnDisconnect /\ Sit.trigger = trigger
      BY <1>t DEF Sit, Situation, Reading, LadderTyped
    <3>2. step' = Decide(Sit) /\ UNCHANGED <<trigger, tried, round>>
          /\ pc' \in {"take", "wait", "act"}
          /\ (pc' = "wait" => WaitForRest(Sit))
          /\ Decide(Sit) # "None"
      BY <1>4, <2>2 DEF Look
    <3>3. Decide(Sit) \notin tried
      BY <3>1, DecideIsFresh
    <3>4. OnDisconnect # "none"
      BY <3>1, <3>2, NoneMeansNone
    <3>5. pc' = "wait" => trigger = "ClientGone" /\ OnDisconnect = "reset"
      BY <3>1, <3>2, OnlyTheJobWaits
    <3>6. round = Sent
      BY <1>4 DEF Look, RungsInv, Answering
    <3>7. QED
      BY <3>2, <3>3, <3>4, <3>5, <3>6 DEF RungsInv, NoRungTwice, Sent, Flag, Answering
  <2>3. QED
    BY <2>1, <2>2
<1>5. CASE TakeOver
  BY <1>5, <1>n, SameRungs DEF TakeOver, Answering
<1>6. CASE Wait
  BY <1>6, <1>n, SameRungs DEF Wait, AskAndGoTo, GoTo, Answering
<1>7. CASE Settle
  <2>1. CASE Ended
    BY <2>1, FreshLadder DEF Ended
  <2>2. CASE ~Ended
    BY <1>7, <1>n, <2>2, SameRungs DEF Settle, GoTo, Answering
  <2>3. QED
    BY <2>1, <2>2
<1>8. CASE Act
  <2>1. CASE Ended
    BY <2>1, FreshLadder DEF Ended
  <2>2. CASE ~Ended
    <3>1. step \in Rungs /\ step \notin tried /\ round = Sent
      BY <1>8, <1>t DEF Act, LadderTyped, Paced, Sending, RungsInv, NoRungTwice, Answering
    <3>2. tried' = tried \cup {step} /\ step' = "None" /\ pc' = "forget"
          /\ UNCHANGED round
      BY <1>8, <2>2 DEF Act
    <3>3. Sent' = Sent + 1
      BY <1>t, <3>1, <3>2, OneMore DEF LadderTyped
    <3>4. step' \notin tried'
      BY <1>t, <3>1, <3>2 DEF LadderTyped, Rungs
    <3>5. OnDisconnect # "none"
      BY <1>8, <1>n DEF Act
    <3>6. QED
      BY <3>1, <3>2, <3>3, <3>4, <3>5 DEF RungsInv, NoRungTwice, Answering
  <2>3. QED
    BY <2>1, <2>2
<1>9. CASE Forget
  BY <1>9, <1>n, SameRungs DEF Forget, GoTo, Answering
<1>10. CASE Poll
  <2>1. CASE PollOver
    BY <1>10, <2>1, PollOverKeepsRungs DEF Poll, Answering
  <2>2. CASE AskAndGoTo("listen")
    BY <1>10, <1>n, <2>2, SameRungs DEF Poll, AskAndGoTo, Answering
  <2>3. QED
    BY <1>10, <2>1, <2>2 DEF Poll
<1>11. CASE Listen
  <2>1. CASE PollOver
    BY <1>11, <2>1, PollOverKeepsRungs DEF Listen, Answering
  <2>2. CASE GoTo("poll")
    BY <1>11, <1>n, <2>2, SameRungs DEF Listen, GoTo, Answering
  <2>3. QED
    BY <1>11, <2>1, <2>2 DEF Listen
<1>12. CASE PortLost
  BY <1>12 DEF PortLost, RungsInv, NoRungTwice, Sent, Flag
<1>13. CASE \/ Deliver \/ OnClientGone \/ WatchAsks \/ WatchSees \/ CtlRuns \/ CtlHolds
            \/ CtlBoots \/ LearnLaserMode \/ Connect \/ Leave \/ ClientSends \/ OperatorSends \/ OperatorStops
            \/ PortOpened \/ Abort \/ UNCHANGED vars
  BY <1>1, <1>13 DEF Deliver, OnClientGone, WatchAsks, WatchSees, CtlRuns, CtlHolds, CtlBoots, LearnLaserMode,
     Connect, Leave, ClientSends, OperatorSends, OperatorStops, PortOpened, Abort, vars
<1>14. QED
  BY <1>1, <1>2, <1>3, <1>4, <1>5, <1>6, <1>7, <1>8, <1>9, <1>10, <1>11, <1>12, <1>13
     DEF Next, Climb, Watch, Environment

LEMMA InitKeepsRungs == Init => RungsInv
BY DEF Init, RungsInv, NoRungTwice, Sent, Flag, Answering

LEMMA LadderInvariant == Spec => [](TypeInv /\ RungsInv)
<1>1. Init => TypeInv /\ RungsInv
  BY InitIsTyped, InitKeepsRungs
<1>2. TypeInv /\ RungsInv /\ [Next]_vars => (TypeInv /\ RungsInv)'
  BY StepIsTyped, StepKeepsRungs
<1>3. QED
  BY <1>1, <1>2, PTL DEF Spec

\* One ladder never chooses a rung it has already sent, whatever the observer
\* reads in between and whoever else commands the machine.
THEOREM RungsOnce == Spec => []NoRungTwice
<1>1. RungsInv => NoRungTwice
  BY DEF RungsInv
<1>2. QED
  BY <1>1, LadderInvariant, PTL

\* Three rungs mean at most three turns before the loop finds nothing left to
\* send: the bound of five, like any bound above three, is never what ends it.
THEOREM LoopBoundUnused == Spec => []LoopBoundNeverBites
<1>1. TypeInv /\ RungsInv => LoopBoundNeverBites
  <2> SUFFICES ASSUME TypeInv, RungsInv, pc = "look"
               PROVE  round < MaxRounds
    BY DEF LoopBoundNeverBites
  <2>1. round = Sent
    BY DEF RungsInv, Answering
  <2>2. QED
    BY <2>1, SentBound
<1>2. QED
  BY <1>1, LadderInvariant, PTL

\* Unless the policy is "none" or the daemon stops, no ladder ends on a beam it
\* knows to be on before it has sent the soft reset.
THEOREM LitBeamIsAddressed == Spec => BeamAddressed
<1>1. TypeInv /\ RungsInv /\ [Next]_vars
      => [pc = "look" /\ pc' = "idle" /\ ~abort /\ obs.beam = "On"
            /\ OnDisconnect # "none" => "SoftReset" \in tried]_vars
  <2> SUFFICES ASSUME TypeInv, RungsInv, Next, pc = "look", pc' = "idle", ~abort,
                      obs.beam = "On", OnDisconnect # "none"
               PROVE  "SoftReset" \in tried
    BY DEF vars, machine, link, ladder
  <2>1. Look
    BY DEF Next, Climb, Watch, Environment, Deliver, OnClientGone, LockTaken, Start, TakeOver,
       Wait, Settle, Act, Forget, Poll, Listen, WatchAsks, WatchSees, WatchActs, CtlRuns, CtlHolds,
       CtlBoots, LearnLaserMode, Connect, Leave, ClientSends, OperatorSends, OperatorStops, PortLost,
       PortOpened, Abort, ladder
  <2>2. round # MaxRounds
    <3>1. round = Sent
      BY DEF RungsInv, Answering
    <3>2. QED
      BY <3>1, SentBound
  <2>3. Decide(Sit) \in {"None", "Unconfirmed"}
    BY <2>1, <2>2 DEF Look
  <2>4. Sit \in Situation /\ Sit.beam = "On" /\ Sit.policy = OnDisconnect
        /\ Sit.tried = tried
    BY TypeInvParts DEF Sit, Situation, Reading, LadderTyped
  <2>5. QED
    BY <2>3, <2>4, LitIsNotLeft
<1>2. QED
  BY <1>1, LadderInvariant, PTL DEF Spec, BeamAddressed

\* "none is a promise that the bridge never commands the machine": with that
\* policy no ladder gets as far as a take-over, a wait or a command.
NoneNeverCommands == OnDisconnect = "none" => pc \in {"idle", "look"}

THEOREM NoneKeepsItsPromise == Spec => []NoneNeverCommands
<1>1. RungsInv => NoneNeverCommands
  BY DEF RungsInv, NoneNeverCommands
<1>2. QED
  BY <1>1, LadderInvariant, PTL

\* "A beam burning where it stands outranks a homing cycle": only the ladder of
\* a sender that has gone, under the policy that ends its job, ever waits for
\* the axes; the watchdog's ladders never do.
OnlyTheJobIsWaitedFor ==
  pc \in {"wait", "settle"} => trigger = "ClientGone" /\ OnDisconnect = "reset"

THEOREM WaitsOnlyForTheJob == Spec => []OnlyTheJobIsWaitedFor
<1>1. RungsInv => OnlyTheJobIsWaitedFor
  BY DEF RungsInv, OnlyTheJobIsWaitedFor
<1>2. QED
  BY <1>1, LadderInvariant, PTL

-----------------------------------------------------------------------------
(***************************************************************************)
(* A ladder is an Escalation.  Beyond the rungs, the mapping needs to know *)
(* what the ladder's variables are at its two ends and at a command: they  *)
(* are fresh while nothing runs, and the watchdog's ladder has sent the    *)
(* sender away before it commands anything.                                *)
(***************************************************************************)
Orderly ==
  /\ pc = "idle" => tried = {} /\ round = 0 /\ takenOver = FALSE
  /\ pc = "take" => trigger # "ClientGone"
  /\ pc = "act" /\ trigger # "ClientGone" => takenOver

\* Whatever is neither the ladder nor the start of one leaves it where it is.
LEMMA OthersLeaveTheLadder ==
  ASSUME Deliver \/ OnClientGone \/ WatchAsks \/ WatchSees \/ Environment \/ UNCHANGED vars
  PROVE  UNCHANGED <<pc, trigger, tried, takenOver, round, asks>>
<1>1. CASE PortLost
  BY <1>1 DEF PortLost
<1>2. CASE Deliver \/ OnClientGone \/ WatchAsks \/ WatchSees \/ UNCHANGED vars
  BY <1>2 DEF Deliver, OnClientGone, WatchAsks, WatchSees, vars, ladder
<1>3. CASE CtlRuns \/ CtlHolds \/ CtlBoots \/ LearnLaserMode
  BY <1>3 DEF CtlRuns, CtlHolds, CtlBoots, LearnLaserMode, ladder
<1>4. CASE ClientSends \/ OperatorSends \/ OperatorStops
  <2>1. UNCHANGED ladder
    BY <1>4, Zenon DEF ClientSends, OperatorSends, OperatorStops
  <2>2. QED
    BY <2>1 DEF ladder
<1>5. CASE Connect \/ Leave \/ PortOpened \/ Abort
  BY <1>5 DEF Connect, Leave, PortOpened, Abort, ladder
<1>6. QED
  BY <1>1, <1>2, <1>3, <1>4, <1>5 DEF Environment

LEMMA InitIsOrderly == Init => Orderly
BY DEF Init, Orderly

LEMMA StepIsOrderly == TypeInv /\ RungsInv /\ Orderly /\ [Next]_vars => Orderly'
<1> SUFFICES ASSUME TypeInv, RungsInv, Orderly, [Next]_vars
             PROVE  Orderly'
  OBVIOUS
<1>1. CASE UNCHANGED <<pc, trigger, tried, takenOver, round>>
  BY <1>1 DEF Orderly
<1>2. CASE \E t \in Triggers, open \in BOOLEAN : Start(t, open)
  BY <1>2 DEF Start, Orderly
<1>3. CASE Ended
  BY <1>3 DEF Ended, Orderly
<1>4. CASE Look /\ ~Ended
  BY <1>4 DEF Look, Orderly
<1>5. CASE TakeOver
  BY <1>5 DEF TakeOver, Orderly
<1>6. CASE (Wait \/ Settle) /\ ~Ended
  BY <1>6 DEF Wait, Settle, GoTo, AskAndGoTo, Orderly, RungsInv
<1>7. CASE (Act \/ Forget \/ Poll \/ Listen) /\ ~Ended
  BY <1>7 DEF Act, Forget, Poll, Listen, PollOver, GoTo, AskAndGoTo, Orderly
<1>8. CASE LockTaken \/ WatchActs
  BY <1>2, <1>8 DEF LockTaken, WatchActs, Triggers
<1>9. CASE Deliver \/ OnClientGone \/ WatchAsks \/ WatchSees \/ Environment \/ UNCHANGED vars
  BY <1>1, <1>9, OthersLeaveTheLadder
<1>10. QED
  BY <1>3, <1>4, <1>5, <1>6, <1>7, <1>8, <1>9 DEF Next, Climb, Watch

\* What the mapping calls the cause and the number of commands.
Cause == IF pc = "idle" THEN "None" ELSE trigger

Sends == IF pc \in {"forget", "poll", "listen"} THEN round + 1 ELSE round

LEMMA InitEscalates == Init => Ladder!Init
BY DEF Init, Ladder!Init, Ladder!Nothing

LEMMA StepEscalates ==
  TypeInv /\ RungsInv /\ Orderly /\ [Next]_vars
  => [Ladder!Next]_<<Cause, takenOver, tried, Sends>>
<1> SUFFICES ASSUME TypeInv, RungsInv, Orderly, [Next]_vars
             PROVE  [Ladder!Next]_<<Cause, takenOver, tried, Sends>>
  OBVIOUS
<1>t. trigger \in Triggers /\ trigger # "None"
  BY DEF TypeInv, TypeOK, Triggers
<1>1. CASE UNCHANGED <<pc, trigger, tried, takenOver, round>>
  BY <1>1 DEF Cause, Sends
<1>2. ASSUME NEW t \in Triggers, NEW open \in BOOLEAN, Start(t, open)
      PROVE  Ladder!Begin
  BY <1>2 DEF Start, Orderly, Ladder!Begin
<1>3. ASSUME Ended
      PROVE  Ladder!End
  BY <1>3 DEF Ended, Ladder!End, Ladder!Nothing
<1>4. CASE Look /\ ~Ended
  BY <1>4 DEF Look, Cause, Sends
<1>5. CASE TakeOver
  <2>1. OnDisconnect # "none" /\ trigger # "ClientGone"
    BY <1>5 DEF TakeOver, RungsInv, Orderly
  <2>2. Ladder!SendAway
    BY <1>5, <1>t, <2>1 DEF TakeOver, Ladder!SendAway
  <2>3. QED
    BY <2>2 DEF Ladder!Next
<1>6. CASE (Wait \/ Settle \/ Forget) /\ ~Ended
  BY <1>6 DEF Wait, Settle, Forget, GoTo, AskAndGoTo, Cause, Sends
<1>7. CASE Act /\ ~Ended
  <2>1. /\ step \in Rungs \ tried /\ tried' = tried \cup {step}
        /\ pc = "act" /\ pc' = "forget" /\ UNCHANGED <<trigger, takenOver, round>>
    BY <1>7 DEF Act, TypeInv, TypeOK, Paced, Sending, RungsInv, NoRungTwice
  <2>2. OnDisconnect # "none" /\ (takenOver \/ trigger = "ClientGone")
    BY <2>1 DEF RungsInv, Orderly
  <2>3. Ladder!Command
    BY <1>t, <2>1, <2>2 DEF Ladder!Command
  <2>4. QED
    BY <2>3 DEF Ladder!Next
<1>8. CASE (Poll \/ Listen) /\ ~Ended
  BY <1>8 DEF Poll, Listen, PollOver, GoTo, AskAndGoTo, Cause, Sends
<1>9. CASE LockTaken \/ WatchActs
  <2>1. PICK t \in Triggers, open \in BOOLEAN : Start(t, open)
    BY <1>9 DEF LockTaken, WatchActs, Triggers
  <2>2. QED
    BY <1>2, <2>1 DEF Ladder!Next
<1>10. CASE Deliver \/ OnClientGone \/ WatchAsks \/ WatchSees \/ Environment \/ UNCHANGED vars
  BY <1>1, <1>10, OthersLeaveTheLadder
<1>11. QED
  BY <1>3, <1>4, <1>5, <1>6, <1>7, <1>8, <1>9, <1>10 DEF Next, Climb, Watch, Ladder!Next

\* Every ladder, whatever controller, sender and operator do meanwhile, is an
\* Escalation: no other one is under way, it commands only if the policy lets it,
\* the watchdog's sends the sender away before its first command, and no
\* command goes out a second time before it is over.
THEOREM LadderEscalates == Spec => EachRungOnce
<1>1. Init => Orderly
  BY InitIsOrderly
<1>2. TypeInv /\ RungsInv /\ Orderly /\ [Next]_vars => Orderly'
  BY StepIsOrderly
<1>3. Spec => [](TypeInv /\ RungsInv /\ Orderly)
  BY <1>1, <1>2, LadderInvariant, PTL DEF Spec
<1>4. QED
  BY <1>3, InitEscalates, StepEscalates, PTL
     DEF Spec, EachRungOnce, Ladder!Spec, Ladder!vars, Cause, Sends

-----------------------------------------------------------------------------
(***************************************************************************)
(* How far a ladder is from its end.  LadderEnds needs fairness; what it   *)
(* needs besides is that no ladder goes round in circles: within a turn    *)
(* every step leads on, a wait and a poll ask MaxAsks times at the most,   *)
(* and a turn is followed by another one for each of the three rungs only. *)
(***************************************************************************)
Turn == 4 * MaxAsks + 7

\* The most steps to the end of the present turn.
Ahead ==
  CASE pc = "look"   -> 4 * MaxAsks + 6
    [] pc = "settle" -> 4 * MaxAsks + 5 - 2 * asks
    [] pc = "wait"   -> 4 * MaxAsks + 4 - 2 * asks
    [] pc = "take"   -> 2 * MaxAsks + 4
    [] pc = "act"    -> 2 * MaxAsks + 3
    [] pc = "forget" -> 2 * MaxAsks + 2
    [] pc = "listen" -> 2 * MaxAsks + 2 - 2 * asks
    [] pc = "poll"   -> 2 * MaxAsks + 1 - 2 * asks
    [] OTHER         -> 0

\* Three turns more if nothing has been sent yet, and so on.
Turns ==
  CASE pc # "idle" /\ round = 0 -> 3 * Turn
    [] pc # "idle" /\ round = 1 -> 2 * Turn
    [] pc # "idle" /\ round = 2 -> Turn
    [] OTHER -> 0

StepsLeft == Turns + Ahead

\* Each step of a ladder brings it nearer to its end, and nothing that the
\* controller, the sender, the operator, the watchdog or the adapter do puts it
\* back.
RunsDown ==
  [][pc # "idle" => IF Climb THEN StepsLeft' < StepsLeft ELSE StepsLeft' = StepsLeft]_vars

\* A ladder is over after 16 * MaxAsks + 27 steps.
StepsAreFew == StepsLeft \in 0 .. 16 * MaxAsks + 27

LEMMA RoundsLeft ==
  ASSUME TypeInv, RungsInv
  PROVE  round \in 0 .. 3 /\ (pc \in Answering => round \in 0 .. 2)
<1>1. round \in Nat /\ Sent \in 0 .. 3
  BY SentBound DEF TypeInv, TypeOK
<1>2. QED
  BY <1>1 DEF RungsInv

LEMMA StepsAreCounted ==
  ASSUME TypeInv, RungsInv
  PROVE  /\ Turns \in {0, Turn, 2 * Turn, 3 * Turn} /\ Ahead \in 0 .. 4 * MaxAsks + 6
         /\ pc # "idle" => Ahead > 0
<1>1. pc \in PCs /\ asks \in 0 .. MaxAsks /\ MaxAsks \in Nat
  BY DEF TypeInv, TypeOK
<1>2. Ahead \in 0 .. 4 * MaxAsks + 6 /\ (pc # "idle" => Ahead > 0)
  <2>1. CASE pc \in {"idle", "look", "take", "act", "forget"}
    BY <1>1, <2>1 DEF Ahead
  <2>2. CASE pc \in {"wait", "settle"}
    BY <1>1, <2>2 DEF Ahead
  <2>3. CASE pc \in {"poll", "listen"}
    BY <1>1, <2>3 DEF Ahead
  <2>4. QED
    BY <1>1, <2>1, <2>2, <2>3 DEF PCs
<1>3. round \in 0 .. 3
  BY RoundsLeft
<1>4. QED
  BY <1>2, <1>3 DEF Turns

LEMMA FewSteps == ASSUME TypeInv, RungsInv PROVE StepsAreFew
<1>1. Turn \in Nat /\ Turn = 4 * MaxAsks + 7 /\ MaxAsks \in Nat
  BY DEF Turn
<1>2. /\ Turns \in Nat /\ Turns <= 12 * MaxAsks + 21
      /\ Ahead \in Nat /\ Ahead <= 4 * MaxAsks + 6
  BY <1>1, StepsAreCounted
<1>3. Turns + Ahead \in Nat /\ Turns + Ahead <= 16 * MaxAsks + 27
  BY <1>1, <1>2
<1>4. QED
  BY <1>1, <1>3 DEF StepsLeft, StepsAreFew

\* In the provers' terms: what comes off one summand outweighs what the other gains.
LEMMA SumsCompare ==
  ASSUME NEW a \in Nat, NEW b \in Nat, NEW c \in Nat, NEW d \in Nat, NEW t \in Nat,
         a = c + t, d < t + b
  PROVE  c + d < a + b
OBVIOUS

\* A step within the turn.
LEMMA WithinTheTurn ==
  ASSUME TypeInv, RungsInv, pc # "idle", pc' # "idle", UNCHANGED round,
         Ahead' \in Nat, Ahead' < Ahead
  PROVE  StepsLeft' < StepsLeft
<1>1. Turns' = Turns
  BY DEF Turns
<1>2. Turns \in Nat /\ Ahead \in Nat /\ Turns = Turns + 0 /\ Ahead' < 0 + Ahead
  BY StepsAreCounted DEF Turn
<1>3. QED
  BY <1>1, <1>2, SumsCompare DEF StepsLeft

LEMMA EndIsTheEnd ==
  ASSUME TypeInv, RungsInv, pc # "idle", pc' = "idle"
  PROVE  StepsLeft' < StepsLeft
<1>1. Turns' = 0 /\ Ahead' = 0
  BY DEF Turns, Ahead
<1>2. Turns \in Nat /\ Ahead \in Nat /\ Ahead > 0
  BY StepsAreCounted DEF Turn
<1>3. QED
  BY <1>1, <1>2, SumsCompare DEF StepsLeft

\* The next turn: one less to come, and at most its length to go.
LEMMA NextTurn ==
  ASSUME TypeInv, RungsInv, pc \in Answering, pc' = "look", round' = round + 1
  PROVE  StepsLeft' < StepsLeft
<1>1. round \in 0 .. 2
  BY RoundsLeft
<1>2. Turn \in Nat /\ MaxAsks \in Nat
  BY DEF Turn
<1>3. Turns = Turns' + Turn /\ Turns' \in Nat
  BY <1>1, <1>2 DEF Turns, Answering
<1>4. Ahead' = 4 * MaxAsks + 6
  BY DEF Ahead
<1>5. Ahead \in Nat /\ Ahead > 0
  BY <1>2, StepsAreCounted DEF Answering
<1>6. Ahead' \in Nat /\ Ahead' < Turn + Ahead
  BY <1>2, <1>4, <1>5 DEF Turn
<1>7. Turns \in Nat
  BY <1>2, StepsAreCounted
<1>8. QED
  BY <1>2, <1>3, <1>5, <1>6, <1>7, SumsCompare DEF StepsLeft

LEMMA PollOverRunsDown ==
  ASSUME TypeInv, RungsInv, pc \in Answering, PollOver
  PROVE  StepsLeft' < StepsLeft
BY EndIsTheEnd, NextTurn DEF PollOver, Ended, Answering

LEMMA ClimbRunsDown ==
  ASSUME TypeInv, RungsInv, Climb
  PROVE  StepsLeft' < StepsLeft
<1>t. asks \in 0 .. MaxAsks /\ MaxAsks \in Nat /\ Paced
  BY DEF TypeInv, TypeOK
<1>1. pc # "idle"
  BY DEF Climb, Look, TakeOver, Wait, Settle, Act, Forget, Poll, Listen
<1>2. CASE Ended
  BY <1>1, <1>2, EndIsTheEnd DEF Ended
<1>3. CASE Look /\ ~Ended
  <2>1. pc = "look" /\ pc' \in {"take", "wait", "act"} /\ asks' = 0 /\ UNCHANGED round
    BY <1>3, <1>t DEF Look, Paced
  <2>2. Ahead' \in Nat /\ Ahead' < Ahead
    BY <1>t, <2>1 DEF Ahead
  <2>3. QED
    BY <2>1, <2>2, WithinTheTurn
<1>4. CASE TakeOver
  <2>1. pc = "take" /\ pc' = "act" /\ UNCHANGED round
    BY <1>4 DEF TakeOver
  <2>2. Ahead' \in Nat /\ Ahead' < Ahead
    BY <1>t, <2>1 DEF Ahead
  <2>3. QED
    BY <2>1, <2>2, WithinTheTurn
<1>5. CASE Wait /\ ~Ended
  <2>1. /\ pc = "wait" /\ UNCHANGED round
        /\ (pc' = "settle" /\ asks' = asks + 1) \/ pc' = "act"
    BY <1>5 DEF Wait, AskAndGoTo, GoTo
  <2>2. Ahead' \in Nat /\ Ahead' < Ahead
    BY <1>t, <2>1 DEF Ahead
  <2>3. QED
    BY <2>1, <2>2, WithinTheTurn
<1>6. CASE Settle /\ ~Ended
  <2>1. pc = "settle" /\ pc' \in {"wait", "act"} /\ UNCHANGED <<asks, round>>
    BY <1>6 DEF Settle, GoTo
  <2>2. Ahead' \in Nat /\ Ahead' < Ahead
    BY <1>t, <2>1 DEF Ahead
  <2>3. QED
    BY <2>1, <2>2, WithinTheTurn
<1>7. CASE Act /\ ~Ended
  <2>1. pc = "act" /\ pc' = "forget" /\ UNCHANGED round
    BY <1>7 DEF Act
  <2>2. Ahead' \in Nat /\ Ahead' < Ahead
    BY <1>t, <2>1 DEF Ahead
  <2>3. QED
    BY <2>1, <2>2, WithinTheTurn
<1>8. CASE Forget
  <2>1. pc = "forget" /\ pc' = "poll" /\ asks' = 0 /\ UNCHANGED round
    BY <1>8, <1>t DEF Forget, GoTo, Paced
  <2>2. Ahead' \in Nat /\ Ahead' < Ahead
    BY <1>t, <2>1 DEF Ahead
  <2>3. QED
    BY <2>1, <2>2, WithinTheTurn
<1>9. CASE (Poll \/ Listen) /\ PollOver
  BY <1>9, PollOverRunsDown DEF Poll, Listen, Answering
<1>10. CASE (Poll \/ Listen) /\ ~PollOver
  <2>1. \/ pc = "poll" /\ pc' = "listen" /\ asks' = asks + 1
        \/ pc = "listen" /\ pc' = "poll" /\ UNCHANGED asks
    BY <1>10 DEF Poll, Listen, AskAndGoTo, GoTo
  <2>2. UNCHANGED round
    BY <1>10 DEF Poll, Listen, AskAndGoTo, GoTo
  <2>3. Ahead' \in Nat /\ Ahead' < Ahead
    BY <1>t, <2>1 DEF Ahead
  <2>4. QED
    BY <2>1, <2>2, <2>3, WithinTheTurn
<1>11. QED
  BY <1>2, <1>3, <1>4, <1>5, <1>6, <1>7, <1>8, <1>9, <1>10 DEF Climb

\* Every ladder is over after a number of steps that the bounds of its waits
\* alone decide: it never goes round in circles, whatever it reads.
THEOREM LaddersRunDown == Spec => RunsDown /\ []StepsAreFew
<1>1. TypeInv /\ RungsInv /\ [Next]_vars
      => [pc # "idle" => IF Climb THEN StepsLeft' < StepsLeft ELSE StepsLeft' = StepsLeft]_vars
  <2> SUFFICES ASSUME TypeInv, RungsInv, Next, pc # "idle"
               PROVE  IF Climb THEN StepsLeft' < StepsLeft ELSE StepsLeft' = StepsLeft
    BY DEF vars
  <2>1. CASE Climb
    BY <2>1, ClimbRunsDown
  <2>2. CASE ~Climb
    <3>1. UNCHANGED <<pc, round, asks>>
      <4>1. CASE LockTaken \/ WatchActs
        BY <4>1 DEF LockTaken, WatchActs, Start
      <4>2. CASE Deliver \/ OnClientGone \/ WatchAsks \/ WatchSees \/ Environment
        BY <4>2, OthersLeaveTheLadder
      <4>3. QED
        BY <2>2, <4>1, <4>2 DEF Next, Watch
    <3>2. QED
      BY <2>2, <3>1 DEF StepsLeft, Turns, Ahead
  <2>3. QED
    BY <2>1, <2>2
<1>2. TypeInv /\ RungsInv => StepsAreFew
  BY FewSteps
<1>3. QED
  BY <1>1, <1>2, LadderInvariant, PTL DEF Spec, RunsDown

-----------------------------------------------------------------------------
(***************************************************************************)
(* What the ladder believes.  The properties that compare the reading with *)
(* the controller rest on what is in flight: the reading is position 0,    *)
(* and wire[i] is what will be read i lines from now.                      *)
(***************************************************************************)
StateAt(i) == IF i = 0 THEN obs.state ELSE wire[i].state
BeamAt(i)  == IF i = 0 THEN obs.beam ELSE wire[i].beam

\* Once position i is read, the reading of the beam is b.
LastWord(i, b) ==
  \E j \in 0 .. i : BeamAt(j) = b /\ \A k \in j + 1 .. i : BeamAt(k) = "Unknown"

\* The line itself: what was said last of the outputs is what the controller
\* remembers having said, unless it is booting.
LineInv ==
  /\ held => port /\ pc # "idle"
  /\ ~port => wire = <<>>
  /\ \A i \in 1 .. Len(wire) : wire[i].kind = "welcome" => wire[i] = WelcomeReport
  /\ ctl.state = "Boot" => ~ctl.beam /\ ~ctl.said
  /\ port /\ ctl.state # "Boot" => /\ LastWord(Len(wire), "On") => ctl.said
                                   /\ LastWord(Len(wire), "Off") => ~ctl.said

\* A machine that calls itself held has put out whatever the hold puts out.
Steady == ctl.laser = "Off" \/ "Hold" \notin SlowingWords

\* What may be concluded from position i once it is read: a word for rest means
\* that the job is not running, and if the axes turn, that a hold may say so early;
\* "off" is dark, if nothing lights the beam by itself; and "on" in a hold is a
\* beam that is on, where the end of the hold does not put it out.
Believed(i) ==
  /\ ctl.state = "Run" => ~AtRest(StateAt(i))
  /\ ctl.state = "Slowing" /\ AtRest(StateAt(i))
       => StateAt(i) = "Hold" /\ "Hold" \in SlowingWords
  /\ ("FeedHold" \in tried \/ AtRest(StateAt(i))) /\ LastWord(i, "Off") => ~ctl.beam
  /\ StateAt(i) = "Hold" /\ LastWord(i, "On") /\ ctl.state \in {"Slowing", "Hold"}
     /\ Steady => ctl.beam

\* The rungs that were sent had their effect.
Calmed ==
  /\ "FeedHold" \in tried => ctl.state # "Run"
  /\ "SoftReset" \in tried => ctl.state \in {"Boot", "Idle", "Alarm"} /\ ~ctl.beam

\* While an answer is awaited it is the newest position that counts; the turn
\* that follows may decide on any of them.
Listening == pc \in {"settle", "listen"} \/ (pc = "look" /\ tried # {})
Current   == IF pc = "look" THEN 0 .. Len(wire) ELSE {Len(wire)}

\* A toggle that is on its way finds a beam to put out, or nothing, where a
\* hold that was not complete does not put it out first.
OverrideIsSafe ==
  pc \in {"take", "act"} /\ step = "SpindleStop" /\ tried # {}
    => /\ ctl.state # "Run" /\ (ctl.state = "Slowing" => "Hold" \in SlowingWords)
       /\ ctl.state \in {"Slowing", "Hold"} /\ Steady => ctl.beam

AloneInv ==
  held /\ ~ctl.crowd =>
    /\ Calmed
    /\ pc \in {"wait", "settle"} => step = "SoftReset"
    /\ Listening => \A i \in Current : Believed(i)
    /\ OverrideIsSafe

\* Reading a line moves every position by one.
LEMMA DeliverShifts ==
  ASSUME TypeOK, LineInv, Deliver, NEW i \in 0 .. Len(wire')
  PROVE  /\ Len(wire') = Len(wire) - 1 /\ i + 1 \in 1 .. Len(wire)
         /\ StateAt(i)' = StateAt(i + 1)
         /\ \A b \in {"On", "Off"} : LastWord(i, b)' => LastWord(i + 1, b)
<1>1. /\ wire \in Seq(Report) /\ wire # <<>> /\ wire' = Tail(wire)
      /\ obs' = Apply(obs, wire[1], MaxAge) /\ obs \in Reading(MaxAge)
  BY DEF TypeOK, Deliver
<1>2. /\ Len(wire) \in Nat \ {0} /\ Len(wire') = Len(wire) - 1
      /\ \A k \in 1 .. Len(wire') : wire'[k] = wire[k + 1]
      /\ \A k \in 1 .. Len(wire) : wire[k] \in Report
  BY <1>1
<1>3. /\ obs'.state = wire[1].state
      /\ obs'.beam = IF wire[1].beam = "Unknown" THEN obs.beam ELSE wire[1].beam
  <2>1. CASE wire[1].kind = "welcome"
    <3>1. wire[1] = WelcomeReport
      BY <1>2, <2>1 DEF LineInv
    <3>2. QED
      BY <1>1, <3>1 DEF Apply, ApplyWelcome, WelcomeReport, Reading
  <2>2. CASE wire[1].kind # "welcome"
    BY <1>1, <1>2, <2>2 DEF Apply, ApplyStatus, Reading
  <2>3. QED
    BY <2>1, <2>2
<1>4. StateAt(i)' = StateAt(i + 1)
  BY <1>2, <1>3 DEF StateAt
<1>5. ASSUME NEW b \in {"On", "Off"}, LastWord(i, b)'
      PROVE  LastWord(i + 1, b)
  <2>1. PICK j \in 0 .. i : /\ BeamAt(j)' = b
                            /\ \A k \in j + 1 .. i : BeamAt(k)' = "Unknown"
    BY <1>5 DEF LastWord
  <2>2. \A k \in 1 .. i : BeamAt(k)' = BeamAt(k + 1)
    BY <1>2 DEF BeamAt
  <2>3. BeamAt(0)' = IF BeamAt(1) = "Unknown" THEN BeamAt(0) ELSE BeamAt(1)
    BY <1>3 DEF BeamAt
  <2>4. \A k \in j + 2 .. i + 1 : BeamAt(k) = "Unknown"
    <3>1. SUFFICES ASSUME NEW k \in j + 2 .. i + 1
                   PROVE  BeamAt(k) = "Unknown"
      OBVIOUS
    <3>2. k - 1 \in 1 .. i /\ k - 1 \in j + 1 .. i /\ (k - 1) + 1 = k
      OBVIOUS
    <3>3. BeamAt(k - 1)' = BeamAt((k - 1) + 1) /\ BeamAt(k - 1)' = "Unknown"
      BY <2>1, <2>2, <3>2
    <3>4. QED
      BY <3>2, <3>3
  <2>5. CASE j # 0
    BY <2>1, <2>2, <2>4, <2>5 DEF LastWord
  <2>6. CASE j = 0 /\ BeamAt(1) # "Unknown"
    BY <2>1, <2>3, <2>4, <2>6 DEF LastWord
  <2>7. CASE j = 0 /\ BeamAt(1) = "Unknown"
    <3>1. BeamAt(0) = b
      BY <2>1, <2>3, <2>7
    <3>2. \A k \in 1 .. i + 1 : BeamAt(k) = "Unknown"
      BY <2>4, <2>7
    <3>3. QED
      BY <3>1, <3>2 DEF LastWord
  <2>8. QED
    BY <2>5, <2>6, <2>7
<1>6. QED
  BY <1>2, <1>4, <1>5

\* A report that is sent moves none.
LEMMA AppendAdds ==
  ASSUME wire \in Seq(Report), NEW r \in Report, wire' = Append(wire, r), UNCHANGED obs,
         NEW b \in {"On", "Off"}
  PROVE  /\ Len(wire') = Len(wire) + 1 /\ Len(wire) \in Nat
         /\ \A i \in 0 .. Len(wire) : /\ StateAt(i)' = StateAt(i)
                                      /\ LastWord(i, b)' => LastWord(i, b)
         /\ \A i : i = Len(wire') => StateAt(i)' = r.state
         /\ \A i : i = Len(wire') /\ LastWord(i, b)' =>
              r.beam = b \/ (r.beam = "Unknown" /\ LastWord(Len(wire), b))
<1>1. /\ Len(wire') = Len(wire) + 1 /\ Len(wire) \in Nat
      /\ \A i \in 1 .. Len(wire) : wire'[i] = wire[i]
      /\ wire'[Len(wire) + 1] = r
  OBVIOUS
<1>2. \A i \in 0 .. Len(wire) : StateAt(i)' = StateAt(i) /\ BeamAt(i)' = BeamAt(i)
  BY <1>1 DEF StateAt, BeamAt
<1>3. \A i : i = Len(wire') => StateAt(i)' = r.state /\ BeamAt(i)' = r.beam
  BY <1>1 DEF StateAt, BeamAt
<1>4. \A i \in 0 .. Len(wire) : LastWord(i, b)' => LastWord(i, b)
  BY <1>1, <1>2 DEF LastWord
<1>5. ASSUME NEW i, i = Len(wire'), LastWord(i, b)', r.beam # b
      PROVE  r.beam = "Unknown" /\ LastWord(Len(wire), b)
  <2>1. PICK j \in 0 .. i : /\ BeamAt(j)' = b
                            /\ \A k \in j + 1 .. i : BeamAt(k)' = "Unknown"
    BY <1>5 DEF LastWord
  <2>2. j # i
    BY <1>3, <1>5, <2>1
  <2>3. j \in 0 .. Len(wire) /\ i \in j + 1 .. i
    BY <1>1, <1>5, <2>2
  <2>4. r.beam = "Unknown"
    BY <1>3, <1>5, <2>1, <2>3
  <2>5. BeamAt(j) = b /\ \A k \in j + 1 .. Len(wire) : BeamAt(k) = "Unknown"
    BY <1>1, <1>2, <1>5, <2>1, <2>3
  <2>6. QED
    BY <2>3, <2>4, <2>5 DEF LastWord
<1>6. QED
  BY <1>1, <1>2, <1>3, <1>4, <1>5

\* The answer to a question is what the controller is at that moment: either
\* the outputs are mentioned, or they are what was said last.
LEMMA AskedAnswers ==
  ASSUME TypeOK, NEW due, Asked(due), ctl.state # "Boot"
  PROVE  \E r \in Report :
           /\ wire' = Append(wire, r) /\ r.kind = "status" /\ r.state \in StateWords(ctl)
           /\ ctl' = [ctl EXCEPT !.said = ctl.beam]
           /\ r.beam = BeamWord(ctl) \/ (r.beam = "Unknown" /\ ctl.beam = ctl.said)
<1>1. ctl \in Controller
  BY DEF TypeOK
<1>2. StateWords(ctl) \subseteq States /\ BeamWord(ctl) \in Beams /\ "Unknown" \in Beams
  BY <1>1 DEF Controller, States, Beams, BeamWord, StateWords
<1>3. PICK word \in StateWords(ctl) :
        \/ /\ wire' = Append(wire, StatusReport(word, BeamWord(ctl)))
           /\ ctl' = [ctl EXCEPT !.said = ctl.beam]
        \/ /\ ctl.beam = ctl.said
           /\ wire' = Append(wire, StatusReport(word, "Unknown"))
           /\ UNCHANGED ctl
  BY DEF Asked
<1>4. /\ StatusReport(word, BeamWord(ctl)) \in Report
      /\ StatusReport(word, "Unknown") \in Report
  BY <1>2 DEF StatusReport, Report
<1>5. CASE /\ wire' = Append(wire, StatusReport(word, BeamWord(ctl)))
           /\ ctl' = [ctl EXCEPT !.said = ctl.beam]
  BY <1>4, <1>5 DEF StatusReport
<1>6. CASE /\ wire' = Append(wire, StatusReport(word, "Unknown"))
           /\ ctl.beam = ctl.said /\ UNCHANGED ctl
  <2>1. ctl' = [ctl EXCEPT !.said = ctl.beam]
    BY <1>1, <1>6 DEF Controller
  <2>2. QED
    BY <1>4, <1>6, <2>1 DEF StatusReport
<1>7. QED
  BY <1>3, <1>5, <1>6

\* No command but the reset makes a controller boot, or say anything.
LEMMA EffectActs ==
  ASSUME NEW c \in Controller, NEW command \in {"FeedHold", "SpindleStop", "Resume"},
         NEW d \in Effect(c, command)
  PROVE  /\ d.said = c.said /\ d.crowd = c.crowd
         /\ d.state = "Boot" => c.state = "Boot" /\ d.beam = c.beam
         /\ c.state = "Boot" => d.state = "Boot"
<1>1. CASE command = "FeedHold"
  <2>1. d = c \/ (c.state = "Run" /\ d = [c EXCEPT !.state = "Slowing"])
    BY <1>1 DEF Effect
  <2>2. QED
    BY <2>1 DEF Controller
<1>2. CASE command = "SpindleStop"
  <2>1. d = c \/ (c.state = "Hold" /\ d = [c EXCEPT !.beam = ~@])
    BY <1>2 DEF Effect
  <2>2. QED
    BY <2>1 DEF Controller
<1>3. CASE command = "Resume"
  <2>1. d = c \/ (c.state = "Hold" /\ \E b \in BOOLEAN : d = [c EXCEPT !.state = "Run", !.beam = b])
    BY <1>3 DEF Effect
  <2>2. QED
    BY <2>1 DEF Controller
<1>4. QED
  BY <1>1, <1>2, <1>3

\* Whatever the ladder believes of a controller that has stopped, in the dark
\* and not in a hold, is true.
LEMMA StillIsBelieved ==
  ASSUME NEW i, ctl'.state \notin {"Run", "Slowing", "Hold"}, ~ctl'.beam
  PROVE  Believed(i)'
BY DEF Believed

LEMMA AskedKeepsLine ==
  ASSUME TypeOK, LineInv, NEW due, Asked(due), port, port', UNCHANGED obs, held' => pc' # "idle"
  PROVE  LineInv'
<1>1. CASE ctl.state = "Boot"
  <2>1. UNCHANGED <<ctl, wire>>
    BY <1>1 DEF Asked, machine
  <2>2. QED
    BY <1>1, <2>1 DEF LineInv, LastWord, BeamAt
<1>2. CASE ctl.state # "Boot"
  <2>1. PICK r \in Report :
          /\ wire' = Append(wire, r) /\ r.kind = "status" /\ r.state \in StateWords(ctl)
          /\ ctl' = [ctl EXCEPT !.said = ctl.beam]
          /\ r.beam = BeamWord(ctl) \/ (r.beam = "Unknown" /\ ctl.beam = ctl.said)
    BY <1>2, AskedAnswers
  <2>2. ctl'.state = ctl.state /\ ctl'.said = ctl.beam /\ wire \in Seq(Report)
    BY <2>1 DEF TypeOK, Controller
  <2>3. \A i \in 1 .. Len(wire') : wire'[i].kind = "welcome" => wire'[i] = WelcomeReport
    BY <2>1, <2>2 DEF LineInv
  <2>4. LastWord(Len(wire), "On")' => ctl'.said
    <3>1. SUFFICES ASSUME NEW n, n = Len(wire'), LastWord(n, "On")'
                   PROVE  ctl'.said
      BY DEF LastWord, BeamAt
    <3>2. r.beam = "On" \/ (r.beam = "Unknown" /\ LastWord(Len(wire), "On"))
      BY <2>1, <2>2, <3>1, AppendAdds
    <3>3. QED
      BY <1>2, <2>1, <2>2, <3>2 DEF LineInv, BeamWord
  <2>5. LastWord(Len(wire), "Off")' => ~ctl'.said
    <3>1. SUFFICES ASSUME NEW n, n = Len(wire'), LastWord(n, "Off")'
                   PROVE  ~ctl'.said
      BY DEF LastWord, BeamAt
    <3>2. r.beam = "Off" \/ (r.beam = "Unknown" /\ LastWord(Len(wire), "Off"))
      BY <2>1, <2>2, <3>1, AppendAdds
    <3>3. QED
      BY <1>2, <2>1, <2>2, <3>2 DEF LineInv, BeamWord
  <2>6. QED
    BY <1>2, <2>2, <2>3, <2>4, <2>5 DEF LineInv
<1>3. QED
  BY <1>1, <1>2

\* The answer itself is to be believed, and what was believed still is.
LEMMA AskedIsBelieved ==
  ASSUME TypeOK, LineInv, NEW due, Asked(due), port, UNCHANGED <<obs, tried>>,
         NEW i \in 0 .. Len(wire'),
         i = Len(wire') \/ Believed(i)
  PROVE  Believed(i)'
<1>1. CASE ctl.state = "Boot"
  <2>1. ctl' = ctl
    BY <1>1 DEF Asked, machine
  <2>2. QED
    BY <1>1, <2>1, StillIsBelieved DEF LineInv
<1>2. CASE ctl.state # "Boot"
  <2>1. PICK r \in Report :
          /\ wire' = Append(wire, r) /\ r.kind = "status" /\ r.state \in StateWords(ctl)
          /\ ctl' = [ctl EXCEPT !.said = ctl.beam]
          /\ r.beam = BeamWord(ctl) \/ (r.beam = "Unknown" /\ ctl.beam = ctl.said)
    BY <1>2, AskedAnswers
  <2>2. /\ ctl'.state = ctl.state /\ ctl'.beam = ctl.beam /\ ctl'.laser = ctl.laser
        /\ wire \in Seq(Report)
    BY <2>1 DEF TypeOK, Controller
  <2>3. CASE i = Len(wire')
    <3>1. /\ StateAt(i)' \in StateWords(ctl)
          /\ LastWord(i, "On")' =>
               r.beam = "On" \/ (r.beam = "Unknown" /\ LastWord(Len(wire), "On"))
          /\ LastWord(i, "Off")' =>
               r.beam = "Off" \/ (r.beam = "Unknown" /\ LastWord(Len(wire), "Off"))
      BY <2>1, <2>2, <2>3, AppendAdds
    <3>2. /\ ctl'.state = "Run" => ~AtRest(StateAt(i)')
          /\ ctl'.state = "Slowing" /\ AtRest(StateAt(i)')
               => StateAt(i)' = "Hold" /\ "Hold" \in SlowingWords
      BY <2>2, <3>1 DEF StateWords, AtRest
    <3>3. LastWord(i, "Off")' => ~ctl'.beam
      BY <1>2, <2>1, <2>2, <3>1 DEF LineInv, BeamWord
    <3>4. LastWord(i, "On")' => ctl'.beam
      BY <1>2, <2>1, <2>2, <3>1 DEF LineInv, BeamWord
    <3>5. QED
      BY <3>2, <3>3, <3>4 DEF Believed
  <2>4. CASE i # Len(wire')
    <3>1. i \in 0 .. Len(wire) /\ Believed(i)
      BY <2>1, <2>2, <2>4, AppendAdds
    <3>2. /\ StateAt(i)' = StateAt(i)
          /\ LastWord(i, "On")' => LastWord(i, "On")
          /\ LastWord(i, "Off")' => LastWord(i, "Off")
      BY <2>1, <2>2, <3>1, AppendAdds
    <3>3. QED
      BY <2>2, <3>1, <3>2 DEF Believed, Steady
  <2>5. QED
    BY <2>3, <2>4
<1>3. QED
  BY <1>1, <1>2

\* Where nothing that matters changes.
LEMMA SameIsAlone ==
  ASSUME AloneInv, UNCHANGED <<ctl, wire, pc, tried, step, held>>,
         obs'.state = obs.state, obs'.beam = obs.beam
  PROVE  AloneInv'
BY DEF AloneInv, Calmed, Listening, Current, Believed, StateAt, LastWord, BeamAt, Steady,
   OverrideIsSafe

LEMMA FreshIsAlone ==
  ASSUME tried' = {}, pc' = "look"
  PROVE  AloneInv'
BY DEF AloneInv, Calmed, Listening, OverrideIsSafe

LEMMA InitIsHonest == Init => LineInv /\ AloneInv
BY DEF Init, LineInv, AloneInv, LastWord

LEMMA StepKeepsLine == TypeInv /\ LineInv /\ [Next]_vars => LineInv'
<1> SUFFICES ASSUME TypeInv, LineInv, [Next]_vars
             PROVE  LineInv'
  OBVIOUS
<1>t. TypeOK /\ ctl \in Controller /\ wire \in Seq(Report) /\ obs \in Reading(MaxAge)
  BY DEF TypeInv, TypeOK
<1>s. ASSUME UNCHANGED <<wire, port>>, obs'.beam = obs.beam, held' => held /\ pc' # "idle",
             ctl'.said = ctl.said, ctl'.state = "Boot" => ctl.state = "Boot" /\ ~ctl'.beam,
             ctl.state = "Boot" => ctl'.state = "Boot"
      PROVE  LineInv'
  BY <1>s DEF LineInv, LastWord, BeamAt
<1>r. ASSUME UNCHANGED wire, ctl' \in Effect(ctl, "SoftReset"), held' => port' /\ pc' # "idle",
             ~port' => wire = <<>>
      PROVE  LineInv'
  <2>1. ctl'.state = "Boot" /\ ~ctl'.beam /\ ~ctl'.said
    BY <1>t, <1>r DEF Effect, Controller
  <2>2. QED
    BY <1>r, <2>1 DEF LineInv
<1>w. ASSUME UNCHANGED <<ctl, wire, obs, port>>, held' => port' /\ pc' # "idle"
      PROVE  LineInv'
  BY <1>w DEF LineInv, LastWord, BeamAt
<1>b. ctl.state = "Boot" => ~ctl.beam
  BY DEF LineInv
<1>h. held => port /\ pc # "idle"
  BY DEF LineInv
<1>1. CASE UNCHANGED vars
  BY <1>1, <1>s, <1>b, <1>h DEF vars, machine, link, ladder
<1>2. CASE Deliver
  <2>1. /\ UNCHANGED <<ctl, port, held, pc>> /\ port
        /\ Len(wire') = Len(wire) - 1 /\ Len(wire) \in Nat /\ wire' = Tail(wire) /\ wire # <<>>
    <3>1. 0 \in 0 .. Len(wire')
      BY <1>2, <1>t DEF Deliver
    <3>2. QED
      BY <1>2, <1>t, <3>1, DeliverShifts DEF Deliver, link, ladder
  <2>2. \A b \in {"On", "Off"} : LastWord(Len(wire), b)' => LastWord(Len(wire), b)
    <3>1. SUFFICES ASSUME NEW b \in {"On", "Off"}, NEW n, n = Len(wire'), LastWord(n, b)'
                   PROVE  LastWord(Len(wire), b)
      BY DEF LastWord, BeamAt
    <3>2. n \in 0 .. Len(wire') /\ n + 1 = Len(wire)
      BY <1>t, <2>1, <3>1
    <3>3. LastWord(n + 1, b)
      BY <1>2, <1>t, <3>1, <3>2, DeliverShifts
    <3>4. QED
      BY <3>2, <3>3
  <2>3. \A k \in 1 .. Len(wire') : wire'[k] = wire[k + 1] /\ k + 1 \in 1 .. Len(wire)
    BY <1>t, <2>1
  <2>4. QED
    BY <2>1, <2>2, <2>3 DEF LineInv
<1>3. CASE OnClientGone
  BY <1>3, <1>w, <1>h DEF OnClientGone, machine, ladder
<1>22. CASE LockTaken
  <2>1. pc' = "look" /\ UNCHANGED <<ctl, wire, obs, port>> /\ (held' => queued > 0)
    BY <1>22 DEF LockTaken, Start, machine
  <2>2. QED
    BY <1>t, <1>w, <2>1 DEF TypeOK
<1>4. CASE Look \/ TakeOver \/ Settle \/ Listen
  BY <1>4, <1>s, <1>b, <1>h DEF Look, TakeOver, Settle, Listen, Ended, GoTo, PollOver, machine, link
<1>5. CASE Wait
  <2>1. CASE held
    BY <1>5, <1>t, <1>h, <2>1, AskedKeepsLine DEF Wait, AskAndGoTo, link
  <2>2. CASE ~held
    BY <1>5, <1>s, <1>b, <2>2 DEF Wait, GoTo, machine, link
  <2>3. QED
    BY <2>1, <2>2
<1>6. CASE Poll
  <2>1. CASE held
    BY <1>6, <1>t, <1>h, <2>1, AskedKeepsLine DEF Poll, AskAndGoTo, link
  <2>2. CASE ~held
    BY <1>6, <1>s, <1>b, <2>2 DEF Poll, PollOver, Ended, machine, link
  <2>3. QED
    BY <2>1, <2>2
<1>7. CASE Act
  <2>1. CASE ~held
    BY <1>7, <1>s, <1>b, <2>1 DEF Act, Ended, link
  <2>2. CASE held /\ step = "SoftReset"
    BY <1>7, <1>r, <1>h, <2>2 DEF Act, link
  <2>3. CASE held /\ step # "SoftReset"
    <3>1. step \in {"FeedHold", "SpindleStop"}
      BY <1>7, <2>3 DEF Act, TypeInv, TypeOK, Paced, Sending, Rungs
    <3>2. QED
      BY <1>7, <1>s, <1>b, <1>t, <2>3, <3>1, EffectActs DEF Act, link
  <2>4. QED
    BY <2>1, <2>2, <2>3
<1>8. CASE Forget
  <2>1. obs'.beam = "Unknown" /\ UNCHANGED <<ctl, wire, port, held>> /\ pc' = "poll"
    BY <1>8, <1>t DEF Forget, ForgetBeam, GoTo, machine, link, Reading
  <2>2. \A b \in {"On", "Off"} : LastWord(Len(wire), b)' => LastWord(Len(wire), b)
    BY <2>1, <1>t DEF LastWord, BeamAt
  <2>3. QED
    BY <2>1, <2>2 DEF LineInv
<1>9. CASE WatchAsks
  BY <1>9, <1>t, <1>h, AskedKeepsLine DEF WatchAsks, WatchFree, link, ladder
<1>10. CASE WatchSees
  BY <1>10, <1>s, <1>b, <1>h DEF WatchSees, machine, ladder
<1>11. CASE WatchActs
  <2>1. held' /\ port' = port /\ pc' = "look" /\ UNCHANGED <<ctl, wire, obs>>
    BY <1>11 DEF WatchActs, WatchFree, Start, machine
  <2>2. QED
    BY <1>11, <1>w, <2>1 DEF WatchActs, WatchFree
<1>12. CASE CtlRuns \/ CtlHolds
  <2>1. ctl'.said = ctl.said /\ ctl'.state # "Boot" /\ ctl.state # "Boot"
    <3>1. CASE CtlRuns
      BY <1>t, <3>1 DEF CtlRuns, Controller
    <3>2. CASE CtlHolds
      BY <1>t, <3>2 DEF CtlHolds, Controller
    <3>3. QED
      BY <1>12, <3>1, <3>2
  <2>2. UNCHANGED <<wire, obs, port, held, pc>>
    BY <1>12 DEF CtlRuns, CtlHolds, link, ladder
  <2>3. QED
    BY <1>s, <1>h, <2>1, <2>2
<1>13. CASE CtlBoots
  <2>1. /\ wire' = Append(wire, WelcomeReport) /\ UNCHANGED <<obs, port, held, pc>>
        /\ port /\ ~ctl'.said /\ ctl'.state # "Boot"
    BY <1>13, <1>t DEF CtlBoots, link, ladder, Controller, LineInv
  <2>2. WelcomeReport \in Report /\ WelcomeReport.beam = "Off"
    BY DEF WelcomeReport, Report, States, Beams
  <2>3. ~LastWord(Len(wire), "On")'
    <3>1. SUFFICES ASSUME NEW n, n = Len(wire'), LastWord(n, "On")'
                   PROVE  FALSE
      BY DEF LastWord, BeamAt
    <3>2. QED
      BY <1>t, <2>1, <2>2, <3>1, AppendAdds
  <2>4. QED
    BY <1>t, <2>1, <2>2, <2>3 DEF LineInv
<1>14. CASE LearnLaserMode
  BY <1>14, <1>s, <1>b, <1>h, <1>t DEF LearnLaserMode, machine, link, ladder, Reading
<1>15. CASE Connect \/ Leave \/ Abort
  BY <1>15, <1>s, <1>b, <1>h DEF Connect, Leave, Abort, machine, ladder
<1>16. CASE ClientSends
  <2>1. CASE \E c \in {"FeedHold", "Resume"} : ctl' \in Effect(ctl, c)
    <3>1. /\ ctl'.said = ctl.said
          /\ ctl.state = "Boot" => ctl'.state = "Boot"
          /\ ctl'.state = "Boot" => ctl.state = "Boot" /\ ctl'.beam = ctl.beam
      BY <1>t, <2>1, EffectActs
    <3>2. QED
      BY <1>16, <1>s, <1>b, <1>h, <3>1 DEF ClientSends, link, ladder
  <2>2. CASE ~ \E c \in {"FeedHold", "Resume"} : ctl' \in Effect(ctl, c)
    <3>1. ctl'.said = ctl.said /\ ctl'.state # "Boot" /\ ctl.state # "Boot"
      BY <1>16, <1>t, <2>2 DEF ClientSends, Controller
    <3>2. QED
      BY <1>16, <1>s, <1>h, <3>1 DEF ClientSends, link, ladder
  <2>3. QED
    BY <2>1, <2>2
<1>17. CASE OperatorSends
  BY <1>17, <1>s, <1>b, <1>t, <1>h, EffectActs DEF OperatorSends, link, ladder
<1>18. CASE OperatorStops
  BY <1>18, <1>r, <1>h DEF OperatorStops, ladder
<1>19. CASE PortLost
  BY <1>19 DEF PortLost, LineInv
<1>20. CASE PortOpened
  BY <1>20, <1>r, <1>h DEF PortOpened, ladder
<1>21. QED
  BY <1>1, <1>2, <1>3, <1>4, <1>5, <1>6, <1>7, <1>8, <1>9, <1>10, <1>11, <1>12, <1>13, <1>14,
     <1>15, <1>16, <1>17, <1>18, <1>19, <1>20, <1>22 DEF Next, Climb, Watch,
     Environment

\* The beam, the state and what was sent change only as the ladder expects.
LEMMA StepIsAlone == TypeInv /\ LineInv /\ AloneInv /\ [Next]_vars => AloneInv'
<1> SUFFICES ASSUME TypeInv, LineInv, AloneInv, [Next]_vars
             PROVE  AloneInv'
  OBVIOUS
<1>t. TypeOK /\ ctl \in Controller /\ wire \in Seq(Report) /\ obs \in Reading(MaxAge)
  BY DEF TypeInv, TypeOK
<1>n. Len(wire) \in Nat
  BY <1>t
<1>h. held => port /\ pc # "idle"
  BY DEF LineInv
<1>e. ~held' => AloneInv'
  BY DEF AloneInv
<1>c. ctl'.crowd => AloneInv'
  BY DEF AloneInv
<1>u. UNCHANGED ctl /\ UNCHANGED <<tried, held>> =>
        (held' /\ ~ctl'.crowd => Calmed')
  BY DEF AloneInv, Calmed
<1>1. CASE \/ UNCHANGED vars \/ OnClientGone \/ WatchSees \/ Connect \/ Leave \/ Abort
           \/ LearnLaserMode
  BY <1>1, <1>t, SameIsAlone DEF vars, machine, link, ladder, OnClientGone, WatchSees, Connect,
     Leave, Abort, LearnLaserMode, Reading
<1>2. CASE OperatorStops \/ PortLost \/ PortOpened
  BY <1>2, <1>e, <1>h DEF OperatorStops, PortLost, PortOpened, ladder
<1>3. CASE LockTaken \/ WatchActs
  BY <1>3, FreshIsAlone DEF LockTaken, WatchActs, Start
<1>5. CASE ClientSends \/ OperatorSends
  <2>1. CASE pc = "idle"
    <3>1. held' = held
      BY <1>5 DEF ClientSends, OperatorSends, ladder
    <3>2. QED
      BY <1>e, <1>h, <2>1, <3>1
  <2>2. CASE ctl.crowd
    <3>1. CASE \E command \in {"FeedHold", "Resume"} : ctl' \in Effect(ctl, command)
      BY <1>c, <1>t, <2>2, <3>1, EffectActs
    <3>2. CASE \E s \in {"Idle", "Run"}, b \in BOOLEAN : ctl' = [ctl EXCEPT !.state = s, !.beam = b]
      BY <1>c, <1>t, <2>2, <3>2 DEF Controller
    <3>3. QED
      BY <1>5, <3>1, <3>2 DEF ClientSends, OperatorSends
  <2>3. QED
    BY <1>5, <2>1, <2>2 DEF ClientSends, OperatorSends
<1>6. CASE Deliver
  <2>1. UNCHANGED <<ctl, pc, tried, step, held>>
    BY <1>6 DEF Deliver, ladder
  <2>2. SUFFICES ASSUME held, ~ctl.crowd, Listening, NEW i \in Current'
                 PROVE  Believed(i)'
    BY <2>1 DEF AloneInv, Calmed, Listening, OverrideIsSafe, Steady
  <2>3. i \in 0 .. Len(wire') /\ (pc # "look" => i = Len(wire'))
    BY <1>6, <1>t, <2>1 DEF Current, Deliver
  <2>4. /\ StateAt(i)' = StateAt(i + 1) /\ i + 1 \in 1 .. Len(wire)
        /\ Len(wire') = Len(wire) - 1
        /\ LastWord(i, "On")' => LastWord(i + 1, "On")
        /\ LastWord(i, "Off")' => LastWord(i + 1, "Off")
    BY <1>6, <1>t, <2>3, DeliverShifts
  <2>5. i + 1 \in Current
    BY <1>n, <2>3, <2>4 DEF Current
  <2>6. Believed(i + 1)
    BY <2>2, <2>5 DEF AloneInv
  <2>7. QED
    BY <2>1, <2>4, <2>6 DEF Believed, Steady
<1>7. CASE WatchAsks
  <2>1. /\ UNCHANGED <<obs, pc, tried, step, held>> /\ port /\ Asked(FALSE)
        /\ ctl'.state = ctl.state /\ ctl'.beam = ctl.beam /\ ctl'.crowd = ctl.crowd
        /\ ctl'.laser = ctl.laser
    BY <1>7, <1>t DEF WatchAsks, WatchFree, Asked, machine, ladder, Controller
  <2>2. SUFFICES ASSUME held, ~ctl.crowd, Listening, NEW i \in Current'
                 PROVE  Believed(i)'
    BY <2>1 DEF AloneInv, Calmed, Listening, OverrideIsSafe, Steady
  <2>3. i \in 0 .. Len(wire') /\ (i = Len(wire') \/ (pc = "look" /\ i \in 0 .. Len(wire)))
    <3>1. Len(wire') = Len(wire) \/ Len(wire') = Len(wire) + 1
      BY <1>t, <2>1 DEF Asked, machine
    <3>2. QED
      BY <1>n, <2>1, <3>1 DEF Current
  <2>4. i = Len(wire') \/ Believed(i)
    BY <2>2, <2>3 DEF AloneInv, Current
  <2>5. QED
    BY <1>t, <2>1, <2>3, <2>4, AskedIsBelieved
<1>8. CASE CtlRuns
  <2>1. /\ UNCHANGED <<wire, obs, pc, tried, step, held>>
        /\ ctl.state = "Run" /\ ctl'.state \in {"Run", "Idle"} /\ ctl'.crowd = ctl.crowd
        /\ ctl'.state = "Idle" => ctl'.beam = ctl.beam
    BY <1>8, <1>t DEF CtlRuns, Controller, ladder
  <2>2. SUFFICES ASSUME held, ~ctl.crowd
                 PROVE  /\ Calmed' /\ OverrideIsSafe'
                        /\ Listening => \A i \in Current : Believed(i)'
    BY <2>1 DEF AloneInv, Listening, Current
  <2>3. "FeedHold" \notin tried /\ "SoftReset" \notin tried
    BY <2>1, <2>2 DEF AloneInv, Calmed
  <2>4. Calmed' /\ OverrideIsSafe'
    BY <2>1, <2>2, <2>3 DEF AloneInv, Calmed, OverrideIsSafe
  <2>5. ASSUME Listening, NEW i \in Current
        PROVE  Believed(i)'
    <3>1. Believed(i)
      BY <2>2, <2>5 DEF AloneInv
    <3>2. ~AtRest(StateAt(i))
      BY <2>1, <3>1 DEF Believed
    <3>3. StateAt(i)' = StateAt(i)
      BY <2>1 DEF StateAt
    <3>4. QED
      BY <2>1, <2>3, <3>2, <3>3 DEF Believed
  <2>6. QED
    BY <2>4, <2>5
<1>9. CASE CtlHolds
  <2>1. /\ UNCHANGED <<wire, obs, pc, tried, step, held>>
        /\ ctl.state = "Slowing" /\ ctl'.state = "Hold" /\ ctl'.crowd = ctl.crowd
        /\ ctl'.beam => ctl.beam
        /\ ctl'.laser = ctl.laser /\ (ctl.laser = "Off" => ctl'.beam = ctl.beam)
    BY <1>9, <1>t DEF CtlHolds, Controller, ladder
  <2>2. SUFFICES ASSUME held, ~ctl.crowd
                 PROVE  /\ Calmed' /\ OverrideIsSafe'
                        /\ Listening => \A i \in Current : Believed(i)'
    BY <2>1 DEF AloneInv, Listening, Current
  <2>3. Calmed' /\ OverrideIsSafe'
    BY <2>1, <2>2 DEF AloneInv, Calmed, OverrideIsSafe, Steady
  <2>4. ASSUME Listening, NEW i \in Current
        PROVE  Believed(i)'
    <3>1. Believed(i)
      BY <2>2, <2>4 DEF AloneInv
    <3>2. /\ StateAt(i)' = StateAt(i)
          /\ LastWord(i, "Off")' => LastWord(i, "Off")
          /\ LastWord(i, "On")' => LastWord(i, "On")
      BY <2>1 DEF StateAt, LastWord, BeamAt
    <3>3. QED
      BY <2>1, <3>1, <3>2 DEF Believed, Steady, AtRest
  <2>5. QED
    BY <2>3, <2>4
<1>10. CASE CtlBoots
  <2>1. /\ UNCHANGED <<obs, pc, tried, step, held>>
        /\ ctl'.state \in {"Idle", "Alarm"} /\ ~ctl'.beam /\ ctl'.crowd = ctl.crowd
    BY <1>10, <1>t DEF CtlBoots, Controller, ladder, LineInv
  <2>2. \A i : Believed(i)'
    BY <2>1, StillIsBelieved
  <2>3. Calmed' /\ OverrideIsSafe'
    BY <2>1 DEF Calmed, OverrideIsSafe
  <2>4. QED
    BY <2>1, <2>2, <2>3 DEF AloneInv
<1>11. CASE Look
  <2>1. CASE Ended
    BY <1>e, <2>1 DEF Ended
  <2>2. CASE ~Ended
    <3>1. /\ step' = Decide(Sit) /\ UNCHANGED <<ctl, wire, obs, tried, held>> /\ pc = "look"
          /\ pc' \in {"take", "wait", "act"} /\ (pc' = "wait" => WaitForRest(Sit))
      BY <1>11, <2>2 DEF Look, machine
    <3>2. SUFFICES ASSUME held, ~ctl.crowd
                   PROVE  OverrideIsSafe'
      BY <1>u, <3>1 DEF AloneInv, Listening, WaitForRest
    <3>3. SUFFICES ASSUME Decide(Sit) = "SpindleStop", tried # {}
                   PROVE  /\ ctl.state # "Run"
                          /\ ctl.state = "Slowing" => "Hold" \in SlowingWords
                          /\ ctl.state \in {"Slowing", "Hold"} /\ Steady => ctl.beam
      BY <3>1 DEF OverrideIsSafe, Steady
    <3>4. obs.state = "Hold" /\ obs.beam = "On"
      BY <3>3 DEF Decide, DecideLit, DecideDark, DecideUnknown, OverrideReaches, Sit
    <3>5. Believed(0)
      BY <1>n, <3>1, <3>2, <3>3 DEF AloneInv, Listening, Current
    <3>6. StateAt(0) = "Hold" /\ LastWord(0, "On")
      BY <3>4 DEF StateAt, LastWord, BeamAt
    <3>7. QED
      BY <3>3, <3>5, <3>6 DEF Believed, AtRest
  <2>3. QED
    BY <2>1, <2>2
<1>12. CASE TakeOver
  BY <1>12 DEF TakeOver, AloneInv, Calmed, Listening, OverrideIsSafe, machine, Steady
<1>13. ASSUME Asked(FALSE) \/ \E due : Asked(due), AskAndGoTo("settle") \/ AskAndGoTo("listen"),
              held, UNCHANGED obs, pc' = "settle" => step = "SoftReset"
       PROVE  AloneInv'
  <2>1. PICK due : Asked(due)
    BY <1>13
  <2>2. /\ UNCHANGED <<tried, step, held>> /\ pc' \in {"settle", "listen"}
        /\ ctl'.state = ctl.state /\ ctl'.beam = ctl.beam /\ ctl'.crowd = ctl.crowd
    BY <1>13, <1>t, <2>1 DEF Asked, AskAndGoTo, machine, Controller
  <2>3. SUFFICES ASSUME NEW i \in Current'
                 PROVE  Believed(i)'
    BY <1>13, <2>2 DEF AloneInv, Calmed, OverrideIsSafe
  <2>4. i = Len(wire') /\ i \in 0 .. Len(wire')
    <3>1. Len(wire') \in Nat
      BY <1>t, <2>1, AskedIsTyped
    <3>2. QED
      BY <2>2, <3>1 DEF Current
  <2>5. QED
    BY <1>13, <1>h, <1>t, <2>1, <2>2, <2>4, AskedIsBelieved
<1>14. CASE Wait
  <2>1. CASE held /\ ~ctl.crowd
    BY <1>13, <1>14, <2>1 DEF Wait, AloneInv, AskAndGoTo
  <2>2. CASE ~held
    BY <1>14, <1>e, <2>2 DEF Wait, GoTo
  <2>3. CASE ctl.crowd
    BY <1>14, <1>c, <1>t, <2>3 DEF Wait, Asked, machine, Controller
  <2>4. QED
    BY <2>1, <2>2, <2>3
<1>15. CASE Poll
  <2>1. CASE held
    BY <1>13, <1>15, <2>1 DEF Poll, AskAndGoTo
  <2>2. CASE ~held
    BY <1>15, <1>e, <2>2 DEF Poll, PollOver, Ended
  <2>3. QED
    BY <2>1, <2>2
<1>16. CASE Settle
  BY <1>16, <1>e DEF Settle, Ended, GoTo, machine, AloneInv, Calmed, Listening, OverrideIsSafe
<1>17. CASE Forget
  BY <1>17 DEF Forget, GoTo, machine, AloneInv, Calmed, Listening, OverrideIsSafe
<1>18. CASE Listen
  <2>1. CASE Ended
    BY <1>e, <2>1 DEF Ended
  <2>2. CASE ~Ended /\ held
    <3>1. UNCHANGED <<ctl, wire, obs, tried, held>> /\ wire = <<>> /\ pc' \in {"look", "poll"}
      BY <1>18, <2>2 DEF Listen, PollOver, GoTo, machine
    <3>2. SUFFICES ASSUME ~ctl.crowd, pc' = "look", NEW i \in Current'
                   PROVE  Believed(i)'
      BY <1>u, <2>2, <3>1 DEF AloneInv, Listening, OverrideIsSafe
    <3>3. i \in Current
      BY <1>18, <3>1, <3>2 DEF Current, Listen
    <3>4. Believed(i)
      BY <1>18, <2>2, <3>2, <3>3 DEF AloneInv, Listening, Listen
    <3>5. QED
      BY <3>1, <3>4 DEF Believed, StateAt, LastWord, BeamAt, Steady
  <2>3. CASE ~held
    BY <1>18, <1>e, <2>3 DEF Listen, PollOver, Ended, GoTo
  <2>4. QED
    BY <2>1, <2>2, <2>3
<1>19. CASE Act
  <2>1. CASE Ended
    BY <1>e, <2>1 DEF Ended
  <2>2. CASE ~Ended
    <3>1. /\ ctl' \in Effect(ctl, step) /\ tried' = tried \cup {step} /\ pc' = "forget"
          /\ held /\ step \in Rungs
      BY <1>19, <2>2 DEF Act, TypeInv, TypeOK, Paced, Sending
    <3>2. SUFFICES ASSUME ~ctl.crowd
                   PROVE  Calmed'
      BY <1>c, <1>t, <3>1 DEF AloneInv, Listening, OverrideIsSafe, Effect, Controller, Rungs
    <3>3. Calmed
      BY <3>1, <3>2 DEF AloneInv
    <3>4. CASE step = "FeedHold"
      BY <1>t, <3>1, <3>3, <3>4 DEF Calmed, Effect, Controller
    <3>5. CASE step = "SpindleStop"
      BY <1>t, <3>1, <3>3, <3>5 DEF Calmed, Effect, Controller
    <3>6. CASE step = "SoftReset"
      BY <1>t, <3>1, <3>3, <3>6 DEF Calmed, Effect, Controller
    <3>7. QED
      BY <3>1, <3>4, <3>5, <3>6 DEF Rungs
  <2>3. QED
    BY <2>1, <2>2
<1>20. QED
  BY <1>1, <1>2, <1>3, <1>5, <1>6, <1>7, <1>8, <1>9, <1>10, <1>11, <1>12, <1>14,
     <1>15, <1>16, <1>17, <1>18, <1>19 DEF Next, Climb, Watch, Environment

LEMMA HonestInvariant == Spec => [](TypeInv /\ RungsInv /\ LineInv /\ AloneInv)
<1>1. Init => LineInv /\ AloneInv
  BY InitIsHonest
<1>2. TypeInv /\ LineInv /\ AloneInv /\ [Next]_vars => (LineInv /\ AloneInv)'
  BY StepKeepsLine, StepIsAlone
<1>3. QED
  BY <1>1, <1>2, LadderInvariant, PTL DEF Spec

\* Where a step of the ladder comes from.
LEMMA LadderMoves ==
  ASSUME Next
  PROVE  /\ pc = "look" /\ pc' = "idle" => Look
         /\ pc = "act" /\ pc' = "forget" => Act
         /\ pc = "settle" /\ pc' = "act" => Settle
BY DEF Next, Climb, Watch, Environment, Deliver, OnClientGone, LockTaken, Start, Look, TakeOver,
   Wait, Settle, Act, Forget, Poll, Listen, PollOver, GoTo, AskAndGoTo, Ended, WatchAsks, WatchSees,
   WatchActs, CtlRuns, CtlHolds, CtlBoots, LearnLaserMode, Connect, Leave, ClientSends,
   OperatorSends, OperatorStops, PortLost, PortOpened, Abort, ladder

\* A ladder that has sent something and ends without a word leaves a beam that
\* is out, if nobody else commands the machine: however many reports are in
\* flight, what it took for dark was dark and has stayed dark.
THEOREM QuietIsDark == Spec => QuietEndIsDark
<1>1. TypeInv /\ RungsInv /\ LineInv /\ AloneInv /\ [Next]_vars
      => [pc = "look" /\ pc' = "idle" /\ held /\ ~abort /\ tried # {} /\ Decide(Sit) = "None"
            /\ ~ctl.crowd => ~ctl.beam]_vars
  <2> SUFFICES ASSUME TypeInv, RungsInv, LineInv, AloneInv, Next, pc = "look", pc' = "idle",
                      held, ~abort, tried # {}, Decide(Sit) = "None", ~ctl.crowd
               PROVE  ~ctl.beam
    BY DEF vars, machine, link, ladder
  <2>1. OnDisconnect # "none"
    BY DEF RungsInv
  <2>2. CASE "SoftReset" \in tried
    BY <2>2 DEF AloneInv, Calmed
  <2>3. CASE "SoftReset" \notin tried
    <3>1. obs.beam = "Off" /\ ("FeedHold" \in tried \/ AtRest(obs.state))
      BY <2>1, <2>3 DEF Decide, NothingToStop, MotionToStop, DecideLit, DecideDark, DecideUnknown,
         Sit, TypeInv, TypeOK, Reading, Beams
    <3>2. Believed(0)
      BY DEF AloneInv, Listening, Current, TypeInv, TypeOK
    <3>3. StateAt(0) = obs.state /\ LastWord(0, "Off")
      BY <3>1 DEF StateAt, LastWord, BeamAt
    <3>4. QED
      BY <3>1, <3>2, <3>3 DEF Believed
  <2>4. QED
    BY <2>2, <2>3
<1>2. QED
  BY <1>1, HonestInvariant, PTL DEF Spec, QuietEndIsDark

\* When waitUntilStill ends early, of its own accord, the job is not running, and
\* axes that the reset finds turning are those of a hold that was announced:
\* whatever words the controller has for slowing down.
THEOREM RestIsRest == Spec => OnlyAHoldIsEarly
<1>1. TypeInv /\ LineInv /\ AloneInv /\ [Next]_vars
      => [pc = "settle" /\ pc' = "act" /\ held /\ ~client /\ ~ctl.crowd /\ asks < MaxAsks
            => ctl.state # "Run" /\ (ctl.state = "Slowing" => obs.state = "Hold")]_vars
  <2> SUFFICES ASSUME TypeInv, LineInv, AloneInv, Next, pc = "settle", pc' = "act", held,
                      ~client, ~ctl.crowd, asks < MaxAsks
               PROVE  ctl.state # "Run" /\ (ctl.state = "Slowing" => obs.state = "Hold")
    BY DEF vars, machine, link, ladder
  <2>1. Settle
    BY LadderMoves
  <2>2. wire = <<>> /\ AtRest(obs.state)
    <3>1. asks # MaxAsks
      BY DEF TypeInv, TypeOK
    <3>2. ~abort
      BY <2>1 DEF Settle, Ended, GoTo
    <3>3. QED
      BY <2>1, <3>1, <3>2 DEF Settle, GoTo
  <2>3. Believed(0)
    BY <2>2 DEF AloneInv, Listening, Current
  <2>4. QED
    BY <2>2, <2>3 DEF Believed, StateAt
<1>2. QED
  BY <1>1, HonestInvariant, PTL DEF Spec, OnlyAHoldIsEarly

\* A ladder that has sent a rung and sends the toggle next lights no beam that
\* was out, unless a machine in laser mode called itself held before it was.
THEOREM ToggleIsSafe == Spec => ToggleNeverLights
<1>1. TypeInv /\ LineInv /\ AloneInv /\ [Next]_vars
      => [pc = "act" /\ pc' = "forget" /\ step = "SpindleStop" /\ tried # {}
            /\ ~ctl.beam /\ ~ctl.crowd
            => ~ctl'.beam \/ (ctl.laser = "On" /\ "Hold" \in SlowingWords)]_vars
  <2> SUFFICES ASSUME TypeInv, LineInv, AloneInv, Next, pc = "act", pc' = "forget",
                      step = "SpindleStop", tried # {}, ~ctl.beam, ~ctl.crowd
               PROVE  ~ctl'.beam \/ (ctl.laser = "On" /\ "Hold" \in SlowingWords)
    BY DEF vars, machine, link, ladder
  <2>1. held /\ ctl' \in Effect(ctl, "SpindleStop")
    BY LadderMoves DEF Act, Ended
  <2>2. CASE ctl.state # "Hold"
    BY <2>1, <2>2 DEF Effect
  <2>3. CASE ctl.state = "Hold"
    <3>1. ~Steady
      BY <2>1, <2>3 DEF AloneInv, OverrideIsSafe
    <3>2. QED
      BY <3>1 DEF Steady, TypeInv, TypeOK, Controller
  <2>4. QED
    BY <2>2, <2>3
<1>2. QED
  BY <1>1, HonestInvariant, PTL DEF Spec, ToggleNeverLights

=============================================================================
