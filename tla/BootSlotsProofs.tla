--------------------------- MODULE BootSlotsProofs ---------------------------
(***************************************************************************)
(* Whatever images there are and however often updates, power cuts and     *)
(* failures strike: a slot that boots is left, and a slot that does not    *)
(* come up is given up.                                                    *)
(***************************************************************************)
EXTENDS BootSlots, TLAPS

USE VersionsAssumption, BoundsAssumption, NoSlotAssumption, TornAssumption
USE DEF VersionsAssumption, BoundsAssumption, NoSlotAssumption, TornAssumption

Selected == IF override \in Slots THEN override ELSE active

\* Only a system that boots is up to be asked for anything.
RunsFromHealthy == mode = "up" => Healthy(current)

\* A slot that does not come up is the selected one, and was loaded at most once
\* more than the counter says: GRUB starts at zero when it has just fallen back.
AttemptsAreCounted == ~Healthy(current) => current = Selected /\ streak <= try + 1

IInv == TypeOK /\ RunsFromHealthy /\ AWorkingSlotRemains /\ AttemptsAreCounted

-----------------------------------------------------------------------------
LEMMA Types ==
  ASSUME TypeOK
  PROVE  /\ current \in Slots /\ active \in Slots /\ override \in Slots \cup {NoSlot}
         /\ staged \in Slots \cup {NoSlot} /\ read \in Slots \cup {NoSlot}
BY DEF TypeOK

\* The inactive slot is the other one.
LEMMA TargetIsInactive ==
  ASSUME TypeOK
  PROVE  target \in Slots /\ target # current
BY Types DEF target, otherSlot, Slots

\* A step that leaves the payloads alone leaves every slot as good as it was.
LEMMA PayloadKept ==
  ASSUME UNCHANGED payload, NEW s
  PROVE  Healthy(s)' <=> Healthy(s)
BY DEF payload, Healthy, Whole

Writes == (\E v \in Versions : Install(v)) \/ WriteRoot \/ WriteKernel \/ WriteInitrd

Rest == StageRollback \/ Record \/ Commit \/ Fail \/ ConfirmBoot \/ ConfirmFails

\* An update writes while the system is up, and never into the running slot.
LEMMA WritesSpareTheRunning ==
  ASSUME IInv, Writes
  PROVE  /\ mode = "up" /\ UNCHANGED <<mode, current, active, override, try, streak>>
         /\ Healthy(current) /\ Healthy(current)'
<1>1. mode = "up"
  BY DEF IInv, TypeOK, Writes, Install, WriteRoot, WriteKernel, WriteInitrd
<1>2. UNCHANGED <<mode, current, active, override, try, streak>>
  BY DEF Writes, Install, WriteRoot, WriteKernel, WriteInitrd, run, grub
<1>3. Healthy(current)
  BY <1>1 DEF IInv, RunsFromHealthy
<1>4. root'[current] = root[current] /\ kernel'[current] = kernel[current]
      /\ initrd'[current] = initrd[current]
  <2>1. TypeOK /\ target # current
    BY TargetIsInactive DEF IInv
  <2>2. CASE \E v \in Versions : Install(v)
    BY <2>1, <2>2 DEF Install, TypeOK
  <2>3. CASE WriteRoot
    BY <2>1, <2>3 DEF WriteRoot, TypeOK
  <2>4. CASE WriteKernel
    BY <2>1, <2>4 DEF WriteKernel, TypeOK
  <2>5. CASE WriteInitrd
    BY <2>1, <2>5 DEF WriteInitrd, TypeOK
  <2>6. QED
    BY <2>2, <2>3, <2>4, <2>5 DEF Writes
<1>5. QED
  BY <1>1, <1>2, <1>3, <1>4 DEF Healthy, Whole

-----------------------------------------------------------------------------
LEMMA InitIInv == Init => IInv
<1> SUFFICES ASSUME Init
             PROVE  IInv
  OBVIOUS
<1>1. TypeOK
  BY DEF Init, TypeOK, Slots
<1>2. \A s \in Slots : Healthy(s)
  BY DEF Init, Healthy, Whole
<1>3. "a" \in Slots /\ current = "a" /\ mode = "off"
  BY DEF Init, Slots
<1>4. QED
  BY <1>1, <1>2, <1>3 DEF IInv, RunsFromHealthy, AWorkingSlotRemains, AttemptsAreCounted

\* Every step keeps the types, and steps stay in a system that is up.
LEMMA TypeStep == TypeOK /\ [Next]_vars => TypeOK'
<1> SUFFICES ASSUME TypeOK, [Next]_vars
             PROVE  TypeOK'
  OBVIOUS
<1>0. target \in Slots /\ NextSlot \in Slots
  BY Types, TargetIsInactive DEF NextSlot, otherSlot, Slots
<1>1. CASE Grub
  BY <1>0, <1>1 DEF TypeOK, Grub, Counted, payload, web, conf
<1>2. CASE ComesUp
  BY <1>2 DEF TypeOK, ComesUp, payload, grub, web
<1>3. CASE PowerCycle \/ PowerCut \/ Reboot
  BY <1>3 DEF TypeOK, PowerCycle, PowerCut, Reboot, Off, payload, grub
<1>4. CASE \E v \in Versions : Install(v)
  BY <1>0, <1>4 DEF TypeOK, Install, grub, run, conf
<1>5. CASE WriteRoot \/ WriteKernel \/ WriteInitrd
  BY <1>0, <1>5 DEF TypeOK, WriteRoot, WriteKernel, WriteInitrd, grub, run, conf
<1>6. CASE StageRollback \/ Record \/ Commit \/ Fail
  BY <1>0, <1>6 DEF TypeOK, StageRollback, Record, Commit, Fail, payload, grub, run, conf
<1>7. CASE ResetCounter \/ ReadState \/ Compare
  BY <1>7 DEF TypeOK, ResetCounter, ReadState, Compare, payload, grub, run, web
<1>8. CASE Keep \/ Recover \/ Drop \/ ConfirmFails
  BY <1>8 DEF TypeOK, Keep, Recover, Drop, ConfirmFails, payload, grub, run, web
<1>9. CASE UNCHANGED vars
  BY <1>9 DEF TypeOK, vars, payload, grub, run, web, conf
<1>10. QED
  BY <1>1, <1>2, <1>3, <1>4, <1>5, <1>6, <1>7, <1>8, <1>9
     DEF Next, Boot, Update, ConfirmBoot

\* GRUB loads the slot it selects, or falls back and starts counting anew.
LEMMA GrubCounts == IInv /\ Grub => AttemptsAreCounted'
<1> SUFFICES ASSUME IInv, Grub, ~Healthy(current)'
             PROVE  current' = Selected' /\ streak' <= try' + 1
  BY DEF AttemptsAreCounted
<1>0. TypeOK /\ AttemptsAreCounted
  BY DEF IInv
<1>1. NextSlot \in Slots
  BY <1>0, Types DEF NextSlot, otherSlot, Slots
<1>a. Selected \in Slots /\ NextSlot = IF try = 2 THEN otherSlot(Selected) ELSE Selected
  BY <1>0, Types DEF NextSlot, Selected
<1>2. current' = Selected'
  <2>1. CASE try = 2
    BY <1>1, <2>1 DEF Grub, Selected
  <2>2. CASE try # 2
    BY <1>a, <2>2 DEF Grub, Selected
  <2>3. QED
    BY <2>1, <2>2
<1>3. ~Healthy(NextSlot)
  BY PayloadKept DEF Grub, Healthy, Whole, payload
<1>4. CASE NextSlot # current
  BY <1>0, <1>2, <1>4 DEF Grub, Counted, TypeOK
<1>5. CASE NextSlot = current
  <2>1. current = Selected /\ streak <= try + 1
    BY <1>0, <1>3, <1>5 DEF AttemptsAreCounted
  <2>2. try # 2
    BY <1>5, <1>a, <2>1 DEF otherSlot, Slots
  <2>3. try' = try + 1 /\ streak' \in {1, streak + 1}
    BY <1>0, <1>5, <2>1, <2>2 DEF Grub, Counted, TypeOK
  <2>4. QED
    BY <1>0, <1>2, <2>1, <2>3 DEF TypeOK
<1>6. QED
  BY <1>4, <1>5

\* What happens in a system that is up, or switches one off, and leaves the
\* payloads alone.
LEMMA UpStep ==
  ASSUME IInv, UNCHANGED <<payload, current>>, mode = "up"
  PROVE  AttemptsAreCounted' /\ Healthy(current)'
<1>1. Healthy(current)
  BY DEF IInv, RunsFromHealthy
<1>2. Healthy(current)'
  BY <1>1, PayloadKept DEF Healthy, Whole, payload
<1>3. QED
  BY <1>2 DEF AttemptsAreCounted

LEMMA StepIInv == IInv /\ [Next]_vars => IInv'
<1> SUFFICES ASSUME IInv, [Next]_vars
             PROVE  IInv'
  OBVIOUS
<1>1. TypeOK'
  BY TypeStep DEF IInv
<1>2. CASE Writes
  <2>1. Healthy(current)' /\ current' \in Slots
    BY <1>1, <1>2, WritesSpareTheRunning DEF TypeOK
  <2>2. QED
    BY <1>1, <2>1 DEF IInv, RunsFromHealthy, AWorkingSlotRemains, AttemptsAreCounted
<1>3. CASE ~Writes
  <2>1. UNCHANGED payload
    BY <1>3 DEF Writes, Next, Boot, Update, ConfirmBoot, Grub, ComesUp, PowerCycle, PowerCut,
       Reboot, Off, StageRollback, Record, Commit, Fail, ResetCounter, ReadState, Compare,
       Keep, Recover, Drop, ConfirmFails, vars, payload
  <2>2. AWorkingSlotRemains'
    BY <2>1, PayloadKept DEF IInv, AWorkingSlotRemains
  <2>3. CASE Grub
    <3>1. RunsFromHealthy'
      BY <2>3 DEF Grub, RunsFromHealthy
    <3>2. QED
      BY <1>1, <2>2, <2>3, <3>1, GrubCounts DEF IInv
  <2>4. CASE ComesUp
    <3>1. Healthy(current)'
      BY <2>1, <2>4, PayloadKept DEF ComesUp, Healthy, Whole, payload
    <3>2. QED
      BY <1>1, <2>2, <3>1 DEF IInv, RunsFromHealthy, AttemptsAreCounted
  <2>5. CASE PowerCycle \/ PowerCut \/ Reboot
    <3>1. mode' = "off" /\ UNCHANGED <<current, active, override, try, streak>>
      BY <2>5 DEF PowerCycle, PowerCut, Reboot, Off, grub
    <3>2. AttemptsAreCounted'
      BY <2>1, <3>1 DEF IInv, AttemptsAreCounted, Healthy, Whole, Selected, payload
    <3>3. QED
      BY <1>1, <2>2, <3>1, <3>2 DEF IInv, RunsFromHealthy
  <2>6. CASE Rest
    <3>1. mode = "up" /\ UNCHANGED <<mode, current>>
      BY <2>6 DEF IInv, TypeOK, Rest, StageRollback, Record, Commit, Fail, ConfirmBoot,
         ResetCounter, ReadState, Compare, Keep, Recover, Drop, ConfirmFails, run
    <3>2. QED
      BY <1>1, <2>1, <2>2, <3>1, UpStep DEF IInv, RunsFromHealthy
  <2>7. CASE UNCHANGED vars
    BY <1>1, <2>2, <2>7 DEF IInv, RunsFromHealthy, AttemptsAreCounted, Healthy, Whole, Selected,
       vars, payload, grub, run
  <2>8. QED
    BY <1>3, <2>3, <2>4, <2>5, <2>6, <2>7 DEF Next, Boot, Update, Writes, Rest
<1>4. QED
  BY <1>2, <1>3

LEMMA Invariance == Spec => []IInv
BY InitIInv, StepIInv, PTL DEF Spec

-----------------------------------------------------------------------------
\* The types, and that nothing is under way in a system that is not up.
THEOREM TypeCorrect == Spec => []TypeOK
BY Invariance, PTL DEF IInv

\* An update never costs the appliance its last slot that boots: it is written
\* from a system that is up, over the slot that system does not run from.
THEOREM NeverBricked == Spec => []AWorkingSlotRemains
BY Invariance, PTL DEF IInv

\* The counter and the override bound the attempts at a slot that does not
\* come up, in whatever state earlier boots left them.
THEOREM AttemptsBounded == Spec => []NoFourthAttempt
<1>1. IInv => NoFourthAttempt
  BY DEF IInv, TypeOK, AttemptsAreCounted, NoFourthAttempt
<1>2. QED
  BY <1>1, Invariance, PTL

-----------------------------------------------------------------------------
(***************************************************************************)
(* The boot loader, the files and their steps implement TwoSlots.          *)
(***************************************************************************)
Good == {s \in Slots : Healthy(s)}
Running == IF mode = "up" THEN current ELSE NoSlot

LEMMA InitPromise == Init => Promise!Init
BY DEF Init, Promise!Init, Healthy, Whole

LEMMA StepPromise == IInv /\ IInv' /\ [Next]_vars => [Promise!Next]_<<Good, Running>>
<1> SUFFICES ASSUME IInv, IInv', [Next]_vars
             PROVE  [Promise!Next]_<<Good, Running>>
  OBVIOUS
<1>0. current \in Slots /\ current' \in Slots
  BY DEF IInv, TypeOK
<1>1. CASE Writes
  <2>1. Running = current /\ Running' = current /\ Healthy(current)'
    BY <1>1, WritesSpareTheRunning DEF Running
  <2>2. current \in Good' /\ Good' \subseteq Slots
    BY <1>0, <1>1, <2>1, WritesSpareTheRunning DEF Good
  <2>3. QED
    BY <2>1, <2>2 DEF Promise!Next, Promise!Change, Good, Running
<1>2. CASE ~Writes
  <2>1. UNCHANGED payload
    BY <1>2 DEF Writes, Next, Boot, Update, ConfirmBoot, Grub, ComesUp, PowerCycle, PowerCut,
       Reboot, Off, StageRollback, Record, Commit, Fail, ResetCounter, ReadState, Compare,
       Keep, Recover, Drop, ConfirmFails, vars, payload
  <2>2. UNCHANGED Good
    BY <2>1, PayloadKept DEF Good
  <2>3. CASE ComesUp
    <3>1. Running = NoSlot /\ Running' \in Good
      BY <1>0, <2>3 DEF ComesUp, Running, Good
    <3>2. QED
      BY <2>2, <3>1 DEF Promise!Next, Promise!Rise, Good, Running
  <2>4. CASE PowerCycle \/ PowerCut \/ Reboot
    <3>1. Running' = NoSlot
      BY <2>4 DEF PowerCycle, PowerCut, Reboot, Off, Running
    <3>2. QED
      BY <2>2, <3>1 DEF Promise!Next, Promise!Fall, Good, Running
  <2>5. CASE Grub
    <3>1. UNCHANGED Running
      BY <2>5 DEF Grub, Running
    <3>2. QED
      BY <2>2, <3>1
  <2>6. CASE Rest \/ UNCHANGED vars
    <3>1. UNCHANGED Running
      BY <2>6 DEF Rest, StageRollback, Record, Commit, Fail, ConfirmBoot, ResetCounter,
         ReadState, Compare, Keep, Recover, Drop, ConfirmFails, vars, run, Running
    <3>2. QED
      BY <2>2, <3>1
  <2>7. QED
    BY <1>2, <2>3, <2>4, <2>5, <2>6 DEF Next, Boot, Update, Writes, Rest
<1>3. QED
  BY <1>1, <1>2

\* Whatever GRUB counts, ConfirmBoot writes or an update leaves half done, the
\* appliance comes up only from slots that boot and keeps the one it is up from.
THEOREM Implements == Spec => KeepsPromise
BY InitPromise, StepPromise, Invariance, PTL DEF Spec, KeepsPromise, Promise!Spec, Good, Running

=============================================================================
