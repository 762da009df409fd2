------------------------------ MODULE BootSlots ------------------------------
(***************************************************************************)
(* update/update.go and build/grub.cfg: two system slots, an update that   *)
(* is written over the slot that is not running, and the boot loader that  *)
(* undoes it by counting boots nobody confirmed.                           *)
(*                                                                         *)
(* Manager.mu orders Install and StageRollback, which run in the web       *)
(* process.  ConfirmBoot runs in a process of its own (the service         *)
(* laserbridge-boot-confirm, started after the web interface), so nothing  *)
(* orders it against them.  The power may go at any moment.  A file that   *)
(* atomicfile replaces changes in one step; the root of a slot is written  *)
(* in place.  The record is the one of state.json that Status reads for    *)
(* "reboot required"; the version names beside it are left out.            *)
(***************************************************************************)
EXTENDS Naturals

CONSTANTS
  Versions,    \* the system images there are
  Works,       \* those that reach the default runlevel
  Factory,     \* the one both slots of a new appliance hold
  NoSlot,      \* the empty string where a slot may be named
  MaxRequests, \* bound: updates and rollbacks
  MaxFaults    \* bound: power cuts of a healthy system, failed confirmations

ASSUME VersionsAssumption == Works \subseteq Versions /\ Factory \in Works
ASSUME BoundsAssumption == MaxRequests \in Nat /\ MaxFaults \in Nat

Slots == {"a", "b"}

ASSUME NoSlotAssumption == NoSlot \notin Slots

VARIABLES
  root, kernel, initrd,    \* what each slot holds; a root may be half written
  active,                  \* active-slot.cfg
  try, override,           \* grubenv
  staged,                  \* TargetSlot of state.json
  mode, current,           \* is the appliance off, loading or up, and from which slot?
  step, bundle,            \* how far Install or StageRollback has come, with what
  confirm, read,           \* how far ConfirmBoot has come, the TargetSlot it read
  requests, faults,        \* how many there were
  streak                   \* history: boots of this slot in a row, none confirmed

payload == <<root, kernel, initrd>>
grub    == <<try, override, streak>>
web     == <<step, bundle, requests>>
conf    == <<confirm, read>>
run     == <<mode, current>>
vars    == <<payload, active, staged, grub, run, web, conf, faults>>

Torn == "torn"
ASSUME TornAssumption == Torn \notin Versions

otherSlot(s) == IF s = "b" THEN "a" ELSE "b"

Whole(s) == root[s] = kernel[s] /\ root[s] = initrd[s]

\* The slot boots into the default runlevel.
Healthy(s) == Whole(s) /\ root[s] \in Works

-----------------------------------------------------------------------------
(***************************************************************************)
(* The boot loader.                                                        *)
(***************************************************************************)

\* Mutant: the fallback is forgotten.
SelectedOnly == IF override \in Slots THEN override ELSE active

\* The slot grub.cfg loads next.
NextSlot ==
  LET selected == IF override \in Slots THEN override ELSE active
  IN  IF try = 2 THEN otherSlot(selected) ELSE selected

\* Mutant: the counter is never set back.
CountedOn(n) == n + 1

Counted(n) == IF n = 2 THEN 0 ELSE n + 1

\* grub.cfg from the first line to the last: choose, count, save, load.
Grub ==
  /\ mode = "off"
  /\ mode' = "loading" /\ current' = NextSlot
  /\ try' = Counted(try)
  /\ override' = IF try = 2 THEN NextSlot ELSE override
  /\ streak' = IF streak > 0 /\ NextSlot = current
               THEN IF streak > 3 THEN streak ELSE streak + 1
               ELSE 1
  /\ UNCHANGED <<payload, active, staged, web, conf, faults>>

\* Userspace is there: the web interface runs, the confirmation is due.
ComesUp ==
  /\ mode = "loading" /\ Healthy(current)
  /\ mode' = "up" /\ confirm' = "reset"
  /\ UNCHANGED <<payload, active, staged, grub, current, web, read, faults>>

Off ==
  /\ mode' = "off" /\ step' = "idle" /\ bundle' = Factory
  /\ confirm' = "off" /\ read' = NoSlot
  /\ UNCHANGED <<payload, active, staged, grub, current, requests>>

\* A slot that never comes up is all the operator, or a hardware watchdog, sees.
PowerCycle ==
  /\ mode = "loading" /\ ~Healthy(current)
  /\ Off /\ UNCHANGED faults

PowerCut ==
  /\ mode # "off" /\ faults < MaxFaults
  /\ faults' = faults + 1
  /\ Off

\* The operator asks for a restart of a system that has settled.
Reboot ==
  /\ mode = "up" /\ step = "idle" /\ confirm \in {"done", "failed"}
  /\ Off /\ UNCHANGED faults

-----------------------------------------------------------------------------
(***************************************************************************)
(* Install and StageRollback.                                              *)
(***************************************************************************)

\* Mutant: the slot to overwrite is taken from the boot default.
TargetOfDefault == otherSlot(active)

target == otherSlot(current)

\* The bundle is valid; the inactive root is opened, and emptied or overwritten.
Install(v) ==
  /\ mode = "up" /\ step = "idle" /\ requests < MaxRequests
  /\ step' = "root" /\ bundle' = v /\ requests' = requests + 1
  /\ root' = [root EXCEPT ![target] = Torn]
  /\ UNCHANGED <<kernel, initrd, active, staged, grub, run, conf, faults>>

WriteRoot ==
  /\ step = "root" /\ step' = "kernel"
  /\ root' = [root EXCEPT ![target] = bundle]
  /\ UNCHANGED <<kernel, initrd, active, staged, grub, run, bundle, requests, conf, faults>>

WriteKernel ==
  /\ step = "kernel" /\ step' = "initrd"
  /\ kernel' = [kernel EXCEPT ![target] = bundle]
  /\ UNCHANGED <<root, initrd, active, staged, grub, run, bundle, requests, conf, faults>>

WriteInitrd ==
  /\ step = "initrd" /\ step' = "record"
  /\ initrd' = [initrd EXCEPT ![target] = bundle]
  /\ UNCHANGED <<root, kernel, active, staged, grub, run, bundle, requests, conf, faults>>

\* The other slot has a kernel file: every appliance is built with one.
StageRollback ==
  /\ mode = "up" /\ step = "idle" /\ requests < MaxRequests
  /\ step' = "record" /\ requests' = requests + 1
  /\ UNCHANGED <<payload, active, staged, grub, run, bundle, conf, faults>>

Record ==
  /\ step = "record" /\ step' = "commit"
  /\ staged' = target
  /\ UNCHANGED <<payload, active, grub, run, bundle, requests, conf, faults>>

\* "This is the commit point."
Commit ==
  /\ step = "commit" /\ step' = "idle" /\ bundle' = Factory
  /\ active' = target
  /\ UNCHANGED <<payload, staged, grub, run, requests, conf, faults>>

\* An error return at any of these steps.
Fail ==
  /\ step # "idle" /\ step' = "idle" /\ bundle' = Factory
  /\ UNCHANGED <<payload, active, staged, grub, run, requests, conf, faults>>

-----------------------------------------------------------------------------
(***************************************************************************)
(* ConfirmBoot.                                                            *)
(***************************************************************************)

ResetCounter ==
  /\ confirm = "reset" /\ confirm' = "read"
  /\ try' = 0 /\ override' = NoSlot /\ streak' = 0
  /\ UNCHANGED <<payload, active, staged, run, web, read, faults>>

ReadState ==
  /\ confirm = "read" /\ confirm' = "compare" /\ read' = staged
  /\ UNCHANGED <<payload, active, staged, grub, run, web, faults>>

Compare ==
  /\ confirm = "compare"
  /\ confirm' = IF active = current THEN "keep" ELSE "recover"
  /\ UNCHANGED <<payload, active, staged, grub, run, web, read, faults>>

\* The running slot is the recorded one: state.json is written as it was read.
Keep ==
  /\ confirm = "keep" /\ confirm' = "done" /\ read' = NoSlot
  /\ staged' = read
  /\ UNCHANGED <<payload, active, grub, run, web, faults>>

\* Mutant: the slot that came up is not recorded.
RecoverNothing ==
  /\ confirm = "recover" /\ confirm' = "drop"
  /\ UNCHANGED <<payload, active, staged, grub, run, web, read, faults>>

\* GRUB fell back: the slot that came up becomes the default ...
Recover ==
  /\ confirm = "recover" /\ confirm' = "drop"
  /\ active' = current
  /\ UNCHANGED <<payload, staged, grub, run, web, read, faults>>

\* ... and the update that did not is forgotten.
Drop ==
  /\ confirm = "drop" /\ confirm' = "done" /\ read' = NoSlot
  /\ staged' = NoSlot
  /\ UNCHANGED <<payload, active, grub, run, web, faults>>

\* An error return; the service is not started again before the next boot.
ConfirmFails ==
  /\ confirm \notin {"off", "done", "failed"} /\ faults < MaxFaults
  /\ confirm' = "failed" /\ read' = NoSlot /\ faults' = faults + 1
  /\ UNCHANGED <<payload, active, staged, grub, run, web>>

-----------------------------------------------------------------------------
\* As build-image.sh leaves it, switched off.
Init ==
  /\ root = [s \in Slots |-> Factory] /\ kernel = root /\ initrd = root
  /\ active = "a" /\ try = 0 /\ override = NoSlot /\ staged = NoSlot
  /\ mode = "off" /\ current = "a"
  /\ step = "idle" /\ bundle = Factory
  /\ confirm = "off" /\ read = NoSlot
  /\ requests = 0 /\ faults = 0 /\ streak = 0

Boot == Grub \/ ComesUp \/ PowerCycle

ConfirmBoot == ResetCounter \/ ReadState \/ Compare \/ Keep \/ Recover \/ Drop

Update ==
  \/ \E v \in Versions : Install(v)
  \/ WriteRoot \/ WriteKernel \/ WriteInitrd \/ StageRollback \/ Record \/ Commit \/ Fail

Next == Boot \/ PowerCut \/ Reboot \/ Update \/ ConfirmBoot \/ ConfirmFails

Spec == Init /\ [][Next]_vars

-----------------------------------------------------------------------------
(***************************************************************************)
(* Correctness.                                                            *)
(***************************************************************************)

\* The type invariant; steps are under way only in a system that is up.
TypeOK ==
  /\ root \in [Slots -> Versions \cup {Torn}]
  /\ kernel \in [Slots -> Versions] /\ initrd \in [Slots -> Versions]
  /\ {active, current} \subseteq Slots
  /\ {override, staged, read} \subseteq Slots \cup {NoSlot}
  /\ try \in 0 .. 2 /\ streak \in 0 .. 4
  /\ mode \in {"off", "loading", "up"} /\ bundle \in Versions
  /\ step \in {"idle", "root", "kernel", "initrd", "record", "commit"}
  /\ confirm \in {"off", "reset", "read", "compare", "keep", "recover", "drop",
                  "done", "failed"}
  /\ requests \in 0 .. MaxRequests /\ faults \in 0 .. MaxFaults
  /\ mode # "up" => step = "idle" /\ confirm = "off"

\* ADR 0004, "each fault turned a recoverable mistake into a device that has to
\* be opened and reflashed": whatever is installed, however often, and wherever
\* the power goes, one slot is left that boots.
AWorkingSlotRemains == \E s \in Slots : Healthy(s)

\* docs/architecture.md, "the inactive root is written only while installing":
\* seen through the slots that boot and the one that is up, all of this is
\* TwoSlots, where an update never touches what the appliance runs from.
Promise == INSTANCE TwoSlots WITH
  good    <- {s \in Slots : Healthy(s)},
  running <- IF mode = "up" THEN current ELSE NoSlot

KeepsPromise == Promise!Spec

\* grub.cfg, "three unconfirmed attempts in a row select the other slot": a slot
\* that does not come up is never loaded a fourth time in a row, whatever the
\* counter and the override were left at by earlier boots and requests.
NoFourthAttempt == ~Healthy(current) => streak <= 3

-----------------------------------------------------------------------------
(***************************************************************************)
(* Fairness.  The boot loader and the kernel run, OpenRC starts the        *)
(* confirmation and it runs to its end, and somebody, or the watchdog,     *)
(* cycles the power of an appliance that does not come up.  Nobody has to  *)
(* ask for anything.                                                       *)
(***************************************************************************)
FairSpec == Spec /\ WF_vars(Boot) /\ WF_vars(ConfirmBoot) /\ WF_vars(Update)

\* A headless appliance "that never reaches userspace cannot be recovered by
\* hand": it always reaches userspace again by itself.
Recovers == mode # "up" ~> mode = "up"

\* ADR 0004, "so the appliance settles on the slot that works instead of
\* alternating": once nothing new is asked for and nothing fails any more, every
\* boot is one of a slot that works, at the first attempt.
Settles == <>[](mode # "off" => Healthy(current))

=============================================================================
