------------------------------ MODULE TwoSlots ------------------------------
(***************************************************************************)
(* What the two system slots promise, without boot loader, counter or      *)
(* files (docs/architecture.md, "System updates", and ADR 0004): the       *)
(* appliance only ever comes up from a slot that boots, and while it is up *)
(* nothing happens to that slot, whatever becomes of the other one.        *)
(***************************************************************************)
CONSTANTS Slots, NoSlot

VARIABLES
  good,    \* the slots that boot
  running  \* the slot the appliance is up from, or NoSlot

Init == good = Slots /\ running = NoSlot

Rise == running = NoSlot /\ running' \in good /\ UNCHANGED good

Fall == running' = NoSlot /\ UNCHANGED good

\* An update, begun or finished or abandoned.
Change == running \in good' /\ good' \subseteq Slots /\ UNCHANGED running

Next == Rise \/ Fall \/ Change

Spec == Init /\ [][Next]_<<good, running>>

=============================================================================
