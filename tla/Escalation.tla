----------------------------- MODULE Escalation -----------------------------
(***************************************************************************)
(* What one intervention after the other promises whoever is near the      *)
(* machine, without controller, reports, waits and faults: one is under    *)
(* way at a time, a policy that forbids commands is kept, the sender is    *)
(* sent away before the first command unless it is the one who has left,   *)
(* and no command is sent a second time before the intervention is over.   *)
(***************************************************************************)
EXTENDS Naturals

CONSTANTS
  Rungs,           \* the commands
  Causes, NoCause, \* why the bridge intervenes; it does not
  Departure,       \* the cause that leaves no sender to be sent away
  MayCommand       \* does the policy let it command the machine?

VARIABLES
  cause,  \* why it intervenes now
  alone,  \* has it sent the sender away?
  sent,   \* the commands it has sent
  sends   \* how often it has sent one

vars == <<cause, alone, sent, sends>>

Nothing == alone = FALSE /\ sent = {} /\ sends = 0

Init == cause = NoCause /\ Nothing

Begin == cause = NoCause /\ cause' \in Causes /\ UNCHANGED <<alone, sent, sends>>

SendAway ==
  /\ cause \in Causes \ {Departure} /\ MayCommand
  /\ alone' = TRUE /\ UNCHANGED <<cause, sent, sends>>

Command ==
  /\ cause # NoCause /\ MayCommand /\ (alone \/ cause = Departure)
  /\ \E r \in Rungs \ sent : sent' = sent \cup {r}
  /\ sends' = sends + 1 /\ UNCHANGED <<cause, alone>>

End == cause' = NoCause /\ Nothing'

Next == Begin \/ SendAway \/ Command \/ End

Spec == Init /\ [][Next]_vars

=============================================================================
