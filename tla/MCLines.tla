------------------------------ MODULE MCLines ------------------------------
(***************************************************************************)
(* Instances of Lines for TLC.  Two connections that displace one another  *)
(* over ports that come and go, and an operator beside one connection, are *)
(* two cases of one run; the other run is the way to an answer that nobody *)
(* earned.                                                                 *)
(***************************************************************************)
EXTENDS Lines

One == CHOOSE c \in Clients : TRUE

Ended(p) == IF p < MaxOpens THEN "ended" ELSE "asked"

\* Nobody at the web interface: from the start, with no reset left to happen.
NobodyAsks ==
  /\ op = Nobody /\ resets = MaxResets
  /\ port = 0 /\ opens = 0 /\ heard = FALSE /\ gate = FALSE
  /\ probe = [p \in 1 .. MaxOpens |-> "none"]
  /\ conn = [c \in Clients |-> "away"]
  /\ rx = <<>> /\ clean = TRUE

\* An operator: all connections but one have come and gone, and the last of the
\* ports is open and has just been asked the opening questions.
SomebodyAsks ==
  /\ op = Quiet /\ resets = 0
  /\ port = MaxOpens /\ opens = MaxOpens /\ heard = TRUE /\ gate = FALSE
  /\ probe = [p \in 1 .. MaxOpens |-> Ended(p)]
  /\ conn = [d \in Clients |-> IF d = One THEN "away" ELSE "gone"]
  /\ rx = <<TheQuestion>> /\ clean = FALSE

MCInit ==
  /\ NobodyAsks \/ SomebodyAsks
  /\ tx = <<>> /\ relayed = FALSE /\ laser = FALSE
  /\ client = NoClient /\ pending = <<>> /\ desynced = FALSE
  /\ injected = <<>> /\ hand = "none" /\ missed = FALSE
  /\ lines = 0 /\ chunk = [c \in Clients |-> 0]

MCSpec == MCInit /\ [][Next]_vars /\ Fairness
=============================================================================
