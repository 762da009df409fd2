----------------------------- MODULE MCHandover -----------------------------
(***************************************************************************)
(* Instances of Handover for TLC: ser2net with one set of settings and     *)
(* laserbridged with two, and two Wi-Fi sections.                          *)
(***************************************************************************)
EXTENDS Handover

MCDefaultGrbl == [backend |-> "ser2net", baudrate |-> 1]
MCSettings == {MCDefaultGrbl} \cup [backend : {"laserbridged"}, baudrate : {1, 2}]
MCWifis == [ssid : {1, 2}]
MCChoices == {[password |-> TRUE, key |-> None]}
               \cup [password : {FALSE}, key : Keys]

\* Which of two equals an appliance starts with makes no difference, one that is
\* set up does what another does on which nobody completes the setup, and ser2net
\* is one request away.
MCInit ==
  /\ Init
  /\ stored.wifi.ssid = 1 /\ ~stored.ready
  /\ stored.grbl = [backend |-> "laserbridged", baudrate |-> 1]
MCSpec == MCInit /\ [][Next]_vars /\ Fairness
=============================================================================
