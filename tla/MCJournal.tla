----------------------------- MODULE MCJournal -----------------------------
(***************************************************************************)
(* Instances of Journal for TLC.  The device loop is joined, the goroutine *)
(* of the opening questions and of the ladders is not.                     *)
(***************************************************************************)
EXTENDS Journal
=============================================================================
