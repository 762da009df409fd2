---------------------------- MODULE MCBootSlots ----------------------------
(***************************************************************************)
(* Instances of BootSlots for TLC: three images, one of which never comes  *)
(* up, so that an update can be a good one, a bad one or the same again.   *)
(***************************************************************************)
EXTENDS BootSlots
=============================================================================
