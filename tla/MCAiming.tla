------------------------------ MODULE MCAiming ------------------------------
(***************************************************************************)
(* An instance of Aiming for TLC: two requests at a time from one session, *)
(* which may release what either of them has taken, beside a client, the   *)
(* watchdog and an adapter that can go.                                    *)
(***************************************************************************)
EXTENDS Aiming
=============================================================================
