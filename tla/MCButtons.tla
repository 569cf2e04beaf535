----------------------------- MODULE MCButtons -----------------------------
(***************************************************************************)
(* Instances of Buttons for TLC.                                           *)
(***************************************************************************)
EXTENDS Buttons
=============================================================================
