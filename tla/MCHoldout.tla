----------------------------- MODULE MCHoldout ------------------------------
(***************************************************************************)
(* Small instances of Holdout.                                             *)
(***************************************************************************)
EXTENDS Holdout
=============================================================================
