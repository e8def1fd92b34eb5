---------------------------- MODULE MCProduction ----------------------------
(***************************************************************************)
(* Small instances of Production.                                          *)
(***************************************************************************)
EXTENDS Production
=============================================================================
