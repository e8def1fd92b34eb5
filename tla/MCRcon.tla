------------------------------- MODULE MCRcon -------------------------------
(***************************************************************************)
(* Small instances of Rcon.                                                *)
(***************************************************************************)
EXTENDS Rcon, TLC

Symmetry == Permutations(Threads)
=============================================================================
