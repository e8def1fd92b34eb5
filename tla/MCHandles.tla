----------------------------- MODULE MCHandles ------------------------------
(***************************************************************************)
(* A small world for Handles: two machines; an ore tile and a pile that    *)
(* falls on it; two kinds of tree on another tile.                         *)
(***************************************************************************)
EXTENDS Handles, TLC

CONSTANTS ore, pile, oak, pine, here, there

At(t, ty, n) == [tile |-> t, type |-> ty, name |-> n]

MCWhat == ore :> At(here, "resource", "iron-ore")
       @@ pile :> At(here, "item-entity", "item-on-ground")
       @@ oak :> At(there, "tree", "tree-01")
       @@ pine :> At(there, "tree", "tree-02")

LooseWhat == [e \in Loose |-> MCWhat[e]]

Symmetry == Permutations(Units)
=============================================================================
