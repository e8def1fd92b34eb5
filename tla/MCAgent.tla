------------------------------ MODULE MCAgent -------------------------------
(* A model priced at one unit for a token from the cache or of the output  *)
(* and at two for one that missed it, its prompts bounded by two tokens    *)
(* and its answers by one.                                                 *)
EXTENDS Agent

SmallUsages ==
  {[hit |-> 1, miss |-> 0, output |-> 0], [hit |-> 1, miss |-> 1, output |-> 0],
   [hit |-> 0, miss |-> 2, output |-> 1]}
=============================================================================
