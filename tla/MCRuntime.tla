----------------------------- MODULE MCRuntime ------------------------------
(***************************************************************************)
(* Small instances of Runtime.                                             *)
(***************************************************************************)
EXTENDS Runtime, TLC

Of(type, action) == [type |-> type, action |-> action, span |-> 2, ticks |-> 1]

\* Actions on their own and inside a step, and every other kind of request.
AllBodies == {Of("act", a) : a \in {"move", "navigate", "mine", "craft", "cancel", "batch"}}
               \cup {Of("step", "mine"), Of("step", "instant"), Of("advance", "none"),
                     Of("reset", "none"), Of("open_world", "none"), Of("other", "none")}

Symmetry == Permutations(Requests)
=============================================================================
