----------------------------- MODULE MCSession ------------------------------
(***************************************************************************)
(* A caller that steps and begins episodes, as FactorioEnv does.           *)
(***************************************************************************)
EXTENDS Session

Of(type, action) == [type |-> type, action |-> action, span |-> 2, ticks |-> 1]

StepBodies == {Of("step", a) : a \in {"navigate", "mine", "cancel"}}
                \cup {Of("open_world", "none")}
=============================================================================
