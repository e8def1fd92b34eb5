----------------------------- MODULE MCWorkers ------------------------------
(***************************************************************************)
(* Small instances of Workers.                                             *)
(***************************************************************************)
EXTENDS Workers

(* One run starts a worker and restarts it, or starts another; the other   *)
(* run, which stands for everybody else, starts one.                       *)
TwoAndOne == [r \in Runs |-> IF r = CHOOSE s \in Runs : TRUE THEN 2 ELSE 1]
=============================================================================
