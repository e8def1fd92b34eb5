------------------------------ MODULE Rewards -------------------------------
(***************************************************************************)
(* RewardAccountant (rewards.py): what one transition is paid.  A task has *)
(* at most one component of each kind, measured by one reading of its      *)
(* predicate; weights and scales are one.  The discount is one half, and a *)
(* payout of the potential is kept doubled, so that it is an integer.      *)
(***************************************************************************)
EXTENDS Integers

CONSTANTS
  Sparse,  \* weight of SPARSE_SUCCESS
  Cap      \* cap of the HIGH_WATER component

ASSUME RewardAssumption == Sparse \in Nat /\ Cap \in Nat

Least(a, b) == IF a < b THEN a ELSE b
Most(a, b)  == IF a > b THEN a ELSE b

(* _high_water, _paid and _potential.                                      *)
Accounts == [high : Nat, paid : Nat, potential : Nat]

(* RewardAccountant.reset: the first reading is the mark nothing is paid for. *)
Opened(value) == [high |-> value, paid |-> 0, potential |-> value]

(* Mutation: the mark follows the reading down, and a second rise is paid. *)
HighFollowing(account, value) == value

(* The high-water mark after a reading.                                    *)
High(account, value) == Most(account.high, value)

(* What the reading pays: the rise above the mark, within what the cap leaves. *)
Gain(account, value) ==
  Most(0, Least(Most(0, value - account.high), Cap - account.paid))

(* Twice gamma * phi(s') - phi(s); an absorbing state is worth nothing.    *)
Shaped(account, value, terminated) ==
  (IF terminated THEN 0 ELSE value) - 2 * account.potential

(* RewardAccountant.step: the accounts after it and the transition's pay.  *)
Accounted(account, kinds, value, succeeded, terminated) ==
  LET gain == IF "high" \in kinds THEN Gain(account, value) ELSE 0 IN
  [account |-> [high |-> IF "high" \in kinds THEN High(account, value) ELSE account.high,
                paid |-> account.paid + gain,
                potential |-> IF "potential" \in kinds THEN value ELSE account.potential],
   plain   |-> (IF succeeded THEN Sparse ELSE 0) + gain
                 - (IF "cost" \in kinds THEN 1 ELSE 0),
   shape   |-> IF "potential" \in kinds THEN Shaped(account, value, terminated) ELSE 0]
=============================================================================
