---------------------------- MODULE AgentMemory -----------------------------
(***************************************************************************)
(* What the agent's memory (agent/memory.py) keeps of the actions tried:   *)
(* a list of attempts [act, failed, at], `at' being the step they were     *)
(* recorded under.  The verb, its addressee and its arguments, an          *)
(* attempt's signature, are one value `act'.                               *)
(***************************************************************************)
EXTENDS Naturals, FiniteSets, Sequences

CONSTANTS
  Kept,       \* ATTEMPTS_KEPT: successes that survive a compaction
  Threshold   \* STALL_THRESHOLD: identical failures that make a stall

ASSUME MemoryAssumption == Kept \in Nat /\ Threshold \in Nat \ {0}

(* The failures of an act since its last success.                          *)
FailuresSince(attempts, act) ==
  {i \in DOMAIN attempts :
     /\ attempts[i].act = act /\ attempts[i].failed
     /\ \A j \in i .. Len(attempts) : attempts[j].act = act => attempts[j].failed}

(* repeated_failures.                                                      *)
Repeated(attempts) ==
  {act \in {attempts[i].act : i \in DOMAIN attempts} :
     Cardinality(FailuresSince(attempts, act)) >= Threshold}

(* The elements of S, each after those it comes before.                    *)
Ordered(S, before(_, _)) ==
  [k \in 1 .. Cardinality(S) |->
     CHOOSE i \in S : Cardinality({j \in S : before(j, i)}) = k - 1]

Successes(attempts) == {i \in DOMAIN attempts : ~attempts[i].failed}

(* Mutation: failures are bounded as successes are.                        *)
CompactedAlike(attempts) ==
  SubSeq(attempts, IF Len(attempts) > Kept + 1 THEN Len(attempts) - Kept ELSE 1, Len(attempts))

(* compact: every failure and the last successes, sorted by their step;    *)
(* the sort is stable, and the failures come first in what it is given.    *)
Compacted(attempts) ==
  LET recent == {i \in Successes(attempts) :
                   Cardinality({j \in Successes(attempts) : j > i}) < Kept}
      before(i, j) ==
        \/ attempts[i].at < attempts[j].at
        \/ /\ attempts[i].at = attempts[j].at
           /\ \/ attempts[i].failed /\ ~attempts[j].failed
              \/ attempts[i].failed = attempts[j].failed /\ i < j
      order == Ordered((DOMAIN attempts \ Successes(attempts)) \cup recent, before)
  IN [k \in DOMAIN order |-> attempts[order[k]]]
=============================================================================
