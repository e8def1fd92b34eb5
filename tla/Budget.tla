------------------------------- MODULE Budget -------------------------------
(***************************************************************************)
(* The spend cap of an agent (agent/budget.py, pricing.py): the worst case *)
(* of one call is held before it is sent, and what the provider reports it *)
(* cost replaces the hold.  Providers report in different shapes, and the  *)
(* normalisation of these is part of what makes the sum an upper bound.    *)
(***************************************************************************)
EXTENDS Integers

CONSTANTS
  HitRate, MissRate, OutputRate,  \* the prices of one model
  Cap,                            \* cap_usd
  InputBound,                     \* estimate_input_tokens of a request
  OutputBound,                    \* max_output_tokens
  Absent                          \* a key that a report does not have

ASSUME BudgetAssumption ==
  /\ HitRate \in Nat /\ MissRate \in Nat /\ OutputRate \in Nat /\ HitRate <= MissRate
  /\ Cap \in Nat /\ InputBound \in Nat /\ OutputBound \in Nat
  /\ Absent \notin Int

AtLeast0(n) == IF n < 0 THEN 0 ELSE n

(* The keys of the reports, whatever a provider calls them.                *)
Keys == {"total", "output", "hit", "miss", "read", "written", "cached"}

NoUsage == [k \in Keys |-> Absent]

(* What providers say of a call that used u: nothing; totals; a split of   *)
(* the prompt with or without its miss, as DeepSeek; reads beside the      *)
(* fresh input, as Anthropic; a nested cached count, as OpenAI.            *)
Reports(u) ==
  LET all == [NoUsage EXCEPT !.total = u.hit + u.miss, !.output = u.output] IN
  {NoUsage, all,
   [all EXCEPT !.hit = u.hit, !.miss = u.miss],
   [all EXCEPT !.hit = u.hit],
   [all EXCEPT !.total = u.miss, !.read = u.hit],
   [all EXCEPT !.cached = u.hit]}

Given(x) == IF x = Absent THEN 0 ELSE x

Counted(hit, miss, output) ==
  [hit |-> hit, miss |-> miss, output |-> output, reported |-> TRUE]

(* Mutation: without a split the input counts as served from the cache.    *)
UnsplitAsHit(report) ==
  [Counted(Given(report.total), 0, Given(report.output)) EXCEPT
     !.reported = report.total # Absent \/ Given(report.output) # 0]

(* Input without a split counts as missed; without a count nothing is known. *)
Unsplit(report) ==
  [Counted(0, Given(report.total), Given(report.output)) EXCEPT
     !.reported = report.total # Absent \/ Given(report.output) # 0]

(* normalise_usage: the shapes are tried in this order.                    *)
Normalised(report) ==
  LET hit    == Given(report.hit)
      all    == IF Given(report.total) = 0 THEN hit ELSE report.total
      output == Given(report.output)
  IN IF report.hit # Absent \/ report.miss # Absent
     THEN Counted(hit, IF report.miss = Absent THEN AtLeast0(all - hit) ELSE report.miss, output)
     ELSE IF report.read # Absent \/ report.written # Absent
     THEN Counted(Given(report.read), Given(report.total) + Given(report.written), output)
     ELSE IF report.cached # Absent /\ report.total # Absent
     THEN Counted(report.cached, AtLeast0(report.total - report.cached), output)
     ELSE Unsplit(report)

(* cost_usd and worst_case_usd.                                            *)
Cost(u) == u.hit * HitRate + u.miss * MissRate + u.output * OutputRate

WorstCase == InputBound * MissRate + OutputBound * OutputRate

NewBudget == [committed |-> 0, held |-> 0]

(* Budget.reserve refuses a call whose worst case does not fit any more.   *)
Affordable(b) == b.committed + WorstCase <= Cap

Reserved(b) == [b EXCEPT !.held = WorstCase]

(* Budget.settle: the report replaces the hold, or the hold is spent.      *)
Settled(b, report) ==
  [committed |-> b.committed + (IF Normalised(report).reported
                                THEN Cost(Normalised(report)) ELSE b.held),
   held |-> 0]
=============================================================================
