---------------------------- MODULE AgentProofs -----------------------------
(***************************************************************************)
(* What Agent promises of money, of steps and of memory, for any prices,   *)
(* cap, acts, bounds and usages.                                           *)
(*                                                                         *)
(* Money: whatever shape a provider reports in, a call is charged at least *)
(* what it used and at most what was held for it.                          *)
(*                                                                         *)
(* Memory: what compact keeps of what memory recalls is what is to be kept *)
(* of all that was tried, because memory misses no failure, and no success *)
(* that follows one it has.                                                *)
(***************************************************************************)
EXTENDS Agent, FiniteSetTheorems, FunctionTheorems, SequenceTheorems, TLAPS

(* What a call may use.                                                    *)
Usage(u) ==
  /\ u.hit \in Nat /\ u.miss \in Nat /\ u.hit + u.miss <= InputBound
  /\ u.output \in 0 .. OutputBound

Charge(report) ==
  IF Normalised(report).reported THEN Cost(Normalised(report)) ELSE WorstCase

-----------------------------------------------------------------------------
(* A larger factor makes a larger product.                                 *)
LEMMA TimesMonotone ==
  ASSUME NEW m \in Nat, NEW n \in Nat, NEW k \in Nat, m <= n
  PROVE  m * k <= n * k /\ k * m <= k * n /\ m * k \in Nat /\ n * k \in Nat /\ k * m \in Nat /\ k * n \in Nat
  <1>1. n * k = m * k + (n - m) * k /\ (n - m) * k >= 0 /\ m * k \in Int /\ n * k \in Int
    OBVIOUS
  <1>2. m * k >= 0 /\ n * k >= 0 /\ k * m = m * k /\ k * n = n * k
    OBVIOUS
  <1> QED  BY <1>1, <1>2

(* The six shapes: a report without a count, one whose input counts as     *)
(* missed, and those that tell what was used.                              *)
LEMMA NormalisedReport ==
  ASSUME NEW u, Usage(u), NEW report \in Reports(u)
  PROVE  \/ ~Normalised(report).reported
         \/ Normalised(report) = Counted(u.hit, u.miss, u.output)
         \/ Normalised(report) = Counted(0, u.hit + u.miss, u.output)
  <1> USE BudgetAssumption DEF Usage
  <1> DEFINE all == [NoUsage EXCEPT !.total = u.hit + u.miss, !.output = u.output]
  <1>1. CASE report = NoUsage
    <2>1. /\ report.total = Absent /\ report.output = Absent /\ report.hit = Absent /\ report.miss = Absent
          /\ report.read = Absent /\ report.written = Absent /\ report.cached = Absent
      BY <1>1 DEF NoUsage, Keys
    <2>2. report.total = Absent /\ Given(report.output) = 0
      BY <2>1 DEF Given
    <2> QED  BY <2>1, <2>2 DEF Normalised, Unsplit, Counted
  <1>2. CASE report = all
    <2>1. /\ report.total = u.hit + u.miss /\ report.output = u.output /\ report.hit = Absent /\ report.miss = Absent
          /\ report.read = Absent /\ report.written = Absent /\ report.cached = Absent
      BY <1>2 DEF NoUsage, Keys
    <2>2. /\ Given(report.total) = u.hit + u.miss /\ Given(report.output) = u.output
          /\ report.total # Absent /\ report.output # Absent
      BY <2>1 DEF Given
    <2>3. Normalised(report) = Counted(0, u.hit + u.miss, u.output)
      BY <2>1, <2>2 DEF Normalised, Unsplit, Counted
    <2> QED  BY <2>3
  <1>3. CASE report = [all EXCEPT !.hit = u.hit, !.miss = u.miss]
    <2>1. /\ report.total = u.hit + u.miss /\ report.output = u.output /\ report.hit = u.hit /\ report.miss = u.miss
          /\ report.read = Absent /\ report.written = Absent /\ report.cached = Absent
      BY <1>3 DEF NoUsage, Keys
    <2>2. /\ Given(report.hit) = u.hit /\ Given(report.output) = u.output
          /\ report.total # Absent /\ report.output # Absent /\ report.hit # Absent /\ report.miss # Absent
      BY <2>1 DEF Given
    <2>3. Normalised(report) = Counted(u.hit, u.miss, u.output)
      BY <2>1, <2>2 DEF Normalised, Counted
    <2> QED  BY <2>3
  <1>4. CASE report = [all EXCEPT !.hit = u.hit]
    <2>1. /\ report.total = u.hit + u.miss /\ report.output = u.output /\ report.hit = u.hit /\ report.miss = Absent
          /\ report.read = Absent /\ report.written = Absent /\ report.cached = Absent
      BY <1>4 DEF NoUsage, Keys
    <2>2. /\ Given(report.total) = u.hit + u.miss /\ Given(report.hit) = u.hit /\ Given(report.output) = u.output
          /\ report.total # Absent /\ report.output # Absent /\ report.hit # Absent
      BY <2>1 DEF Given
    <2>3. AtLeast0((IF Given(report.total) = 0 THEN u.hit ELSE report.total) - u.hit) = u.miss
      BY <2>1, <2>2 DEF AtLeast0
    <2>4. Normalised(report) = Counted(u.hit, u.miss, u.output)
      BY <2>1, <2>2, <2>3 DEF Normalised
    <2> QED  BY <2>4
  <1>5. CASE report = [all EXCEPT !.total = u.miss, !.read = u.hit]
    <2>1. /\ report.total = u.miss /\ report.output = u.output /\ report.hit = Absent /\ report.miss = Absent
          /\ report.read = u.hit /\ report.written = Absent /\ report.cached = Absent
      BY <1>5 DEF NoUsage, Keys
    <2>2. /\ Given(report.total) = u.miss /\ Given(report.read) = u.hit
          /\ Given(report.written) = 0 /\ Given(report.output) = u.output
          /\ report.total # Absent /\ report.output # Absent /\ report.read # Absent
      BY <2>1 DEF Given
    <2>3. Given(report.total) + Given(report.written) = u.miss
      BY <2>2
    <2>4. Normalised(report) = Counted(u.hit, u.miss, u.output)
      BY <2>1, <2>2, <2>3 DEF Normalised
    <2> QED  BY <2>4
  <1>6. CASE report = [all EXCEPT !.cached = u.hit]
    <2>1. /\ report.total = u.hit + u.miss /\ report.output = u.output /\ report.hit = Absent /\ report.miss = Absent
          /\ report.read = Absent /\ report.written = Absent /\ report.cached = u.hit
      BY <1>6 DEF NoUsage, Keys
    <2>2. /\ Given(report.output) = u.output
          /\ report.total # Absent /\ report.output # Absent /\ report.cached # Absent
      BY <2>1 DEF Given
    <2>3. AtLeast0(report.total - report.cached) = u.miss
      BY <2>1 DEF AtLeast0
    <2>4. Normalised(report) = Counted(report.cached, u.miss, u.output)
      BY <2>1, <2>2, <2>3 DEF Normalised
    <2> QED  BY <2>1, <2>4
  <1> QED  BY <1>1, <1>2, <1>3, <1>4, <1>5, <1>6 DEF Reports

(* A call is charged at least what it used and at most what was held.      *)
LEMMA ChargeBounds ==
  ASSUME NEW u, Usage(u), NEW report \in Reports(u)
  PROVE  /\ Cost(u) \in Nat /\ Charge(report) \in Nat /\ WorstCase \in Nat
         /\ Cost(u) <= Charge(report) /\ Charge(report) <= WorstCase
  <1> USE BudgetAssumption DEF Usage
  <1> DEFINE h == u.hit * HitRate  s == u.hit * MissRate  m == u.miss * MissRate
             i == InputBound * MissRate  o == u.output * OutputRate  b == OutputBound * OutputRate
             a == (u.hit + u.miss) * MissRate
  <1>1. h \in Nat /\ s \in Nat /\ m \in Nat /\ o \in Nat /\ a \in Nat /\ i \in Nat /\ b \in Nat
    BY TimesMonotone
  <1>2. h <= s
    BY TimesMonotone
  <1>3. a <= i
    BY TimesMonotone
  <1>4. o <= b
    BY TimesMonotone
  <1>5. a = s + m
    OBVIOUS
  <1>6. Cost(u) = h + m + o /\ WorstCase = i + b
    BY DEF Cost, WorstCase
  <1> HIDE DEF h, s, m, i, o, b, a
  <1>7. CASE ~Normalised(report).reported
    BY <1>1, <1>2, <1>3, <1>4, <1>5, <1>6, <1>7 DEF Charge
  <1>8. CASE Normalised(report) = Counted(u.hit, u.miss, u.output)
    <2>1. Charge(report) = h + m + o
      BY <1>8 DEF Charge, Counted, Cost, h, m, o
    <2> QED  BY <1>1, <1>2, <1>3, <1>4, <1>5, <1>6, <2>1
  <1>9. CASE Normalised(report) = Counted(0, u.hit + u.miss, u.output)
    <2>1. Charge(report) = a + o
      <3>1. 0 * HitRate = 0
        OBVIOUS
      <3> QED  BY <1>9, <1>1, <3>1 DEF Charge, Counted, Cost, a, o
    <2> QED  BY <1>1, <1>2, <1>3, <1>4, <1>5, <1>6, <2>1
  <1> QED  BY <1>7, <1>8, <1>9, NormalisedReport

-----------------------------------------------------------------------------
(* Only a call that is out holds money, and it holds all it can cost.      *)
MoneyInv ==
  /\ budget \in [committed : Nat, held : Nat]
  /\ budget.held = (IF at = "answer" THEN WorstCase ELSE 0)
  /\ unpaid = FALSE /\ budget.committed + budget.held <= Cap

(* The end of a call, however it ends.                                     *)
LEMMA SettlesOK ==
  ASSUME MoneyInv, at = "answer", at' # "answer", Settles(TRUE) \/ Settles(FALSE)
  PROVE  MoneyInv'
  <1>1. PICK used \in Usages :
          \E report \in Reports(used) :
            /\ budget' = Settled(budget, report)
            /\ unpaid' = (unpaid \/ budget'.committed < budget.committed + Cost(used))
    BY DEF Settles, Reports
  <1>2. PICK report \in Reports(used) :
          /\ budget' = Settled(budget, report)
          /\ unpaid' = (unpaid \/ budget'.committed < budget.committed + Cost(used))
    BY <1>1
  <1>3. Usage(used)
    BY AgentAssumption DEF Usage
  <1>4. /\ Cost(used) \in Nat /\ Charge(report) \in Nat /\ WorstCase \in Nat
        /\ Cost(used) <= Charge(report) /\ Charge(report) <= WorstCase
    BY <1>3, ChargeBounds
  <1>5. budget' = [committed |-> budget.committed + Charge(report), held |-> 0]
    BY <1>2 DEF Settled, Charge, MoneyInv
  <1>6. ~(budget'.committed < budget.committed + Cost(used))
    BY <1>4, <1>5 DEF MoneyInv
  <1>7. unpaid' = FALSE
    BY <1>2, <1>6 DEF MoneyInv
  <1>8. budget.committed \in Nat /\ budget.committed + WorstCase <= Cap /\ Cap \in Nat
    BY BudgetAssumption DEF MoneyInv
  <1> QED  BY <1>4, <1>5, <1>7, <1>8 DEF MoneyInv

(* Money stays accounted for in every step.                                *)
LEMMA MoneyStep ==
  ASSUME MoneyInv, [Next]_vars
  PROVE  MoneyInv'
  <1>1. CASE UNCHANGED vars
    BY <1>1 DEF vars, MoneyInv
  <1>2. CASE Send
    <2>1. WorstCase \in Nat
      BY BudgetAssumption, TimesMonotone DEF WorstCase
    <2> QED  BY <1>2, <2>1, BudgetAssumption DEF Send, Affordable, Reserved, MoneyInv
  <1>3. CASE Accept
    BY <1>3, SettlesOK DEF Accept
  <1>4. CASE Reject
    BY <1>4, SettlesOK DEF Reject, Missed
  <1>5. CASE CallFails
    BY <1>5, SettlesOK DEF CallFails, Missed
  <1>6. CASE CallRaises
    BY <1>6, SettlesOK DEF CallRaises, Fail
  <1>7. CASE Expire
    BY <1>7 DEF Expire, MoneyInv
  <1>8. CASE Reset \/ Decide \/ Refuse \/ Run \/ RefuseStale \/ EndSequence \/ StepRaises
             \/ RepeatWait \/ EndDecision \/ EndEpisode
    BY <1>8 DEF Reset, Decide, Refuse, Missed, Run, RefuseStale, EndSequence, StepRaises, Fail,
       RepeatWait, EndDecision, EndEpisode, MoneyInv
  <1> QED  BY <1>1, <1>2, <1>3, <1>4, <1>5, <1>6, <1>7, <1>8 DEF Next, Loop

(* For any prices, cap and usages within the bounds of a call: what was    *)
(* committed covers what the calls cost, and never passes the cap.         *)
THEOREM SpendUnderCap == Spec => []SpendAccounted
  <1>1. Init => MoneyInv
    BY BudgetAssumption DEF Init, NewBudget, MoneyInv
  <1>2. MoneyInv => SpendAccounted
    BY DEF MoneyInv, SpendAccounted
  <1> QED  BY <1>1, <1>2, MoneyStep, PTL DEF Spec

-----------------------------------------------------------------------------
OutcomeType == [act : Acts, ran : BOOLEAN, failed : BOOLEAN]

TriedType == [act : Acts, failed : BOOLEAN]

DecisionType ==
  [calls : Nat, asked : Seq(Acts), by : {"none", "model", "fallback"},
   outcomes : Seq(OutcomeType), refused : Seq(Acts), batched : Nat]

(* The types of what counts steps.                                         *)
Types ==
  /\ at \in {"reset", "decide", "ask", "answer", "run", "wait", "over", "done"}
  /\ steps \in Nat /\ late \in Nat /\ env.steps \in Nat
  /\ decision \in DecisionType /\ tried \in Seq(TriedType)

(* The loop's count and the environment's.                                 *)
Counts ==
  /\ env.steps <= StepBudget
  /\ at \in {"decide", "ask", "answer", "wait", "over"} => steps = env.steps
  /\ at = "run" => env.steps = steps + Cardinality(Ran(decision))

(* A decision that is being made has not begun, and only one that was made *)
(* before the deadline begins.                                             *)
Making ==
  /\ at = "reset" => late = 0 /\ decision = NoDecision
  /\ at = "over" => decision = NoDecision
  /\ at \in {"decide", "ask", "answer"} =>
       late = 0 /\ ~env.over /\ decision.outcomes = << >> /\ decision.batched = 0
  /\ at \in {"ask", "answer"} => steps < StepBudget

(* A decision that was made: its acts, the last of which was tried last.   *)
Made ==
  /\ at \in {"run", "wait"} =>
       /\ decision.asked # << >> /\ Len(decision.outcomes) <= Len(decision.asked)
       /\ decision.by = "model" => decision.refused = << >>
       /\ decision.outcomes # << >> =>
            tried # << >> /\ tried[Len(tried)].act = decision.asked[Len(decision.outcomes)]
  /\ at = "run" =>
       /\ decision.batched = 0 /\ late <= 1
       /\ decision.outcomes = << >> => late = 0 /\ ~env.over /\ steps < StepBudget
  /\ at = "wait" =>
       /\ decision.outcomes # << >> /\ decision.batched <= WaitBatch
       /\ late <= 1 + decision.batched
       /\ 0 < decision.batched => decision.asked = <<Wait>> /\ decision.by = "model"

Late ==
  /\ 0 < late => expired
  /\ late <= 1 \/ (late <= 1 + WaitBatch /\ tried # << >> /\ tried[Len(tried)].act = Wait)

StepsInv == Types /\ Counts /\ Making /\ Made /\ Late

(* A replied sequence of acts.                                             *)
LEMMA RepliesAreSequences ==
  ASSUME NEW reply \in Replies
  PROVE  reply \in Seq(Acts) /\ reply # << >>
  <1>1. PICK n \in 1 .. MaxActs : reply \in [1 .. n -> Acts]
    BY DEF Replies
  <1>2. n \in Nat /\ 1 <= n
    BY <1>1, AgentAssumption
  <1>3. reply \in Seq(Acts)
    BY <1>1, <1>2
  <1>4. DOMAIN reply = 1 .. n /\ 1 \in DOMAIN reply
    BY <1>1, <1>2
  <1>5. Len(reply) = n
    BY <1>2, <1>3, <1>4
  <1> QED  BY <1>2, <1>3, <1>5

(* What ran is counted act by act.                                         *)
LEMMA RanBounded ==
  ASSUME NEW d \in DecisionType
  PROVE  IsFiniteSet(Ran(d)) /\ Cardinality(Ran(d)) \in Nat /\ Cardinality(Ran(d)) <= Len(d.outcomes)
  <1>1. d.outcomes \in Seq(OutcomeType) /\ Len(d.outcomes) \in Nat
    BY DEF DecisionType
  <1>2. Ran(d) \subseteq 1 .. Len(d.outcomes)
    BY <1>1 DEF Ran
  <1>3. IsFiniteSet(1 .. Len(d.outcomes)) /\ Cardinality(1 .. Len(d.outcomes)) = Len(d.outcomes)
    BY <1>1, FS_Interval
  <1> QED  BY <1>2, <1>3, FS_Subset, FS_CardinalityType

(* What ran, after one more outcome.                                       *)
LEMMA RanGrows ==
  ASSUME NEW d \in DecisionType, NEW e \in DecisionType, NEW o \in OutcomeType,
         e.outcomes = Append(d.outcomes, o)
  PROVE  Cardinality(Ran(e)) = IF o.ran THEN Cardinality(Ran(d)) + 1 ELSE Cardinality(Ran(d))
  <1> DEFINE n == Len(d.outcomes)
  <1>1. d.outcomes \in Seq(OutcomeType) /\ n \in Nat
    BY DEF DecisionType
  <1>2. /\ DOMAIN d.outcomes = 1 .. n /\ DOMAIN e.outcomes = 1 .. n + 1
        /\ \A i \in 1 .. n : e.outcomes[i] = d.outcomes[i]
        /\ e.outcomes[n + 1] = o
    BY <1>1
  <1>3. IsFiniteSet(Ran(d)) /\ Cardinality(Ran(d)) \in Nat
    BY RanBounded
  <1>4. n + 1 \notin Ran(d)
    BY <1>1 DEF Ran
  <1>5. CASE o.ran
    <2>1. Ran(e) = Ran(d) \cup {n + 1}
      BY <1>1, <1>2, <1>5 DEF Ran
    <2> QED  BY <1>3, <1>4, <1>5, <2>1, FS_AddElement
  <1>6. CASE ~o.ran
    <2>1. Ran(e) = Ran(d)
      BY <1>1, <1>2, <1>6 DEF Ran
    <2> QED  BY <1>6, <2>1
  <1> QED  BY <1>5, <1>6

(* A decision of the fallback begins.                                      *)
LEMMA NothingRan ==
  ASSUME NEW d, d.outcomes = << >>
  PROVE  Cardinality(Ran(d)) = 0
  <1>1. Ran(d) = {}
    BY DEF Ran
  <1> QED  BY <1>1, FS_EmptySet

(* A run begins with nothing counted.                                      *)
LEMMA InitSteps == Init => StepsInv
  BY AgentAssumption DEF Init, StepsInv, Types, Counts, Making, Made, Late, DecisionType, NoDecision, TriedType

(* An attempt that came to nothing.                                        *)
LEMMA MissedSteps ==
  ASSUME StepsInv, at \in {"ask", "answer"}, NEW d \in DecisionType,
         d.outcomes = << >>, d.batched = 0, Missed(d),
         UNCHANGED <<steps, expired, env, tried, late>>
  PROVE  StepsInv'
  <1> USE AgentAssumption
  <1>1. Cardinality(Ran(Waited(d))) = 0
    BY NothingRan DEF Waited, DecisionType
  <1>2. CASE at' = "ask" /\ decision' = d
    BY <1>2 DEF StepsInv, Types, Counts, Making, Made, Late
  <1>3. CASE at' = "run" /\ decision' = Waited(d)
    <2>1. <<Wait>> \in Seq(Acts)
      OBVIOUS
    <2>2. /\ Waited(d) \in DecisionType /\ Waited(d).asked = <<Wait>> /\ Waited(d).by = "fallback"
          /\ Waited(d).outcomes = d.outcomes /\ Waited(d).batched = d.batched
      BY <2>1 DEF Waited, DecisionType
    <2>3. <<Wait>> # << >> /\ Len(<< >>) <= Len(<<Wait>>)
      OBVIOUS
    <2> QED  BY <1>1, <1>3, <2>2, <2>3 DEF StepsInv, Types, Counts, Making, Made, Late
  <1> QED  BY <1>2, <1>3 DEF Missed

(* Asking and answering count no step.                                     *)
LEMMA AskingSteps ==
  ASSUME StepsInv, Refuse \/ Send \/ Accept \/ Reject \/ CallFails
  PROVE  StepsInv'
  <1>1. /\ decision \in DecisionType /\ Called \in DecisionType
        /\ Called.outcomes = decision.outcomes /\ Called.batched = decision.batched
    <2>1. decision \in DecisionType
      BY DEF StepsInv, Types
    <2> QED  BY <2>1 DEF DecisionType, Called
  <1>2. CASE Refuse
    BY <1>1, <1>2, MissedSteps DEF Refuse, StepsInv, Making
  <1>3. CASE Send
    BY <1>1, <1>3 DEF Send, StepsInv, Types, Counts, Making, Made, Late
  <1>4. CASE Accept
    <2>1. PICK reply \in Replies :
            decision' = [decision EXCEPT !.asked = reply, !.by = "model", !.refused = << >>]
      BY <1>4 DEF Accept
    <2>2. reply \in Seq(Acts) /\ reply # << >> /\ << >> \in Seq(Acts) /\ Len(<< >>) <= Len(reply)
      BY RepliesAreSequences
    <2>3. /\ decision' \in DecisionType /\ decision'.asked = reply /\ decision'.refused = << >>
          /\ decision'.outcomes = decision.outcomes /\ decision'.batched = decision.batched
      BY <1>1, <2>1, <2>2 DEF DecisionType
    <2>4. decision.outcomes = << >> /\ decision.batched = 0
      BY <1>4 DEF Accept, StepsInv, Making
    <2>5. Cardinality(Ran(decision')) = 0
      BY <2>3, <2>4, NothingRan
    <2>6. /\ at = "answer" /\ at' = "run"
          /\ UNCHANGED <<steps, expired, env, tried, late>>
      BY <1>4 DEF Accept
    <2>7. Types'
      BY <2>3, <2>6 DEF StepsInv, Types
    <2>8. Counts' /\ Making' /\ Late'
      BY <2>3, <2>5, <2>6 DEF StepsInv, Types, Counts, Making, Late
    <2>9. Made'
      BY <2>2, <2>3, <2>4, <2>6 DEF StepsInv, Making, Made
    <2> QED  BY <2>7, <2>8, <2>9 DEF StepsInv
  <1>5. CASE Reject
    <2>1. PICK named \in {<< >>} \cup {<<a>> : a \in Acts \ {Wait}} :
            Missed([decision EXCEPT !.refused = @ \o named])
      BY <1>5 DEF Reject
    <2>2. decision.refused \o named \in Seq(Acts)
      <3>1. decision.refused \in Seq(Acts) /\ named \in Seq(Acts)
        <4>1. CASE named = << >>
          BY <1>1, <4>1 DEF DecisionType
        <4>2. CASE \E a \in Acts : named = <<a>>
          BY <1>1, <4>2 DEF DecisionType
        <4> QED  BY <2>1, <4>1, <4>2
      <3> QED  BY <3>1
    <2>3. /\ [decision EXCEPT !.refused = @ \o named] \in DecisionType
          /\ [decision EXCEPT !.refused = @ \o named].outcomes = decision.outcomes
          /\ [decision EXCEPT !.refused = @ \o named].batched = decision.batched
      BY <1>1, <2>2 DEF DecisionType
    <2> QED  BY <1>5, <2>1, <2>3, MissedSteps DEF Reject, StepsInv, Making
  <1>6. CASE CallFails
    BY <1>1, <1>6, MissedSteps DEF CallFails, StepsInv, Making
  <1> QED  BY <1>2, <1>3, <1>4, <1>5, <1>6

(* What became of the act whose turn it is.                                *)
LEMMA TriesNext ==
  ASSUME StepsInv, at = "run", ~Stopped, NEW ran \in BOOLEAN, NEW failed \in BOOLEAN,
         decision' = [decision EXCEPT !.outcomes = Append(@, Outcome(ran, failed))],
         Tries(decision.asked[Position], failed)
  PROVE  /\ decision' \in DecisionType /\ tried' \in Seq(TriedType) /\ tried' # << >>
         /\ decision'.outcomes # << >> /\ Len(decision'.outcomes) <= Len(decision.asked)
         /\ tried'[Len(tried')].act = decision.asked[Len(decision'.outcomes)]
         /\ decision'.asked = decision.asked /\ decision'.by = decision.by
         /\ decision'.refused = decision.refused /\ decision'.batched = decision.batched
         /\ Cardinality(Ran(decision')) =
              IF ran THEN Cardinality(Ran(decision)) + 1 ELSE Cardinality(Ran(decision))
  <1> DEFINE o == Outcome(ran, failed)  r == [act |-> decision.asked[Position], failed |-> failed]
  <1>1. /\ decision \in DecisionType /\ tried \in Seq(TriedType)
        /\ decision.outcomes \in Seq(OutcomeType) /\ decision.asked \in Seq(Acts)
    BY DEF StepsInv, Types, DecisionType
  <1>2. Position \in Nat \ {0} /\ Position <= Len(decision.asked)
    BY <1>1 DEF Position, Stopped
  <1>3. decision.asked[Position] \in Acts
    BY <1>1, <1>2
  <1>4. o \in OutcomeType /\ o.ran = ran /\ r \in TriedType /\ r.act = decision.asked[Position]
    BY <1>3 DEF Outcome, OutcomeType, TriedType
  <1>5. /\ Append(decision.outcomes, o) \in Seq(OutcomeType)
        /\ Len(Append(decision.outcomes, o)) = Position
    BY <1>1, <1>4, AppendProperties DEF Position
  <1>6. tried' \in Seq(TriedType) /\ Len(tried') = Len(tried) + 1 /\ tried'[Len(tried')] = r
    BY <1>1, <1>4, AppendProperties DEF Tries
  <1>7. /\ decision' \in DecisionType /\ decision'.outcomes = Append(decision.outcomes, o)
        /\ decision'.asked = decision.asked /\ decision'.by = decision.by
        /\ decision'.refused = decision.refused /\ decision'.batched = decision.batched
    BY <1>1, <1>5 DEF DecisionType
  <1>8. Cardinality(Ran(decision')) =
          IF ran THEN Cardinality(Ran(decision)) + 1 ELSE Cardinality(Ran(decision))
    <2>1. Cardinality(Ran(decision')) =
            IF o.ran THEN Cardinality(Ran(decision)) + 1 ELSE Cardinality(Ran(decision))
      BY <1>1, <1>4, <1>7, RanGrows
    <2>2. CASE ran = TRUE
      <3>1. o.ran
        BY <2>2 DEF Outcome
      <3> QED  BY <2>1, <2>2, <3>1
    <2>3. CASE ran = FALSE
      <3>1. ~o.ran
        BY <2>3 DEF Outcome
      <3> QED  BY <2>1, <2>3, <3>1
    <2> QED  BY <2>2, <2>3
  <1>9. tried' # << >> /\ decision'.outcomes # << >>
    BY <1>1, <1>2, <1>5, <1>6, <1>7
  <1> QED  BY <1>2, <1>4, <1>5, <1>6, <1>7, <1>8, <1>9

(* An act of the decision that runs is a step of both counts.              *)
LEMMA RunSteps ==
  ASSUME StepsInv, Run
  PROVE  StepsInv'
  <1>1. PICK failed \in BOOLEAN :
          /\ decision' = [decision EXCEPT !.outcomes = Append(@, Outcome(TRUE, failed))]
          /\ Tries(decision.asked[Position], failed)
    BY DEF Run
  <1>2. at = "run" /\ at' = "run" /\ ~Stopped /\ UNCHANGED <<steps, expired>>
    BY DEF Run
  <1>3. /\ decision' \in DecisionType /\ tried' \in Seq(TriedType) /\ tried' # << >>
        /\ decision'.outcomes # << >> /\ Len(decision'.outcomes) <= Len(decision.asked)
        /\ tried'[Len(tried')].act = decision.asked[Len(decision'.outcomes)]
        /\ decision'.asked = decision.asked /\ decision'.by = decision.by
        /\ decision'.refused = decision.refused /\ decision'.batched = decision.batched
        /\ Cardinality(Ran(decision')) = Cardinality(Ran(decision)) + 1
    BY <1>1, <1>2, TriesNext
  <1>4. env'.steps = env.steps + 1 /\ late' = IF expired THEN late + 1 ELSE late
    BY DEF Run, Steps
  <1>5. /\ Cardinality(Ran(decision)) \in Nat /\ Cardinality(Ran(decision)) <= Len(decision.outcomes)
        /\ Len(decision.outcomes) \in Nat
    BY RanBounded DEF StepsInv, Types, DecisionType
  <1>6. Types'
    BY <1>2, <1>3, <1>4 DEF StepsInv, Types
  <1>7. Counts'
    <2>1. Len(decision.outcomes) + 1 <= StepBudget - steps
      BY <1>2, <1>5, AgentAssumption DEF Stopped, Position, StepsInv, Types
    <2>2. env.steps = steps + Cardinality(Ran(decision)) /\ steps \in Nat
      BY <1>2 DEF StepsInv, Types, Counts
    <2>3. env.steps + 1 = steps + Cardinality(Ran(decision'))
      BY <1>3, <1>5, <2>2
    <2>4. env.steps + 1 <= StepBudget
      BY <1>5, <2>1, <2>2, AgentAssumption
    <2>5. env'.steps <= StepBudget /\ (at' = "run" => env'.steps = steps' + Cardinality(Ran(decision')))
      BY <1>2, <1>4, <2>3, <2>4
    <2> QED  BY <1>2, <2>5 DEF Counts
  <1>8. late' <= 1 /\ (0 < late' => expired)
    <2>1. CASE decision.outcomes = << >>
      BY <1>2, <1>4, <2>1 DEF StepsInv, Types, Made, Late
    <2>2. CASE decision.outcomes # << >>
      <3>1. ~expired
        BY <1>2, <1>5, <2>2 DEF Stopped, Position, StepsInv, Types, DecisionType
      <3> QED  BY <1>4, <3>1 DEF StepsInv, Types, Late
    <2> QED  BY <2>1, <2>2
  <1>9. Making' /\ Made' /\ Late'
    BY <1>2, <1>3, <1>8 DEF StepsInv, Making, Made, Late
  <1> QED  BY <1>6, <1>7, <1>9 DEF StepsInv

(* An act that is stale is refused and counts no step.                     *)
LEMMA RefuseStaleSteps ==
  ASSUME StepsInv, RefuseStale
  PROVE  StepsInv'
  <1>1. /\ decision' = [decision EXCEPT !.outcomes = Append(@, Outcome(FALSE, TRUE))]
        /\ Tries(decision.asked[Position], TRUE)
        /\ at = "run" /\ at' = "run" /\ ~Stopped /\ UNCHANGED <<steps, expired, env, late>>
    BY DEF RefuseStale
  <1>2. /\ decision' \in DecisionType /\ tried' \in Seq(TriedType) /\ tried' # << >>
        /\ decision'.outcomes # << >> /\ Len(decision'.outcomes) <= Len(decision.asked)
        /\ tried'[Len(tried')].act = decision.asked[Len(decision'.outcomes)]
        /\ decision'.asked = decision.asked /\ decision'.by = decision.by
        /\ decision'.refused = decision.refused /\ decision'.batched = decision.batched
        /\ Cardinality(Ran(decision')) = Cardinality(Ran(decision))
    BY <1>1, TriesNext
  <1>3. Types' /\ Counts'
    BY <1>1, <1>2 DEF StepsInv, Types, Counts
  <1>4. Making' /\ Made' /\ Late'
    BY <1>1, <1>2 DEF StepsInv, Making, Made, Late
  <1> QED  BY <1>3, <1>4 DEF StepsInv

(* The end of a sequence adds what ran to the loop's count.                *)
LEMMA EndSequenceSteps ==
  ASSUME StepsInv, EndSequence
  PROVE  StepsInv'
  <1>1. /\ at = "run" /\ at' = "wait" /\ steps' = steps + Cardinality(Ran(decision))
        /\ UNCHANGED <<decision, expired, env, tried, late>>
    BY DEF EndSequence
  <1>2. /\ Cardinality(Ran(decision)) \in Nat /\ decision.outcomes \in Seq(OutcomeType)
        /\ decision.asked \in Seq(Acts)
    BY RanBounded DEF StepsInv, Types, DecisionType
  <1>3. decision.outcomes # << >>
    <2> SUFFICES ASSUME decision.outcomes = << >> PROVE FALSE
      OBVIOUS
    <2>1. Position = 1
      BY DEF Position
    <2>2. 1 <= Len(decision.asked) /\ ~env.over /\ steps < StepBudget
      BY <1>1, <1>2 DEF StepsInv, Made
    <2> QED  BY <2>1, <2>2, AgentAssumption DEF EndSequence, Stopped, StepsInv, Types
  <1>4. Types' /\ Counts'
    BY <1>1, <1>2 DEF StepsInv, Types, Counts
  <1>5. Making' /\ Made' /\ Late'
    BY <1>1, <1>3, AgentAssumption DEF StepsInv, Types, Making, Made, Late
  <1> QED  BY <1>4, <1>5 DEF StepsInv

(* A repetition is a step of the last act tried, which is a wait.          *)
LEMMA RepeatWaitSteps ==
  ASSUME StepsInv, RepeatWait
  PROVE  StepsInv'
  <1>1. /\ at = "wait" /\ at' = "wait" /\ steps' = steps + 1 /\ MayRepeat
        /\ decision' = [decision EXCEPT !.batched = @ + 1]
        /\ env'.steps = env.steps + 1 /\ late' = (IF expired THEN late + 1 ELSE late)
        /\ UNCHANGED <<expired, tried>>
    BY DEF RepeatWait, Steps
  <1>2. decision \in DecisionType /\ decision.batched \in Nat
    BY DEF StepsInv, Types, DecisionType
  <1>3. /\ decision' \in DecisionType /\ decision'.batched = decision.batched + 1
        /\ decision'.asked = decision.asked /\ decision'.by = decision.by
        /\ decision'.refused = decision.refused /\ decision'.outcomes = decision.outcomes
    BY <1>1, <1>2 DEF DecisionType
  <1>4. Types' /\ Counts'
    BY <1>1, <1>3, AgentAssumption DEF StepsInv, Types, Counts, MayRepeat
  <1>5. tried # << >> /\ tried[Len(tried)].act = Wait
    <2>1. decision.outcomes \in Seq(OutcomeType) /\ decision.outcomes # << >>
      BY <1>1, <1>2 DEF StepsInv, Made, DecisionType
    <2>2. decision.asked = <<Wait>> /\ Len(decision.outcomes) <= Len(decision.asked)
      BY <1>1 DEF StepsInv, Made, MayRepeat
    <2>3. Len(decision.outcomes) = 1
      <3> DEFINE n == Len(decision.outcomes)  m == Len(decision.asked)
      <3>1. n \in Nat /\ 1 <= n /\ n <= m /\ m = 1
        BY <2>1, <2>2
      <3> HIDE DEF n, m
      <3>2. n = 1
        BY <3>1
      <3> QED  BY <3>2 DEF n
    <2> QED  BY <1>1, <2>1, <2>2, <2>3 DEF StepsInv, Made
  <1>6. late' <= 1 + decision'.batched /\ decision'.batched <= WaitBatch
    <2>1. late \in Nat /\ WaitBatch \in Nat /\ late <= 1 + decision.batched
      BY <1>1, AgentAssumption DEF StepsInv, Types, Made
    <2>2. decision.batched < WaitBatch
      BY <1>1 DEF MayRepeat
    <2>3. late' <= late + 1
      BY <1>1, <2>1
    <2> DEFINE b == decision.batched  c == decision'.batched
    <2>4. b \in Nat /\ c = b + 1 /\ late' \in Int
      BY <1>1, <1>2, <1>3, <2>1
    <2>5. b < WaitBatch /\ late <= 1 + b
      BY <2>1, <2>2
    <2> HIDE DEF b, c
    <2>6. late' <= 1 + c /\ c <= WaitBatch
      BY <2>1, <2>3, <2>4, <2>5
    <2> QED  BY <2>6 DEF c
  <1>7. Making' /\ Made'
    BY <1>1, <1>2, <1>3, <1>6 DEF StepsInv, Making, Made, MayRepeat
  <1>8. Late'
    <2>1. 0 < late' => expired'
      BY <1>1 DEF StepsInv, Types, Late
    <2>2. late' <= 1 + WaitBatch
      <3> DEFINE c == decision'.batched
      <3>1. c \in Nat
        BY <1>2, <1>3
      <3>2. late' \in Nat /\ WaitBatch \in Nat
        BY <1>4, AgentAssumption DEF Types
      <3>3. late' <= 1 + c /\ c <= WaitBatch
        BY <1>6
      <3> HIDE DEF c
      <3> QED  BY <3>1, <3>2, <3>3
    <2>3. tried' # << >> /\ tried'[Len(tried')].act = Wait
      BY <1>1, <1>5
    <2> QED  BY <2>1, <2>2, <2>3 DEF Late
  <1> QED  BY <1>4, <1>7, <1>8 DEF StepsInv

(* The end of a decision leaves both counts equal.                         *)
LEMMA EndDecisionSteps ==
  ASSUME StepsInv, EndDecision
  PROVE  StepsInv'
  <1> DEFINE more == [i \in DOMAIN decision.refused |->
                        [act |-> decision.refused[i], failed |-> TRUE]]
  <1>1. /\ at = "wait" /\ tried' = tried \o more /\ decision' = NoDecision
        /\ at' = (IF SegmentOver THEN "over" ELSE "decide")
        /\ UNCHANGED <<steps, expired, env, late>>
    BY DEF EndDecision
  <1>2. decision.refused \in Seq(Acts) /\ tried \in Seq(TriedType) /\ late \in Nat /\ steps \in Nat
    BY DEF StepsInv, Types, DecisionType
  <1>3. more \in Seq(TriedType) /\ Len(more) = Len(decision.refused)
    <2>1. DOMAIN decision.refused = 1 .. Len(decision.refused) /\ Len(decision.refused) \in Nat
      BY <1>2
    <2>2. \A i \in 1 .. Len(decision.refused) : decision.refused[i] \in Acts
      BY <1>2
    <2>3. \A i \in 1 .. Len(decision.refused) : more[i] \in TriedType
      BY <2>1, <2>2 DEF TriedType
    <2>4. more \in [1 .. Len(decision.refused) -> TriedType]
      BY <2>1, <2>3
    <2> QED  BY <2>1, <2>4
  <1>4. NoDecision \in DecisionType /\ NoDecision.outcomes = << >> /\ NoDecision.batched = 0
    BY DEF NoDecision, DecisionType
  <1>5. tried' \in Seq(TriedType)
    BY <1>1, <1>2, <1>3, ConcatProperties
  <1>6. Types'
    BY <1>1, <1>4, <1>5 DEF StepsInv, Types
  <1>7. Counts'
    BY <1>1 DEF StepsInv, Counts
  <1>8. Making' /\ Made'
    <2>1. CASE SegmentOver
      BY <1>1, <2>1 DEF StepsInv, Making, Made
    <2>2. CASE ~SegmentOver
      <3>1. ~env.over /\ ~expired /\ steps < StepBudget
        BY <1>2, <2>2, AgentAssumption DEF SegmentOver
      <3>2. late = 0
        BY <1>2, <3>1 DEF StepsInv, Late
      <3> QED  BY <1>1, <1>4, <2>2, <3>1, <3>2 DEF StepsInv, Making, Made
    <2> QED  BY <2>1, <2>2
  <1>9. Late'
    <2>1. CASE late <= 1
      BY <1>1, <2>1 DEF StepsInv, Late
    <2>2. CASE ~(late <= 1)
      <3>1. decision.refused = << >> /\ tried # << >>
        BY <1>1, <1>2, <2>2 DEF StepsInv, Types, DecisionType, Made, Late
      <3>2. tried' = tried
        <4>1. more = << >>
          BY <1>3, <3>1
        <4> QED  BY <1>1, <1>2, <4>1
      <3> QED  BY <1>1, <2>2, <3>2 DEF StepsInv, Late
    <2> QED  BY <2>1, <2>2
  <1> QED  BY <1>6, <1>7, <1>8, <1>9 DEF StepsInv

(* Between episodes, and until a decision is asked for, nothing is counted.*)
LEMMA EndEpisodeSteps ==
  ASSUME StepsInv, EndEpisode \/ Reset \/ Decide
  PROVE  StepsInv'
  <1>1. CASE EndEpisode
    BY <1>1 DEF EndEpisode, StepsInv, Types, Counts, Making, Made, Late
  <1>2. CASE Reset
    BY <1>2, AgentAssumption DEF Reset, StepsInv, Types, Counts, Making, Made, Late, NoDecision
  <1>3. CASE Decide
    BY <1>3 DEF Decide, StepsInv, Types, Counts, Making, Made, Late
  <1> QED  BY <1>1, <1>2, <1>3

(* The clock, and an exception of a call or of a step, count nothing.     *)
LEMMA OtherSteps ==
  ASSUME StepsInv, Expire \/ StepRaises \/ CallRaises
  PROVE  StepsInv'
  <1>1. CASE Expire
    BY <1>1 DEF Expire, StepsInv, Types, Counts, Making, Made, Late
  <1>2. CASE StepRaises
    BY <1>2 DEF StepRaises, Fail, StepsInv, Types, Counts, Making, Made, Late
  <1>3. CASE CallRaises
    BY <1>3 DEF CallRaises, Fail, StepsInv, Types, Counts, Making, Made, Late
  <1> QED  BY <1>1, <1>2, <1>3

(* The counts and what is being made stay right in every step.             *)
LEMMA StepsStep ==
  ASSUME StepsInv, [Next]_vars
  PROVE  StepsInv'
  <1>1. CASE UNCHANGED vars
    BY <1>1 DEF vars, StepsInv, Types, Counts, Making, Made, Late, Ran
  <1> QED
    BY <1>1, AskingSteps, RunSteps, RefuseStaleSteps, EndSequenceSteps, RepeatWaitSteps,
       EndDecisionSteps, EndEpisodeSteps, OtherSteps
    DEF Next, Loop

(* For any acts, bounds and answers: the loop's count of steps is the      *)
(* environment's, an episode has no more than its budget, and after the    *)
(* deadline one act still runs, or a wait with its repetitions.            *)
THEOREM StepsAreAccounted == Spec => []StepsAccounted
  <1>1. StepsInv => StepsAccounted
    BY DEF StepsInv, Counts, Late, StepsAccounted, Between
  <1> QED  BY <1>1, InitSteps, StepsStep, PTL DEF Spec

-----------------------------------------------------------------------------
(* The positions in S below one.                                           *)
Below(S, i) == {j \in S : j < i}

(* o lists the n positions of S in increasing order.                       *)
Lists(o, n, S) ==
  /\ n \in Nat /\ o \in [1 .. n -> S]
  /\ \A i, j \in 1 .. n : i < j => o[i] < o[j]
  /\ \A s \in S : \E k \in 1 .. n : o[k] = s

LEMMA BelowGrows ==
  ASSUME NEW S \in SUBSET Nat, IsFiniteSet(S), NEW j \in S
  PROVE  /\ Cardinality(S) \in Nat /\ Cardinality(Below(S, j)) \in Nat
         /\ Cardinality(Below(S, j)) < Cardinality(S)
         /\ \A i \in S : i < j => Cardinality(Below(S, i)) < Cardinality(Below(S, j))
  <1>1. \A T \in SUBSET S : IsFiniteSet(T) /\ Cardinality(T) \in Nat
    BY FS_Subset, FS_CardinalityType
  <1>2. ASSUME NEW i \in S, NEW T \in SUBSET S, Below(S, i) \cup {i} \subseteq T
        PROVE  Cardinality(Below(S, i)) < Cardinality(T)
    <2>1. Below(S, i) \in SUBSET S /\ i \notin Below(S, i)
      BY DEF Below
    <2>2. IsFiniteSet(Below(S, i)) /\ Cardinality(Below(S, i)) \in Nat
          /\ IsFiniteSet(T) /\ Cardinality(T) \in Nat
      BY <1>1, <2>1
    <2>3. Cardinality(Below(S, i) \cup {i}) = Cardinality(Below(S, i)) + 1
      BY <2>1, <2>2, FS_AddElement
    <2>4. Cardinality(Below(S, i) \cup {i}) <= Cardinality(T)
      BY <1>2, <2>2, FS_Subset
    <2> QED  BY <2>2, <2>3, <2>4
  <1>3. Cardinality(Below(S, j)) < Cardinality(S)
    <2>1. Below(S, j) \cup {j} \subseteq S
      BY DEF Below
    <2> QED  BY <1>2, <2>1
  <1>4. ASSUME NEW i \in S, i < j
        PROVE  Cardinality(Below(S, i)) < Cardinality(Below(S, j))
    <2>1. i \in Nat /\ j \in Nat /\ \A x \in S : x \in Nat
      OBVIOUS
    <2>2. \A x \in S : x < i => x < j
      BY <1>4, <2>1
    <2>3. Below(S, i) \cup {i} \subseteq Below(S, j) /\ Below(S, j) \in SUBSET S
      BY <1>4, <2>2 DEF Below
    <2> QED  BY <1>2, <2>3
  <1>5. Below(S, j) \in SUBSET S
    BY DEF Below
  <1> QED  BY <1>1, <1>3, <1>4, <1>5

(* Of two positions with as many below them neither is above the other.    *)
LEMMA SameRank ==
  ASSUME NEW S \in SUBSET Nat, IsFiniteSet(S), NEW i \in S, NEW j \in S,
         Cardinality(Below(S, i)) = Cardinality(Below(S, j))
  PROVE  i = j
  <1>1. i \in Nat /\ j \in Nat /\ Cardinality(Below(S, i)) \in Nat
    BY BelowGrows
  <1>2. ~ (i < j) /\ ~ (j < i)
    BY <1>1, BelowGrows
  <1> QED  BY <1>1, <1>2

(* Every rank is some position's.                                          *)
LEMMA RankExists ==
  ASSUME NEW S \in SUBSET Nat, IsFiniteSet(S), NEW k \in 1 .. Cardinality(S)
  PROVE  \E i \in S : Cardinality(Below(S, i)) = k - 1
  <1> DEFINE n == Cardinality(S)
             r == [i \in S |-> Cardinality(Below(S, i)) + 1]
  <1>1. n \in Nat
    BY FS_CardinalityType
  <1>2. \A i \in S : Cardinality(Below(S, i)) + 1 \in 1 .. n
    BY <1>1, BelowGrows
  <1>3. r \in [S -> 1 .. n]
    BY <1>2
  <1>4. ASSUME NEW i \in S, NEW j \in S, r[i] = r[j]
        PROVE  i = j
    <2>1. Cardinality(Below(S, i)) \in Nat /\ Cardinality(Below(S, j)) \in Nat
      BY BelowGrows
    <2>2. Cardinality(Below(S, i)) = Cardinality(Below(S, j))
      BY <1>4, <2>1
    <2> QED  BY <2>2, SameRank
  <1>5. r \in Injection(S, 1 .. n)
    BY <1>3, <1>4, Fun_IsInj
  <1>6. IsFiniteSet(1 .. n) /\ Cardinality(1 .. n) = n
    BY <1>1, FS_Interval
  <1>7. r \in Surjection(S, 1 .. n)
    BY <1>5, <1>6, FS_Injection
  <1>8. \A x \in 1 .. n : \E i \in S : r[i] = x
    <2> HIDE DEF r, n
    <2> QED  BY <1>7, Fun_SurjectionProperties
  <1>9. PICK i \in S : r[i] = k
    BY <1>8
  <1>10. Cardinality(Below(S, i)) \in Nat
    BY BelowGrows
  <1> QED  BY <1>9, <1>10

(* Who lists S has as many below each as come before it.                   *)
LEMMA ListsRanks ==
  ASSUME NEW S \in SUBSET Nat, NEW n, NEW o, Lists(o, n, S)
  PROVE  /\ IsFiniteSet(S) /\ Cardinality(S) = n
         /\ \A k \in 1 .. n : Cardinality(Below(S, o[k])) = k - 1
  <1>1. n \in Nat /\ o \in [1 .. n -> S] /\ \A i, j \in 1 .. n : i < j => o[i] < o[j]
    BY DEF Lists
  <1>2. ASSUME NEW i \in 1 .. n, NEW j \in 1 .. n, o[i] = o[j]
        PROVE  i = j
    <2>1. o[i] \in Nat /\ o[j] \in Nat
      BY <1>1
    <2>2. ~ (i < j) /\ ~ (j < i)
      BY <1>1, <1>2, <2>1
    <2> QED  BY <1>1, <2>2
  <1>3. o \in Bijection(1 .. n, S)
    <2>1. \A s \in S : \E k \in 1 .. n : o[k] = s
      BY DEF Lists
    <2>2. o \in Injection(1 .. n, S)
      BY <1>1, <1>2, Fun_IsInj
    <2>3. o \in Surjection(1 .. n, S)
      BY <1>1, <2>1, Fun_IsSurj
    <2> QED  BY <2>2, <2>3 DEF Bijection
  <1>4. IsFiniteSet(1 .. n) /\ Cardinality(1 .. n) = n
    BY <1>1, FS_Interval
  <1>5. IsFiniteSet(S) /\ Cardinality(S) = n
    BY <1>3, <1>4, FS_Bijection DEF ExistsBijection
  <1>6. ASSUME NEW k \in 1 .. n
        PROVE  Cardinality(Below(S, o[k])) = k - 1
    <2> DEFINE B == Below(S, o[k])
               p == [i \in 1 .. k - 1 |-> o[i]]
    <2>1. k - 1 \in Nat /\ \A i \in 1 .. k - 1 : i \in 1 .. n /\ i < k
      BY <1>1
    <2>2. \A i \in 1 .. k - 1 : o[i] \in B
      BY <1>1, <2>1 DEF Below
    <2>3. p \in Injection(1 .. k - 1, B)
      <3>1. p \in [1 .. k - 1 -> B]
        BY <2>2
      <3>2. ASSUME NEW i \in 1 .. k - 1, NEW j \in 1 .. k - 1, p[i] = p[j]
            PROVE  i = j
        BY <1>2, <2>1, <3>2
      <3> QED  BY <3>1, <3>2, Fun_IsInj
    <2>4. p \in Surjection(1 .. k - 1, B)
      <3>1. ASSUME NEW s \in B
            PROVE  \E i \in 1 .. k - 1 : p[i] = s
        <4>1. s \in S /\ s < o[k] /\ s \in Nat /\ o[k] \in Nat
          BY <1>1, <3>1 DEF Below
        <4>2. PICK i \in 1 .. n : o[i] = s
          BY <4>1 DEF Lists
        <4>3. ~ (k < i) /\ k # i
          BY <1>1, <4>1, <4>2
        <4>4. i \in 1 .. k - 1
          BY <1>1, <4>3
        <4> QED  BY <4>2, <4>4
      <3>2. p \in [1 .. k - 1 -> B]
        BY <2>2
      <3> QED  BY <3>1, <3>2, Fun_IsSurj
    <2>5. IsFiniteSet(1 .. k - 1) /\ Cardinality(1 .. k - 1) = k - 1
      BY <2>1, FS_Interval
    <2> QED  BY <2>3, <2>4, <2>5, FS_Bijection DEF ExistsBijection, Bijection
  <1> QED  BY <1>5, <1>6

(* Ordered lists a set of positions in increasing order ...                *)
LEMMA OrderedLists ==
  ASSUME NEW S \in SUBSET Nat, IsFiniteSet(S)
  PROVE  Lists(Ordered(S, <), Cardinality(S), S)
  <1> DEFINE n == Cardinality(S)
             o == Ordered(S, <)
  <1>1. n \in Nat
    BY FS_CardinalityType
  <1>2. o = [k \in 1 .. n |-> CHOOSE i \in S : Cardinality(Below(S, i)) = k - 1]
    BY DEF Ordered, Below
  <1>3. ASSUME NEW k \in 1 .. n
        PROVE  o[k] \in S /\ Cardinality(Below(S, o[k])) = k - 1
    <2>1. o[k] = CHOOSE i \in S : Cardinality(Below(S, i)) = k - 1
      BY <1>2
    <2> QED  BY <2>1, RankExists
  <1> HIDE DEF o
  <1>4. o \in [1 .. n -> S]
    BY <1>2, <1>3
  <1>5. ASSUME NEW i \in 1 .. n, NEW j \in 1 .. n, i < j
        PROVE  o[i] < o[j]
    <2>1. o[i] \in S /\ o[j] \in S /\ o[i] \in Nat /\ o[j] \in Nat
      BY <1>3
    <2>2. Cardinality(Below(S, o[i])) < Cardinality(Below(S, o[j]))
      BY <1>3, <1>5
    <2>3. o[i] # o[j]
      BY <1>3, <1>5
    <2>4. ~ (o[j] < o[i])
      BY <1>3, <1>5, <2>1, BelowGrows
    <2> QED  BY <2>1, <2>3, <2>4
  <1>6. ASSUME NEW s \in S
        PROVE  \E k \in 1 .. n : o[k] = s
    <2> DEFINE k == Cardinality(Below(S, s)) + 1
    <2>1. k \in 1 .. n /\ Cardinality(Below(S, s)) = k - 1
      BY <1>1, BelowGrows
    <2> HIDE DEF k
    <2>2. o[k] \in S /\ Cardinality(Below(S, o[k])) = Cardinality(Below(S, s))
      BY <1>3, <2>1
    <2>3. \A i, j \in S : Cardinality(Below(S, i)) = Cardinality(Below(S, j)) => i = j
      BY SameRank
    <2>4. o[k] = s
      BY <2>2, <2>3
    <2> QED  BY <2>1, <2>4
  <1> QED  BY <1>1, <1>4, <1>5, <1>6 DEF Lists, o

(* ... and nothing else does.                                              *)
LEMMA ListsUnique ==
  ASSUME NEW S \in SUBSET Nat, NEW n, NEW o, Lists(o, n, S)
  PROVE  o = Ordered(S, <) /\ n = Cardinality(S)
  <1> DEFINE p == Ordered(S, <)
  <1>1. IsFiniteSet(S) /\ Cardinality(S) = n /\ \A k \in 1 .. n : Cardinality(Below(S, o[k])) = k - 1
    BY ListsRanks
  <1>2. Lists(p, n, S)
    BY <1>1, OrderedLists
  <1> HIDE DEF p
  <1>3. \A k \in 1 .. n : Cardinality(Below(S, p[k])) = k - 1
    BY <1>2, ListsRanks
  <1>4. o \in [1 .. n -> S] /\ p \in [1 .. n -> S]
    BY <1>2 DEF Lists
  <1>5. ASSUME NEW k \in 1 .. n
        PROVE  o[k] = p[k]
    <2>1. /\ o[k] \in S /\ p[k] \in S
          /\ Cardinality(Below(S, o[k])) = Cardinality(Below(S, p[k]))
      BY <1>1, <1>3, <1>4
    <2>2. \A i, j \in S : Cardinality(Below(S, i)) = Cardinality(Below(S, j)) => i = j
      BY <1>1, SameRank
    <2> QED  BY <2>1, <2>2
  <1>6. o = p
    <2>1. o = [k \in 1 .. n |-> o[k]] /\ p = [k \in 1 .. n |-> p[k]]
      BY <1>4
    <2> QED  BY <1>5, <2>1
  <1> QED  BY <1>1, <1>6 DEF p
-----------------------------------------------------------------------------
Attempt == [act : Acts, failed : BOOLEAN, at : Int]

(* What memory keeps of the attempts t: their failures and last successes. *)
After(t, i) == {j \in 1 .. Len(t) : j > i /\ ~ t[j].failed}

KeptOf(t) == {i \in 1 .. Len(t) : t[i].failed \/ Cardinality(After(t, i)) < Kept}

(* Attempts are in the order of their steps, where a failure may share its *)
(* step with the attempt that follows.                                     *)
Timely(r) ==
  \A i, j \in 1 .. Len(r) :
    i < j => r[i].at < r[j].at \/ (r[i].at = r[j].at /\ r[i].failed)

LEMMA KeptOfIs ==
  ASSUME NEW X, NEW t \in Seq(X)
  PROVE  /\ Len(t) \in Nat /\ DOMAIN t = 1 .. Len(t)
         /\ KeptOf(t) \in SUBSET Nat /\ KeptOf(t) \subseteq 1 .. Len(t) /\ IsFiniteSet(KeptOf(t))
         /\ \A i \in 1 .. Len(t) : IsFiniteSet(After(t, i)) /\ Cardinality(After(t, i)) \in Nat
  <1>1. Len(t) \in Nat /\ DOMAIN t = 1 .. Len(t)
    OBVIOUS
  <1>2. IsFiniteSet(1 .. Len(t))
    BY <1>1, FS_Interval
  <1>3. KeptOf(t) \subseteq 1 .. Len(t) /\ \A i \in 1 .. Len(t) : After(t, i) \in SUBSET (1 .. Len(t))
    BY DEF KeptOf, After
  <1>4. 1 .. Len(t) \subseteq Nat
    BY <1>1
  <1>5. \A T \in SUBSET (1 .. Len(t)) : IsFiniteSet(T) /\ Cardinality(T) \in Nat
    BY <1>2, FS_Subset, FS_CardinalityType
  <1> QED  BY <1>1, <1>3, <1>4, <1>5

(* The sort of compact leaves the order alone.                             *)
LEMMA CompactedIs ==
  ASSUME NEW r \in Seq(Attempt), Timely(r)
  PROVE  LET o == Ordered(KeptOf(r), <) IN
         /\ Lists(o, Cardinality(KeptOf(r)), KeptOf(r))
         /\ Compacted(r) = [k \in 1 .. Cardinality(KeptOf(r)) |-> r[o[k]]]
  <1> DEFINE K == KeptOf(r)
             o == Ordered(K, <)
             n == Cardinality(K)
             before(i, j) ==
               \/ r[i].at < r[j].at
               \/ /\ r[i].at = r[j].at
                  /\ \/ r[i].failed /\ ~r[j].failed
                     \/ r[i].failed = r[j].failed /\ i < j
             C == (DOMAIN r \ Successes(r)) \cup
                    {i \in Successes(r) : Cardinality({j \in Successes(r) : j > i}) < Kept}
             p == [k \in 1 .. Cardinality(C) |->
                     CHOOSE i \in C : Cardinality({j \in C : before(j, i)}) = k - 1]
  <1>1. Compacted(r) = [k \in DOMAIN p |-> r[p[k]]]
    BY DEF Compacted, Ordered
  <1>2. C = K
    <2>1. DOMAIN r = 1 .. Len(r)
      BY KeptOfIs
    <2>2. Successes(r) = {i \in 1 .. Len(r) : ~ r[i].failed}
      BY <2>1 DEF Successes
    <2>3. \A i : {j \in Successes(r) : j > i} = After(r, i)
      BY <2>2 DEF After
    <2> QED  BY <2>1, <2>2, <2>3 DEF KeptOf
  <1>3. /\ K \in SUBSET Nat /\ IsFiniteSet(K) /\ K \subseteq 1 .. Len(r) /\ n \in Nat
        /\ Lists(o, n, K)
    BY KeptOfIs, OrderedLists, FS_CardinalityType
  <1>4. /\ o \in [1 .. n -> K] /\ \A k \in 1 .. n : Cardinality(Below(K, o[k])) = k - 1
    <2> HIDE DEF o, n, K
    <2>1. o \in [1 .. n -> K]
      BY <1>3 DEF Lists
    <2>2. \A k \in 1 .. n : Cardinality(Below(K, o[k])) = k - 1
      BY <1>3, ListsRanks
    <2> QED  BY <2>1, <2>2
  <1>5. ASSUME NEW i \in K
        PROVE  {j \in K : before(j, i)} = Below(K, i)
    <2>1. ASSUME NEW j \in K
          PROVE  before(j, i) <=> j < i
      <3>1. /\ i \in 1 .. Len(r) /\ j \in 1 .. Len(r) /\ i \in Nat /\ j \in Nat
        BY <1>3
      <3>2. r[i].at \in Int /\ r[j].at \in Int /\ r[i].failed \in BOOLEAN /\ r[j].failed \in BOOLEAN
        <4>1. \A k \in 1 .. Len(r) : r[k] \in Attempt
          BY KeptOfIs
        <4>2. r[i] \in Attempt /\ r[j] \in Attempt
          BY <3>1, <4>1
        <4> QED  BY <4>2 DEF Attempt
      <3>3. CASE j < i
        <4>1. r[j].at < r[i].at \/ (r[j].at = r[i].at /\ r[j].failed)
          BY <3>1, <3>3 DEF Timely
        <4> QED  BY <3>2, <3>3, <4>1
      <3>4. CASE i < j
        <4>1. r[i].at < r[j].at \/ (r[i].at = r[j].at /\ r[i].failed)
          BY <3>1, <3>4 DEF Timely
        <4> QED  BY <3>1, <3>2, <3>4, <4>1
      <3>5. CASE i = j
        BY <3>1, <3>2, <3>5
      <3> QED  BY <3>1, <3>3, <3>4, <3>5
    <2> HIDE DEF before
    <2> QED  BY <2>1 DEF Below
  <1>6. ASSUME NEW k \in 1 .. n
        PROVE  p[k] = o[k]
    <2>1. p[k] = CHOOSE i \in K : Cardinality({j \in K : before(j, i)}) = k - 1
      <3> HIDE DEF K, C, before
      <3> QED  BY <1>2 DEF n
    <2>2. o[k] \in K /\ Cardinality({j \in K : before(j, o[k])}) = k - 1
      <3> HIDE DEF K, o, before, n
      <3> QED  BY <1>4, <1>5
    <2>3. p[k] \in K /\ Cardinality({j \in K : before(j, p[k])}) = k - 1
      <3> HIDE DEF K, o, before, p, n
      <3> QED  BY <2>1, <2>2
    <2>4. Cardinality(Below(K, p[k])) = Cardinality(Below(K, o[k]))
      <3> HIDE DEF K, o, before, p, n
      <3> QED  BY <1>4, <1>5, <2>2, <2>3
    <2>5. \A i, j \in K : Cardinality(Below(K, i)) = Cardinality(Below(K, j)) => i = j
      BY <1>3, SameRank
    <2> HIDE DEF K, o, p, n
    <2> QED  BY <2>2, <2>3, <2>4, <2>5
  <1>7. DOMAIN p = 1 .. n
    BY <1>2
  <1> HIDE DEF p, o, n, K, C
  <1>8. Compacted(r) = [k \in 1 .. n |-> r[o[k]]]
    BY <1>1, <1>6, <1>7
  <1> QED  BY <1>3, <1>8 DEF o, n, K

(* r recalls the attempts D of t, in their order.                          *)
Recalls(h, r, t, D) ==
  /\ Lists(h, Len(r), D) /\ D \subseteq 1 .. Len(t)
  /\ \A k \in 1 .. Len(r) : r[k].act = t[h[k]].act /\ r[k].failed = t[h[k]].failed

(* D misses no attempt that is to be kept, nor a success that follows one. *)
Covers(t, D) ==
  /\ KeptOf(t) \subseteq D
  /\ \A i \in D, j \in 1 .. Len(t) : i < j /\ ~ t[i].failed /\ ~ t[j].failed => j \in D

(* Of what is recalled the same is to be kept as of what was tried.        *)
LEMMA KeptAlike ==
  ASSUME NEW t \in Seq(TriedType), NEW r \in Seq(Attempt), NEW D, NEW h,
         Recalls(h, r, t, D), Covers(t, D), NEW k \in 1 .. Len(r)
  PROVE  k \in KeptOf(r) <=> h[k] \in KeptOf(t)
  <1> DEFINE i == h[k]
             A == After(r, k)
             B == After(t, i)
             q == [m \in A |-> h[m]]
  <1>1. /\ Len(r) \in Nat /\ Len(t) \in Nat /\ h \in [1 .. Len(r) -> D] /\ D \subseteq 1 .. Len(t)
        /\ \A a, b \in 1 .. Len(r) : a < b => h[a] < h[b]
        /\ \A m \in 1 .. Len(r) : r[m].failed = t[h[m]].failed
        /\ \A j \in D : \E m \in 1 .. Len(r) : h[m] = j
    BY KeptOfIs DEF Recalls, Lists
  <1>2. i \in D /\ i \in 1 .. Len(t) /\ r[k].failed = t[i].failed
    BY <1>1
  <1>3. CASE t[i].failed
    BY <1>2, <1>3 DEF KeptOf
  <1>4. CASE ~ t[i].failed
    <2>1. IsFiniteSet(A) /\ IsFiniteSet(B)
      BY <1>2, KeptOfIs
    <2>2. ASSUME NEW m \in A
          PROVE  m \in 1 .. Len(r) /\ h[m] \in B
      <3>1. m \in 1 .. Len(r) /\ k < m /\ ~ r[m].failed
        BY <1>1 DEF After
      <3>2. h[m] \in 1 .. Len(t) /\ ~ t[h[m]].failed /\ h[k] < h[m]
        BY <1>1, <3>1
      <3>3. h[m] > i
        BY <1>1, <1>2, <3>2
      <3> QED  BY <3>1, <3>2, <3>3 DEF After
    <2>3. q \in [A -> B]
      BY <2>2
    <2>4. ASSUME NEW a \in A, NEW b \in A, q[a] = q[b]
          PROVE  a = b
      <3>1. /\ a \in 1 .. Len(r) /\ b \in 1 .. Len(r) /\ h[a] = h[b]
            /\ h[a] \in 1 .. Len(t) /\ h[b] \in 1 .. Len(t)
        BY <1>1, <2>2, <2>4
      <3>2. ~ (a < b) /\ ~ (b < a)
        BY <1>1, <3>1
      <3> QED  BY <1>1, <3>1, <3>2
    <2>5. ASSUME NEW j \in B
          PROVE  \E m \in A : q[m] = j
      <3>1. j \in 1 .. Len(t) /\ j > i /\ ~ t[j].failed
        BY DEF After
      <3>2. j \in D
        BY <1>1, <1>2, <1>4, <3>1 DEF Covers
      <3>3. PICK m \in 1 .. Len(r) : h[m] = j
        BY <1>1, <3>2
      <3>4. ~ (m < k) /\ m # k
        BY <1>1, <1>2, <3>1, <3>3
      <3>5. m > k /\ ~ r[m].failed
        BY <1>1, <3>1, <3>3, <3>4
      <3>6. m \in A
        BY <3>5 DEF After
      <3> QED  BY <3>3, <3>6
    <2> HIDE DEF A, B, q
    <2>6. q \in Injection(A, B) /\ q \in Surjection(A, B)
      BY <2>3, <2>4, <2>5, Fun_IsInj, Fun_IsSurj
    <2>7. Cardinality(A) = Cardinality(B)
      BY <2>1, <2>6, FS_Surjection
    <2> QED  BY <1>2, <1>4, <2>7 DEF KeptOf, A, B
  <1> QED  BY <1>3, <1>4

LEMMA CompactedRecalls ==
  ASSUME NEW t \in Seq(TriedType), NEW r \in Seq(Attempt), Timely(r), NEW D, NEW h,
         Recalls(h, r, t, D), Covers(t, D)
  PROVE  LET c == Compacted(r) IN
         /\ c \in Seq(Attempt) /\ Timely(c)
         /\ \A k \in 1 .. Len(c) : \E m \in 1 .. Len(r) : c[k] = r[m]
         /\ \E g : Recalls(g, c, t, KeptOf(t))
  <1> DEFINE K == KeptOf(r)
             n == Cardinality(K)
             o == Ordered(K, <)
             c == Compacted(r)
             g == [k \in 1 .. n |-> h[o[k]]]
  <1>1. /\ Len(r) \in Nat /\ Len(t) \in Nat /\ K \subseteq 1 .. Len(r)
        /\ KeptOf(t) \subseteq 1 .. Len(t)
    BY KeptOfIs
  <1>2. Lists(o, n, K) /\ c = [k \in 1 .. n |-> r[o[k]]]
    BY CompactedIs
  <1> HIDE DEF c, o, n
  <1>3. /\ n \in Nat /\ o \in [1 .. n -> K] /\ \A i, j \in 1 .. n : i < j => o[i] < o[j]
        /\ \A s \in K : \E k \in 1 .. n : o[k] = s
    BY <1>2 DEF Lists
  <1>4. \A k \in 1 .. n : o[k] \in 1 .. Len(r) /\ r[o[k]] \in Attempt
    BY <1>1, <1>3
  <1>5. c \in Seq(Attempt) /\ Len(c) = n /\ \A k \in 1 .. n : c[k] = r[o[k]]
    <2>1. c \in [1 .. n -> Attempt]
      BY <1>2, <1>4
    <2> QED  BY <1>2, <1>3, <2>1
  <1>6. Timely(c)
    <2>1. ASSUME NEW i \in 1 .. n, NEW j \in 1 .. n, i < j
          PROVE  c[i].at < c[j].at \/ (c[i].at = c[j].at /\ c[i].failed)
      <3>1. o[i] \in 1 .. Len(r) /\ o[j] \in 1 .. Len(r) /\ o[i] < o[j]
        BY <1>3, <1>4, <2>1
      <3>2. r[o[i]].at < r[o[j]].at \/ (r[o[i]].at = r[o[j]].at /\ r[o[i]].failed)
        BY <3>1 DEF Timely
      <3>3. c[i] = r[o[i]] /\ c[j] = r[o[j]]
        BY <1>5
      <3> QED  BY <3>2, <3>3
    <2> QED  BY <1>5, <2>1 DEF Timely
  <1>7. /\ h \in [1 .. Len(r) -> D] /\ D \subseteq 1 .. Len(t)
        /\ \A a, b \in 1 .. Len(r) : a < b => h[a] < h[b]
        /\ \A m \in 1 .. Len(r) : r[m].act = t[h[m]].act /\ r[m].failed = t[h[m]].failed
        /\ \A j \in D : \E m \in 1 .. Len(r) : h[m] = j
    BY DEF Recalls, Lists
  <1>8. \A k \in 1 .. Len(r) : k \in K <=> h[k] \in KeptOf(t)
    BY KeptAlike
  <1> HIDE DEF K
  <1>9. Recalls(g, c, t, KeptOf(t))
    <2>1. g \in [1 .. n -> KeptOf(t)]
      <3>1. \A k \in 1 .. n : h[o[k]] \in KeptOf(t)
        BY <1>3, <1>4, <1>8
      <3> QED  BY <3>1
    <2>2. ASSUME NEW i \in 1 .. n, NEW j \in 1 .. n, i < j
          PROVE  g[i] < g[j]
      <3>1. o[i] \in 1 .. Len(r) /\ o[j] \in 1 .. Len(r) /\ o[i] < o[j]
        BY <1>3, <1>4, <2>2
      <3> QED  BY <1>7, <3>1
    <2>3. ASSUME NEW s \in KeptOf(t)
          PROVE  \E k \in 1 .. n : g[k] = s
      <3>1. s \in D
        BY DEF Covers
      <3>2. PICK m \in 1 .. Len(r) : h[m] = s
        BY <1>7, <3>1
      <3>3. m \in K
        BY <1>8, <3>2
      <3>4. PICK k \in 1 .. n : o[k] = m
        BY <1>3, <3>3
      <3> QED  BY <3>2, <3>4
    <2>4. Lists(g, n, KeptOf(t))
      BY <1>3, <2>1, <2>2, <2>3 DEF Lists
    <2>5. \A k \in 1 .. n : c[k].act = t[g[k]].act /\ c[k].failed = t[g[k]].failed
      BY <1>4, <1>5, <1>7
    <2> HIDE DEF g
    <2> QED  BY <1>1, <1>5, <2>4, <2>5 DEF Recalls
  <1>10. \A k \in 1 .. Len(c) : \E m \in 1 .. Len(r) : c[k] = r[m]
    BY <1>4, <1>5
  <1> QED  BY <1>5, <1>6, <1>9, <1>10 DEF c
(* What was tried since p, and what of p is kept.                          *)
Since(p, t) == KeptOf(p) \cup (Len(p) + 1 .. Len(t))

(* Recalling goes on with what is tried next.                              *)
LEMMA RecallsMore ==
  ASSUME NEW p \in Seq(TriedType), NEW t \in Seq(TriedType),
         NEW m \in Seq(Attempt), NEW r \in Seq(Attempt),
         Len(p) <= Len(t), \A i \in 1 .. Len(p) : t[i] = p[i],
         Len(r) = Len(m) + (Len(t) - Len(p)),
         \A k \in 1 .. Len(m) : r[k] = m[k],
         \A i \in 1 .. Len(t) - Len(p) :
           /\ r[Len(m) + i].act = t[Len(p) + i].act
           /\ r[Len(m) + i].failed = t[Len(p) + i].failed,
         NEW g, Recalls(g, m, p, KeptOf(p))
  PROVE  Covers(t, Since(p, t)) /\ \E h : Recalls(h, r, t, Since(p, t))
  <1> DEFINE a == Len(m)
             b == Len(p)
             c == Len(t)
             h == [k \in 1 .. Len(r) |-> IF k <= a THEN g[k] ELSE b + (k - a)]
  <1>1. a \in Nat /\ b \in Nat /\ c \in Nat /\ b <= c /\ Len(r) = a + (c - b) /\ Len(r) \in Nat
        /\ KeptOf(p) \subseteq 1 .. b /\ KeptOf(t) \subseteq 1 .. c
    BY KeptOfIs
  <1>2. /\ g \in [1 .. a -> KeptOf(p)] /\ \A i, j \in 1 .. a : i < j => g[i] < g[j]
        /\ \A s \in KeptOf(p) : \E k \in 1 .. a : g[k] = s
        /\ \A k \in 1 .. a : m[k].act = p[g[k]].act /\ m[k].failed = p[g[k]].failed
    BY DEF Recalls, Lists
  <1>3. \A i \in 1 .. b : After(p, i) \subseteq After(t, i)
    BY <1>1 DEF After
  <1>4. Covers(t, Since(p, t))
    <2>1. ASSUME NEW i \in KeptOf(t), i <= b
          PROVE  i \in KeptOf(p)
      <3>1. i \in 1 .. b /\ i \in 1 .. c /\ t[i] = p[i]
        BY <1>1, <2>1
      <3>2. CASE t[i].failed
        BY <3>1, <3>2 DEF KeptOf
      <3>3. CASE ~ t[i].failed
        <4>1. Cardinality(After(t, i)) < Kept
          BY <3>3 DEF KeptOf
        <4>2. /\ After(p, i) \in SUBSET After(t, i) /\ IsFiniteSet(After(t, i))
              /\ Cardinality(After(t, i)) \in Nat /\ Cardinality(After(p, i)) \in Nat
          BY <1>3, <3>1, KeptOfIs
        <4>3. Cardinality(After(p, i)) <= Cardinality(After(t, i))
          BY <4>2, FS_Subset
        <4>4. Cardinality(After(p, i)) < Kept
          BY <4>1, <4>2, <4>3, MemoryAssumption
        <4> QED  BY <3>1, <4>4 DEF KeptOf
      <3> QED  BY <3>2, <3>3
    <2>2. KeptOf(t) \subseteq Since(p, t)
      BY <1>1, <2>1 DEF Since
    <2>3. ASSUME NEW i \in Since(p, t), NEW j \in 1 .. c, i < j, ~ t[i].failed, ~ t[j].failed
          PROVE  j \in Since(p, t)
      <3>1. CASE b < j
        BY <1>1, <3>1 DEF Since
      <3>2. CASE ~ (b < j)
        <4>1. i \in KeptOf(p) /\ i \in 1 .. b /\ j \in 1 .. b
          BY <1>1, <2>3, <3>2 DEF Since
        <4>2. ~ p[i].failed /\ Cardinality(After(p, i)) < Kept
          BY <2>3, <4>1 DEF KeptOf
        <4>3. After(p, j) \in SUBSET After(p, i)
          BY <1>1, <2>3, <4>1 DEF After
        <4>4. /\ IsFiniteSet(After(p, i))
              /\ Cardinality(After(p, i)) \in Nat /\ Cardinality(After(p, j)) \in Nat
          BY <4>1, KeptOfIs
        <4>5. Cardinality(After(p, j)) <= Cardinality(After(p, i))
          BY <4>3, <4>4, FS_Subset
        <4>6. Cardinality(After(p, j)) < Kept
          BY <4>2, <4>4, <4>5, MemoryAssumption
        <4>7. j \in KeptOf(p)
          BY <4>1, <4>6 DEF KeptOf
        <4> QED  BY <4>7 DEF Since
      <3> QED  BY <3>1, <3>2
    <2> QED  BY <2>2, <2>3 DEF Covers
  <1>5. Since(p, t) \subseteq 1 .. c
    BY <1>1 DEF Since
  <1>6. ASSUME NEW k \in 1 .. Len(r)
        PROVE  /\ k <= a => k \in 1 .. a /\ h[k] = g[k] /\ h[k] \in KeptOf(p) /\ h[k] <= b
               /\ ~ (k <= a) => h[k] = b + (k - a) /\ k - a \in 1 .. c - b /\ b < h[k]
               /\ h[k] \in Since(p, t) /\ h[k] \in Nat
    <2>1. CASE k <= a
      <3>1. k \in 1 .. a /\ h[k] = g[k]
        BY <1>1, <2>1
      <3>2. h[k] \in KeptOf(p) /\ h[k] \in 1 .. b
        BY <1>1, <1>2, <3>1
      <3> QED  BY <1>1, <2>1, <3>1, <3>2 DEF Since
    <2>2. CASE ~ (k <= a)
      <3>1. h[k] = b + (k - a)
        BY <2>2
      <3>2. k - a \in 1 .. c - b /\ b + (k - a) \in b + 1 .. c
        BY <1>1, <2>2
      <3> QED  BY <1>1, <2>2, <3>1, <3>2 DEF Since
    <2> QED  BY <2>1, <2>2
  <1>7. h \in [1 .. Len(r) -> Since(p, t)]
    <2>1. h = [k \in 1 .. Len(r) |-> h[k]]
      OBVIOUS
    <2> HIDE DEF h
    <2> QED  BY <1>6, <2>1
  <1> HIDE DEF h
  <1>8. ASSUME NEW i \in 1 .. Len(r), NEW j \in 1 .. Len(r), i < j
        PROVE  h[i] < h[j]
    <2>1. CASE j <= a
      BY <1>1, <1>2, <1>6, <1>8, <2>1
    <2>2. CASE ~ (j <= a) /\ i <= a
      <3>1. h[i] <= b /\ b < h[j] /\ h[i] \in Nat /\ h[j] \in Nat
        BY <1>6, <2>2
      <3> QED  BY <1>1, <3>1
    <2>3. CASE ~ (j <= a) /\ ~ (i <= a)
      <3>1. h[i] = b + (i - a) /\ h[j] = b + (j - a)
        BY <1>6, <2>3
      <3>2. b + (i - a) < b + (j - a)
        BY <1>1, <1>8
      <3> QED  BY <3>1, <3>2
    <2> QED  BY <2>1, <2>2, <2>3
  <1>9. ASSUME NEW s \in Since(p, t)
        PROVE  \E k \in 1 .. Len(r) : h[k] = s
    <2>1. CASE s \in KeptOf(p)
      <3>1. PICK k \in 1 .. a : g[k] = s
        BY <1>2, <2>1
      <3>2. k \in 1 .. Len(r) /\ k <= a
        BY <1>1
      <3> QED  BY <1>6, <3>1, <3>2
    <2>2. CASE s \in b + 1 .. c
      <3> DEFINE k == a + (s - b)
      <3>1. k \in 1 .. Len(r) /\ ~ (k <= a) /\ b + (k - a) = s
        BY <1>1, <2>2
      <3> HIDE DEF k
      <3> QED  BY <1>6, <3>1
    <2> QED  BY <2>1, <2>2 DEF Since
  <1>10. ASSUME NEW k \in 1 .. Len(r)
         PROVE  r[k].act = t[h[k]].act /\ r[k].failed = t[h[k]].failed
    <2>1. CASE k <= a
      <3>1. k \in 1 .. a /\ h[k] = g[k] /\ g[k] \in 1 .. b
        BY <1>1, <1>2, <1>6, <2>1
      <3>2. r[k] = m[k] /\ t[g[k]] = p[g[k]]
        BY <3>1
      <3> QED  BY <1>2, <3>1, <3>2
    <2>2. CASE ~ (k <= a)
      <3>1. k - a \in 1 .. c - b /\ h[k] = b + (k - a) /\ a + (k - a) = k
        BY <1>1, <1>6, <2>2
      <3>2. r[a + (k - a)].act = t[b + (k - a)].act /\ r[a + (k - a)].failed = t[b + (k - a)].failed
        BY <3>1
      <3> QED  BY <3>1, <3>2
    <2> QED  BY <2>1, <2>2
  <1>11. Recalls(h, r, t, Since(p, t))
    BY <1>1, <1>5, <1>7, <1>8, <1>9, <1>10 DEF Recalls, Lists
  <1> QED  BY <1>4, <1>11

(* An act that failed as often as makes a stall did so in what is recalled.*)
LEMMA StallsRecalled ==
  ASSUME NEW t \in Seq(TriedType), NEW r \in Seq(Attempt), NEW D, NEW h,
         Recalls(h, r, t, D), Covers(t, D)
  PROVE  Repeated(t) \subseteq Repeated(r)
  <1>1. /\ Len(r) \in Nat /\ Len(t) \in Nat /\ h \in [1 .. Len(r) -> D] /\ D \subseteq 1 .. Len(t)
        /\ DOMAIN r = 1 .. Len(r) /\ DOMAIN t = 1 .. Len(t)
        /\ \A a, b \in 1 .. Len(r) : a < b => h[a] < h[b]
        /\ \A m \in 1 .. Len(r) : r[m].act = t[h[m]].act /\ r[m].failed = t[h[m]].failed
        /\ \A j \in D : \E m \in 1 .. Len(r) : h[m] = j
    BY KeptOfIs DEF Recalls, Lists
  <1>2. ASSUME NEW act \in Repeated(t)
        PROVE  act \in Repeated(r)
    <2> DEFINE F == FailuresSince(t, act)
               G == FailuresSince(r, act)
               q == [i \in F |-> CHOOSE k \in G : h[k] = i]
    <2>1. Cardinality(F) >= Threshold
      BY DEF Repeated
    <2>2. F \in SUBSET (1 .. Len(t)) /\ G \in SUBSET (1 .. Len(r))
      BY <1>1 DEF FailuresSince
    <2>3. /\ IsFiniteSet(F) /\ IsFiniteSet(G) /\ Cardinality(F) \in Nat /\ Cardinality(G) \in Nat
      <3>1. IsFiniteSet(1 .. Len(t)) /\ IsFiniteSet(1 .. Len(r))
        BY <1>1, FS_Interval
      <3> HIDE DEF F, G
      <3> QED  BY <2>2, <3>1, FS_Subset, FS_CardinalityType
    <2>4. ASSUME NEW i \in F
          PROVE  \E k \in G : h[k] = i
      <3>1. /\ i \in 1 .. Len(t) /\ t[i].act = act /\ t[i].failed
            /\ \A j \in i .. Len(t) : t[j].act = act => t[j].failed
        BY <1>1 DEF FailuresSince
      <3>2. i \in D
        BY <3>1 DEF KeptOf, Covers
      <3>3. PICK k \in 1 .. Len(r) : h[k] = i
        BY <1>1, <3>2
      <3>4. r[k].act = act /\ r[k].failed
        BY <1>1, <3>1, <3>3
      <3>5. ASSUME NEW j \in k .. Len(r), r[j].act = act
            PROVE  r[j].failed
        <4>1. j \in 1 .. Len(r) /\ (j = k \/ k < j)
          BY <1>1
        <4>2. h[j] \in 1 .. Len(t) /\ (h[j] = i \/ i < h[j])
          BY <1>1, <3>3, <4>1
        <4>3. h[j] \in i .. Len(t)
          BY <1>1, <3>1, <4>2
        <4> QED  BY <1>1, <3>1, <3>5, <4>1, <4>3
      <3>6. k \in G
        BY <1>1, <3>4, <3>5 DEF FailuresSince
      <3> QED  BY <3>3, <3>6
    <2>5. \A i \in F : q[i] \in G /\ h[q[i]] = i
      <3> HIDE DEF F, G
      <3> QED  BY <2>4
    <2>6. q \in Injection(F, G)
      <3>1. q \in [F -> G]
        <4>1. q = [i \in F |-> q[i]]
          OBVIOUS
        <4> HIDE DEF q
        <4> QED  BY <2>5, <4>1
      <3> HIDE DEF q, F, G
      <3>2. \A a, b \in F : q[a] = q[b] => a = b
        BY <2>5
      <3> QED  BY <3>1, <3>2, Fun_IsInj
    <2> HIDE DEF q, F, G
    <2>7. Cardinality(F) <= Cardinality(G)
      BY <2>3, <2>6, FS_Injection
    <2>8. Cardinality(G) >= Threshold /\ Threshold \in Nat /\ Threshold > 0
      BY <2>1, <2>3, <2>7, MemoryAssumption
    <2>9. PICK k \in G : TRUE
      <3>1. G # {}
        <4>1. G = {} => Cardinality(G) = 0
          BY FS_EmptySet
        <4> QED  BY <2>8, <4>1
      <3> QED  BY <3>1
    <2>10. k \in 1 .. Len(r) /\ r[k].act = act
      BY <1>1, <2>2, <2>9 DEF G, FailuresSince
    <2> QED  BY <1>1, <2>8, <2>10 DEF Repeated, G
  <1> QED  BY <1>2

-----------------------------------------------------------------------------
(* While an episode is played, memory recalls what is to be kept of what   *)
(* was tried before the decision that is being made.                       *)
Playing == at \in {"decide", "ask", "answer", "run", "wait", "over"}

Base == Len(tried) - Len(decision.outcomes)

Before == SubSeq(tried, 1, Base)

(* The step the decision that is being made began at.                      *)
Now == IF at = "wait" THEN steps - Cardinality(Ran(decision)) ELSE steps

Recalling ==
  /\ memory \in Seq(Attempt) /\ Timely(memory) /\ Base \in Nat
  /\ \E g : Recalls(g, memory, Before, KeptOf(Before))
  /\ \A i \in 1 .. Len(decision.outcomes) :
       /\ tried[Base + i].act = decision.outcomes[i].act
       /\ tried[Base + i].failed = decision.outcomes[i].failed

(* Memory is not ahead of the decision; its acts all ran, but for a last   *)
(* one that failed.                                                        *)
Timed ==
  /\ \A i \in 1 .. Len(memory) :
       memory[i].at < Now \/ (memory[i].at = Now /\ memory[i].failed)
  /\ Len(decision.outcomes) <= Cardinality(Ran(decision)) + 1
  /\ decision.outcomes = << >> \/ ~decision.outcomes[Len(decision.outcomes)].failed =>
       Cardinality(Ran(decision)) = Len(decision.outcomes)

MemoryInv == StepsInv /\ (Playing => Recalling /\ Timed) /\ StallsAnnounced

(* A prefix of a sequence.                                                 *)
LEMMA PrefixIs ==
  ASSUME NEW X, NEW s \in Seq(X), NEW n \in Nat, n <= Len(s)
  PROVE  /\ SubSeq(s, 1, n) \in Seq(X) /\ Len(SubSeq(s, 1, n)) = n
         /\ \A i \in 1 .. n : SubSeq(s, 1, n)[i] = s[i]
  <1>1. Len(s) \in Nat /\ \A i \in 1 .. n : s[i] \in X
    BY ElementOfSeq, LenProperties
  <1>2. /\ SubSeq(s, 1, n) \in Seq(X)
        /\ Len(SubSeq(s, 1, n)) = IF 1 <= n THEN n - 1 + 1 ELSE 0
        /\ \A i \in 1 .. n - 1 + 1 : SubSeq(s, 1, n)[i] = s[1 + i - 1]
    BY <1>1, SubSeqProperties
  <1>3. 1 .. n - 1 + 1 = 1 .. n /\ (IF 1 <= n THEN n - 1 + 1 ELSE 0) = n
    OBVIOUS
  <1>4. \A i \in 1 .. n : 1 + i - 1 = i
    OBVIOUS
  <1> QED  BY <1>2, <1>3, <1>4

(* What was tried before the decision began.                               *)
LEMMA BeforeIs ==
  ASSUME StepsInv, Base \in Nat
  PROVE  /\ decision \in DecisionType /\ tried \in Seq(TriedType)
         /\ decision.outcomes \in Seq(OutcomeType)
         /\ Len(tried) \in Nat /\ Len(decision.outcomes) \in Nat /\ Base <= Len(tried)
         /\ Before \in Seq(TriedType) /\ Len(Before) = Base
         /\ \A i \in 1 .. Base : Before[i] = tried[i]
         /\ Cardinality(Ran(decision)) \in Nat /\ steps \in Nat /\ Now \in Int /\ Now <= steps
  <1>1. decision \in DecisionType /\ tried \in Seq(TriedType) /\ steps \in Nat
    BY DEF StepsInv, Types
  <1>2. decision.outcomes \in Seq(OutcomeType) /\ Cardinality(Ran(decision)) \in Nat
    BY <1>1, RanBounded DEF DecisionType
  <1>3. Len(tried) \in Nat /\ Len(decision.outcomes) \in Nat
    BY <1>1, <1>2, LenProperties
  <1>4. Base <= Len(tried)
    BY <1>3 DEF Base
  <1>5. /\ Before \in Seq(TriedType) /\ Len(Before) = Base
        /\ \A i \in 1 .. Base : Before[i] = tried[i]
    BY <1>1, <1>4, PrefixIs DEF Before
  <1>6. Now \in Int /\ Now <= steps
    BY <1>1, <1>2 DEF Now
  <1> QED  BY <1>1, <1>2, <1>3, <1>4, <1>5, <1>6

(* Time passes, and nothing is tried or remembered.                        *)
LEMMA MemoryWaits ==
  ASSUME StepsInv, Recalling, Timed, UNCHANGED <<memory, tried>>,
         decision'.outcomes = decision.outcomes, Now' \in Int, Now <= Now'
  PROVE  Recalling' /\ Timed'
  <1>1. Base' = Base /\ Before' = Before
    BY DEF Base, Before
  <1>2. Recalling'
    BY <1>1 DEF Recalling
  <1>3. Ran(decision') = Ran(decision)
    BY DEF Ran
  <1>4. ASSUME NEW i \in 1 .. Len(memory)
        PROVE  memory[i].at < Now' \/ (memory[i].at = Now' /\ memory[i].failed)
    <2>1. memory[i] \in Attempt
      BY ElementOfSeq DEF Recalling
    <2>2. memory[i].at \in Int /\ Now \in Int
      BY <2>1, BeforeIs DEF Attempt, Recalling
    <2>3. memory[i].at < Now \/ (memory[i].at = Now /\ memory[i].failed)
      BY DEF Timed
    <2> QED  BY <2>2, <2>3
  <1>5. Timed'
    BY <1>3, <1>4 DEF Timed
  <1> QED  BY <1>2, <1>5

(* The episode begins: nothing is tried and nothing remembered.            *)
LEMMA MemoryBegins ==
  ASSUME StepsInv, Reset
  PROVE  Recalling' /\ Timed' /\ StallsAnnounced'
  <1>1. /\ tried' = << >> /\ memory' = << >> /\ decision'.outcomes = << >> /\ at' = "decide"
        /\ decision' = NoDecision
    BY DEF Reset, StepsInv, Making, NoDecision
  <1>2. Base' = 0
    BY <1>1 DEF Base
  <1>3. Before' = << >>
    BY <1>1, <1>2, SubSeqEmpty DEF Before
  <1>4. KeptOf(Before') = {} /\ Len(Before') = 0
    BY <1>3 DEF KeptOf
  <1>5. Recalls(<< >>, memory', Before', KeptOf(Before'))
    <2>1. << >> \in [1 .. 0 -> {}] /\ Len(memory') = 0
      BY <1>1
    <2>2. Lists(<< >>, 0, {})
      BY <2>1 DEF Lists
    <2> QED  BY <1>4, <2>1, <2>2 DEF Recalls
  <1>6. memory' \in Seq(Attempt) /\ Timely(memory')
    BY <1>1 DEF Timely
  <1>7. Recalling'
    BY <1>1, <1>2, <1>5, <1>6 DEF Recalling
  <1>8. Cardinality(Ran(decision')) = 0
    BY <1>1, NothingRan
  <1>9. Timed'
    BY <1>1, <1>8 DEF Timed
  <1>10. Repeated(tried') = {}
    BY <1>1 DEF Repeated
  <1> QED  BY <1>7, <1>9, <1>10 DEF StallsAnnounced

(* The act whose turn it is runs, or fails without running.                *)
LEMMA MemoryTries ==
  ASSUME StepsInv, Recalling, Timed, at = "run", at' = "run", ~Stopped,
         UNCHANGED <<memory, steps>>,
         NEW ran \in BOOLEAN, NEW failed \in BOOLEAN, ran \/ failed,
         decision' = [decision EXCEPT !.outcomes = Append(@, Outcome(ran, failed))],
         Tries(decision.asked[Position], failed)
  PROVE  Recalling' /\ Timed'
  <1> DEFINE o == Outcome(ran, failed)
             e == [act |-> decision.asked[Position], failed |-> failed]
             n == Len(decision.outcomes)
             m == Len(tried)
  <1>1. /\ decision \in DecisionType /\ tried \in Seq(TriedType) /\ m \in Nat /\ n \in Nat
        /\ decision.outcomes \in Seq(OutcomeType) /\ Base \in Nat /\ Base = m - n
        /\ Before \in Seq(TriedType) /\ Len(Before) = Base
        /\ \A i \in 1 .. Base : Before[i] = tried[i]
        /\ Cardinality(Ran(decision)) \in Nat
    BY BeforeIs DEF Recalling, Base
  <1>2. /\ decision' \in DecisionType /\ tried' \in Seq(TriedType)
        /\ decision'.outcomes # << >> /\ Len(decision'.outcomes) <= Len(decision.asked)
        /\ Cardinality(Ran(decision')) =
             IF ran THEN Cardinality(Ran(decision)) + 1 ELSE Cardinality(Ran(decision))
    BY TriesNext
  <1>3. decision'.outcomes = Append(decision.outcomes, o) /\ tried' = Append(tried, e)
    BY <1>1 DEF DecisionType, Tries
  <1>4. /\ Len(decision'.outcomes) = n + 1 /\ decision'.outcomes[n + 1] = o
        /\ \A i \in 1 .. n : decision'.outcomes[i] = decision.outcomes[i]
    BY <1>1, <1>3
  <1>5. /\ Len(tried') = m + 1 /\ tried'[m + 1] = e
        /\ \A i \in 1 .. m : tried'[i] = tried[i]
    BY <1>1, <1>3
  <1>6. o.act = e.act /\ o.failed = failed /\ e.failed = failed /\ o.ran = ran
    BY DEF Outcome
  <1> HIDE DEF o, e
  <1>7. Base' = Base /\ Base + (n + 1) = m + 1 /\ Base <= m
    <2>1. Base' = (m + 1) - (n + 1)
      BY <1>4, <1>5 DEF Base
    <2> HIDE DEF m, n
    <2>2. \A b : b = m - n => (m + 1) - (n + 1) = b /\ b + (n + 1) = m + 1 /\ b <= m
      BY <1>1
    <2> QED  BY <1>1, <2>1, <2>2
  <1>8. Before' = Before
    <2>1. /\ Before' \in Seq(TriedType) /\ Len(Before') = Base
          /\ \A i \in 1 .. Base : Before'[i] = tried'[i]
      <3>1. Base <= Len(tried')
        <4> HIDE DEF m, n
        <4> QED  BY <1>1, <1>5, <1>7
      <3>2. Before' = SubSeq(tried', 1, Base)
        BY <1>7 DEF Before
      <3> QED  BY <1>1, <1>2, <3>1, <3>2, PrefixIs
    <2>2. \A i \in 1 .. Base : Before'[i] = Before[i]
      BY <1>1, <1>5, <1>7, <2>1
    <2> QED  BY <1>1, <2>1, <2>2, SeqEqual
  <1>9. ASSUME NEW i \in 1 .. n + 1
        PROVE  /\ tried'[Base + i].act = decision'.outcomes[i].act
               /\ tried'[Base + i].failed = decision'.outcomes[i].failed
    <2>1. CASE i = n + 1
      BY <1>4, <1>5, <1>6, <1>7, <2>1
    <2>2. CASE i # n + 1
      <3>1. i \in 1 .. n /\ Base + i \in 1 .. m
        <4> HIDE DEF m, n
        <4> QED  BY <1>1, <1>7, <2>2
      <3>2. /\ tried[Base + i].act = decision.outcomes[i].act
            /\ tried[Base + i].failed = decision.outcomes[i].failed
        BY <3>1 DEF Recalling
      <3> QED  BY <1>4, <1>5, <3>1, <3>2
    <2> QED  BY <2>1, <2>2
  <1>10. Recalling'
    BY <1>4, <1>7, <1>8, <1>9 DEF Recalling
  <1>11. Cardinality(Ran(decision)) = n
    <2>1. decision.outcomes = << >> \/ ~decision.outcomes[n].failed
      BY DEF Stopped
    <2> QED  BY <2>1 DEF Timed
  <1>12. /\ n + 1 <= Cardinality(Ran(decision')) + 1
         /\ ~failed => Cardinality(Ran(decision')) = n + 1
    BY <1>1, <1>2, <1>11
  <1>13. Now' = Now
    BY DEF Now
  <1>14. \A i \in 1 .. Len(memory') :
           memory'[i].at < Now' \/ (memory'[i].at = Now' /\ memory'[i].failed)
    BY <1>13 DEF Timed
  <1>15. Timed'
    BY <1>2, <1>4, <1>6, <1>12, <1>14 DEF Timed
  <1> QED  BY <1>10, <1>15

(* What is remembered of a decision: its acts under the steps they ran at, *)
(* then the refused ones under the step that follows.                      *)
LEMMA RememberedIs ==
  ASSUME StepsInv, Recalling, Timed, at = "wait"
  PROVE  LET a == Len(memory)  n == Len(decision.outcomes)  m == Len(decision.refused)
             r == Remembered
         IN /\ a \in Nat /\ n \in Nat /\ m \in Nat
            /\ r \in Seq(Attempt) /\ Len(r) = a + n + m
            /\ \A k \in 1 .. a : r[k] = memory[k]
            /\ \A i \in 1 .. n :
                 /\ r[a + i].act = decision.outcomes[i].act
                 /\ r[a + i].failed = decision.outcomes[i].failed
                 /\ r[a + i].at = Now + i - 1
            /\ \A i \in 1 .. m :
                 /\ r[a + n + i].act = decision.refused[i]
                 /\ r[a + n + i].failed = TRUE /\ r[a + n + i].at = steps
  <1> DEFINE a == Len(memory)  n == Len(decision.outcomes)  m == Len(decision.refused)
             b == Cardinality(Ran(decision))
             x == [i \in DOMAIN decision.outcomes |->
                     [act |-> decision.outcomes[i].act, failed |-> decision.outcomes[i].failed,
                      at |-> steps - b + i - 1]]
             y == [i \in DOMAIN decision.refused |->
                     [act |-> decision.refused[i], failed |-> TRUE, at |-> steps]]
  <1>1. Remembered = (memory \o x) \o y
    BY DEF Remembered
  <1>2. /\ decision \in DecisionType /\ decision.outcomes \in Seq(OutcomeType)
        /\ decision.refused \in Seq(Acts) /\ n \in Nat /\ b \in Nat /\ steps \in Nat
        /\ memory \in Seq(Attempt) /\ Now = steps - b
    BY BeforeIs DEF Recalling, DecisionType, Now
  <1>3. a \in Nat /\ m \in Nat /\ DOMAIN decision.outcomes = 1 .. n /\ DOMAIN decision.refused = 1 .. m
    BY <1>2, LenProperties
  <1>4. \A i \in 1 .. n : decision.outcomes[i] \in OutcomeType
    BY <1>2, ElementOfSeq
  <1>5. \A i \in 1 .. m : decision.refused[i] \in Acts
    BY <1>2, ElementOfSeq
  <1> HIDE DEF a, n, m, b
  <1>6. x \in Seq(Attempt) /\ Len(x) = n
    <2>1. \A i \in 1 .. n : [act |-> decision.outcomes[i].act, failed |-> decision.outcomes[i].failed,
                             at |-> steps - b + i - 1] \in Attempt
      BY <1>2, <1>4 DEF OutcomeType, Attempt
    <2>2. x \in [1 .. n -> Attempt]
      BY <1>3, <2>1
    <2> HIDE DEF x
    <2> QED  BY <1>2, <2>2
  <1>7. y \in Seq(Attempt) /\ Len(y) = m
    <2>1. \A i \in 1 .. m : [act |-> decision.refused[i], failed |-> TRUE, at |-> steps] \in Attempt
      BY <1>2, <1>5 DEF Attempt
    <2>2. y \in [1 .. m -> Attempt]
      BY <1>3, <2>1
    <2> HIDE DEF y
    <2> QED  BY <1>3, <2>2
  <1>8. /\ \A i \in 1 .. n : /\ x[i].act = decision.outcomes[i].act
                             /\ x[i].failed = decision.outcomes[i].failed
                             /\ x[i].at = Now + i - 1
        /\ \A i \in 1 .. m : y[i].act = decision.refused[i] /\ y[i].failed = TRUE /\ y[i].at = steps
    BY <1>2, <1>3
  <1> HIDE DEF x, y
  <1>9. /\ memory \o x \in Seq(Attempt) /\ Len(memory \o x) = a + n
        /\ \A i \in 1 .. a + n : (memory \o x)[i] = IF i <= a THEN memory[i] ELSE x[i - a]
    BY <1>2, <1>6, ConcatProperties DEF a
  <1> DEFINE z == memory \o x
  <1> HIDE DEF z
  <1>10. /\ Remembered \in Seq(Attempt) /\ Len(Remembered) = a + n + m
         /\ \A i \in 1 .. a + n + m : Remembered[i] = IF i <= a + n THEN z[i] ELSE y[i - (a + n)]
    <2>1. z \in Seq(Attempt) /\ Len(z) = a + n /\ Remembered = z \o y
      BY <1>1, <1>9 DEF z
    <2>2. /\ z \o y \in Seq(Attempt) /\ Len(z \o y) = Len(z) + Len(y)
          /\ \A i \in 1 .. Len(z) + Len(y) : (z \o y)[i] = IF i <= Len(z) THEN z[i] ELSE y[i - Len(z)]
      BY <1>7, <2>1, ConcatProperties
    <2> QED  BY <1>7, <2>1, <2>2
  <1>11. ASSUME NEW k \in 1 .. a
         PROVE  Remembered[k] = memory[k]
    <2>1. k \in 1 .. a + n /\ k \in 1 .. a + n + m /\ k <= a + n /\ k <= a
      BY <1>2, <1>3
    <2> QED  BY <1>9, <1>10, <2>1 DEF z
  <1>12. ASSUME NEW i \in 1 .. n
         PROVE  Remembered[a + i] = x[i]
    <2>1. a + i \in 1 .. a + n /\ a + i \in 1 .. a + n + m /\ ~ (a + i <= a) /\ (a + i) - a = i
      BY <1>2, <1>3
    <2> QED  BY <1>9, <1>10, <2>1 DEF z
  <1>13. ASSUME NEW i \in 1 .. m
         PROVE  Remembered[a + n + i] = y[i]
    <2>1. a + n + i \in 1 .. a + n + m /\ ~ (a + n + i <= a + n) /\ (a + n + i) - (a + n) = i
      BY <1>2, <1>3
    <2> QED  BY <1>10, <2>1
  <1>14. /\ \A i \in 1 .. n : /\ Remembered[a + i].act = decision.outcomes[i].act
                              /\ Remembered[a + i].failed = decision.outcomes[i].failed
                              /\ Remembered[a + i].at = Now + i - 1
         /\ \A i \in 1 .. m : /\ Remembered[a + n + i].act = decision.refused[i]
                              /\ Remembered[a + n + i].failed = TRUE
                              /\ Remembered[a + n + i].at = steps
    BY <1>8, <1>12, <1>13
  <1> HIDE DEF Remembered
  <1> QED  BY <1>2, <1>3, <1>10, <1>11, <1>14 DEF a, n, m

(* It is in order, and none of it is ahead of the steps made.              *)
LEMMA RememberedTimely ==
  ASSUME StepsInv, Recalling, Timed, at = "wait"
  PROVE  LET r == Remembered IN
         /\ Timely(r)
         /\ \A k \in 1 .. Len(r) : r[k].at < steps \/ (r[k].at = steps /\ r[k].failed)
  <1> DEFINE a == Len(memory)  n == Len(decision.outcomes)  m == Len(decision.refused)
             b == Cardinality(Ran(decision))  r == Remembered
  <1>1. /\ a \in Nat /\ n \in Nat /\ m \in Nat
        /\ r \in Seq(Attempt) /\ Len(r) = a + n + m
        /\ \A k \in 1 .. a : r[k] = memory[k]
        /\ \A i \in 1 .. n : /\ r[a + i].failed = decision.outcomes[i].failed
                             /\ r[a + i].at = Now + i - 1
        /\ \A i \in 1 .. m : r[a + n + i].failed = TRUE /\ r[a + n + i].at = steps
    BY RememberedIs
  <1>2. /\ b \in Nat /\ steps \in Nat /\ Now = steps - b /\ n <= b + 1
        /\ \A k \in 1 .. a : memory[k].at < Now \/ (memory[k].at = Now /\ memory[k].failed)
        /\ n = 0 \/ ~decision.outcomes[n].failed => b = n
    <2>1. decision.outcomes \in Seq(OutcomeType)
      BY BeforeIs DEF Recalling
    <2>2. n = 0 => decision.outcomes = << >>
      BY <2>1
    <2> QED  BY <2>2, BeforeIs DEF Recalling, Timed, Now
  <1>3. Timely(memory)
    BY DEF Recalling
  <1>4. \A k \in 1 .. Len(r) : r[k] \in Attempt
    BY <1>1, ElementOfSeq
  <1>5. \A k \in 1 .. Len(r) : r[k].at \in Int /\ r[k].failed \in BOOLEAN
    BY <1>4 DEF Attempt
  <1> HIDE DEF a, n, m, b, r
  <1>6. ASSUME NEW k \in 1 .. Len(r), ~ (k <= a)
        PROVE  \/ k - a \in 1 .. n /\ r[k].at = Now + (k - a) - 1
                    /\ r[k].failed = decision.outcomes[k - a].failed
               \/ ~ (k <= a + n) /\ r[k].at = steps /\ r[k].failed = TRUE
    <2>1. CASE k <= a + n
      <3>1. k - a \in 1 .. n /\ a + (k - a) = k
        BY <1>1, <1>6, <2>1
      <3>2. /\ r[a + (k - a)].at = Now + (k - a) - 1
            /\ r[a + (k - a)].failed = decision.outcomes[k - a].failed
        BY <1>1, <3>1
      <3> QED  BY <3>1, <3>2
    <2>2. CASE ~ (k <= a + n)
      <3>1. k - (a + n) \in 1 .. m /\ a + n + (k - (a + n)) = k
        BY <1>1, <2>2
      <3>2. r[a + n + (k - (a + n))].at = steps /\ r[a + n + (k - (a + n))].failed = TRUE
        BY <1>1, <3>1
      <3> QED  BY <2>2, <3>1, <3>2
    <2> QED  BY <2>1, <2>2
  <1>7. ASSUME NEW k \in 1 .. Len(r), k <= a
        PROVE  r[k].at < Now \/ (r[k].at = Now /\ r[k].failed)
    <2>1. k \in 1 .. a
      BY <1>1, <1>7
    <2> QED  BY <1>1, <1>2, <2>1
  <1>8. ASSUME NEW k \in 1 .. Len(r), ~ (k <= a)
        PROVE  Now <= r[k].at /\ (r[k].at < steps \/ (r[k].at = steps /\ r[k].failed))
    <2>1. CASE k - a \in 1 .. n /\ r[k].at = Now + (k - a) - 1
                 /\ r[k].failed = decision.outcomes[k - a].failed
      <3>1. CASE k - a = n /\ decision.outcomes[n].failed
        BY <1>1, <1>2, <2>1, <3>1
      <3>2. CASE k - a = n /\ ~decision.outcomes[n].failed
        BY <1>1, <1>2, <2>1, <3>2
      <3>3. CASE k - a # n
        <4>1. k - a \in Int /\ k - a < n
          BY <1>1, <2>1, <3>3
        <4> QED  BY <1>1, <1>2, <2>1, <4>1
      <3> QED  BY <3>1, <3>2, <3>3
    <2>2. CASE r[k].at = steps /\ r[k].failed = TRUE
      BY <1>2, <2>2
    <2> QED  BY <1>6, <1>8, <2>1, <2>2
  <1>9. \A k \in 1 .. Len(r) : r[k].at < steps \/ (r[k].at = steps /\ r[k].failed)
    <2>1. ASSUME NEW k \in 1 .. Len(r), k <= a
          PROVE  r[k].at < steps \/ (r[k].at = steps /\ r[k].failed)
      BY <1>2, <1>5, <1>7, <2>1
    <2> QED  BY <1>8, <2>1
  <1>10. ASSUME NEW i \in 1 .. Len(r), NEW j \in 1 .. Len(r), i < j
         PROVE  r[i].at < r[j].at \/ (r[i].at = r[j].at /\ r[i].failed)
    <2>1. CASE j <= a
      <3>1. i \in 1 .. a /\ j \in 1 .. a
        BY <1>1, <1>10, <2>1
      <3> QED  BY <1>1, <1>3, <1>10, <3>1 DEF Timely, a
    <2>2. CASE i <= a /\ ~ (j <= a)
      BY <1>2, <1>5, <1>7, <1>8, <2>2
    <2>3. CASE ~ (i <= a)
      <3>1. ~ (j <= a)
        BY <1>1, <1>10, <2>3
      <3>2. CASE ~ (j <= a + n)
        <4>1. j - a \notin 1 .. n
          BY <1>1, <3>2
        <4>2. r[j].at = steps
          BY <1>6, <3>1, <4>1
        <4> QED  BY <1>9, <4>2
      <3>3. CASE j <= a + n
        <4>1. i <= a + n
          BY <1>1, <1>10, <3>3
        <4>2. r[i].at = Now + (i - a) - 1 /\ r[j].at = Now + (j - a) - 1
          BY <1>6, <2>3, <3>1, <3>3, <4>1
        <4> QED  BY <1>1, <1>2, <1>10, <4>2
      <3> QED  BY <3>2, <3>3
    <2> QED  BY <2>1, <2>2, <2>3
  <1> QED  BY <1>9, <1>10 DEF Timely, r

(* The end of a decision: what was tried and what was refused is           *)
(* remembered, compacted, and its stalls are announced.                    *)
LEMMA MemoryEnds ==
  ASSUME StepsInv, Recalling, Timed, EndDecision
  PROVE  Recalling' /\ Timed' /\ StallsAnnounced'
  <1> DEFINE a == Len(memory)  n == Len(decision.outcomes)  m == Len(decision.refused)
             r == Remembered  t == tried'  p == Before  b == Base
             y == [i \in DOMAIN decision.refused |->
                     [act |-> decision.refused[i], failed |-> TRUE]]
  <1>1. /\ at = "wait" /\ at' \in {"decide", "over"} /\ t = tried \o y
        /\ announced' = announced \cup Repeated(r) /\ memory' = Compacted(r)
        /\ decision' = NoDecision /\ steps' = steps
    BY DEF EndDecision
  <1>2. /\ a \in Nat /\ n \in Nat /\ m \in Nat
        /\ r \in Seq(Attempt) /\ Len(r) = a + n + m
        /\ \A k \in 1 .. a : r[k] = memory[k]
        /\ \A i \in 1 .. n : /\ r[a + i].act = decision.outcomes[i].act
                             /\ r[a + i].failed = decision.outcomes[i].failed
        /\ \A i \in 1 .. m : /\ r[a + n + i].act = decision.refused[i]
                             /\ r[a + n + i].failed = TRUE
    BY <1>1, RememberedIs
  <1>3. /\ Timely(r)
        /\ \A k \in 1 .. Len(r) : r[k].at < steps \/ (r[k].at = steps /\ r[k].failed)
    BY <1>1, RememberedTimely
  <1>4. /\ tried \in Seq(TriedType) /\ p \in Seq(TriedType) /\ Len(p) = b /\ b \in Nat
        /\ b + n = Len(tried) /\ \A i \in 1 .. b : p[i] = tried[i]
    <2>1. Len(tried) \in Nat /\ b \in Nat /\ b = Len(tried) - n
      BY BeforeIs DEF Recalling, Base
    <2>2. b + n = Len(tried)
      BY <1>2, <2>1
    <2> QED  BY <2>1, <2>2, BeforeIs
  <1>5. y \in Seq(TriedType) /\ Len(y) = m
        /\ \A i \in 1 .. m : y[i].act = decision.refused[i] /\ y[i].failed = TRUE
    <2>1. decision.refused \in Seq(Acts)
      BY DEF StepsInv, Types, DecisionType
    <2>2. DOMAIN decision.refused = 1 .. m /\ \A i \in 1 .. m : decision.refused[i] \in Acts
      BY <2>1, ElementOfSeq, LenProperties
    <2>3. y \in [1 .. m -> TriedType]
      BY <2>2 DEF TriedType
    <2>4. \A i \in 1 .. m : y[i].act = decision.refused[i] /\ y[i].failed = TRUE
      BY <2>2
    <2> HIDE DEF y, m
    <2> QED  BY <1>2, <2>3, <2>4
  <1> HIDE DEF y
  <1>6. /\ t \in Seq(TriedType) /\ Len(t) = Len(tried) + m
        /\ \A i \in 1 .. Len(tried) + m :
             t[i] = IF i <= Len(tried) THEN tried[i] ELSE y[i - Len(tried)]
    <2>1. /\ tried \o y \in Seq(TriedType) /\ Len(tried \o y) = Len(tried) + Len(y)
          /\ \A i \in 1 .. Len(tried) + Len(y) :
               (tried \o y)[i] = IF i <= Len(tried) THEN tried[i] ELSE y[i - Len(tried)]
      <3>1. tried \in Seq(TriedType) /\ y \in Seq(TriedType)
        BY <1>4, <1>5
      <3> QED  BY <3>1, ConcatProperties, Zenon
    <2> HIDE DEF t
    <2> QED  BY <1>1, <1>5, <2>1
  <1>7. memory \in Seq(Attempt) /\ \A i \in 1 .. n :
          tried[b + i].act = decision.outcomes[i].act /\ tried[b + i].failed = decision.outcomes[i].failed
    BY DEF Recalling
  <1>8. PICK g : Recalls(g, memory, p, KeptOf(p))
    BY DEF Recalling
  <1> HIDE DEF a, n, m, r, t, p, b
  <1>9. Len(p) <= Len(t) /\ \A i \in 1 .. Len(p) : t[i] = p[i]
    <2>1. Len(t) = b + n + m
      BY <1>4, <1>6
    <2>2. \A i \in 1 .. b : i \in 1 .. Len(tried) + m /\ i <= Len(tried)
      BY <1>2, <1>4
    <2> QED  BY <1>2, <1>4, <1>6, <2>1, <2>2
  <1>10. Len(r) = Len(memory) + (Len(t) - Len(p))
    <2>1. Len(p) = b /\ Len(t) = b + n + m /\ Len(memory) = a
      BY <1>4, <1>6 DEF a
    <2>2. (b + n + m) - b = n + m /\ a + (n + m) = a + n + m
      BY <1>2, <1>4
    <2> QED  BY <1>2, <2>1, <2>2
  <1>11. ASSUME NEW i \in 1 .. Len(t) - Len(p)
         PROVE  /\ r[Len(memory) + i].act = t[Len(p) + i].act
                /\ r[Len(memory) + i].failed = t[Len(p) + i].failed
    <2>1. i \in 1 .. n + m
      BY <1>2, <1>4, <1>6
    <2>2. CASE i <= n
      <3>1. i \in 1 .. n /\ b + i \in 1 .. Len(tried) + m /\ b + i <= Len(tried)
        BY <1>2, <1>4, <2>1, <2>2
      <3>2. t[b + i] = tried[b + i]
        BY <1>6, <3>1
      <3>3. r[a + i].act = t[b + i].act /\ r[a + i].failed = t[b + i].failed
        BY <1>2, <1>7, <3>1, <3>2
      <3> QED  BY <1>4, <3>3 DEF a
    <2>3. CASE ~ (i <= n)
      <3> DEFINE k == i - n
      <3>1. /\ k \in 1 .. m /\ b + i \in 1 .. (b + n) + m /\ ~ (b + i <= b + n)
            /\ (b + i) - (b + n) = k /\ a + n + k = a + i
        BY <1>2, <1>4, <2>1, <2>3
      <3> HIDE DEF k
      <3>2. t[b + i] = y[k]
        BY <1>4, <1>6, <3>1
      <3>3. r[a + i].act = t[b + i].act /\ r[a + i].failed = t[b + i].failed
        <4>1. r[a + n + k].act = y[k].act /\ r[a + n + k].failed = y[k].failed
          BY <1>2, <1>5, <3>1
        <4> QED  BY <3>1, <3>2, <4>1
      <3> QED  BY <1>4, <3>3 DEF a
    <2> QED  BY <2>2, <2>3
  <1>12. Covers(t, Since(p, t)) /\ \E h : Recalls(h, r, t, Since(p, t))
    BY <1>2, <1>4, <1>6, <1>7, <1>8, <1>9, <1>10, <1>11, RecallsMore DEF a
  <1>13. PICK h : Recalls(h, r, t, Since(p, t))
    BY <1>12
  <1>14. /\ memory' \in Seq(Attempt) /\ Timely(memory')
         /\ \A k \in 1 .. Len(memory') : \E j \in 1 .. Len(r) : memory'[k] = r[j]
         /\ \E f : Recalls(f, memory', t, KeptOf(t))
    BY <1>1, <1>2, <1>3, <1>6, <1>12, <1>13, CompactedRecalls
  <1>15. Repeated(t) \subseteq Repeated(r)
    BY <1>2, <1>6, <1>12, <1>13, StallsRecalled
  <1>16. StallsAnnounced'
    BY <1>1, <1>15 DEF StallsAnnounced, t
  <1>17. decision'.outcomes = << >> /\ Cardinality(Ran(decision')) = 0
    BY <1>1, NothingRan DEF NoDecision
  <1>18. Base' = Len(t) /\ Len(t) \in Nat
    BY <1>6, <1>17, LenProperties DEF Base, t
  <1>19. Before' = t
    BY <1>6, <1>18, SubSeqFull DEF Before, t
  <1>20. Recalling'
    BY <1>14, <1>17, <1>18, <1>19 DEF Recalling
  <1>21. Now' = steps
    BY <1>1 DEF Now
  <1>22. Timed'
    BY <1>3, <1>14, <1>17, <1>21 DEF Timed
  <1> QED  BY <1>16, <1>20, <1>22

(* A call that is asked for, or comes to nothing, tries nothing.           *)
LEMMA MissedMemory ==
  ASSUME StepsInv, Recalling, Timed, at \in {"ask", "answer"}, NEW d,
         d.outcomes = decision.outcomes, Waited(d).outcomes = d.outcomes,
         Missed(d), UNCHANGED <<memory, steps, tried>>
  PROVE  Recalling' /\ Timed' /\ StallsAnnounced'
  <1>1. at' \in {"ask", "run"} /\ decision'.outcomes = decision.outcomes
    BY DEF Missed
  <1>2. Now \in Int /\ Now' = Now
    BY <1>1, BeforeIs DEF Recalling, Now
  <1>3. Recalling' /\ Timed'
    BY <1>1, <1>2, MemoryWaits
  <1> QED  BY <1>1, <1>3 DEF StallsAnnounced, Between

(* Memory is complete in every step.                                       *)
LEMMA MemoryStep ==
  ASSUME MemoryInv, StepsInv', [Next]_vars
  PROVE  MemoryInv'
  <1>1. /\ StepsInv /\ StallsAnnounced /\ decision \in DecisionType
        /\ Playing => Recalling /\ Timed
    BY DEF MemoryInv, StepsInv, Types
  <1>2. \A d \in DecisionType : Waited(d).outcomes = d.outcomes
    BY DEF DecisionType, Waited
  <1> USE DEF MemoryInv
  <1>3. ASSUME UNCHANGED <<at, steps, decision, memory, announced, tried>>
        PROVE  MemoryInv'
    <2>1. Ran(decision') = Ran(decision) /\ (Playing' <=> Playing)
      BY <1>3 DEF Ran, Playing
    <2>2. Now' = Now /\ (Playing => Now \in Int)
      BY <1>1, <1>3, <2>1, BeforeIs DEF Now, Recalling
    <2>3. Playing => Recalling' /\ Timed'
      BY <1>1, <1>3, <2>2, MemoryWaits
    <2>4. StallsAnnounced'
      BY <1>1, <1>3 DEF StallsAnnounced, Between
    <2> QED  BY <2>1, <2>3, <2>4
  <1>4. CASE UNCHANGED vars \/ Expire
    BY <1>3, <1>4 DEF vars, Expire
  <1>5. CASE Reset
    BY <1>1, <1>5, MemoryBegins
  <1>6. CASE Decide \/ Send \/ Accept
    <2>1. /\ Playing /\ at' \in {"ask", "answer", "run"} /\ at \in {"decide", "ask", "answer"}
          /\ UNCHANGED <<memory, steps, tried>> /\ decision'.outcomes = decision.outcomes
      <3>1. CASE Decide
        BY <3>1 DEF Decide, Playing
      <3>2. CASE Send
        BY <1>1, <3>2 DEF Send, Playing, Called, DecisionType
      <3>3. CASE Accept
        BY <1>1, <3>3 DEF Accept, Playing, DecisionType
      <3> QED  BY <1>6, <3>1, <3>2, <3>3
    <2>2. Now \in Int /\ Now' = Now
      BY <1>1, <2>1, BeforeIs DEF Recalling, Now
    <2>3. Recalling' /\ Timed'
      BY <1>1, <2>1, <2>2, MemoryWaits
    <2> QED  BY <2>1, <2>3 DEF StallsAnnounced, Between
  <1>7. CASE Refuse
    <2>1. Called.outcomes = decision.outcomes /\ Called \in DecisionType
      BY <1>1 DEF Called, DecisionType
    <2> QED  BY <1>1, <1>2, <1>7, <2>1, MissedMemory DEF Refuse, Playing
  <1>8. CASE Reject
    <2>1. PICK named \in {<< >>} \cup {<<a>> : a \in Acts \ {Wait}} :
            Missed([decision EXCEPT !.refused = @ \o named])
      BY <1>8 DEF Reject
    <2> DEFINE d == [decision EXCEPT !.refused = @ \o named]
    <2>2. named \in Seq(Acts)
      <3>1. CASE named = << >>
        BY <3>1
      <3>2. CASE \E a \in Acts : named = <<a>>
        BY <3>2
      <3> QED  BY <2>1, <3>1, <3>2
    <2>3. decision.refused \o named \in Seq(Acts)
      <3>1. decision.refused \in Seq(Acts)
        BY <1>1 DEF DecisionType
      <3> QED  BY <2>2, <3>1
    <2>4. d \in DecisionType /\ d.outcomes = decision.outcomes
      BY <1>1, <2>3 DEF DecisionType
    <2> QED  BY <1>1, <1>2, <1>8, <2>1, <2>4, MissedMemory DEF Reject, Playing
  <1>9. CASE CallFails
    BY <1>1, <1>2, <1>9, MissedMemory DEF CallFails, Playing
  <1>10. CASE Run
    <2>1. PICK failed \in BOOLEAN :
            /\ decision' = [decision EXCEPT !.outcomes = Append(@, Outcome(TRUE, failed))]
            /\ Tries(decision.asked[Position], failed)
      BY <1>10 DEF Run
    <2>2. at = "run" /\ at' = "run" /\ ~Stopped /\ UNCHANGED <<memory, steps>>
      BY <1>10 DEF Run
    <2>3. Recalling' /\ Timed'
      BY <1>1, <2>1, <2>2, MemoryTries DEF Playing
    <2> QED  BY <2>2, <2>3 DEF StallsAnnounced, Between
  <1>11. CASE RefuseStale
    <2>1. /\ decision' = [decision EXCEPT !.outcomes = Append(@, Outcome(FALSE, TRUE))]
          /\ Tries(decision.asked[Position], TRUE)
          /\ at = "run" /\ at' = "run" /\ ~Stopped /\ UNCHANGED <<memory, steps>>
      BY <1>11 DEF RefuseStale
    <2>2. Recalling' /\ Timed'
      BY <1>1, <2>1, MemoryTries DEF Playing
    <2> QED  BY <2>1, <2>2 DEF StallsAnnounced, Between
  <1>12. CASE EndSequence
    <2>1. /\ at = "run" /\ at' = "wait" /\ steps' = steps + Cardinality(Ran(decision))
          /\ UNCHANGED <<decision, memory, tried>>
      BY <1>12 DEF EndSequence
    <2>2. Ran(decision') = Ran(decision)
      BY <2>1 DEF Ran
    <2>3. Recalling /\ Timed /\ Cardinality(Ran(decision)) \in Nat /\ steps \in Nat
      BY <1>1, <2>1, BeforeIs DEF Recalling, Playing
    <2>4. Now = steps /\ Now' = steps
      BY <2>1, <2>2, <2>3 DEF Now
    <2>5. Recalling' /\ Timed'
      BY <1>1, <2>1, <2>3, <2>4, MemoryWaits
    <2> QED  BY <2>1, <2>5 DEF StallsAnnounced, Between
  <1>13. CASE RepeatWait
    <2>1. /\ at = "wait" /\ at' = "wait" /\ steps' = steps + 1
          /\ UNCHANGED <<memory, tried>> /\ decision'.outcomes = decision.outcomes
      BY <1>1, <1>13 DEF RepeatWait, DecisionType
    <2>2. Ran(decision') = Ran(decision)
      BY <2>1 DEF Ran
    <2>3. Recalling /\ Timed /\ Cardinality(Ran(decision)) \in Nat /\ steps \in Nat
      BY <1>1, <2>1, BeforeIs DEF Recalling, Playing
    <2>4. Now \in Int /\ Now' = Now + 1
      BY <2>1, <2>2, <2>3 DEF Now
    <2>5. Recalling' /\ Timed'
      BY <1>1, <2>1, <2>3, <2>4, MemoryWaits
    <2> QED  BY <2>1, <2>5 DEF StallsAnnounced, Between
  <1>14. CASE EndDecision
    <2>1. Playing
      BY <1>14 DEF EndDecision, Playing
    <2> QED  BY <1>1, <1>14, <2>1, MemoryEnds
  <1>15. CASE CallRaises \/ StepRaises \/ EndEpisode
    <2>1. at' \in {"reset", "done"}
      BY <1>15 DEF CallRaises, StepRaises, Fail, EndEpisode
    <2> QED  BY <2>1 DEF Playing, StallsAnnounced, Between
  <1> QED
    BY <1>4, <1>5, <1>6, <1>7, <1>8, <1>9, <1>10, <1>11, <1>12, <1>13, <1>14, <1>15 DEF Next, Loop

(* The invariant of steps and memory.                                      *)
LEMMA MemoryHolds == Spec => []MemoryInv
  <1>1. Init => MemoryInv
    BY InitSteps DEF Init, MemoryInv, Playing, StallsAnnounced, Between
  <1>2. ASSUME MemoryInv, [Next]_vars
        PROVE  MemoryInv'
    BY <1>2, StepsStep, MemoryStep DEF MemoryInv
  <1> QED  BY <1>1, <1>2, PTL DEF Spec

(* For any acts, bounds and answers, over any number of compactions: what  *)
(* memory holds between decisions is every failure and the last successes  *)
(* of what was tried, in the order in which it happened.                   *)
THEOREM MemoryIsComplete == Spec => []MemoryComplete
  <1>1. MemoryInv => MemoryComplete
    <2> SUFFICES ASSUME MemoryInv, Between
                 PROVE  MemoryComplete
      BY DEF MemoryComplete
    <2> DEFINE kept == {i \in DOMAIN tried : tried[i].failed \/
                          Cardinality({j \in DOMAIN tried : j > i /\ ~tried[j].failed}) < Kept}
               order == Ordered(kept, <)
    <2>1. StepsInv /\ Recalling /\ decision.outcomes = << >>
      BY DEF MemoryInv, Playing, Between, StepsInv, Making, NoDecision
    <2>2. tried \in Seq(TriedType) /\ memory \in Seq(Attempt)
      BY <2>1, BeforeIs DEF Recalling
    <2>3. Before = tried
      <3>1. Len(tried) \in Nat
        BY <2>2, LenProperties
      <3>2. Base = Len(tried)
        BY <2>1, <3>1 DEF Base
      <3> QED  BY <2>2, <3>2, SubSeqFull DEF Before
    <2>4. kept = KeptOf(tried)
      BY <2>2, KeptOfIs DEF KeptOf, After
    <2>5. PICK g : Recalls(g, memory, tried, KeptOf(tried))
      BY <2>1, <2>3 DEF Recalling
    <2>6. KeptOf(tried) \in SUBSET Nat /\ Lists(g, Len(memory), KeptOf(tried))
      BY <2>2, <2>5, KeptOfIs DEF Recalls
    <2>7. g = Ordered(KeptOf(tried), <) /\ Len(memory) = Cardinality(KeptOf(tried))
      BY <2>6, ListsUnique
    <2>8. g = order
      BY <2>4, <2>7
    <2> HIDE DEF kept, order
    <2>9. order \in [1 .. Len(memory) -> KeptOf(tried)] /\ Len(memory) \in Nat
      BY <2>6, <2>8 DEF Lists
    <2>10. Len(memory) = Len(order) /\ DOMAIN order = 1 .. Len(memory)
      BY <2>9
    <2>11. \A k \in DOMAIN order : /\ memory[k].act = tried[order[k]].act
                                   /\ memory[k].failed = tried[order[k]].failed
      BY <2>5, <2>8, <2>10 DEF Recalls
    <2> QED  BY <2>10, <2>11 DEF MemoryComplete, kept, order
  <1> QED  BY <1>1, MemoryHolds, PTL

(* An act that failed as often as makes a stall, with no success since,    *)
(* was announced, whatever had been compacted away.                        *)
THEOREM StallsAreAnnounced == Spec => []StallsAnnounced
  <1>1. MemoryInv => StallsAnnounced
    BY DEF MemoryInv
  <1> QED  BY <1>1, MemoryHolds, PTL
=============================================================================
