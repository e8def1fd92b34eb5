------------------------------- MODULE Agent --------------------------------
(***************************************************************************)
(* A language-model agent (agent/loop.py) on an environment, behind the    *)
(* spend cap and the run clock (agent/guarded.py, agent/budget.py), with   *)
(* its memory (agent/memory.py).                                           *)
(*                                                                         *)
(* The loop is one thread; the clock expires at any moment, the provider   *)
(* answers anything or nothing, and the environment accepts, refuses or    *)
(* fails an action, ends the episode or raises.  The prompt's text, the    *)
(* plans and the notes are left out.                                       *)
(***************************************************************************)
EXTENDS Budget, AgentMemory

CONSTANTS
  Acts,           \* what can be asked for: verb, addressee and arguments
  Wait,           \* the no-op every catalog has
  MaxActs,        \* bound: acts of one reply
  MaxAttempts,    \* config.max_attempts
  MaxFallbacks,   \* config.max_consecutive_fallbacks
  WaitBatch,      \* config.wait_batch
  StepBudget,     \* the decisions of an episode: the task's or max_steps
  Episodes,       \* config.episodes
  Usages          \* what a call may really use, within its bounds: [hit, miss, output]

ASSUME AgentAssumption ==
  /\ Wait \in Acts
  /\ MaxActs \in Nat \ {0} /\ MaxAttempts \in Nat \ {0} /\ MaxFallbacks \in Nat \ {0}
  /\ WaitBatch \in Nat /\ StepBudget \in Nat \ {0} /\ Episodes \in Nat \ {0}
  /\ \A u \in Usages :
       /\ u.hit \in Nat /\ u.miss \in Nat /\ u.hit + u.miss <= InputBound
       /\ u.output \in 0 .. OutputBound

VARIABLES
  at,        \* where the loop stands
  episode,
  steps,     \* run_segment's count of environment steps
  fallbacks, \* consecutive_fallbacks
  decision,  \* the decision being made, see NoDecision
  memory,    \* Memory.attempts
  announced, \* _announced_stalls
  budget,    \* Budget: [committed, held]
  expired,   \* RunClock.expired
  ended,     \* how the run stands: "running", "completed", "failed"
  env,       \* the environment: [steps, over]
  tried,     \* history: what was tried in this episode, in order
  unpaid,    \* history: a call cost more than was committed for it
  late       \* history: the environment's steps after the deadline

vars == <<at, episode, steps, fallbacks, decision, memory, announced, budget, expired, ended,
          env, tried, unpaid, late>>

-----------------------------------------------------------------------------
(* Decision: the provider was tried `calls' times; the acts it asked for,  *)
(* who asked, what became of each, the acts a rejected reply named, and    *)
(* the waits repeated after it.                                            *)
NoDecision == [calls |-> 0, asked |-> << >>, by |-> "none", outcomes |-> << >>,
               refused |-> << >>, batched |-> 0]

Replies == UNION {[1 .. n -> Acts] : n \in 1 .. MaxActs}

Init ==
  /\ at = "reset" /\ episode = 1 /\ steps = 0 /\ fallbacks = 0
  /\ decision = NoDecision /\ memory = << >> /\ announced = {}
  /\ budget = NewBudget /\ expired = FALSE /\ ended = "running"
  /\ env = [steps |-> 0, over |-> FALSE]
  /\ tried = << >> /\ unpaid = FALSE /\ late = 0

-----------------------------------------------------------------------------
(* The run clock.                                                          *)
Expire == /\ ~expired /\ expired' = TRUE
          /\ UNCHANGED <<at, episode, steps, fallbacks, decision, memory, announced, budget,
                         ended, env, tried, unpaid, late>>

(* run_episode: a fresh environment, memory and counts.                    *)
Reset ==
  /\ at = "reset" /\ at' = "decide"
  /\ steps' = 0 /\ fallbacks' = 0 /\ memory' = << >> /\ announced' = {}
  /\ env' = [steps |-> 0, over |-> FALSE] /\ tried' = << >>
  /\ UNCHANGED <<episode, decision, budget, expired, ended, unpaid, late>>

(* The head of run_segment's loop, and the beginning of decide.            *)
Decide ==
  /\ at = "decide" /\ steps < StepBudget
  /\ at' = "ask"
  /\ UNCHANGED <<episode, steps, fallbacks, decision, memory, announced, budget, expired, ended, env,
                 tried, unpaid, late>>

-----------------------------------------------------------------------------
(* The fallback: a wait nobody chose.                                      *)
Waited(d) == [d EXCEPT !.asked = <<Wait>>, !.by = "fallback"]

(* An attempt came to nothing: the next one, or the fallback.              *)
Missed(d) ==
  IF d.calls < MaxAttempts
  THEN at' = "ask" /\ decision' = d
  ELSE at' = "run" /\ decision' = Waited(d)

Called == [decision EXCEPT !.calls = @ + 1]

(* Mutation: a call that is not sent does not count as an attempt.          *)
RefuseFreely ==
  /\ at = "ask" /\ (expired \/ ~Affordable(budget))
  /\ Missed(decision)
  /\ UNCHANGED <<episode, steps, fallbacks, memory, announced, budget, expired, ended, env,
                 tried, unpaid, late>>

(* BudgetedAdapter.complete refuses a call after the deadline, or one      *)
(* whose worst case does not fit under the cap.                            *)
Refuse ==
  /\ at = "ask" /\ (expired \/ ~Affordable(budget))
  /\ Missed(Called)
  /\ UNCHANGED <<episode, steps, fallbacks, memory, announced, budget, expired, ended, env,
                 tried, unpaid, late>>

Send ==
  /\ at = "ask" /\ ~expired /\ Affordable(budget)
  /\ at' = "answer" /\ budget' = Reserved(budget) /\ decision' = Called
  /\ UNCHANGED <<episode, steps, fallbacks, memory, announced, expired, ended, env, tried,
                 unpaid, late>>

(* The call is over: it used something, and the provider says so or not.   *)
Settles(answered) ==
  \E used \in Usages : \E report \in (IF answered THEN Reports(used) ELSE {NoUsage}) :
    /\ budget' = Settled(budget, report)
    /\ unpaid' = (unpaid \/ budget'.committed < budget.committed + Cost(used))

(* parse_sequence accepts: the reply's acts are run.                       *)
Accept ==
  /\ at = "answer" /\ at' = "run" /\ Settles(TRUE)
  /\ \E reply \in Replies :
       decision' = [decision EXCEPT !.asked = reply, !.by = "model", !.refused = << >>]
  /\ UNCHANGED <<episode, steps, fallbacks, memory, announced, expired, ended, env, tried, late>>

(* It rejects: the reply may still have named an act, which is remembered  *)
(* as refused if the decision falls back.                                  *)
Reject ==
  /\ at = "answer" /\ Settles(TRUE)
  /\ \E named \in {<< >>} \cup {<<a>> : a \in Acts \ {Wait}} :
       Missed([decision EXCEPT !.refused = @ \o named])
  /\ UNCHANGED <<episode, steps, fallbacks, memory, announced, expired, ended, env, tried, late>>

(* No answer: the hold is spent, and the attempt with it.                  *)
CallFails ==
  /\ at = "answer" /\ Settles(FALSE)
  /\ Missed(decision)
  /\ UNCHANGED <<episode, steps, fallbacks, memory, announced, expired, ended, env, tried, late>>

Fail == at' = "done" /\ ended' = "failed"

(* The adapter raises, against its contract: the run fails, settled.       *)
CallRaises ==
  /\ at = "answer" /\ Settles(FALSE) /\ Fail
  /\ UNCHANGED <<episode, steps, fallbacks, decision, memory, announced, expired, env, tried, late>>

-----------------------------------------------------------------------------
Ran(d) == {i \in DOMAIN d.outcomes : d.outcomes[i].ran}

Position == Len(decision.outcomes) + 1

(* Mutation: a sequence does not look at the deadline.                     *)
StoppedDeaf ==
  \/ Position > Len(decision.asked)
  \/ env.over
  \/ decision.outcomes # << >> /\ decision.outcomes[Len(decision.outcomes)].failed
  \/ Position > StepBudget - steps

(* _execute_sequence stops before the next act: all ran, one failed, the   *)
(* episode is over, the steps are spent, or the deadline has passed.       *)
Stopped ==
  \/ Position > Len(decision.asked)
  \/ env.over
  \/ decision.outcomes # << >> /\ decision.outcomes[Len(decision.outcomes)].failed
  \/ Position > StepBudget - steps
  \/ Position > 1 /\ expired

(* One environment step, which may end the episode.                        *)
Steps ==
  /\ \E over \in BOOLEAN : env' = [steps |-> env.steps + 1, over |-> over]
  /\ late' = IF expired THEN late + 1 ELSE late

Outcome(ran, failed) == [act |-> decision.asked[Position], ran |-> ran, failed |-> failed]

Tries(act, failed) == tried' = Append(tried, [act |-> act, failed |-> failed])

(* The next act is dispatched and completes, runs on or fails.             *)
Run ==
  /\ at = "run" /\ ~Stopped
  /\ \E failed \in BOOLEAN :
       /\ decision' = [decision EXCEPT !.outcomes = Append(@, Outcome(TRUE, failed))]
       /\ Tries(decision.asked[Position], failed)
  /\ Steps
  /\ UNCHANGED <<at, episode, steps, fallbacks, memory, announced, budget, expired, ended, unpaid>>

(* A later act is checked against the world the earlier ones left, and is  *)
(* refused without a step.                                                 *)
RefuseStale ==
  /\ at = "run" /\ ~Stopped /\ Position > 1
  /\ decision' = [decision EXCEPT !.outcomes = Append(@, Outcome(FALSE, TRUE))]
  /\ Tries(decision.asked[Position], TRUE)
  /\ UNCHANGED <<at, episode, steps, fallbacks, memory, announced, budget, expired, ended, env,
                 unpaid, late>>

(* The end of the sequence, also at its own wall clock of 30 seconds.      *)
EndSequence ==
  /\ at = "run" /\ (Stopped \/ Position > 1)
  /\ at' = "wait" /\ steps' = steps + Cardinality(Ran(decision))
  /\ UNCHANGED <<episode, fallbacks, decision, memory, announced, budget, expired, ended, env,
                 tried, unpaid, late>>

StepRaises ==
  /\ at \in {"reset", "run", "wait"} /\ Fail
  /\ UNCHANGED <<episode, steps, fallbacks, decision, memory, announced, budget, expired, env,
                 tried, unpaid, late>>

(* A bare wait of the model's is repeated without asking again.            *)
MayRepeat ==
  /\ decision.asked = <<Wait>> /\ decision.by = "model" /\ ~env.over
  /\ decision.batched < WaitBatch /\ steps < StepBudget

RepeatWait ==
  /\ at = "wait" /\ MayRepeat
  /\ steps' = steps + 1 /\ decision' = [decision EXCEPT !.batched = @ + 1]
  /\ Steps
  /\ UNCHANGED <<at, episode, fallbacks, memory, announced, budget, expired, ended, tried, unpaid>>

-----------------------------------------------------------------------------
(* Mutation: acts are remembered under the step the decision began at.     *)
RememberedAtBegin ==
  memory
    \o [i \in DOMAIN decision.outcomes |->
          [act |-> decision.outcomes[i].act, failed |-> decision.outcomes[i].failed,
           at |-> steps - Cardinality(Ran(decision))]]
    \o [i \in DOMAIN decision.refused |->
          [act |-> decision.refused[i], failed |-> TRUE, at |-> steps]]

(* record_action for what became of each act, then for the refused ones.   *)
Remembered ==
  memory
    \o [i \in DOMAIN decision.outcomes |->
          [act |-> decision.outcomes[i].act, failed |-> decision.outcomes[i].failed,
           at |-> steps - Cardinality(Ran(decision)) + i - 1]]
    \o [i \in DOMAIN decision.refused |->
          [act |-> decision.refused[i], failed |-> TRUE, at |-> steps]]

Fallbacks == IF decision.by = "model" THEN 0 ELSE fallbacks + 1

(* What ends the segment, in the order of the code's tests.                *)
SegmentOver ==
  \/ Ran(decision) = {}
  \/ Fallbacks >= MaxFallbacks
  \/ env.over
  \/ expired
  \/ steps >= StepBudget

(* The rest of the loop: memory, stalls, compaction, the tests.            *)
EndDecision ==
  /\ at = "wait"
  /\ tried' = tried \o [i \in DOMAIN decision.refused |->
                          [act |-> decision.refused[i], failed |-> TRUE]]
  /\ announced' = announced \cup Repeated(Remembered)
  /\ memory' = Compacted(Remembered)
  /\ fallbacks' = Fallbacks /\ decision' = NoDecision
  /\ at' = IF SegmentOver THEN "over" ELSE "decide"
  /\ UNCHANGED <<episode, steps, budget, expired, ended, env, unpaid, late>>

(* run: the next episode, unless it was the last or the deadline passed.   *)
EndEpisode ==
  /\ at = "over"
  /\ IF episode < Episodes /\ ~expired
     THEN at' = "reset" /\ episode' = episode + 1 /\ ended' = ended
     ELSE at' = "done" /\ ended' = "completed" /\ episode' = episode
  /\ UNCHANGED <<steps, fallbacks, decision, memory, announced, budget, expired, env, tried,
                 unpaid, late>>

Loop ==
  \/ Reset \/ Decide \/ Refuse \/ Send \/ Accept \/ Reject \/ CallFails \/ CallRaises
  \/ Run \/ RefuseStale \/ EndSequence \/ StepRaises \/ RepeatWait \/ EndDecision \/ EndEpisode

Next == Expire \/ Loop

Spec == Init /\ [][Next]_vars

FairSpec == Spec /\ WF_vars(Loop)

-----------------------------------------------------------------------------
(* The types of the variables; only a call that is out holds money.        *)
TypeOK ==
  /\ at \in {"reset", "decide", "ask", "answer", "run", "wait", "over", "done"}
  /\ episode \in 1 .. Episodes /\ steps \in 0 .. StepBudget /\ fallbacks \in 0 .. MaxFallbacks
  /\ decision.calls \in 0 .. MaxAttempts /\ decision.by \in {"none", "model", "fallback"}
  /\ ended \in {"running", "completed", "failed"}
  /\ budget.committed \in Nat /\ budget.held = (IF at = "answer" THEN WorstCase ELSE 0)

(* Whatever shape a provider reports in, whatever it leaves out, whether   *)
(* its call answers, fails or raises: what was committed covers what the   *)
(* calls cost, and with the hold stays under the cap.                      *)
SpendAccounted == ~unpaid /\ budget.committed + budget.held <= Cap

Between == at \in {"decide", "over"}

(* Sequences cut short, refused acts and repeated waits: the loop's count  *)
(* of steps is the environment's, and never above what the episode has.    *)
(* After the deadline one act that was decided on still runs, and if it    *)
(* is a bare wait its repetitions; no sequence goes on, nothing is asked.  *)
StepsAccounted ==
  /\ env.steps <= StepBudget
  /\ Between => steps = env.steps
  /\ late <= 1 \/ (late <= 1 + WaitBatch /\ tried[Len(tried)].act = Wait)

(* Of what was tried in an episode memory keeps every failure and the last *)
(* successes, in the order in which they happened, over any number of      *)
(* compactions.                                                            *)
MemoryComplete ==
  Between =>
    LET kept == {i \in DOMAIN tried : tried[i].failed \/
                   Cardinality({j \in DOMAIN tried : j > i /\ ~tried[j].failed}) < Kept}
        order == Ordered(kept, <)
    IN /\ Len(memory) = Len(order)
       /\ \A k \in DOMAIN order : /\ memory[k].act = tried[order[k]].act
                                  /\ memory[k].failed = tried[order[k]].failed

(* An act that failed as often as makes a stall, with no success between,  *)
(* has closed the plan, whatever was compacted away on the way.            *)
StallsAnnounced == Between => Repeated(tried) \subseteq announced

(* memory.py counts failures "since the last success for each signature":  *)
(* what memory calls a stall is one of the acts that were really tried.    *)
StallsReal == Between => Repeated(memory) \subseteq Repeated(tried)

(* Whatever the provider does, a run comes to its end.                     *)
RunEnds == <>(at = "done")
=============================================================================
