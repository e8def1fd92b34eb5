------------------------------ MODULE Holdout -------------------------------
(***************************************************************************)
(* The evaluation of a frozen set of scenes by several workers:            *)
(* evaluate_parallel (learn/train.py) over FactorioVecEnv (vecenv.py).     *)
(*                                                                         *)
(* A queue hands scenes to the workers; a scene whose episode fails for    *)
(* reasons of the infrastructure goes back to the queue, a bounded number  *)
(* of times.  The evaluation steps all workers together, scores each       *)
(* finished episode, and stops when all scenes are scored or none is left. *)
(***************************************************************************)
EXTENDS Naturals, Sequences, FiniteSets

CONSTANTS
  Workers,     \* num_workers: the number of slots
  SceneCount,  \* the length of the frozen range
  NoScene,     \* the tag None
  RetryLimit,  \* retry_limit of release_episode
  MaxSteps     \* max_decision_steps: when an episode ends at the latest

ASSUME CountsAssumption ==
  /\ Workers \in Nat \ {0} /\ SceneCount \in Nat \ {0}
  /\ RetryLimit \in Nat \ {0} /\ MaxSteps \in Nat \ {0}

Slots  == 1 .. Workers
Scenes == 1 .. SceneCount

ASSUME NoSceneAssumption == NoScene \notin Scenes

VARIABLES
  at,         \* "reset", "loop", "step", "score", or how the evaluation ended
  slot,       \* the slot step_wait or the scoring loop is at
  resetting,  \* the slots vec.reset has not reset yet
  queue,      \* _pending_indices
  attempts,   \* _attempts
  tag,        \* _assigned_index of each worker
  steps,      \* decisions of the episode each worker plays
  result,     \* what step_wait collected: [done, failed, scene] of each slot
  scored,     \* the scenes scored
  abandoned   \* history: scenes dropped because the reset of another failed

hvars == <<at, slot, resetting, queue, attempts, tag, steps, result, scored, abandoned>>

Running == [done |-> FALSE, failed |-> FALSE, scene |-> NoScene]

(* retarget, and the first vec.reset under way.                            *)
HInit ==
  /\ at = "reset" /\ slot = 1
  /\ resetting = Slots
  /\ queue = [i \in Scenes |-> i]
  /\ attempts = [s \in Scenes |-> 0]
  /\ tag = [w \in Slots |-> NoScene]
  /\ steps = [w \in Slots |-> 0]
  /\ result = [w \in Slots |-> Running]
  /\ scored = {} /\ abandoned = {}

-----------------------------------------------------------------------------
Queued == {queue[i] : i \in 1 .. Len(queue)}

(* The scene _reset_one takes from the queue, if there is one.             *)
Taken == IF queue = << >> THEN NoScene ELSE Head(queue)

Left == IF queue = << >> THEN queue ELSE Tail(queue)

Tried == IF queue = << >> THEN attempts ELSE [attempts EXCEPT ![Head(queue)] = @ + 1]

(* Mutation: a scene goes back once more than it may.                      *)
RequeuedOnceMore(q, tries, s) ==
  IF s # NoScene /\ tries[s] <= RetryLimit THEN Append(q, s) ELSE q

(* release_episode: a scene goes back unless its attempts are spent.       *)
Requeued(q, tries, s) ==
  IF s # NoScene /\ tries[s] < RetryLimit THEN Append(q, s) ELSE q

(* Mutation: the scene taken stays in the queue.                           *)
ResetOneKeeping(w) ==
  /\ queue' = queue /\ attempts' = Tried
  /\ tag' = [tag EXCEPT ![w] = Taken]
  /\ steps' = [steps EXCEPT ![w] = 0]

(* _reset_one succeeds, or fails and hands its scene back.                 *)
ResetOne(w) ==
  /\ queue' = Left /\ attempts' = Tried
  /\ tag' = [tag EXCEPT ![w] = Taken]
  /\ steps' = [steps EXCEPT ![w] = 0]

ResetOneFails(w) ==
  /\ queue' = Requeued(Left, Tried, Taken) /\ attempts' = Tried
  /\ tag' = [tag EXCEPT ![w] = Taken]
  /\ UNCHANGED steps

-----------------------------------------------------------------------------
(* vec.reset: the executor resets the workers side by side; a failure is   *)
(* not caught and ends the evaluation.                                     *)
ResetWorker(w) ==
  /\ at = "reset" /\ w \in resetting
  /\ \/ /\ ResetOne(w)
        /\ at' = IF resetting = {w} THEN "loop" ELSE at
     \/ /\ ResetOneFails(w)
        /\ at' = "aborted"
  /\ resetting' = resetting \ {w}
  /\ UNCHANGED <<slot, result, scored, abandoned>>

(* Mutation: episodes being played are not waited for.                     *)
NothingInFlight == {}

(* The scenes being played that can still be scored.                       *)
InFlight == {tag[w] : w \in Slots} \ (scored \cup {NoScene})

(* Mutation: the evaluation goes on until every scene is scored.           *)
LoopForEver ==
  /\ at = "loop"
  /\ at' = IF Cardinality(scored) = SceneCount THEN "complete" ELSE "step"
  /\ slot' = 1
  /\ UNCHANGED <<resetting, queue, attempts, tag, steps, result, scored, abandoned>>

(* The head of the loop: all scored (the run asks for the whole frozen     *)
(* range), none left, or one more step.                                    *)
Loop ==
  /\ at = "loop"
  /\ at' = IF Cardinality(scored) = SceneCount THEN "complete"
           ELSE IF queue = << >> /\ InFlight = {} THEN "incomplete"
           ELSE "step"
  /\ slot' = 1
  /\ UNCHANGED <<resetting, queue, attempts, tag, steps, result, scored, abandoned>>

(* step_wait goes on to the next slot, or returns.                         *)
Onward ==
  /\ at' = IF slot = Workers THEN "score" ELSE "step"
  /\ slot' = IF slot = Workers THEN 1 ELSE slot + 1
  /\ UNCHANGED <<resetting, abandoned>>

(* The episode of the slot goes on.                                        *)
StepRuns ==
  /\ at = "step"
  /\ steps[slot] + 1 < MaxSteps
  /\ steps' = [steps EXCEPT ![slot] = @ + 1]
  /\ result' = [result EXCEPT ![slot] = Running]
  /\ Onward
  /\ UNCHANGED <<queue, attempts, tag, scored>>

(* It ends, or the worker fails under it, and the worker takes a scene.    *)
StepEnds ==
  /\ at = "step"
  /\ \E failed \in BOOLEAN :
       result' = [result EXCEPT ![slot] = [done |-> TRUE, failed |-> failed,
                                           scene |-> tag[slot]]]
  /\ ResetOne(slot)
  /\ Onward
  /\ UNCHANGED scored

(* What a failing reset throws away: the episodes all slots play and those *)
(* that ended in this very step.                                           *)
Dropped ==
  ({tag[w] : w \in slot .. Workers} \cup
   UNION {{tag[w], result[w].scene} : w \in 1 .. slot - 1}) \ {NoScene}

(* The reset after it fails: step_wait raises, and evaluate_parallel       *)
(* resets all workers.                                                     *)
ResetFails ==
  /\ at = "step"
  /\ ResetOneFails(slot)
  /\ at' = "reset" /\ resetting' = Slots
  /\ slot' = 1
  /\ result' = [w \in Slots |-> Running]
  /\ abandoned' = abandoned \cup Dropped
  /\ UNCHANGED scored

(* The scene of a failed episode that is still to be scored goes back.     *)
GivenBack(r) ==
  IF r.failed /\ r.scene \notin scored THEN Requeued(queue, attempts, r.scene) ELSE queue

(* One finished episode: scored, or its scene given back.                  *)
Score ==
  /\ at = "score"
  /\ LET r == result[slot]
     IN  /\ queue' = IF r.done THEN GivenBack(r) ELSE queue
         /\ scored' = IF r.done /\ ~ r.failed
                      THEN scored \cup ({r.scene} \ {NoScene}) ELSE scored
  /\ result' = [result EXCEPT ![slot] = Running]
  /\ at' = IF slot = Workers THEN "loop" ELSE "score"
  /\ slot' = IF slot = Workers THEN 1 ELSE slot + 1
  /\ UNCHANGED <<resetting, attempts, tag, steps, abandoned>>

HNext == (\E w \in Slots : ResetWorker(w)) \/ Loop \/ StepRuns \/ StepEnds \/ ResetFails \/ Score

HSpec == HInit /\ [][HNext]_hvars

(* The evaluation is one loop that nothing outside it can hold up: every   *)
(* step and every reset has a deadline of its own.                         *)
HFairSpec == HSpec /\ WF_hvars(HNext)

-----------------------------------------------------------------------------
Ended == {"complete", "incomplete", "aborted"}

(* Every variable keeps its shape.                                         *)
HTypeOK ==
  /\ at \in {"reset", "loop", "step", "score"} \cup Ended
  /\ slot \in Slots /\ resetting \subseteq Slots
  /\ queue \in Seq(Scenes)
  /\ attempts \in [Scenes -> Nat]
  /\ tag \in [Slots -> Scenes \cup {NoScene}]
  /\ steps \in [Slots -> 0 .. MaxSteps - 1]
  /\ result \in [Slots -> [done : BOOLEAN, failed : BOOLEAN, scene : Scenes \cup {NoScene}]]
  /\ scored \subseteq Scenes /\ abandoned \subseteq Scenes

(* The scenes played by a worker, and those that ended unscored.           *)
Playing == {w \in Slots : at # "aborted" /\ w \notin resetting /\ tag[w] # NoScene}
Waiting == {w \in Slots : result[w].scene # NoScene}

(* A scene is in one place only: queued once, played by one worker, ended  *)
(* and waiting for its score, or scored.  So none is scored twice, played  *)
(* by two workers, or played again after its score (_reset_one,            *)
(* release_episode, evaluate_parallel).                                    *)
OnePlace ==
  /\ \A i, j \in 1 .. Len(queue) : queue[i] = queue[j] => i = j
  /\ \A v, w \in Playing : tag[v] = tag[w] => v = w
  /\ \A v, w \in Waiting : result[v].scene = result[w].scene => v = w
  /\ LET played == {tag[w] : w \in Playing}
         ended  == {result[w].scene : w \in Waiting}
     IN  /\ Queued \cap (played \cup ended \cup scored) = {}
         /\ played \cap (ended \cup scored) = {}
         /\ ended \cap scored = {}

(* The queue keeps the promise of Redelivery: a scene that is scored or    *)
(* given up never comes back, each start of an episode is one attempt, and *)
(* only a reset that failed beside it, or the abort of the evaluation,     *)
(* takes a scene that has attempts left (_reset_one, release_episode,      *)
(* evaluate_parallel).                                                     *)
Place(s) ==
  IF s \in scored THEN "done"
  ELSE IF s \in Queued THEN "owed"
  ELSE IF \E w \in Playing : tag[w] = s THEN "out"
  ELSE IF \E w \in Waiting : result[w].scene = s THEN "ended"
  ELSE "gone"

Retried == INSTANCE Redelivery WITH
  Items   <- Scenes,
  Limit   <- RetryLimit,
  place   <- [s \in Scenes |-> Place(s)],
  tries   <- attempts,
  dropped <- abandoned,
  stopped <- at = "aborted"

ImplementsRedelivery == Retried!Spec

(* A scene is started RetryLimit times at most, however episodes and       *)
(* resets fail (release_episode).                                          *)
AttemptsBounded == \A s \in Scenes : attempts[s] <= RetryLimit

Exhausted == {s \in Scenes : attempts[s] = RetryLimit}

(* "Never substitute a scene", nor lose one: an evaluation that gives up   *)
(* has spent the attempts of every scene it did not score, or dropped it   *)
(* when another worker could not reset (evaluate_parallel).                *)
GivesUpOnSpentOnly ==
  at = "incomplete" => Scenes \ scored \subseteq Exhausted \cup abandoned

(* "Could not be scored after bounded retries": an evaluation that gives   *)
(* up has spent the attempts of every scene it did not score.              *)
GivesUpAfterRetries ==
  at = "incomplete" => Scenes \ scored \subseteq Exhausted

(* "A frozen evaluation must terminate": whatever fails, and how often.    *)
EvaluationEnds == <>(at \in Ended)
=============================================================================
