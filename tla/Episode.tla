------------------------------ MODULE Episode -------------------------------
(***************************************************************************)
(* One environment (FactorioEnv, OpenWorldEnv, SkillEnv) between a client  *)
(* and a worker.  The client resets and acts; the environment turns a call *)
(* into requests of its session, one at a time, any of which may fail, and *)
(* answers with a transition scored on its cached view of the world.       *)
(*                                                                         *)
(* The world stands still between requests.  What an action does to it is  *)
(* any change of one reading (`level': what the task's predicates measure) *)
(* and of one counter (`made': what machines made), a unit per interval.   *)
(***************************************************************************)
EXTENDS Rewards, FiniteSets, FiniteSetsExt

CONSTANTS
  Tasks,          \* the tasks an environment may be built for, see TaskOK
  DecisionTicks,  \* decision_ticks
  MaxLevel,       \* bound: the largest reading
  MaxWaits,       \* bound: intervals of the longest wait_for
  SkillBudget,    \* bound: primitives of one skill (SKILL_BUDGET and sidesteps)
  MaxFaults,      \* bound: requests that fail in a run
  MaxEpisodes     \* bound: resets

(* A task: its reward components, the reading it succeeds at (0: never),   *)
(* the ticks and the target of its verification window (0: none), its      *)
(* budgets, the ticks of its disruptions and what a client may call.  The  *)
(* window leaves time to build (validate_all); a task that has one pays    *)
(* for nothing else and succeeds by nothing else, as those declared do.    *)
TaskOK(t) ==
  /\ t.kinds \subseteq {"cost", "high", "potential"} /\ t.goal \in Nat
  /\ t.verify \in Nat /\ t.target \in Nat
  /\ t.verify > 0 => t.kinds = {} /\ t.goal = 0
  /\ t.steps \in Nat \ {0} /\ t.ticks \in Nat /\ t.verify < t.ticks
  /\ t.disruptAt \in [DOMAIN t.disruptAt -> Nat]
  /\ DOMAIN t.disruptAt \subseteq Nat /\ IsFiniteSet(DOMAIN t.disruptAt)
  /\ t.calls \subseteq {"skill", "wait", "finish", "bridge"}

ASSUME EpisodeAssumption ==
  /\ \A t \in Tasks : TaskOK(t)
  /\ DecisionTicks \in Nat \ {0} /\ MaxLevel \in Nat \ {0} /\ MaxWaits \in Nat
  /\ SkillBudget \in Nat \ {0} /\ MaxFaults \in Nat /\ MaxEpisodes \in Nat

VARIABLES
  task,    \* the task the environment was built for
  world,   \* the worker's world: [tick, level, made, down]
  env,     \* the environment's attributes, see Environments
  call,    \* the client's call under way and the request it waits for
  state,   \* the episode as the client was told: "none", "live", or how it ended
  raised,  \* an exception left the environment since the last reset
  told,    \* history: what the client was told in this episode
  faults, episodes

vars == <<task, world, env, call, state, raised, told, faults, episodes>>

-----------------------------------------------------------------------------
Disruptions == DOMAIN task.disruptAt

(* Powers of the discount: a payout i primitives in weighs 2^(steps - i).  *)
Weight(i) == 2 ^ (task.steps - i)

(* What a client is paid, discounted, by component: the potential, and the *)
(* rest; and, as a reference, what each rise of the best reading is worth. *)
Nothing == [plain |-> 0, shape |-> 0, due |-> 0]

NoWindow == [ran |-> FALSE, start |-> 0, end |-> 0, output |-> 0]

Idle == [op |-> "none", at |-> "idle", which |-> 0, inside |-> FALSE, left |-> 0,
         start |-> 0, mark |-> 0, waits |-> 0, spent |-> 0, plain |-> 0, sum |-> Nothing]

Asked(op) == [Idle EXCEPT !.op = op, !.at = "step"]

(* What reset clears before it asks the worker for anything.               *)
Cleared(e) ==
  [e EXCEPT !.steps = 0, !.applied = {}, !.log = [i \in Disruptions |-> "none"],
            !.window = NoWindow]

Fresh(l) == [tick |-> 0, level |-> l, made |-> 0, down |-> {}]

Init ==
  /\ task \in Tasks
  /\ world = Fresh(0)
  /\ env = [view |-> Fresh(0), steps |-> 0, applied |-> {},
            log |-> [i \in Disruptions |-> "none"], window |-> NoWindow,
            account |-> Opened(0)]
  /\ call = Idle /\ state = "none" /\ raised = FALSE
  /\ told = [plain |-> 0, sum |-> Nothing, elapsed |-> 0, first |-> 0, best |-> 0,
             success |-> FALSE]
  /\ faults = 0 /\ episodes = 0

-----------------------------------------------------------------------------
(* What may become of the environment when a request has answered: the     *)
(* next request of the call, or its answer to the client.                  *)
Moment(e, c, t, s) == [env |-> e, call |-> c, told |-> t, state |-> s]

Become(m) == env' = m.env /\ call' = m.call /\ told' = m.told /\ state' = m.state

(* The client receives the transition: its own discount goes by the        *)
(* primitive_steps it is told.                                             *)
Told(e, c, t, over, success) ==
  LET lasted == IF c.op = "skill" THEN c.spent ELSE 1 IN
  Moment(e, Idle,
         [t EXCEPT !.plain = @ + c.plain,
                   !.sum = [plain |-> @.plain + c.sum.plain \div 2 ^ t.elapsed,
                            shape |-> @.shape + c.sum.shape \div 2 ^ t.elapsed, due |-> @.due],
                   !.elapsed = @ + lasted, !.success = success],
         over)

(* The primitives by which the next payout of a call is discounted.        *)
Before(c) == IF c.op = "skill" THEN c.spent ELSE 0

(* A skill adds the payouts of its primitives, which its trace lists, each *)
(* discounted by the primitives before it; any other call is paid as its   *)
(* last interval is, and so is a wait.                                     *)
GatheredAt(c, paid, weight) ==
  LET so == IF c.op = "skill" THEN c ELSE Idle IN
  [c EXCEPT !.spent = @ + 1, !.plain = so.plain + paid.plain,
            !.sum = [plain |-> so.sum.plain + weight * paid.plain,
                     shape |-> so.sum.shape + weight * paid.shape, due |-> 0]]

(* Mutation: a skill sums the payouts of its primitives undiscounted.      *)
GatheredFlat(c, paid) == GatheredAt(c, paid, Weight(0))

Gathered(c, paid) == GatheredAt(c, paid, Weight(Before(c)))

(* The history of the readings: the best one, and what its rise is worth   *)
(* at its own primitive.                                                   *)
Seen(l, c) ==
  LET best == Most(told.best, l)
      rise == Least(Cap, best - told.first) - Least(Cap, told.best - told.first)
  IN [told EXCEPT !.best = best,
                  !.sum = [plain |-> @.plain, shape |-> @.shape,
                           due |-> @.due + Weight(told.elapsed + Before(c)) * rise]]

(* Mutation: a wait goes on after the interval that ended the episode.     *)
GoesOnDeaf(c, over) ==
  \/ c.op = "wait" /\ c.waits > 1
  \/ c.op = "skill" /\ over = "live" /\ c.spent < SkillBudget

(* wait_for repeats while it may and its condition is not met; a skill     *)
(* walks or mines on; both stop with the episode.                          *)
GoesOn(c, over) ==
  /\ over = "live"
  /\ \/ c.op = "wait" /\ c.waits > 1
     \/ c.op = "skill" /\ c.spent < SkillBudget

(* A primitive step has its transition [plain, shape], and how the episode *)
(* stands: back to the loop of the call, or to the client.                 *)
Answered(e, c, paid, over, success) ==
  LET g    == Gathered(c, paid)
      seen == Seen(e.view.level, c)
  IN {Told(e, g, seen, over, success)} \cup
     IF GoesOn(g, over)
     THEN {Moment([e EXCEPT !.steps = @ + 1],
                  [g EXCEPT !.at = "step", !.waits = IF @ > 0 THEN @ - 1 ELSE 0],
                  seen, state)}
     ELSE {}

(* run_verification: the window starts with the counter as it is.          *)
WindowOpened(e, c) ==
  [c EXCEPT !.inside = TRUE, !.left = task.verify, !.mark = e.view.made,
            !.start = e.view.tick, !.at = "step"]

(* Mutation: all of the game time may be spent before the window.          *)
OutOfBudgetLate(e) == e.steps >= task.steps \/ e.view.tick >= task.ticks

(* The decision budget, or construction_tick_limit.                        *)
OutOfBudget(e) == e.steps >= task.steps \/ e.view.tick >= task.ticks - task.verify

(* _succeeded: every success predicate of the task holds of the view.      *)
Succeeded(e) == task.goal > 0 /\ e.view.level >= task.goal

(* The end of step_payload: score the view; an episode out of budget is    *)
(* truncated, or scored by its verification window if it declares one.     *)
Scored(e, c) ==
  LET succeeded == Succeeded(e)
      pay  == Accounted(e.account, task.kinds, e.view.level, succeeded, succeeded)
      next == [e EXCEPT !.account = pay.account]
      out  == ~succeeded /\ OutOfBudget(e)
  IN IF out /\ task.verify > 0 /\ ~e.window.ran
     THEN {Moment(next, WindowOpened(next, [c EXCEPT !.plain = pay.plain]), told, state)}
     ELSE Answered(next, c, pay,
                   CASE succeeded -> "terminated" [] out -> "truncated" [] OTHER -> "live",
                   succeeded)

(* The end of run_verification: what machines made inside the window is    *)
(* the score, in units of the target.                                      *)
Measured(e, c) ==
  LET output == Most(0, e.view.made - c.mark)
      window == [ran |-> TRUE, start |-> c.start, end |-> e.view.tick, output |-> output]
  IN Answered([e EXCEPT !.window = window], c,
              [plain |-> c.plain + Least(output, task.target), shape |-> 0],
              "terminated", output >= task.target)

(* advance: the next chunk of the window, until all its ticks were asked.  *)
ChunkDone(e, c) ==
  LET left == c.left - Least(DecisionTicks, c.left) IN
  IF left > 0 THEN {Moment(e, [c EXCEPT !.left = left, !.at = "step"], told, state)}
              ELSE Measured(e, [c EXCEPT !.left = 0])

(* Mutation: a disruption fires at its own tick or not at all.             *)
DueExactly(e) ==
  {i \in Disruptions \ e.applied : task.disruptAt[i] = e.view.tick}

Due(e) == {i \in Disruptions \ e.applied : task.disruptAt[i] <= e.view.tick}

(* Mutation: a disruption is not marked when it is asked for.              *)
AdoptedUnmarked(e, c) ==
  IF Due(e) # {}
  THEN {Moment(e, [c EXCEPT !.at = "disrupt", !.which = Min(Due(e))], told, state)}
  ELSE IF c.inside THEN ChunkDone(e, c) ELSE Scored(e, c)

(* The end of _adopt: the next declared disruption whose tick has come is  *)
(* marked and asked for; with none left the step goes on.                  *)
Adopted(e, c) ==
  IF Due(e) # {}
  THEN {Moment([e EXCEPT !.applied = @ \cup {Min(Due(e))}],
               [c EXCEPT !.at = "disrupt", !.which = Min(Due(e))], told, state)}
  ELSE IF c.inside THEN ChunkDone(e, c) ELSE Scored(e, c)

-----------------------------------------------------------------------------
(* The client. A gym client or an agent gives up on an exception; the      *)
(* bridge answers its own client with an error and stays open.             *)
MayCall == call = Idle /\ state = "live" /\ (raised => "bridge" \in task.calls)

Calls(c, e) == call' = c /\ env' = e /\ UNCHANGED <<task, world, state, raised, told, faults, episodes>>

(* step and step_arguments: one primitive action.                          *)
Act == MayCall /\ Calls(Asked("act"), [env EXCEPT !.steps = @ + 1])

(* SkillEnv.step with a skill's index.                                     *)
Skill == MayCall /\ "skill" \in task.calls /\ Calls(Asked("skill"), [env EXCEPT !.steps = @ + 1])

(* wait_for, with its seconds in intervals (inspect waits one).            *)
WaitFor ==
  /\ MayCall /\ "wait" \in task.calls
  /\ \E n \in 1 .. MaxWaits :
       Calls([Asked("wait") EXCEPT !.waits = n], [env EXCEPT !.steps = @ + 1])

(* finish: the decision is counted and the window runs now.                *)
Finish ==
  /\ MayCall /\ "finish" \in task.calls /\ task.verify > 0 /\ ~env.window.ran
  /\ Calls(WindowOpened(env, Asked("finish")), [env EXCEPT !.steps = @ + 1])

(* finish without a window to run: the episode ends, scored as it stands.  *)
FinishUnmeasured ==
  /\ MayCall /\ "finish" \in task.calls /\ (task.verify = 0 \/ env.window.ran)
  /\ LET pay == Accounted(env.account, task.kinds, env.view.level, Succeeded(env), TRUE)
     IN Become(Told([env EXCEPT !.steps = @ + 1, !.account = pay.account],
                    Gathered(Asked("finish"), pay), Seen(env.view.level, Asked("finish")),
                    "terminated", Succeeded(env)))
  /\ UNCHANGED <<task, world, raised, faults, episodes>>

(* FactorioBridge.finish: run_verification, with no decision counted; it   *)
(* refuses a task without a window, and a second window.                   *)
BridgeFinish ==
  /\ MayCall /\ "bridge" \in task.calls /\ task.verify > 0 /\ ~env.window.ran
  /\ Calls(WindowOpened(env, Asked("bridge")), env)

(* reset: the counters of the episode go first.                            *)
Reset ==
  /\ call = Idle /\ episodes < MaxEpisodes
  /\ call' = [Asked("reset") EXCEPT !.at = "reset"]
  /\ env' = Cleared(env) /\ episodes' = episodes + 1
  /\ UNCHANGED <<task, world, state, raised, told, faults>>

-----------------------------------------------------------------------------
(* The worlds an interval may end in: machines make nothing while down.    *)
Intervals(n) ==
  UNION {{[world EXCEPT !.tick = @ + n, !.level = l, !.made = m] :
            m \in world.made .. world.made + (IF task.verify > 0 /\ world.down = {} THEN 1 ELSE 0)} :
           l \in {x \in 0 .. MaxLevel : /\ x \in world.level - 1 .. world.level + 1
                                        /\ task.goal = 0 => x = world.level
                                        /\ world.down # {} => x <= world.level}}

Ticks == IF call.inside THEN Least(DecisionTicks, call.left) ELSE DecisionTicks

Faulty == faults < MaxFaults /\ faults' = faults + 1

(* The exception leaves the environment as it is; the client learns that.  *)
Raise == /\ Faulty /\ raised' = TRUE /\ call' = Idle
         /\ UNCHANGED <<task, env, state, told, episodes>>

(* session.step settles: the reply carries observation and truth.          *)
StepSettles ==
  /\ call.at = "step"
  /\ \E w \in Intervals(Ticks) :
       /\ world' = w
       /\ \E m \in Adopted([env EXCEPT !.view = w], call) : Become(m)
  /\ UNCHANGED <<task, raised, faults, episodes>>

(* The worker refuses the step: no reply to adopt, so the world is read.   *)
StepRefused ==
  /\ call.at = "step" /\ Faulty
  /\ call' = [call EXCEPT !.at = "observe"]
  /\ UNCHANGED <<task, world, env, state, raised, told, episodes>>

(* No answer, whether or not the step ran: a step of the client's becomes  *)
(* a truncated transition excluded from the metrics; one of the window     *)
(* leaves run_verification as an exception.                                *)
StepFails ==
  /\ call.at = "step"
  /\ world' \in Intervals(Ticks) \cup {world}
  /\ IF call.inside THEN Raise
     ELSE /\ Faulty
          /\ \E m \in Answered(env, call, [plain |-> 0, shape |-> 0], "excluded", FALSE) : Become(m)
          /\ UNCHANGED <<task, raised, episodes>>

After(at) == CASE at = "observe" -> "truth" [] at = "reobserve" -> "retruth"
               [] at = "begin" -> "begintruth"

Observes ==
  /\ call.at \in {"observe", "reobserve", "begin"}
  /\ env' = [env EXCEPT !.view.tick = world.tick, !.view.down = world.down]
  /\ call' = [call EXCEPT !.at = After(@)]
  /\ UNCHANGED <<task, world, state, raised, told, faults, episodes>>

(* The truth completes the view: of a refused step, or of a resync.        *)
ReadsTruth ==
  /\ call.at \in {"truth", "retruth"}
  /\ \E m \in Adopted([env EXCEPT !.view.level = world.level, !.view.made = world.made],
                      call) : Become(m)
  /\ UNCHANGED <<task, world, raised, faults, episodes>>

(* Mutation: the view is not read again after a disruption.                *)
DisruptsUnseen ==
  /\ call.at = "disrupt"
  /\ \/ /\ world' = [world EXCEPT !.down = @ \cup {call.which}] /\ faults' = faults
        /\ \E m \in Adopted([env EXCEPT !.log[call.which] = "applied"], call) : Become(m)
     \/ /\ world' = world /\ Faulty
        /\ \E m \in Adopted([env EXCEPT !.log[call.which] = "refused"], call) : Become(m)
  /\ UNCHANGED <<task, raised, episodes>>

(* The worker carries the disruption out, or answers that it cannot.       *)
Disrupts ==
  /\ call.at = "disrupt"
  /\ \/ /\ world' = [world EXCEPT !.down = @ \cup {call.which}] /\ faults' = faults
        /\ env' = [env EXCEPT !.log[call.which] = "applied"]
     \/ /\ world' = world /\ Faulty
        /\ env' = [env EXCEPT !.log[call.which] = "refused"]
  /\ call' = [call EXCEPT !.at = "reobserve"]
  /\ UNCHANGED <<task, state, raised, told, episodes>>

DisruptRaises ==
  /\ call.at = "disrupt" /\ Raise
  /\ world' \in {world, [world EXCEPT !.down = @ \cup {call.which}]}

ReadRaises ==
  /\ call.at \in {"observe", "truth", "reobserve", "retruth", "begin", "begintruth"}
  /\ Raise /\ UNCHANGED world

Levels == IF task.goal > 0 THEN {0, 1} ELSE {0}

ResetsWorld ==
  /\ call.at = "reset"
  /\ \E l \in Levels : world' = Fresh(l)
  /\ call' = [call EXCEPT !.at = "begin"]
  /\ UNCHANGED <<task, env, state, raised, told, faults, episodes>>

ResetRaises ==
  /\ call.at = "reset" /\ Raise
  /\ world' \in {world} \cup {Fresh(l) : l \in Levels}

(* The end of begin_episode: the accounts start from the first truth.      *)
Begins ==
  /\ call.at = "begintruth"
  /\ env' = [env EXCEPT !.view.level = world.level, !.view.made = world.made,
                        !.account = Opened(world.level)]
  /\ call' = Idle /\ state' = "live" /\ raised' = FALSE
  /\ told' = [plain |-> 0, sum |-> Nothing, elapsed |-> 0, first |-> world.level,
              best |-> world.level, success |-> FALSE]
  /\ UNCHANGED <<task, world, faults, episodes>>

Client == Act \/ Skill \/ WaitFor \/ Finish \/ FinishUnmeasured \/ BridgeFinish

Session ==
  \/ StepSettles \/ StepRefused \/ StepFails \/ Observes \/ ReadsTruth
  \/ Disrupts \/ DisruptRaises \/ ReadRaises \/ ResetsWorld \/ ResetRaises \/ Begins

Next == Reset \/ Client \/ Session

Spec == Init /\ [][Next]_vars

(* A client that is playing goes on, and every request answers or fails.   *)
FairSpec == Spec /\ WF_vars(Client) /\ WF_vars(Session)

-----------------------------------------------------------------------------
Views == [tick : Nat, level : 0 .. MaxLevel, made : Nat, down : SUBSET Disruptions]

Environments ==
  [view : Views, steps : Nat, applied : SUBSET Disruptions,
   log : [Disruptions -> {"none", "applied", "refused"}],
   window : [ran : BOOLEAN, start : Nat, end : Nat, output : Nat], account : Accounts]

Places == {"idle", "step", "observe", "truth", "disrupt", "reobserve", "retruth",
           "reset", "begin", "begintruth"}

(* Sums have no type worth stating: ShapingTelescopes and PaidOnce say     *)
(* their values.                                                           *)
ClientCalls(sum) ==
  [op : {"none", "act", "skill", "wait", "finish", "bridge", "reset"}, at : Places,
   which : Nat, inside : BOOLEAN, left : 0 .. task.verify, start : Nat, mark : Nat,
   waits : 0 .. MaxWaits, spent : Nat, plain : Int, sum : {sum}]

Payments(sum) ==
  [plain : Int, sum : {sum}, elapsed : Nat, first : 0 .. MaxLevel, best : 0 .. MaxLevel,
   success : BOOLEAN]

States == {"none", "live", "terminated", "truncated", "excluded"}

(* Every variable has its type.                                            *)
TypeOK ==
  /\ task \in Tasks /\ world \in Views /\ env \in Environments
  /\ call \in ClientCalls(call.sum) /\ told \in Payments(told.sum)
  /\ state \in States
  /\ raised \in BOOLEAN /\ faults \in 0 .. MaxFaults /\ episodes \in 0 .. MaxEpisodes

(* What the client was told about stands: no call is under way, the        *)
(* episode is not excluded, and no exception has left the environment.     *)
Settled == call = Idle /\ ~raised /\ state \in {"live", "terminated", "truncated"}

(* The view a client chooses on and is scored by is the world as it is:    *)
(* also after a refused step, after a disruption the environment caused    *)
(* itself, and after a verification window.                                *)
CacheFollowsWorld == Settled => env.view = world

(* Every disruption whose tick the world has passed was asked for once,    *)
(* and the record says applied exactly if the world is disrupted.  (One    *)
(* declared at tick 0 waits for the first step.  An exception in disrupt   *)
(* leaves it marked and unrecorded: see the README.)                       *)
DisruptionsAccounted ==
  Settled => \A i \in Disruptions :
    /\ task.disruptAt[i] <= world.tick /\ world.tick > 0 => env.log[i] # "none"
    /\ env.log[i] = "applied" <=> i \in world.down

(* No reading is paid for twice, and no skill is over- or underpaid.  What *)
(* the primitives were paid sums to the terminal reward, the best reading  *)
(* over the first one up to the cap, and their cost, whatever the path.    *)
(* What the client adds up, discounted by the durations it is told, is     *)
(* what the same primitives are worth as decisions of their own: the       *)
(* terminal reward as of the last of them, every rise of the best reading  *)
(* as of the primitive in which it rose, and the geometric sum of costs.   *)
PaidOnce ==
  Settled /\ task.verify = 0 =>
    /\ told.plain = (IF told.success THEN Sparse ELSE 0)
                  + (IF "high" \in task.kinds THEN Least(Cap, told.best - told.first) ELSE 0)
                  - (IF "cost" \in task.kinds THEN told.elapsed ELSE 0)
    /\ told.sum.plain = (IF told.success THEN Weight(told.elapsed - 1) * Sparse ELSE 0)
                      + (IF "high" \in task.kinds THEN told.sum.due ELSE 0)
                      - (IF "cost" \in task.kinds
                         THEN 2 * Weight(0) - 2 * Weight(told.elapsed) ELSE 0)

(* Discounted by the durations the client is told, the shaping telescopes: *)
(* it sums to minus the potential of the start, and to what the last state *)
(* is worth if the episode did not terminate.  Skills included.            *)
ShapingTelescopes ==
  Settled /\ "potential" \in task.kinds =>
    told.sum.shape = (IF state = "terminated" THEN 0
                      ELSE 2 * Weight(told.elapsed) * world.level) - 2 * Weight(0) * told.first

(* An episode of a task with a verification window ends measured, paid the *)
(* measured score and nothing else; the window took no more game time than *)
(* declared and ended within the task's limit, but for the interval in     *)
(* which the limit was reached.  Of no task does a call, not even one that *)
(* takes several steps, buy an episode steps beyond its budget.            *)
EndsMeasured ==
  /\ ~raised => env.steps <= task.steps
  /\ Settled /\ task.verify > 0 /\ state # "live" =>
       /\ state = "terminated" /\ env.window.ran
       /\ told.plain = Least(env.window.output, task.target)
       /\ told.success <=> env.window.output >= task.target
       /\ env.window.end - env.window.start <= task.verify
       /\ faults = 0 => env.window.end - env.window.start = task.verify
       /\ env.window.end < task.ticks + DecisionTicks

(* Once an episode is begun and played, it ends, unless an exception       *)
(* interrupts it or the client resets.                                     *)
EpisodeEnds == state = "live" ~> (state # "live" \/ raised \/ call.op = "reset")
=============================================================================
