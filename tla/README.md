# FactorioGym in TLA+

FactorioGym turns headless Factorio engines into environments for learning and
language agents.  A Lua mod inside each engine executes actions and reports the
world; a Python package starts the engines, talks to them over RCON, runs
episodes on them and scores the result.  The code's difficulty is not in any one
handler.  It is in requests that are resent, in operations that last many ticks
and can be superseded, in two threads on one socket, in several processes after
the same ports, in scenes that must be neither lost nor played twice, in rates
measured from samples, in money that is held before it is known, in files that
are read while they are written, and in routes planned on a map that is partly
known.  The modules here are about these things.

Contents: [the system](#1-the-system) - [the modules](#2-the-modules) -
[the runs](#3-the-runs) - [the proofs](#4-the-proofs) -
[what the code does that its texts do not say](#5-disagreements) -
[what is left out](#6-what-is-left-out) - [the plan](#7-the-plan).

Run a check with `tlc -config X.cfg MCModule.tla` (deadlock checking is off
where the system may stop: requests, calls, mints and steps are bounded), and a
proof with `tlapm XProofs.tla`.

## 1. The system

    agent/loop.py   learn/train.py           decide; evaluate a frozen set
         |               |
         |          vecenv.py                several workers, a queue of scenes
         |               |
         +---- env.py ---+---- production.py <---- agent/sampler.py (a thread)
                 |                                     |
             session.py  ------------------------------+      (one lock)
                 |
              rcon.py        worker.py, supervisor.py, pool.py
                 |               |  starts, restarts, claims ports
    - - - - - - -|- - - - - - - -|- - - - - - - - - - - - - - - - the engine
             runtime.lua  - inflight.lua - actions.lua - navigation.lua
                             handles.lua   observations.lua   world.lua

| Part | State it keeps | Operations | What is hard | What makes it correct |
|---|---|---|---|---|
| `runtime.lua` | episode counter, ledger of answered requests, pause, `free_running` | dispatch of one request; `advance`, `act`, `step`, `reset`, `open_world`, `configure`, `disrupt`, `save`; `on_tick` | resends, deliveries after a reset, settlement order, eviction | once each; settled once; the world stops between decisions |
| `inflight.lua`, `actions.lua` | entries, the three slots, ids to settle as superseded or cancelled | start, take over the body, finish, cancel, poll | two operations on one body, lists overwritten between ticks | one operation per slot; what runs is recorded as running |
| `handles.lua` | four tables and a counter | mint, resolve, lookup, destruction event, eviction, reset | entities that go before they are announced; tiles without identity | a machine's handle never names another |
| `navigation.lua`, `memory.lua` | the known ground; the walk's route, stall and replan counters | observe, plan, poll, replan | the map is partly known and changes under the route | a route is as short as any; a walk gives up only where there is no way |
| `rcon.py` | the socket, an id counter, a lock | `command`, `_exchange`, `_recv_packet`, `_drain_late_chunks`, `connect` | late, overtaking and torn replies; two threads | a call returns its own answer |
| `session.py` | the adopted episode id | mutate, resend after a timeout, `_settle`, `_collect`, `reset` | ambiguous timeouts; an older reply adopted after a newer one | what a call reports is so; a wrong episode heals |
| `worker.py`, `supervisor.py`, `pool.py` | claim files, engine processes, the pool | `allocate_ports`, `launch`, `shutdown`, `restart`, `reap_orphans` | other runs between any two system calls; kills | claims match what is held; what leaks is exactly what no handler undoes |
| `vecenv.py`, `learn/train.py` | queue of scenes, attempts, one tag per worker; the scored rows | `retarget`, `_reset_one`, `step_wait`, `release_episode`, `evaluate_parallel` | failures of some workers in the middle of a joint step | each scene in one place; the evaluation ends |
| `env.py`, `open_world.py`, `skills.py`, `rewards.py` | the view, steps, disruptions, verification; the reward accounts | `reset`, `step`, skills, waits, `finish`, `run_verification`, `resync` | failures in the middle of a call; calls of several steps | the view is the world; no reading is paid twice |
| `production.py`, `agent/sampler.py`, `tasks/spec.py` | samples, first sustained tick; a window of its own | `record`, `reset`, `evaluate` | two clocks, two threads, boundaries of a window | a burst is not a rate |
| `agent/loop.py`, `memory.py` | decisions, attempts, what was tried | `decide`, `_execute_sequence`, `run_segment`, `compact` | retries, partial sequences, repeated waits, a deadline at any moment | steps are counted once; memory keeps what it must; a run ends |
| `agent/budget.py`, `guarded.py`, `checkpoint.py` | one hold, the sum spent, the clock; saved files | `reserve`, `settle`, `complete`; `save`, `_await_file` | usage reports with parts missing; a file being written by somebody else | the cap holds; a checkpoint that is reported is whole |

The remaining parts (catalogue, encoders, task declarations, providers' HTTP,
reports, gates, probes) are static data, pure functions, presentation or
acceptance scripts.  `PROJECT.json` lists all parts with the reason for each
that is not modelled.

How the parts interact: every request of the Python side is one RCON command,
and the engine handles a command within one tick, so a Lua handler is atomic and
`on_tick` is the only other step of the mod.  The client and the sampler share
one `RconClient` under its lock.  Runs share a machine only through claim files
and sockets.  Workers of one evaluation share only the queue.

## 2. The modules

### Inflight, Ledger, Runtime, Mutations: the worker

`Inflight` is the registry of `inflight.lua` as operators on one record:
`Started`, `Finished`, `TakenOver`, `CancelledBy`, `Polled`.  An id is the
request's own (`Top`) or that of the action inside a step (`Act`, the code's
`":act"` suffix).  The code's absolute deadline is kept as the ticks left to it.
`Ledger` is the deduplication ledger: `Stored` with its eviction, `Settled`.

`Runtime` has one action per handler.  Each contains everything the handler does
to this state, `handle_json`'s `ledger_store` included.

| Action | Code |
|---|---|
| `Issue` | the client: a request under a fresh id that names the current episode |
| `Advance`, `ActAlone`, `Step`, `StepRefused` | `handle_advance`, `HANDLERS.act`, `handle_step` |
| `Reset`, `OpenWorld` | `handle_reset`, `handle_open_world`, both with `begin_episode` |
| `OtherMutation`, `Configure` | `disrupt` and `save`; `handle_configure` |
| `Tick` | `on_tick`: poll, settle what ended, what was superseded, what was cancelled |

An issued request stays deliverable for ever, so a resend, a duplicate and a
late delivery are all the same: the action of its handler again, if
`handle_json` accepts it.  A refused delivery changes counters only and is no
step.  What an action inside a handler may do is a set of outcomes
(`Dispatch`): the many validations are one refusal, an error raised halfway is
kept with what had been done before it.

`Mutations` is what a client is promised: an id has no status, runs, or ended in
one way; applying gives statuses; only the end of the episode or the ledger's
limit takes one away.  `Runtime` implements it under the mapping `Promise`.

### Handles

The registry of `handles.lua` over a world that builds and removes entities and
announces the removal of registered machines in a later step, possibly in the
next episode.  Ores, trees and piles have no unit number and are known by tile:
`What` gives each one's tile, type and name.  `resolve` is `Answers`, plus
`MissMachine` and `MissOnTile` for what it writes when it finds nothing.
Eviction is part of `MintNew`, including that it clears an index by key and not
by handle.

### Rcon

One connection: a server that answers in order (`Serve`) or, with a player
connected, answers a sentinel first (`Overtake`), a reply that can arrive in two
pieces (`Arrive`), and per thread the exchange of `_exchange`: `Begin`,
`BeginQuiet` (no response wanted), `Read`, `ReadRest`, `TimeOut`, `DrainEnds`.
A timeout in the middle of a packet loses the bytes already read and leaves a
"rest" at the head of the stream: the code does not reconnect by itself.

### Production

The game's ticks and production; the environment's thread with each of its
requests as a step (`Step`, `AdoptSettled`, `Resync`, `ReadTruth`, `EnvReset`,
`Observe`, `ReadFirstTruth`, `RecordFirst`); the sampler's read and record.  Two
histories are kept, as in the code: the environment's bounded window, on which
the success criterion is evaluated, and the list of `ProductionMetrics`.
Observations count ticks from the start of the episode, truths from the start of
the game; the model keeps both clocks.  `made` records what was really produced,
so that a claim about a window can be compared with the world.

### Workers

Claim files one system call at a time: create exclusively, judge stale, unlink,
write the pid, probe the sockets; then `Spawn`, `Launched` when the handshake
succeeds, `Ready` when the session has connected and the worker is in the pool,
and a failure at each place; `Restart`, `Shutdown`, the death of an engine, the
death of a run at any moment, `ReapOrphans`.  `Windows` says whether an open file
can be unlinked and whether `taskkill` exists; `JobObject` whether engines die
with their run.

Four failures are undone by no handler, and are actions of their own:
`AllocateRaises` (a directory, a file or a socket fails inside `allocate_ports`,
outside the `try` of `launch`), `SpawnFails` (`worker-pids.json` cannot be written:
the ports go back, the engine runs on), `SessionFails` (the session does not connect:
neither goes back) and `RestartFails` (the worker has left the pool when writing
its evidence fails).  `GivesBack` is `_release_port` with the error it swallows: on
Windows a claim stays if another run is reading it just then.  Two histories record
what is lost so: `kept`, the claims a living run has failed to give back, and
`strays`, engines outside the pool of their run.

### Holdout

`evaluate_parallel` over `FactorioVecEnv`: the queue, the attempts, a tag per
worker.  `ResetWorker` is `vec.reset` (the executor resets side by side);
`StepRuns`, `StepEnds`, `ResetFails` are one worker's part of `step_wait`, in
order; `Score` is one round of the scoring loop; `Loop` is the loop's head.
Any episode and any reset may fail at any time.

`Redelivery` is what this promises of one scene, without workers and slots: it is
owed, out, ended, done or gone; handing it out is one attempt, what did not get
done is owed again while attempts are left, done and gone are for good.
`Holdout!Place` reads a scene's place off the queue, the tags and the results.
(The names of `Holdout`'s specification begin with an H, since `WorkersProofs`
extends both it and `Workers`.)

### Session

`Session` extends `Runtime`: the same worker, now behind one `WorkerSession`
with its caller's thread (`client`) and the sampler's thread.  The lock makes
exchanges take turns, so what was sent is handled in that order (`line`); which
answer goes to which call is the matter of `Rcon`.

| Action | Code |
|---|---|
| `Ask` | `step`, `act`, `advance`, `reset`, `open_world`: a mutation under a fresh id and the adopted episode |
| `Query` | `status` from `_require_episode`, `observe` and the other read-only calls |
| `TimeOut` | `dispatch_raw` raises, or a settle loop passes its deadline; the request stays to be handled |
| `HandleMutation`, `RefuseStale` | `handle_json`: `Runtime`'s handlers, or the refusal of another episode's request |
| `Receive` | the rest of `dispatch_raw`: adopt, raise what is stale, settle or go on to poll |
| `Poll` | one turn of `_settle` or `_collect` |
| `SamplerReads`, `SamplerAdopts` | `truth()` on the sampler's thread; its answer is adopted after the lock is gone |

### Episode, Rewards

One environment between a client and a worker.  `call` is the call under way and
the request it waits for; each of the environment's requests (step, observe,
truth, disrupt, the reset's) is a step that settles, is refused or raises.
`Act`, `Skill`, `WaitFor`, `Finish`, `BridgeFinish`, `Reset` begin a call
(`FinishUnmeasured` is a finish with no window to run: it ends the episode as it
stands);
`StepSettles`, `Observes`, `ReadsTruth`, `Disrupts` and their failures carry it
on, through the refresh that applies due disruptions, the window that runs when
the construction budget ends (`OutOfBudget`, `WindowOpened`, `Measured`) and,
for a skill or a wait, the next primitive (`GoesOn`).  `Rewards` is
`RewardAccountant`: a high-water component with a cap, a potential, a step cost
and the terminal reward.  The discount is one half, so that a sum of discounted
payouts is an integer over a power of two; `Weight(i)` is that power.  A skill
discounts the whole payout of each primitive by the primitives before it, and the
client that of the whole skill by the durations it was told: `Gathered` and `Told`.
Sums of the potential and of the rest are kept apart, and `due` is the reference:
what each rise of the best reading is worth as of its own primitive.  Two
assumptions on tasks (`TaskOK`): a window is shorter than the game time, which
`validate_all` refuses otherwise (`tasks/__init__.py`), and a task with a window
pays and succeeds by nothing else, as the two that declare one do
(`construct_smelting_line`, `belt_smelting`).  A disruption declared at tick 0 is
accepted, and fires with the first step: `reset` does not look for one.

### Budget, AgentMemory, Agent

`Budget` is `budget.py` with `pricing.py`: the hold of a call's worst case, and
`Normalised`, which reads the shapes in which providers report usage.
`AgentMemory` is what `memory.py` keeps of attempts and how it compacts them.
`Agent` is the loop: `Decide`, then `Send` or `Refuse` (guard: clock and
budget), `Accept`, `Reject` (a reply that cannot be used may name acts all the
same), `CallFails`, `CallRaises`; then the acts of the reply one by one (`Run`,
`RefuseStale`, `EndSequence`), the repetitions of a bare wait (`RepeatWait`),
the end of the decision with its record and compaction (`EndDecision`), of the
episode and of the run.  `Expire`, the end of the run's time, may come between
any two of them.  `tried` and `late` are histories: what was really tried, and
how many acts ran after the deadline.

### Checkpoint

A run's life as `runner.py` lays it out (initial save, periodic saves, the final
save of a paused world, the worker's removal), `Checkpointer.save` from
`Issue` over the tick it asks for (`Advance`) and the polling (`Poll`, one size
read each) to the copy (`CopyBegins`, `CopyEnds`, `CopyFails`), and `Resume`,
where a later run takes the newest file of the directory.  The engine writes the
file in pieces, at its own pace up to `Delay` and `Pause`, or hangs; a crash may
come anywhere, also inside a copy.

### Terrain, Search, Navigation

`Terrain` is the ground `memory.lua` keeps: blocks of tiles with what blocks
them, the oldest block dropped at the limit, anything unknown passable.
`Search` is `plan`'s A*, an expansion a step, with lengths in eighths of
a tile; ties go any way.  `Navigation` is `H.navigate` and the poll:
walking on, looking ahead at intervals (`LooksAhead`), bumping (`Bumps`), the
replans each of these costs, the time budget; the world and other observations
change what is there and what is known between ticks (`Change`, `Observes`).

## 3. The runs

| Run | Question | Bounds |
|---|---|---|
| `runtime_requests` | Do all kinds of request, resent, late and across a reset, keep bodies, clock, ledger and promise in order? | 3 requests, 2 episodes, a ledger of 3 |
| `session_steps` | For a session on this worker: is what a call reports so, does its episode heal, is a settlement lost, but to a new world that failed, does every call and interval end? | 3 requests, 2 episodes, a ledger of 8, 1 poll before a deadline |
| `handles_world` | Does a machine's handle ever name another, or lose its machine? | 2 machines, 2 loose entities, 2 kept handles, 3 mints, 2 episodes |
| `handles_tile` | (finding) Does a tile's handle name one entity? | 1 machine, 2 loose entities on one tile |
| `rcon_shared` | Does each call get its own whole answer, whoever shares the socket and whatever comes late? | 2 threads, 4 calls, 2 delays, replies of 2 packets |
| `production_window` | Does a burst pass for a rate; do criterion and metric agree? | window of 2 ticks, 4 ticks, 2 episodes, a history of 3 |
| `workers_pool` | Do claims stand for what is held, does a failure keep anything but where nothing undoes it, is a pair passed over without a reason, does every start end? | 2 runs, 2 pairs, 2 starts of one run and 1 of the other, no job object |
| `holdout_frozen` | Is each scene in one place, tried a bounded number of times, and does the evaluation end? | 3 workers, 4 scenes, 2 attempts, 2 decisions |
| `episode_play` | Four kinds of task through every interface while requests fail: is the view the world, is each disruption accounted for, is a reading paid twice or a skill paid wrongly, does a measured episode end measured, does it end? | 4 tasks of 3 or 4 steps, 2 resets, 2 faults, readings to 2 |
| `agent_run` | Is spending under the cap, are steps counted once, does memory keep what it must, does a run end? | 2 acts, replies of 2 acts, 2 attempts, 2 fallbacks, 3 steps, 2 episodes, a cap of one and a half worst cases |
| `checkpoint_saves` | Is a reported save whole, is one given up only when the engine hangs, does a resume take the last? | 3 equal readings, 3 pieces, 2 periodic saves, 2 runs |
| `navigation_walk` | Is a route as short as any, and does a walk in a still world give up only where there is no way? | 5 by 3 tiles, 3 maps, 2 starts, 2 goals, 2 walks, 1 change |

Why the bounds are enough for the interesting cases.

- *Three requests* allow an operation, one that supersedes or cancels it, and
  the interval that lets ticks pass, each resent at will; *two episodes* allow
  every delivery to be late.  A *ledger of three* is full after two steps, so
  evictions, and the second application that one permits, happen constantly; the
  session's *ledger of eight* holds an own and an inner id for each of its three
  requests, so that there none happens.  There three requests are a new world
  whose answer is lost, the step that is refused for it, and the step that must
  not be.
- *Two kept handles of three minted* evict in every episode; the second episode
  reuses the numbers, and removals of the first can be announced in it.
- *Four calls and two delays* leave two late answers in the stream of a third
  call of the other thread; the fourth gets the lock after it.
- *A history of three samples over a window of two ticks* drops the sample that
  a window starts from, as 512 samples over a long window do.
- *Two pairs for two runs* make every search meet the other's claims, and find
  both pairs taken.  The run with two starts restarts a worker, or has one and
  starts another; the other, which may be ahead of it, behind it or dead, stands
  for everybody else.  Each can fail or die at every step.
- *Four tasks* are the kinds that differ in control: shaped, disrupted, scored by
  a window, open.  A window of three ticks and decisions of two give it a short
  last chunk and let a decision pass the limit; two faults fail a step and the
  request that should repair it.
- *The agent's cap* of 8 against a worst case of 5 refuses some second calls and
  lets others through, according to what the first one reported.  Two attempts,
  two fallbacks and three steps reach each bound in some episode and the carry
  over in the second; with one success kept and two failures for a stall, three
  attempts compact and stall.
- *Three pieces* give a file that is empty, two that are partial and a whole one.
  17 polls are exactly the deadline `SettlesInTime` needs for these delays, so
  that it is tight: 2 * (3 + 1) + 2 * (2 + 1) + 3.  Two runs resume one.
- *The field* has a wall to go round, a trap to back out of and a goal shut in;
  a block of two tiles and a sensor of two leave most of it unknown at first.
  The limits 1 and 4 are below and above the obstacles of a map.
- *Three workers and four scenes* leave one scene queued; with two attempts the
  second failure spends a scene, and a scene can be handed back in one slot
  while the others still step.

Action properties.  `MetricsAgree`: the metric and the criterion judge the same
samples alike.  `PassesOverTakenOnly`: a start passes a pair over only because
somebody has it or is after it, or because a run that still lives has left that claim
behind (`kept`).  `ImplementsMutations` and `ImplementsRedelivery` are the
refinements.

Fairness and liveness.

- `CallsSettle` assumes weak fairness of the tick (the engine runs while it is
  not paused), of the worker's handling what was sent, and of the call's own
  steps; of `TimeOut` only when a call's polls are used up, which is its deadline.
  It is checked for a client that does not send `configure` during an interval;
  one that does pauses its own interval for ever, which the code permits and no
  document forbids.
- `CallsEnd` assumes that the server answers, that pieces arrive and that the
  lock's holder reads on.  No fairness is given to `TimeOut`: a call ends because
  it is answered.
- `StartsEnd` assumes that a living run goes on with the start it is in: every
  wait of `worker.py` has a deadline.  Nothing is assumed of other runs.
- `EvaluationEnds` assumes that the evaluation's one loop goes on, since every
  reset and step has a deadline in the session.  Nothing is assumed of the
  failures: they may come every time.
- `EpisodeEnds` assumes that a client that has an episode goes on playing, and
  that a request answers or fails, as every one has a timeout.
- `RunEnds` assumes that the loop's one thread goes on: providers and sessions
  have timeouts.  The clock need never expire.
- `Checkpoint` and `Navigation` have no liveness property; that a save comes to
  an end is `SettlesInTime`, a bound on its polls, and a walk has `max_ticks`.

## 4. The proofs

All theorems hold for every value of the constants under the named assumptions
of the modules (sets of requests of any size, any ledger limit from two records
on, any number of episodes, handles and mints, of workers and scenes, of runs,
ports, threads, calls and polls).

**RuntimeProofs**.  The inductive invariant is

    IInv == TypeOK /\ RegistryInv /\ PausedBetweenDecisions /\ MemoryInv

- `RegistryInv` is `OneOperationPerSlot`, `RunningBelongsToEpisode` and
  `RunningAsAsked`: what runs under an id is what the id's request asked for.
  The last is needed because a request whose record was dropped can be applied
  again while it still runs: its entry is then overwritten, and only because the
  new operation is of the same kind does it leave no slot behind.
- `PausedBetweenDecisions` needs the slots: a tick that ends the interval is
  recognised by the kind of the entry, and no other entry can be in its slot.
- `MemoryInv` is `AtMostOnce` and `AppliedRemembered`: a request that was applied
  names an earlier episode, or is still known, or was forgotten.  `AtMostOnce`
  alone is not inductive: it says nothing of a request that was applied once,
  and it is the record of that which refuses the second delivery.

First comes what each operator of the registry does: that it keeps the type,
keeps slots and entries in agreement, and what it does to the interval's slot;
then a lemma for each handler and for the tick.  Theorems:
`TypeCorrect`, `SlotsExclusive`, `ClockControlled`, `EpisodesIsolated`,
`AppliedAtMostOnce`.

Its second half is the ledger and the refinement.  `PInv` is
`RunningIsStoredRunning` with what makes it inductive:

- `LedgerInv`: every record is listed, and a step's inner record comes before its
  own.  A step stores two records and each store may evict; only the order keeps
  the second store from dropping what the first recorded.  It also needs
  `LedgerLimit` to be at least two, which is an assumption of `Runtime` (the code
  has 4096): with a ledger of one TLC finds a step whose action runs unrecorded.
- `PendingRemembered`: an id waiting to be settled is recorded or was dropped, so
  that the tick has something to settle.
- `RunsOrWaits`: what is recorded as running does run or waits to be settled.
  Without it a settlement could reach a record that is already terminal.

`PromiseKept` is the refinement: `Init` maps to `Mutations`' initial state and
each handler and the tick maps to a step of `Mutations` or a stutter.  The tick is
the hard one: what it settles from three lists is one step of the abstraction,
and every status it writes must have been running.  Theorems: `LedgerTruthful`,
`RunningIsRecorded`, `PromiseKept`.

Its third part is the session.  Every step of `Session` is one of the worker's or
leaves the worker alone, so `IInv` and `PInv` hold of it; `SInv` adds what ties
the caller to the worker:

- `Queued`: a request in the line stands there once and was neither applied nor
  reported settled; `Calling`: the call under way waits for the last in the line,
  and once it has its answer the line is empty.  These two carry the rest: a call
  that has an answer, or polls, cannot be overtaken by a request that timed out
  earlier, since the server has handled those before;
- `AnswerHolds` and `IntervalsAlone`: hence the answer in hand is still true, the
  interval polled for is the only one in flight, and after it is reported settled
  none is.  That an unknown id counts as settled is sound only because a poll
  finds its own interval running or the slot empty;
- `Reported`: what any earlier call was told is still so, which every later
  handler must not undo;
- `Heals`: after one refusal as stale the session believes in the episode there
  is, and so does the request it has out.

`NothingIsLost` has a condition on the caller, `Paced`, and needs it: it acts by
steps, sends no batch and begins episodes by `open_world`.  `SettlementInv` says
that while no interval is in flight a pending list that is not empty cannot be
replaced, because nothing runs that a take-over or a cancel could end
(`NothingToLose`).  A step is accepted only then, and its own interval drains both
lists before the next.  A bare `act`, a batch that cancels twice and a reset
refused late each lose a settlement (section 5).  One way remains, which acting
by steps does not avoid: a new world that fails after `reset_state` has dropped the lists.
`NoLostSettlement` names it (`CutOff`: a reset or an open world, sent later, was
refused in this episode), and says that it takes actions only, never an interval.
That a cut-off operation stays one is a lemma (`CutOffStays`).  Theorems: `SessionInvariant`,
`ReportsAreTrue`, `StaleEpisodeHeals`, `NothingIsLost`.

**RconProofs**.  The stream of one connection, between any two steps of any
threads and of the server.  `IInv` is `TypeOK`, `FailsOnce` (a call fails at most
once, which bounds `failed`) and, while ids have not come round (`FirstRound`),
`RoundInv`:

- the n-th call has the n-th pair of ids; what the queue and the stream hold is
  of calls begun (`Commanded`, `Sent`), so a packet with a lower id is of an
  earlier call and one with a higher id does not exist;
- `Exchanging`: the exchange under way is the last begun, its body is its own, and
  while the stream is in step the rest of its answer is in one of five places
  (`OnItsWay`): both commands queued behind older ones; the command answered and
  its sentinel queued; both in the stream in order; the sentinel ahead and the
  command still queued; both in the stream with the sentinel first.  Each place
  says how many chunks are left, and where.  Nothing weaker is inductive: a
  call returns when it has seen both ids, and that its body is whole then depends
  on the order of everything before it.

The condition is real.  With few ids TLC finds `AnswersAreOwn` violated once the
counter has started over: a late answer to an old call then bears a new call's id.
`MAX_REQUEST_ID` (`rcon.py:50`) puts that half a billion calls into a connection.
Theorems: `TypeCorrect`, `OwnAnswers`, `DelaysCostOneCall`.

**WorkersProofs**.  `IInv` says of each run, alone: `AtRest`, where it stands between
two starts and after its end; `ClaimsCovered`, a claim in its name is of a port it
holds or is taking (`Takes`), and names its process but for the file it is just
writing; `EnginesKnown`; and, as long as no claim of a living run was unlinked,
`ClaimsKept`, it has every claim it should have and no two of its workers share a
pair.  The steps of the other runs are one lemma (`OtherRun`): whatever they do,
they leave its state alone and put no claim in its name; and they may unlink
what it has left behind.  `robbed` records the one race the code leaves open (see
below), and `ClaimsKept` stops where it has happened; `ClaimsCovered` and
`EnginesKnown` do not, so nothing else leaks even then.  Both say exactly what does
leak, and by which failure: a claim outside what the run holds or takes is in
`kept`, an engine outside its pool in `strays`.  How a pair is given back, with the
files that stay, is proved once (`GivesUp` and `BacksOut`) and used by every failure.
`PassesOverTakenOnly` is an action property, proved from `IInv` step by step.
Theorems: `TypeCorrect`, `PortsAreClaimed`, `PairsAreExclusive`, `NothingIsKept`,
`OnlyTakenPassedOver`.

*Holdout*, in the same module.  `FrozenInv` is `HTypeOK` with: `ResultInv`, a slot holds a collected
result only while `step_wait` has passed it or the scoring loop has not reached
it; `ResetInv`, workers are left to be reset only in `vec.reset`; `PlaceInv`,
`OnePlace` told scene by scene; `AttemptInv`, a queued scene has an attempt left,
which is what keeps one more start within the limit; `SceneInv`, every scene is
scored, queued, played, waiting for its score, spent or dropped.  The last is what
`GivesUpOnSpentOnly` needs: with nothing queued, played or waiting (`GivenUp`, kept
by a lemma of its own), only the spent and the dropped remain.  
`RedeliveryKept` is the refinement.  `OnePlace` makes a scene's place unique
(`PlaceIs`), so each action comes down to which scenes it moves: a reset hands out
what it took (`TakenHands`), played, back or spent; a failing one loses exactly
what it drops (`DroppedAre`, both ways), which is what lets the abstraction say
that nothing else is given up early; `Score` settles one scene.  Theorems:
`ScenesTypeCorrect`, `ScenesInOnePlace`, `RetriesBounded`, `GivesUpHonestly`,
`RedeliveryKept`.

**HandlesProofs**.  `IInv` adds to the types: `OrderInv`, the order is
increasing and lists exactly what is kept, within the limit, so that its head is
the oldest and eviction takes it from both; `WorldInv`, what is gone is never alive again
and an indexed machine stands or is still to be announced; `UnitInv`, index and
entries of machines agree both ways; `GivenInv`, a kept handle that was given for
a machine is that machine's entry.  Theorems: `TypeCorrect`, `OrderIsExact`,
`MachinesKept`, `IndexAnnounced`.  Most of the work is
`MintNewStep`, where one step evicts, registers and indexes.

**CheckpointProofs**.  `IInv` is `TypeOK` with: `Requested`, a save is deferred
only while one is asked for; `Written`, a partial file of an engine that does not
hang has not rested longer than `Pause`; `Readings`, the equal readings counted
are of the file's present size, and of a partial file at most as many as it has
rested; `Settled`, a copy begins after `Stable` of them; `Copies`, the newest
file is the latest save unless a copy was cut short; `Reported`.  `Written` and
`Readings` together say that a partial file cannot be read `Stable` times alike
when `Pause < Stable`.  `SavesInTime` needs `Timely` besides: the polls taken so
far are bounded by `Before(p)`, the latest poll at which piece `p` can appear,
and the rest since then.  Theorems: `ReportsWholeSaves`, `ResumesFromLatest`,
`SavesInTime`.

**AgentProofs**.  Money: `MoneyInv`, only a call that is out holds, and it holds
the worst case.  It rests on `ChargeBounds`: for each of the six shapes of report
what is charged is at least what was used, the prices being such that a hit costs
at most a miss, and at most the hold.  Steps: `StepsInv` is `Types`, `Counts` (in
the middle of a sequence the environment is ahead by what ran), `Making` (no
decision is begun past the deadline or after the episode's end), `Made` (what ran
of the decision, and that the last act tried is its last) and `Late`.

Memory: `MemoryInv` adds to `StepsInv` that while an episode is played memory
`Recalls` what is to be kept of what was tried before the decision being made,
in its order (`Recalling`), and that the steps it names are not ahead of the
decision, whose acts all ran but for a last one that failed (`Timed`).  The step
of weight is `MemoryEnds`.  What is remembered is in the order of its steps,
where only a failure shares its step with what follows, so `compact`'s sort
leaves the order alone (`RememberedTimely`, `CompactedIs`).  Of a memory that
`Covers` what was tried, holding every failure and every success after one it
holds, compaction keeps what it would keep of the whole (`KeptAlike`), and an
act's failures since its last success are all there (`StallsRecalled`).  That
`Ordered` lists a set of positions in increasing order, and is the only list to
do so (`OrderedLists`, `ListsUnique`), is proved once from ranks.  The plan, the
notes and the prompt are left out, and so is what `Kept` and `Threshold` are: any
number of successes kept, any positive threshold.

Theorems: `SpendUnderCap`, `StepsAreAccounted`, `MemoryIsComplete`,
`StallsAreAnnounced`.

**EpisodeProofs**.  Any tasks under `TaskOK`, any number of disruptions, decisions
of any length, skills and waits of any bound.  Nothing is claimed between an
exception (or a step without an answer) and the next reset; of the rest of the
time `IInv` says `Standing`, six facts that need each other:

- `Cached`: the view is the world, but for a disruption that is not read back yet;
- `Noted`: record and world agree, and only the disruption being asked for is
  marked without a record; `Punctual`: nothing due is unmarked once a step is
  adopted.  `Due` is computed on the view, so the second needs the first;
- `Budgeted`: a client may choose, and an interval may begin, only before the limit,
  so the view is at most one interval past it;
- `Windowed`: the ticks of the window that have passed and those still to be asked
  for are what the task declares; a refused chunk only makes them fewer;
- `Balanced`: what was told and what the call has gathered are what the accounts say.

While an episode is being begun `Resetting` holds instead.  The view changes before
its disruptions are asked for, so the lemmas are about what an answer may become
(`Adopted`, `Scored`, `ChunkDone`, `Answered`), for any view that is the world's;
each handler then instantiates them.  The constants `MaxLevel` and `DecisionTicks`
are at least one.  Theorems: `TypeCorrect`, `ViewIsWorld`, `DisruptionsKept`,
`MeasuredAtTheEnd`, `EachPaidOnce`.

`EachPaidOnce` is `PaidOnce`: undiscounted, what the primitives of an episode were paid
depends on the first and best reading, cost and success only; discounted, as the code
discounts inside a skill and the client between decisions, a skill is paid exactly
what its primitives would be as decisions of their own.  Its invariant `PInv` says so
in the middle of a call: what was told, with what the call has gathered at its weight,
is the prize, the rises and the costs so far (`Prize`, `Risen`, `Costs`).  The discounted
sum does depend on when a reading rose; what cannot happen is that it is paid twice,
or less for being reached by a skill.

It has a condition that the property does not state, and needs it: a
wait keeps the payout of its last interval (`env.py:797`), so that a rise within a
wait would not be paid for.  Only the open catalogue has `wait_for`, and an open
world declares no rewards (`open_world.py:72`), so the code never meets the case; a
rewarded task with that verb would.  TLC checks the same condition by its tasks.

The same module proves what `Production`, which it extends as well, promises of the
environment's measure of output, with a game and a thread of its own.
`SampleInv` is `WTypeOK` with `Grows`, what the game has made by each tick of the
episode increases; `HonestWindow`, a sample of tick t counts at least what was made
by t and at most what has been made, whatever was made between the observation that
gave the tick and the truth that gave the count; and `Reading`, the same of what is
about to be sampled.  `CriterionIsSound` then follows from where the window starts:
the sample before the first one younger than the cutoff, which is older than the
cutoff by less than a gap (`BaselineIs`).  The samples of the metric are proved alike
by following one list as the end of the other (`IsEndOf`, `SameVerdict`).

Here too the proof brings out a condition.  `MetricsAgree` is true unless the history
is full and does not span the window (`VerdictsAgree`, for any constants): then the
criterion refuses what the metric calls sustained.  It is always true where a full
history spans the window (`HistorySpans`, `VerdictsAlwaysAgree`), which 512 samples
do, of intervals of at least 30 ticks (`tasks/__init__.py:168`; one at the end of a
verification may be shorter) and windows of 3600.
Samples of a world that runs on may lie closer.  The run's history of three
one tick apart spans its window of two exactly.  Theorems: `CriterionIsSound`,
`VerdictsAgree`, `VerdictsAlwaysAgree`.

`Telescopes` is `ShapingTelescopes`, in the same module.  `SInv` says what holds in
the middle of a call: what was told, with what the call has gathered since, is
the present potential in its weight less the first (`Telescoped`).  What a skill
gathers is discounted from its own start, so it must be 2 ^ elapsed times what
the client will add: that the division of `Told` is exact is part of the
invariant.  It needs the powers of two (`PowerAdds`), of which the library knows
only that a set of n elements has 2 ^ n subsets.  The condition is that of
`EachPaidOnce`: a wait keeps the payout of its last interval alone.

**NavigationProofs**.  Any map, any goals and limits, any changes.  `IInv` is
`Typed`; `SearchInv`, of a search under way; `WalkInv`, of a walk.  `SearchInv` has
two halves.  `Traced`: each cost is of a real way, and parents lead back to the
body along falling costs, so that `RouteTo` is a path.  `Settles`: a closed tile is
at its distance, and what is beside it is known to be one further at most.  The
second half rests on the heuristic, which falls by at most a tile between neighbours
(`HeuristicIs`): of any way at least as short as a tile's cost the heap holds a tile
whose priority does not pass the way's (`Frontier`), so the tile of least `Priority`
is at its distance (`ClosedAtDistance`), and no closed tile is ever improved.  `Shortest` is
`RoutesShortest`, with exactly the overestimate it allows; its second half
is that a search that empties its heap has closed all it can reach
(`NothingLeft`).

`FindsTheWay` is about a world that stands still and of which nothing was
forgotten.  `Still`: what is known is so, and the replans spent are at most the
obstacles known that are not on the route.  Every replan has met an obstacle on
the route it replaces, which the next route avoids, so with a replan for each
blocked tile the limit is never what ends a walk.  The proof brings out a
condition that the property does not state: a search after a bump that runs out
of expansions is reported as "blocked", as if there were no way (`CutShort`;
`navigation.lua:670`), while a planned one says `search_budget`.  `FindsWay`
assumes that this does not happen; `FindsWayInRange` needs no such assumption
where the limit on expansions exceeds the number of tiles.  In the run
(12 expansions, 15 tiles) it does not arise.  Theorems: `NavInvariant`, `Shortest`,
`FindsWay`, `FindsWayInRange`.

What the proofs changed in the model: `RouteTo` follows parents from any tile that
has a cost; the sensor's `Radius` is at least two, so that a bump sees what it met (32
in every profile); a goal's box has integer sides.

Induction over data is not available as a rule here, since the library's theorems take
an operator.  Where a proof needs it (powers, the length of ways, the
existence of a function given by recursion, as `Reached` is), it goes by
the smallest counterexample, which exists because < on the naturals is well founded
(`LeastIn`).

Only model-checked: everything under fairness (`CallsSettle`, `CallsEnd`,
`StartsEnd`, `EvaluationEnds`, `EpisodeEnds`, `RunEnds`).  Every invariant a passing
run checks is proved, each under the conditions named above.  The `TypeOK` of a module
without a proof module states the shape of its variables for the reader; the runs
spend their time on the others.

## 5. Disagreements

One is a run that is expected to be violated and an entry under "findings":

- **A tile's handle names what replaced it** (`handles_tile`).  The registry finds
  a tile's handle by tile alone, so `mint` hands the same handle to a pile that
  fell on an ore tile.

The others were met while modelling.  Where a module states the claim it is
named; the runs check what holds beside it.  The first two are refuted by TLC within
a minute when the named definition is made an invariant of `session_steps` or
`workers_pool`.

- **A new world that fails loses a settlement** (`SettlesOnce`).  `handle_open_world`
  drops the lists of superseded and cancelled ids (`runtime.lua:590`) before
  `world.open_world`, which may raise.  The request is rejected and the episode goes on;
  what waited in a list stays recorded as running, where `runtime.lua:11` has
  operations "settle exactly once".  A reset that is refused late does the same.
- **A worker is lost from its pool** (`GuaranteedTeardown`).  The engine runs and its ports are
  claimed when the session connects (`supervisor.py:128`), and nothing undoes that when
  it fails; nor when writing the evidence of a restart fails after the worker left
  the pool (`pool.py:105`).  `pool.py:55` promises "guaranteed teardown".  The engine
  and the claims stay until the run ends, and without a job object the engine
  until it is reaped.
- **A take-over forgets one before it.**  `take_over_body` (`actions.lua:158`) replaces the list
  of superseded ids instead of adding to it (`runtime.lua:11` promises every
  mutation one terminal status); two bare `act` requests that take over within one
  paused stretch leave the first loser recorded as running.  A client that only
  steps cannot do this (`NoLostSettlement` in `session_steps`): each step's tick
  drains the list.
- **Claims and engines that stay** (`kept`, `strays`).  Beside `GuaranteedTeardown`: an error
  that `allocate_ports` does not expect leaves it with a port claimed; a pid file that
  cannot be written (`worker.py:447`) fails the start with its engine running; an unlink
  that Windows refuses is swallowed (`worker.py:235`).  `NothingKept` says that there
  is no other way.
- **The metric's clocks** (`MetricsSound`).  The sampler records truth under the
  game's tick (`sampler.py:116`), the environment under the episode's; in one list
  the difference passes for elapsed time and a burst for a rate.
- **Two runs, one pair** (`PairsExclusive`).  Judging a claim stale and unlinking
  it are two steps (`worker.py:219`), and a claim whose pid is not yet written
  counts as stale.
- **Scenes lost after one attempt** (`GivesUpAfterRetries`).  A worker that cannot
  reset makes `evaluate_parallel` reset all (`train.py:471`), and what the others
  played, or had just finished, is neither scored nor handed back.
- **Stalls that were none** (`StallsReal`).  Failures are counted since the last
  success (`memory.py:300`), and compaction drops that success (`memory.py:338`).
- **The newest file is not always a verified save.**  `checkpoint.py:205` speaks of
  the most recent verified save; a copy cut short by a crash lies in the same
  directory and is newer.  And a writer that hangs in the middle of a file passes
  for one that is done.  `ResumesLatest` and `ReportedIsWhole` carry these two as
  conditions.
- **A window can be run again** (`env.py:1435`).  A failure inside the verification
  window raises out of `step` with the window not marked, and a later call runs
  it from a later start; a chunk the worker refused counts as advanced.
  `EndsMeasured` claims the full length without faults only.
- **A disruption that raises** (`env.py:1260`) stays marked as applied and is never
  sent again; the exception leaves the call, so no view shows it.
- **The heuristic beside large entities** (`navigation.lua:267`: "A* still returns
  a shortest route").  Its slack does not cover an entity's box, and a route to
  a rocket silo can be up to three steps longer.  `RoutesShortest` allows exactly
  the overestimate.

## 6. What is left out

In the modelled parts:

- the contents of observations, blueprints and saves, and the validations of
  single actions: they choose between outcomes the models leave open;
- of the engine's memory only the ground is modelled, not the entities remembered;
- a batch has at most two cancels; what a rejected batch or a reset refused late
  has changed in the *world* is not undone by the code, and no property says so;
- a torn packet is lost with its piece, after which the stream is out of step and
  later calls may fail: `DelaysAccounted` and the length of an answer are claimed
  while the stream is in step (`Aligned`); whose answer it is, also after that;
- RCON ids do not reach their maximum in a run (it takes 2^29 calls); a late
  answer to a call before the turn would then have the higher id;
- a metric's record and reset are atomic; the reset takes no lock in the code;
- a call uses at most what was estimated for it: `Usages` is bounded by assumption,
  since the estimate counts characters, not tokens;
- of the agent, the text of prompts, plans, notes and the transcript, the receipt
  that the first observation of a second episode still shows (`loop.py:1041`) and
  the two user turns after a failed last attempt (`loop.py:832`);
- of a walk, positions inside a tile and the engine's collisions at corners;
  that a later request takes a walk over or cancels it is in `Inflight`;
- of the session, payloads, speeds and the prediction of an interval's length: how
  long a call sleeps before a poll changes nothing;
- `configure(free_running = false)` in the middle of an interval is in `Runtime`
  but not in `session_steps`;
- `Holdout` takes the number of episodes asked for to be the length of the frozen
  range, as `train` does, and a worker's step as over once its result is read;
- process ids are not reused; an engine does not outlive being killed, and killing
  one or waiting for it raises nothing;
- an `env.step` that raises something other than `EpisodeResetFailed` leaves
  `evaluate_parallel`, and with it the evaluation: `Holdout` has no such step;
- `Scored` leaves out failure predicates, which end an episode as steps do: no task
  inspected has both one and a verification window.

Not modelled at all: the catalogue, encoders and task declarations (static data
and pure functions of one observation), learning buffers and cloning (numeric code
with no protocol), reports and viewers (they read and format), gates, probes and
acceptance scripts (straight-line programs around one engine), and providers' HTTP.

## 7. The plan

In order of weight.  Done: the worker, `Rcon`, `Handles`, `Production`, `Workers`,
`Holdout`, `Episode`, `Agent` with `Budget`, `Checkpoint`, `Navigation`, `Session`.

1. The steps of `vecenv` that outlive a failed joint step (`vecenv.py:245`), and
   an environment on `Session` instead of its own requests.
2. The transcript: roles alternate, what is sent extends what was sent.
3. Functions checked against their definitions: the duration-discounted advantage
   of the learning buffers, transfer legality.

Abstract specifications: `Mutations` and `Redelivery` exist; a lock per pair for
`Workers`, under the condition that no living run's claim was unlinked.

Proofs: what is left is liveness, which TLC checks.
