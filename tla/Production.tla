----------------------------- MODULE Production -----------------------------
(***************************************************************************)
(* How production is measured over a window of game time.                  *)
(*                                                                         *)
(* FactorioEnv (env.py) samples <<tick, produced>> whenever it adopts a    *)
(* settled step, re-reads the world or begins an episode.  A sample goes   *)
(* to the bounded history the success criterion is evaluated on            *)
(* (tasks/spec.py, SUSTAINED_OUTPUT) and to ProductionMetrics              *)
(* (production.py), which the wall-clock Sampler (agent/sampler.py) feeds  *)
(* as well, from a thread of its own.  An observation's tick counts from   *)
(* the start of the episode, the tick in a truth from the start of the     *)
(* game.  One item is followed; items do not interact.  The names that     *)
(* Episode has as well differ, so that both can be reasoned about at once. *)
(***************************************************************************)
EXTENDS Integers, Sequences

CONSTANTS
  OverTicks,      \* over_ticks: the window
  AtLeast,        \* at_least: what it must hold
  MaxSampleGap,   \* max_sample_gap
  NotBefore,      \* not_before_tick
  WindowSamples,  \* WINDOW_SAMPLES
  Lengths,        \* decision intervals a step may ask for
  FreeRunning,    \* BOOLEAN: does the world run between requests
  Sampling,       \* BOOLEAN: does a Sampler run
  Yield,          \* bound: items made in one tick
  MaxTick,        \* bound: ticks of the game
  MaxSamples,     \* bound: the sampler stops once the metrics hold so many
  MaxBegun        \* bound: episodes begun

Parameters ==
  /\ OverTicks \in Nat \ {0} /\ AtLeast \in Nat \ {0}
  /\ MaxSampleGap \in Nat \ {0} /\ NotBefore \in Nat
  /\ WindowSamples \in Nat \ {0, 1}
  /\ Lengths \subseteq Nat \ {0}
  /\ FreeRunning \in BOOLEAN /\ Sampling \in BOOLEAN
  /\ Yield \in Nat /\ MaxTick \in Nat /\ MaxSamples \in Nat /\ MaxBegun \in Nat

ASSUME ParametersAssumption == Parameters

VARIABLES
  tick,      \* game.tick
  epoch,     \* state.episode_start_tick
  count,     \* produced, as the force's statistics have it
  made,      \* history: what count was when each tick of the game began
  thread,    \* where the environment's thread is
  window,    \* self._window
  samples,   \* ProductionMetrics._samples
  first,     \* ProductionMetrics._first_sustained, None while there is none
  reading,   \* the truth the sampler read and has not recorded, None if none
  begun,     \* how many episodes were begun
  mixed      \* history: did the sampler feed the metrics since their reset

windowVars == <<tick, epoch, count, made, thread, window, samples, first,
                reading, begun, mixed>>
gameVars == <<tick, epoch, count, made, begun>>

None == [tick |-> -1, count |-> 0]
Sample(t, c) == [tick |-> t, count |-> c]

(* Idle; a step is "running" until a tick, or "settled" with a snapshot;   *)
(* the world has been "observed" and its truth is to be read, in a resync  *)
(* or for a new episode ("opened"); the metrics are "fresh", just reset.   *)
At(phase, sample, until) == [phase |-> phase, sample |-> sample, until |-> until]
AtRest == At("idle", None, 0)

WInit ==
  /\ tick = 0 /\ epoch = 0 /\ count = 0
  /\ made = [t \in 0 .. MaxTick |-> 0]
  /\ thread = AtRest
  /\ window = << >> /\ samples = << >>
  /\ first = -1
  /\ reading = None
  /\ begun = 0
  /\ mixed = FALSE

-----------------------------------------------------------------------------
(* The window, as both files compute it on their own list of samples.      *)
Latest(s) == s[Len(s)]
Cutoff(s) == Latest(s).tick - OverTicks

(* The sample before the first one that is younger than the cutoff, or the *)
(* earliest when that is younger itself: the loop stops at the first.      *)
IsBaseline(s, b) ==
  /\ b = 1 \/ \A i \in 1 .. b : s[i].tick <= Cutoff(s)
  /\ \/ b = Len(s)
     \/ s[b + 1].tick > Cutoff(s)
     \/ s[1].tick > Cutoff(s)

Baseline(s) == CHOOSE b \in 1 .. Len(s) : IsBaseline(s, b)

Elapsed(s) == Len(s) >= 2 /\ Latest(s).tick - s[1].tick >= OverTicks

(* Mutation: a window that is spanned counts as observed.                  *)
SpannedOnly(s) == Len(s) >= 2

Sampled(s) ==
  /\ Baseline(s) < Len(s)
  /\ \A i \in Baseline(s) .. Len(s) - 1 : s[i + 1].tick - s[i].tick <= MaxSampleGap

Output(s) == Latest(s).count - s[Baseline(s)].count

(* The rule of _record, and Predicate.evaluate for SUSTAINED_OUTPUT.       *)
Sustained(s) == Elapsed(s) /\ Sampled(s) /\ Output(s) >= AtLeast

Met(h) ==
  /\ Elapsed(h) /\ Sampled(h)
  /\ Latest(h).tick >= NotBefore
  /\ Output(h) >= AtLeast

(* A sample of the tick last sampled replaces that one.                    *)
Recorded(s, x) ==
  IF Len(s) > 0 /\ Latest(s).tick = x.tick
  THEN [s EXCEPT ![Len(s)] = x]
  ELSE Append(s, x)

(* Mutation: the buffer gives up the sample the window starts from.        *)
BoundedShort(h) == IF Len(h) > 2 THEN Tail(h) ELSE h

Bounded(h) == IF Len(h) > WindowSamples THEN Tail(h) ELSE h

(* ProductionMetrics.record, under its lock.                               *)
Measure(x) ==
  /\ samples' = Recorded(samples, x)
  /\ first' = IF first = -1 /\ Sustained(samples') THEN x.tick ELSE first

(* _record_window, then metrics.record.                                    *)
Adopt(x) ==
  /\ window' = Bounded(Recorded(window, x))
  /\ Measure(x)

-----------------------------------------------------------------------------
(* The game: a tick passes, and items may be made in it.                   *)
Tick ==
  /\ FreeRunning \/ thread.phase = "running"
  /\ tick < MaxTick
  /\ tick' = tick + 1
  /\ made' = [made EXCEPT ![tick + 1] = count]
  /\ \E n \in 0 .. Yield : count' = count + n
  /\ thread' = IF thread.phase = "running" /\ thread.until = tick + 1
               THEN At("settled", Sample(tick + 1 - epoch, count'), 0)
               ELSE thread
  /\ UNCHANGED <<epoch, window, samples, first, reading, begun, mixed>>

(* session.step: the action may make something at once (env.py             *)
(* step_payload, advance).                                                 *)
Step(n) ==
  /\ thread = AtRest /\ begun > 0
  /\ \E k \in 0 .. Yield : count' = count + k
  /\ thread' = At("running", None, tick + n)
  /\ UNCHANGED <<tick, epoch, made, window, samples, first, reading, begun,
                 mixed>>

(* _adopt: the snapshot of the tick the interval ended at.                 *)
AdoptSettled ==
  /\ thread.phase = "settled"
  /\ Adopt(thread.sample)
  /\ thread' = AtRest
  /\ UNCHANGED <<gameVars, reading, mixed>>

(* resync: the observation and the truth are two requests.                 *)
Resync ==
  /\ thread = AtRest /\ begun > 0
  /\ thread' = At("observed", Sample(tick - epoch, 0), 0)
  /\ UNCHANGED <<gameVars, window, samples, first, reading, mixed>>

ReadTruth ==
  /\ thread.phase = "observed"
  /\ Adopt(Sample(thread.sample.tick, count))
  /\ thread' = AtRest
  /\ UNCHANGED <<gameVars, reading, mixed>>

(* reset: a scene clears the statistics, an open world keeps them.  The    *)
(* window was cleared before the request.                                  *)
EnvReset ==
  /\ thread = AtRest
  /\ begun < MaxBegun
  /\ begun' = begun + 1
  /\ epoch' = tick
  /\ \/ UNCHANGED <<count, made>>
     \/ count' = 0 /\ made' = [t \in 0 .. MaxTick |-> 0]
  /\ window' = << >>
  /\ thread' = At("opened", Sample(0, 0), 0)
  /\ UNCHANGED <<tick, samples, first, reading, mixed>>

Observe ==
  /\ thread.phase = "opened"
  /\ thread' = At("looking", Sample(tick - epoch, 0), 0)
  /\ UNCHANGED <<gameVars, window, samples, first, reading, mixed>>

(* metrics.reset, which takes no lock.                                     *)
ClearedMetrics == samples' = << >> /\ first' = -1 /\ mixed' = FALSE

ReadFirstTruth ==
  /\ thread.phase = "looking"
  /\ window' = Bounded(Recorded(window, Sample(thread.sample.tick, count)))
  /\ ClearedMetrics
  /\ thread' = At("fresh", Sample(thread.sample.tick, count), 0)
  /\ UNCHANGED <<gameVars, reading>>

RecordFirst ==
  /\ thread.phase = "fresh"
  /\ Measure(thread.sample)
  /\ thread' = AtRest
  /\ UNCHANGED <<gameVars, window, reading, mixed>>

(* Sampler._sample: reads a truth between two requests of the environment, *)
(* and records it under the truth's own tick, some time later.             *)
SamplerRead ==
  /\ Sampling /\ begun > 0 /\ reading = None
  /\ Len(samples) < MaxSamples
  /\ reading' = Sample(tick, count)
  /\ UNCHANGED <<gameVars, thread, window, samples, first, mixed>>

SamplerRecord ==
  /\ reading # None
  /\ Measure(reading)
  /\ mixed' = TRUE
  /\ reading' = None
  /\ UNCHANGED <<gameVars, thread, window>>

WNext ==
  \/ Tick
  \/ \E n \in Lengths : Step(n)
  \/ AdoptSettled \/ Resync \/ ReadTruth
  \/ EnvReset \/ Observe \/ ReadFirstTruth \/ RecordFirst
  \/ SamplerRead \/ SamplerRecord

WSpec == WInit /\ [][WNext]_windowVars

-----------------------------------------------------------------------------
WTypeOK ==
  /\ tick \in 0 .. MaxTick /\ epoch \in 0 .. tick
  /\ count \in Nat /\ made \in [0 .. MaxTick -> Nat]
  /\ Len(window) <= WindowSamples
  /\ \A s \in {window, samples} :
       s \in Seq([tick : Nat, count : Nat])
  /\ first \in Nat \cup {-1}
  /\ reading = None \/ reading \in [tick : Nat, count : Nat]
  /\ begun \in 0 .. MaxBegun
  /\ mixed \in BOOLEAN

(* What was really made since the window that ends at a tick of the        *)
(* episode began, allowing for one sample gap.                             *)
Entering(t) ==
  IF t > tick THEN count ELSE made[IF t < epoch THEN epoch ELSE t]

MadeSince(t) == count - Entering(epoch + t - OverTicks - MaxSampleGap + 1)

(* A burst does not pass for a rate, and no sample of another episode or   *)
(* time helps: when SUSTAINED_OUTPUT is satisfied, the world made at_least *)
(* items in the window, give or take one sample gap (spec.py               *)
(* window_sampled: "that spacing is exactly how much production can be     *)
(* misattributed").                                                        *)
CriterionSound == Met(window) => MadeSince(Latest(window).tick) >= AtLeast

(* The same of the metrics, at the moment they first call output sustained *)
(* in an episode that has begun (production.py _record).                   *)
FirstClaimed ==
  first' # first /\ first' # -1 /\ thread'.phase \notin {"opened", "looking", "fresh"}

MetricsSound ==
  [][FirstClaimed => (MadeSince(first) >= AtLeast)']_windowVars

(* "The metric and the success criterion cannot disagree about what        *)
(* sustained means" (production.py:46): of the same samples, and however   *)
(* much of its history the environment has dropped, as long as what a full *)
(* history holds spans the window.                                         *)
MetricsAgree ==
  [][(window' # window /\ samples' # samples /\ ~ mixed' /\ samples' # << >>) =>
       (Met(window)' <=> (Sustained(samples) /\ Latest(samples).tick >= NotBefore)')]_windowVars
=============================================================================
