------------------------------ MODULE Runtime -------------------------------
(***************************************************************************)
(* The worker: mod/factoriorl/runtime.lua with the action dispatch of      *)
(* actions.lua, over the registry of Inflight and the ledger of Ledger.    *)
(*                                                                         *)
(* A request is issued once, under a fresh id, naming the episode the      *)
(* client believes in.  From then on it may reach the worker any number of *)
(* times and at any later moment: a client resends after an ambiguous      *)
(* timeout.  A delivery that handle_json refuses (foreign episode, or an   *)
(* id the ledger knows) changes nothing but statistics counters and is not *)
(* a step of the model; one it accepts is one action, handler and          *)
(* ledger_store together, because an RCON command runs inside one tick.    *)
(***************************************************************************)
EXTENDS Inflight, Sequences, FiniteSets

CONSTANTS
  Bodies,        \* the mutating requests clients may issue
  LedgerLimit,   \* LEDGER_LIMIT
  MaxEpisode,    \* bound: no further episode is begun after this one
  Configurable   \* BOOLEAN: may clients send configure(free_running)

INSTANCE Ledger WITH Keys <- Ids

(* What an action can be: the four ongoing ones; "instant" stands for      *)
(* place, rotate, transfer, set_recipe, research and wait, which answer at *)
(* once; cancel; and batch.                                                *)
Actions == {"move", "navigate", "mine", "craft", "instant", "cancel", "batch"}

(* "ticks" is the interval of an advance or a step, "span" the duration a  *)
(* move or the budget a navigate asks for.                                 *)
Body == [type : Types \ {"none"}, action : Actions \cup {"none"},
         span : Nat \ {0}, ticks : Nat \ {0}]

ASSUME BodiesAssumption == Bodies \subseteq Body
(* A step stores two records, and the second must not drop the first.      *)
ASSUME LimitAssumption == LedgerLimit \in Nat \ {0, 1}
ASSUME EpisodeAssumption == MaxEpisode \in Nat
ASSUME ConfigurableAssumption == Configurable \in BOOLEAN

VARIABLES
  episode,      \* state.episode_counter
  ledger,       \* state.ledger and state.ledger_order
  reg,          \* storage.frrl_inflight, frrl_superseded and frrl_cancelled
  paused,       \* game.tick_paused
  freeRunning,  \* state.free_running
  sent,         \* the body of each issued request, with the episode it names
  applied,      \* history: times a handler ran for the request (2 = two or more)
  forgotten     \* history: ids the ledger dropped to stay within its limit

vars == <<episode, ledger, reg, paused, freeRunning, sent, applied, forgotten>>

Unsent == [type |-> "none", action |-> "none", span |-> 1, ticks |-> 1, ep |-> 0]

Init ==
  /\ episode = 1
  /\ ledger = EmptyLedger
  /\ reg = EmptyRegistry
  /\ paused = TRUE
  /\ freeRunning = FALSE
  /\ sent = [r \in Requests |-> Unsent]
  /\ applied = [r \in Requests |-> 0]
  /\ forgotten = {}

-----------------------------------------------------------------------------
(* actions.dispatch: what an action may do to the registry, the state its  *)
(* answer is stored with, and whether the handler raised instead.          *)
Outcome(g, state, threw) == [reg |-> g, state |-> state, threw |-> threw]

Refused(g) == Outcome(g, "rejected", FALSE)
Done(g)    == Outcome(g, "completed", FALSE)
Runs(g)    == Outcome(g, "running", FALSE)
Raised(g)  == Outcome(g, "rejected", TRUE)

(* Validation, the profile and the handler's own checks may refuse any     *)
(* action, and any handler may raise before it changes something.          *)
Unharmed(g) == {Refused(g), Raised(g)}

MoveOutcomes(g, id, span) == {Runs(Started(TakenOver(g), id, "move", span))}

NavigateOutcomes(g, id, span) ==
  {Done(g),                                                \* already there
   Runs(Started(TakenOver(g), id, "navigate", span)),
   Raised(TakenOver(g))}                                   \* navigation.begin

(* Refused while a mine or a navigation runs; a plain move is left running. *)
MineOutcomes(g, id) ==
  {o \in {Runs(Started(g, id, "mine", 0))} :
     /\ ~ Occupied(g, "mine")
     /\ ~ (Occupied(g, "move") /\ g.entries[g.slots["move"]].action = "navigate")}

CraftOutcomes(g, id) == {Runs(Started(g, id, "craft", 0))}

InstantOutcomes(g) == {Done(g), Raised(g)}

CancelOutcomes(g) == {Done(CancelledBy(g, id)) : id \in Cancellable(g)}

(* A batch of instant actions and of at most two cancels runs in order and *)
(* is refused as a whole at the first failure, what ran before it standing. *)
CancelledUpTo2(g) ==
  LET once == {CancelledBy(g, id) : id \in Cancellable(g)}
  IN  {g} \cup once \cup UNION {{CancelledBy(h, id) : id \in Cancellable(h)} : h \in once}

BatchOutcomes(g) ==
  UNION {{Done(h), Refused(h)} : h \in CancelledUpTo2(g)}

Dispatch(g, id, body) ==
  Unharmed(g) \cup
  CASE body.action = "move"     -> MoveOutcomes(g, id, body.span)
    [] body.action = "navigate" -> NavigateOutcomes(g, id, body.span)
    [] body.action = "mine"     -> MineOutcomes(g, id)
    [] body.action = "craft"    -> CraftOutcomes(g, id)
    [] body.action = "cancel"   -> CancelOutcomes(g)
    [] body.action = "batch"    -> BatchOutcomes(g)
    [] OTHER                    -> InstantOutcomes(g)

-----------------------------------------------------------------------------
(* A client issues a request, naming the current episode.                  *)
Issue(r, body) ==
  /\ sent[r] = Unsent
  /\ sent' = [sent EXCEPT ![r] = [type |-> body.type, action |-> body.action,
                                  span |-> body.span, ticks |-> body.ticks,
                                  ep |-> episode]]
  /\ UNCHANGED <<episode, ledger, reg, paused, freeRunning, applied, forgotten>>

(* Mutations: a delivery is not looked up in the ledger; a delivery is not *)
(* checked against the current episode.                                    *)
AcceptedAgain(r, type) == sent[r].type = type /\ sent[r].ep = episode

AcceptedStale(r, type) == sent[r].type = type /\ ~ Known(ledger, Top(r))

(* handle_json lets a mutating request through to its handler.             *)
Accepted(r, type) ==
  /\ sent[r].type = type
  /\ sent[r].ep = episode
  /\ ~ Known(ledger, Top(r))

(* The records a handler and handle_json store, in order, in this episode. *)
StoreAll(L) ==
  /\ ledger' = L
  /\ forgotten' = forgotten \cup {k \in Ids : Known(ledger, k) /\ ~ Known(L, k)}

Answer(r, type, state) ==
  StoreAll(Stored(ledger, Top(r), Fresh(type, state)))

Ran(r) == applied' = [applied EXCEPT ![r] = IF @ < 2 THEN @ + 1 ELSE @]

(* handle_advance                                                          *)
Advance(r) ==
  /\ Accepted(r, "advance")
  /\ Ran(r)
  /\ \/ /\ ~ Occupied(reg, "advance")
        /\ reg' = Started(reg, Top(r), "advance", sent[r].ticks)
        /\ paused' = FALSE
        /\ Answer(r, "advance", "running")
     \/ /\ Occupied(reg, "advance")
        /\ Answer(r, "advance", "rejected")
        /\ UNCHANGED <<reg, paused>>
  /\ UNCHANGED <<episode, freeRunning, sent>>

(* HANDLERS.act                                                            *)
ActAlone(r) ==
  /\ Accepted(r, "act")
  /\ Ran(r)
  /\ \E o \in Dispatch(reg, Top(r), sent[r]) :
       /\ reg' = o.reg
       /\ Answer(r, "act", o.state)
  /\ UNCHANGED <<episode, paused, freeRunning, sent>>

(* Mutation: a refused step pauses the world it did not start.             *)
StepRefusedPausing(r) ==
  /\ Accepted(r, "step")
  /\ Ran(r)
  /\ Answer(r, "step", "rejected")
  /\ paused' = TRUE
  /\ UNCHANGED <<episode, reg, freeRunning, sent>>

(* handle_step refuses before it acts: bad ticks, no action, or busy.      *)
StepRefused(r) ==
  /\ Accepted(r, "step")
  /\ Ran(r)
  /\ Answer(r, "step", "rejected")
  /\ UNCHANGED <<episode, reg, paused, freeRunning, sent>>

(* handle_step: the action now, under its own id, then the interval; an    *)
(* action that raises takes the step down with it, unrecorded.             *)
Step(r) ==
  /\ Accepted(r, "step")
  /\ ~ Occupied(reg, "advance")
  /\ Ran(r)
  /\ \E o \in Dispatch(reg, Act(r), sent[r]) :
       \/ /\ o.threw
          /\ reg' = o.reg
          /\ Answer(r, "step", "rejected")
          /\ UNCHANGED paused
       \/ /\ ~ o.threw
          /\ reg' = Started(o.reg, Top(r), "advance", sent[r].ticks)
          /\ StoreAll(Stored(Stored(ledger, Act(r), Fresh("act", o.state)),
                             Top(r), Fresh("step", "running")))
          /\ paused' = FALSE
  /\ UNCHANGED <<episode, freeRunning, sent>>

(* Mutation: a new episode leaves the clock as the old one had it.         *)
BeginEpisodeRunning(r, type) ==
  /\ episode < MaxEpisode
  /\ episode' = episode + 1
  /\ ledger' = Stored(EmptyLedger, Top(r), Fresh(type, "completed"))
  /\ UNCHANGED <<paused, forgotten>>

(* begin_episode, and the request that began it stored in its new ledger.  *)
BeginEpisode(r, type) ==
  /\ episode < MaxEpisode
  /\ episode' = episode + 1
  /\ ledger' = Stored(EmptyLedger, Top(r), Fresh(type, "completed"))
  /\ paused' = ~ freeRunning
  /\ UNCHANGED forgotten

(* handle_reset: refused on a profile, or, after the character and the     *)
(* force were reset, on an unknown blueprint, or carried out.              *)
Reset(r) ==
  /\ Accepted(r, "reset")
  /\ Ran(r)
  /\ \/ /\ BeginEpisode(r, "reset")
        /\ reg' = EmptyRegistry
     \/ /\ reg' \in {reg, PendingDropped(reg)}
        /\ Answer(r, "reset", "rejected")
        /\ UNCHANGED <<episode, paused>>
  /\ UNCHANGED <<freeRunning, sent>>

(* handle_open_world: refused on a profile, or raising in the world's own  *)
(* open_world, before which a fresh world has already run reset_state; or  *)
(* carried out.  A resumed world (fresh = false) skips reset_state, so the *)
(* pending lists of the last episode outlive it.                           *)
OpenWorld(r) ==
  /\ Accepted(r, "open_world")
  /\ Ran(r)
  /\ \/ /\ BeginEpisode(r, "open_world")
        /\ \/ reg' = EmptyRegistry
           \/ reg' = [EmptyRegistry EXCEPT !.superseded = reg.superseded,
                                           !.cancelled = reg.cancelled]
     \/ /\ reg' \in {reg, PendingDropped(reg)}
        /\ Answer(r, "open_world", "rejected")
        /\ UNCHANGED <<episode, paused>>
  /\ UNCHANGED <<freeRunning, sent>>

(* handle_disrupt and handle_save: the world or a file changes, nothing    *)
(* that is modelled does.                                                  *)
OtherMutation(r) ==
  /\ Accepted(r, "other")
  /\ Ran(r)
  /\ \E state \in {"completed", "rejected"} : Answer(r, "other", state)
  /\ UNCHANGED <<episode, reg, paused, freeRunning, sent>>

(* handle_configure is outside MUTATING: no episode check, no ledger.      *)
Configure(on) ==
  /\ Configurable
  /\ freeRunning' = on
  /\ paused' = ~ on
  /\ UNCHANGED <<episode, ledger, reg, sent, applied, forgotten>>

(* on_tick: poll, settle what ended, then what was superseded, then what   *)
(* was cancelled; a settled advance pauses the world again.                *)
Pollable(S) ==
  {out \in [S -> {"running", "completed", "failed"}] :
     \A id \in S : out[id] \in PollResults(reg.entries[id])}

(* Mutation: the pending lists are drained and nothing is settled.         *)
NoneCancelled(S) == [id \in {} |-> "cancelled"]

AllCancelled(S) == [id \in S |-> "cancelled"]

Tick ==
  /\ ~ paused
  /\ \E polls \in Pollable(Running(reg)) :
       LET ended == {id \in Running(reg) : polls[id] # "running"}
           out   == [id \in ended |-> polls[id]]
       IN  /\ reg' = Polled(reg, out)
           /\ ledger' = Settled(Settled(Settled(ledger, out),
                                        AllCancelled(reg.superseded)),
                                AllCancelled(reg.cancelled))
           /\ paused' = IF \E id \in ended : reg.entries[id].action = "advance"
                        THEN ~ freeRunning ELSE paused
  /\ UNCHANGED <<episode, freeRunning, sent, applied, forgotten>>

Handle(r) ==
  \/ Advance(r) \/ ActAlone(r) \/ StepRefused(r) \/ Step(r)
  \/ Reset(r) \/ OpenWorld(r) \/ OtherMutation(r)

Next ==
  \/ \E r \in Requests, body \in Bodies : Issue(r, body)
  \/ \E r \in Requests : Handle(r)
  \/ \E on \in BOOLEAN : Configure(on)
  \/ Tick

Spec == Init /\ [][Next]_vars

-----------------------------------------------------------------------------
(* Every variable keeps its shape: the types the proofs start from.        *)
Sent == [type : Types, action : Actions \cup {"none"}, span : Nat \ {0},
         ticks : Nat \ {0}, ep : Nat]

TypeOK ==
  /\ episode \in Nat
  /\ ledger \in LedgerValue
  /\ reg \in Registry
  /\ paused \in BOOLEAN
  /\ freeRunning \in BOOLEAN
  /\ sent \in [Requests -> Sent]
  /\ applied \in [Requests -> 0 .. 2]
  /\ forgotten \subseteq Ids

(* A slot names a running operation of its own kind, and every running     *)
(* operation but a craft holds its slot: no two operations drive the same  *)
(* body part, whatever order moves, cancels, supersedes and ticks come in  *)
(* (inflight.lua SLOT_OF, occupant, start, finish).                        *)
OneOperationPerSlot == SlotsAgree(reg)

(* The world runs only while an advance is in flight or the caller asked   *)
(* for a free-running world: a reset, a cancel, a refusal or a settlement  *)
(* never leaves it ticking (runtime.lua begin_episode, on_tick).           *)
PausedBetweenDecisions ==
  paused \/ freeRunning \/ Occupied(reg, "advance")

(* Every running operation was asked for in the current episode.           *)
RunningBelongsToEpisode ==
  \A id \in Running(reg) : sent[id[1]].ep = episode

(* An operation that runs is stored as running, so request_status and      *)
(* collect never call an operation settled that still acts; an id the      *)
(* ledger had to forget is exempt.                                         *)
RunningIsStoredRunning ==
  \A id \in Running(reg) :
    id \notin forgotten => ledger.of[id].state = "running"

(* What waits in a pending list for the next tick to settle it.            *)
Pending == reg.superseded \cup reg.cancelled

(* A request is applied at most once unless its record had to be dropped:  *)
(* duplicates and late deliveries of it change nothing, across resets too. *)
AtMostOnce ==
  \A r \in Requests : applied[r] > 1 => Top(r) \in forgotten

(* The worker keeps the promise of Mutations: whatever is delivered, when  *)
(* and how often, requests are applied one by one and once each, statuses  *)
(* only move forward, and one is lost only to the ledger's limit or to the *)
(* end of its episode (runtime.lua:8-12).                                  *)
Promise == INSTANCE Mutations WITH
  Own     <- [r \in Requests |-> <<Top(r), Act(r)>>],
  Final   <- States \ {"unknown", "running"},
  epoch   <- episode,
  asked   <- [r \in Requests |-> sent[r].ep],
  status  <- [id \in Ids |-> ledger.of[id].state],
  dropped <- forgotten

ImplementsMutations == Promise!Spec
=============================================================================
