------------------------------ MODULE Session -------------------------------
(***************************************************************************)
(* The client of the worker (session.py WorkerSession) composed with the   *)
(* worker of Runtime: one session, its caller's thread, and the sampler's  *)
(* thread that reads truth through it.                                     *)
(*                                                                         *)
(* Both share one connection under one lock, so one exchange is under way  *)
(* at a time and requests are handled in the order in which they were      *)
(* sent; that an answer reaches its own call is Rcon's.  A call that times *)
(* out raises, and its request is handled later all the same.  A question  *)
(* changes nothing: it is one step with its answer, when its turn comes.   *)
(* An answer is adopted after the lock is gone, so adoptions can overtake. *)
(***************************************************************************)
EXTENDS Runtime

CONSTANT Polls    \* bound: how often a call polls before its settle deadline

ASSUME SessionAssumption == Polls \in Nat /\ Requests \subseteq Nat

VARIABLES
  adopted,   \* session.episode_id; NoEpisode before the first answer
  client,    \* the caller's thread: [at, request, polls, answer]
  read,      \* the episode of an answer the sampler has yet to adopt
  line,      \* mutations that were sent and not handled yet, oldest first
  returned,  \* history: what the session told its caller of each request
  stale,     \* history: the requests refused as stale since the episode began
  overtaken  \* history: since then the sampler adopted an older episode

svars == <<adopted, client, read, line, returned, stale, overtaken>>

NoEpisode == 0

NoAnswer == [code |-> "none", episode |-> NoEpisode]

SInit ==
  /\ Init
  /\ adopted = NoEpisode
  /\ client = [at |-> "idle", request |-> None, polls |-> 0, answer |-> NoAnswer]
  /\ read = NoEpisode
  /\ line = << >>
  /\ returned = [r \in Requests |-> "nothing"]
  /\ stale = {}
  /\ overtaken = FALSE

-----------------------------------------------------------------------------
(* _next_request_id: a counter that is never set back.                     *)
NextRequest(r) == sent[r] = Unsent /\ \A q \in Requests : q < r => sent[q] # Unsent

(* The caller asks for a mutation, under the episode the session believes  *)
(* in; step, act and advance ask for it first if there is none.            *)
Ask(r, body) ==
  /\ client.at = "idle" /\ NextRequest(r)
  /\ adopted # NoEpisode \/ body.type \in {"reset", "open_world"}
  /\ sent' = [sent EXCEPT ![r] = [type |-> body.type, action |-> body.action,
                                  span |-> body.span, ticks |-> body.ticks,
                                  ep |-> adopted]]
  /\ client' = [client EXCEPT !.at = "waits", !.request = r, !.polls = Polls]
  /\ line' = Append(line, r)
  /\ UNCHANGED <<episode, ledger, reg, paused, freeRunning, applied, forgotten,
                 adopted, read, returned, stale, overtaken>>

(* A query of the caller's, or the status that _require_episode asks for.  *)
Query ==
  /\ client.at = "idle" /\ line = << >>
  /\ adopted' = episode
  /\ UNCHANGED <<vars, client, read, line, returned, stale, overtaken>>

(* The call is over; of a request it says what became of it.               *)
Returns(outcome) ==
  /\ client' = [client EXCEPT !.at = "idle", !.polls = 0, !.answer = NoAnswer]
  /\ returned' = [returned EXCEPT ![client.request] = outcome]

(* The exchange times out or fails: dispatch_raw raises, and a mutation    *)
(* stays to be handled.  A poll that fails ends its call in the same way,  *)
(* and so does the deadline of _settle and _collect.                       *)
TimeOut ==
  /\ client.at \in {"waits", "polls"}
  /\ Returns("failed")
  /\ UNCHANGED <<vars, adopted, read, line, stale, overtaken>>

-----------------------------------------------------------------------------
(* The worker has handled the oldest mutation: its answer, which names the *)
(* episode the worker is in then, goes to the call that waits for it.      *)
Answers(r, code) ==
  /\ line' = Tail(line)
  /\ client' = IF client.at = "waits" /\ client.request = r
               THEN [client EXCEPT !.at = "answered",
                                   !.answer = [code |-> code, episode |-> episode']]
               ELSE client
  /\ UNCHANGED <<adopted, read, returned>>

(* handle_json lets the mutation through to its handler; the answer's code *)
(* is that of the record which is stored.                                  *)
HandleMutation ==
  /\ line # << >>
  /\ Handle(Head(line))
  /\ Answers(Head(line), ledger'.of[Top(Head(line))].state)
  /\ IF episode' # episode
     THEN stale' = {} /\ overtaken' = FALSE
     ELSE UNCHANGED <<stale, overtaken>>

RefuseStale ==
  /\ line # << >>
  /\ sent[Head(line)].ep # episode
  /\ UNCHANGED <<vars, stale, overtaken>>
  /\ Answers(Head(line), "stale")

-----------------------------------------------------------------------------
(* Mutation: the episode is not adopted from a refusal.                    *)
AdoptedUnlessStale(answer) == IF answer.code = "stale" THEN adopted ELSE answer.episode

(* _adopt_episode, from every answer.                                      *)
Adopted(answer) == answer.episode

Intervals == {r \in Requests : sent[r].type \in {"step", "advance"}}

(* Mutation: an interval that was accepted is not waited for.              *)
OpenNever(r, code) == FALSE

(* The record is of an interval that runs, or it is not there.             *)
Open(r, code) == r \in Intervals /\ code \in {"running", "unknown"}

(* dispatch_raw adopts, and raises what is stale; an interval that was     *)
(* accepted is polled until its record is settled.                         *)
Receive ==
  /\ client.at = "answered"
  /\ adopted' = Adopted(client.answer)
  /\ \/ /\ client.answer.code = "stale"
        /\ Returns("stale") /\ stale' = stale \cup {client.request}
     \/ /\ Open(client.request, client.answer.code)
        /\ client' = [client EXCEPT !.at = "polls", !.answer = NoAnswer]
        /\ UNCHANGED <<returned, stale>>
     \/ /\ client.answer.code # "stale" /\ ~Open(client.request, client.answer.code)
        /\ Returns(IF client.answer.code = "rejected" THEN "refused" ELSE "settled")
        /\ UNCHANGED stale
  /\ UNCHANGED <<vars, read, line, overtaken>>

(* _settle and _collect: request_status or collect reads the record.       *)
Poll ==
  /\ client.at = "polls" /\ client.polls > 0 /\ line = << >>
  /\ adopted' = episode
  /\ IF Open(client.request, ledger.of[Top(client.request)].state)
     THEN client' = [client EXCEPT !.polls = @ - 1] /\ returned' = returned
     ELSE Returns("settled")
  /\ UNCHANGED <<vars, read, line, stale, overtaken>>

(* The sampler's thread: truth, whose answer it adopts like any other.     *)
SamplerReads ==
  /\ read = NoEpisode /\ line = << >>
  /\ read' = episode
  /\ UNCHANGED <<vars, adopted, client, line, returned, stale, overtaken>>

SamplerAdopts ==
  /\ read # NoEpisode
  /\ adopted' = read /\ read' = NoEpisode
  /\ overtaken' = (overtaken \/ read # episode)
  /\ UNCHANGED <<vars, client, line, returned, stale>>

-----------------------------------------------------------------------------
Worker == HandleMutation \/ RefuseStale

Ticks == Tick /\ UNCHANGED svars

SNext ==
  \/ \E r \in Requests, body \in Bodies : Ask(r, body)
  \/ Query \/ TimeOut \/ Worker \/ Ticks \/ Receive \/ Poll
  \/ SamplerReads \/ SamplerAdopts

(* The engine ticks while it is not paused and handles what it was sent;   *)
(* a call goes on, and at the latest its deadline ends it.                 *)
SSpec ==
  /\ SInit /\ [][SNext]_<<vars, svars>>
  /\ WF_<<vars, svars>>(Ticks) /\ WF_<<vars, svars>>(Worker)
  /\ WF_<<vars, svars>>(Receive) /\ WF_<<vars, svars>>(Poll)
  /\ WF_<<vars, svars>>(TimeOut /\ client.at = "polls" /\ client.polls = 0)

-----------------------------------------------------------------------------
(* An interval that was accepted runs until its record is settled or its   *)
(* episode ends.                                                           *)
IntervalRuns(r) ==
  ledger.of[Top(r)].type \in {"advance", "step"} /\ ledger.of[Top(r)].state = "running"

(* What a call reports is so, whatever timed out before it and is handled  *)
(* late: a step that returns as settled was applied once and its interval  *)
(* is over; no world runs under the caller then, so that what it reads     *)
(* next is the state the step ended in; a request refused as stale touched *)
(* nothing.                                                                *)
ReportsHold ==
  /\ \A r \in Requests :
       /\ returned[r] = "settled" => applied[r] = 1 /\ ~IntervalRuns(r)
       /\ returned[r] = "stale" => applied[r] = 0
  /\ client.at = "idle" /\ client.request \in {r \in Intervals : returned[r] = "settled"}
       => paused /\ line = << >>

(* "Ongoing operations ... settle exactly once" (runtime.lua:11): a record *)
(* stored as running belongs to an operation that still runs or that waits *)
(* in a pending list for the next tick to settle it.                       *)
SettlesOnce ==
  \A id \in Ids :
    ledger.of[id].state = "running" => id \in Running(reg) \cup Pending

(* A reset or an open_world that was refused in this episode: reset_state  *)
(* may have dropped the pending lists before it failed.                    *)
FailedBegin(q) ==
  /\ sent[q].type \in {"reset", "open_world"}
  /\ sent[q].ep = episode /\ applied[q] > 0

(* Such a one cut off an operation asked for before it; intervals wait in  *)
(* no list.                                                                *)
CutOff(id) ==
  /\ id \notin {Top(r) : r \in Intervals}
  /\ \E q \in Requests : id[1] < q /\ FailedBegin(q)

(* A settlement is lost in one way only: an action that was taken over or  *)
(* cancelled waited for its tick when a reset or an open_world, sent after *)
(* it, dropped the list and failed.  No interval is ever lost, and no      *)
(* timeout, late delivery or overwritten list loses an action's.           *)
NoLostSettlement ==
  \A id \in Ids : ledger.of[id].state = "running" =>
    id \in Running(reg) \cup Pending \/ CutOff(id)

(* The session's episode heals: in one episode the caller is refused as    *)
(* stale at most once, when the answer of the reset was lost; only a late  *)
(* adoption by the sampler, of an answer older than the reset, adds to it. *)
StaleHeals == overtaken \/ Cardinality(stale) <= 1

(* An interval that was accepted ends, and a call ends with it or at its   *)
(* deadline: again and again the caller is free and the world stands still.*)
CallsSettle == []<>(client.at = "idle" /\ \A r \in Requests : ~IntervalRuns(r))
=============================================================================
