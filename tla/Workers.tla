------------------------------ MODULE Workers -------------------------------
(***************************************************************************)
(* The engines of several runs on one machine: src/factoriorl/worker.py    *)
(* (ports, launch, shutdown), supervisor.py (restart) and pool.py.         *)
(*                                                                         *)
(* A run is a process that starts workers.  A worker needs a pair of       *)
(* ports; each port is claimed by a file that names the claiming process,  *)
(* taken in several steps during which other runs take theirs, and a run   *)
(* may be killed at any moment.                                            *)
(***************************************************************************)
EXTENDS Naturals, FiniteSets

CONSTANTS
  Runs,       \* the processes that start workers
  NoRun,      \* no such process
  PortPairs,  \* PORT_PAIRS
  Windows,    \* BOOLEAN: an open file cannot be unlinked, and taskkill exists
  JobObject,  \* BOOLEAN: engines die with the run that started them
  MaxStarts   \* bound: workers each run starts or restarts

ASSUME RunsAssumption == NoRun \notin Runs
ASSUME PairsAssumption == PortPairs \in Nat \ {0}
ASSUME PlatformAssumption ==
  Windows \in BOOLEAN /\ JobObject \in BOOLEAN /\ (JobObject => Windows)
ASSUME StartsAssumption == MaxStarts \in [Runs -> Nat]

Pairs == 0 .. PortPairs - 1
Ports == Pairs \X {"game", "rcon"}

VARIABLES
  up,       \* the runs that have not ended
  claim,    \* the file of each port: who created it, and is its pid written
  step,     \* where each run is in starting a worker
  offset,   \* _next_port_offset of each run
  pool,     \* the workers in each run's pool: [id, pair]
  engines,  \* the engine processes that run: [run, id, pair]
  starts,   \* how many workers each run has started
  robbed,   \* history: a claim in use by a living run was unlinked by another
  kept,     \* history: the claims each living run has failed to give back
  strays    \* history: the engines that run outside the pool of their run

vars == <<up, claim, step, offset, pool, engines, starts, robbed, kept, strays>>

NoFile == [owner |-> NoRun, written |-> FALSE]

(* at: "idle"; "claim", "write", "unlink" in _reserve_port; "probe";       *)
(* "launch"; "wait" in _wait_for_rcon; "connect" in WorkerSession.  The    *)
(* pair is the one taken at last.                                          *)
Idle == [at |-> "idle", tried |-> 0, port |-> "game", again |-> FALSE, pair |-> 0]

Init ==
  /\ up = Runs
  /\ claim = [p \in Ports |-> NoFile]
  /\ step = [r \in Runs |-> Idle]
  /\ offset \in [Runs -> Pairs]
  /\ pool = [r \in Runs |-> {}]
  /\ engines = {}
  /\ starts = [r \in Runs |-> 0]
  /\ robbed = FALSE
  /\ kept = [r \in Runs |-> {}]
  /\ strays = {}

-----------------------------------------------------------------------------
Pair(r) == (offset[r] + step[r].tried) % PortPairs
Port(r) == <<Pair(r), step[r].port>>

PairPorts(n) == {<<n, "game">>, <<n, "rcon">>}

(* Mutation: only a file that names nobody is stale.                       *)
UnwrittenStale(p) == ~ claim[p].written

(* _reservation_is_stale: the file names nobody, or a process that ended.  *)
Stale(p) == ~ claim[p].written \/ claim[p].owner \notin up

(* Mutation: the second port of a pair is not released.                    *)
ReleasedGame(r, ports) ==
  [p \in Ports |->
     IF p \in ports /\ p[2] = "game" /\ claim[p].owner = r /\ claim[p].written
     THEN NoFile ELSE claim[p]]

(* _release_port: a file is removed only if it names this process.         *)
Released(r, ports) ==
  [p \in Ports |->
     IF p \in ports /\ claim[p].owner = r /\ claim[p].written
     THEN NoFile ELSE claim[p]]

(* Another run may have the file open to judge it: Windows does not unlink *)
(* it then.                                                                *)
HeldRead(r, p) == Windows /\ \E s \in up \ {r} : step[s].at = "claim" /\ Port(s) = p

BeingRead(r, ports) ==
  {p \in ports : claim[p].owner = r /\ claim[p].written /\ HeldRead(r, p)}

(* The ports are released; the error of a file that cannot be unlinked is  *)
(* swallowed, and the file stays.                                          *)
GivesBack(r, ports) ==
  \E S \in SUBSET BeingRead(r, ports) :
    /\ claim' = Released(r, ports \ S)
    /\ kept' = [kept EXCEPT ![r] = @ \cup S]

Moved(r, at) == step' = [step EXCEPT ![r].at = at]

(* Mutation: the pairs are tried over and over.                            *)
NextAgain(r) ==
  step' = [step EXCEPT ![r] =
             [Idle EXCEPT !.at = "claim", !.tried = (step[r].tried + 1) % PortPairs]]

(* allocate_ports goes on to the next pair, or raises after the last.      *)
NextPair(r) ==
  step' = [step EXCEPT ![r] =
             IF @.tried + 1 < PortPairs
             THEN [Idle EXCEPT !.at = "claim", !.tried = step[r].tried + 1]
             ELSE Idle]

(* The first port of a pair goes with the second.                          *)
First(r) == IF step[r].port = "rcon" THEN {<<Pair(r), "game">>} ELSE {}

(* _reserve_port returned False.                                           *)
Refused(r) ==
  /\ GivesBack(r, First(r))
  /\ NextPair(r)
  /\ UNCHANGED robbed

-----------------------------------------------------------------------------
(* Mutation: the file is opened without O_EXCL.                            *)
CreateOver(r) ==
  /\ step[r].at = "claim"
  /\ claim' = [claim EXCEPT ![Port(r)] = [owner |-> r, written |-> FALSE]]
  /\ Moved(r, "write")
  /\ UNCHANGED <<up, offset, pool, engines, starts, robbed, kept, strays>>

(* os.open(path, O_CREAT | O_EXCL) succeeds ...                            *)
Create(r) ==
  /\ step[r].at = "claim"
  /\ claim[Port(r)] = NoFile
  /\ claim' = [claim EXCEPT ![Port(r)] = [owner |-> r, written |-> FALSE]]
  /\ Moved(r, "write")
  /\ UNCHANGED <<up, offset, pool, engines, starts, robbed, kept, strays>>

(* ... or the file exists, and is stale or not.                            *)
Judge(r) ==
  /\ step[r].at = "claim"
  /\ claim[Port(r)] # NoFile
  /\ \/ /\ Stale(Port(r))
        /\ Moved(r, "unlink")
        /\ UNCHANGED <<claim, robbed, kept>>
     \/ /\ ~ Stale(Port(r))
        /\ Refused(r)
  /\ UNCHANGED <<up, offset, pool, engines, starts, strays>>

(* The file another run has just created and not yet closed.               *)
HeldOpen(p) ==
  \E s \in up : step[s].at = "write" /\ Port(s) = p /\ claim[p].owner = s

CannotUnlink(p) == claim[p] = NoFile \/ (Windows /\ HeldOpen(p))
MayNotUnlink(r, p) == CannotUnlink(p) \/ HeldRead(r, p)

(* The judged file goes, whatever it holds by now: a file its run has left *)
(* behind, or one it counts on.                                            *)
Unlinks(r) ==
  /\ ~ CannotUnlink(Port(r))
  /\ robbed' = (robbed \/ \E s \in up : claim[Port(r)].owner = s /\ Port(r) \notin kept[s])

Forgotten(p) == [s \in Runs |-> kept[s] \ {p}]

(* The claim is tried once more, and given up after a second unlink.       *)
Unlink(r) ==
  /\ step[r].at = "unlink"
  /\ \/ /\ MayNotUnlink(r, Port(r))
        /\ Refused(r)
     \/ /\ Unlinks(r)
        /\ ~ step[r].again
        /\ claim' = [claim EXCEPT ![Port(r)] = NoFile]
        /\ kept' = Forgotten(Port(r))
        /\ step' = [step EXCEPT ![r].at = "claim", ![r].again = TRUE]
     \/ /\ Unlinks(r)
        /\ step[r].again
        /\ \E S \in SUBSET BeingRead(r, First(r)) :
             /\ claim' = [Released(r, First(r) \ S) EXCEPT ![Port(r)] = NoFile]
             /\ kept' = [Forgotten(Port(r)) EXCEPT ![r] = @ \cup S]
        /\ NextPair(r)
  /\ UNCHANGED <<up, offset, pool, engines, starts, strays>>

(* The pid is written into the file this run created, if that is still the *)
(* one on the path; the second port follows the first.                     *)
Write(r) ==
  /\ step[r].at = "write"
  /\ claim' = [claim EXCEPT ![Port(r)].written = @ \/ claim[Port(r)].owner = r]
  /\ step' = [step EXCEPT ![r].at = IF step[r].port = "game" THEN "claim" ELSE "probe",
                          ![r].port = "rcon", ![r].again = FALSE]
  /\ UNCHANGED <<up, offset, pool, engines, starts, robbed, kept, strays>>

(* _port_free of both ports.                                               *)
Free(n) == \A e \in engines : e.pair # n

Probe(r) ==
  /\ step[r].at = "probe"
  /\ \/ /\ Free(Pair(r))
        /\ step' = [step EXCEPT ![r] = [Idle EXCEPT !.at = "launch", !.pair = Pair(r)]]
        /\ offset' = [offset EXCEPT ![r] = (Pair(r) + 1) % PortPairs]
        /\ UNCHANGED <<claim, kept>>
     \/ /\ ~ Free(Pair(r))
        /\ GivesBack(r, PairPorts(Pair(r)))
        /\ NextPair(r)
        /\ UNCHANGED offset
  /\ UNCHANGED <<up, pool, engines, starts, robbed, strays>>

(* A directory, a file or a socket fails in a way allocate_ports does not  *)
(* expect: the error leaves it, and what was claimed stays claimed.        *)
Leaves(r, ports) ==
  kept' = [kept EXCEPT ![r] = @ \cup {p \in ports : claim[p].owner = r}]

AllocateRaises(r) ==
  /\ step[r].at \in {"claim", "write", "probe"}
  /\ Leaves(r, First(r) \cup IF step[r].at = "claim" THEN {} ELSE {Port(r)})
  /\ step' = [step EXCEPT ![r] = Idle]
  /\ UNCHANGED <<up, claim, offset, pool, engines, starts, robbed, strays>>
-----------------------------------------------------------------------------
Engine(r, w) == [run |-> r, id |-> w.id, pair |-> w.pair]

Gone(E) == engines' = engines \ E /\ strays' = strays \ E

(* The worker being started.                                               *)
Starting(r) == [id |-> starts[r], pair |-> step[r].pair]

(* pool.start, as far as allocate_ports.                                   *)
Start(r) ==
  /\ r \in up
  /\ step[r].at = "idle"
  /\ starts[r] < MaxStarts[r]
  /\ starts' = [starts EXCEPT ![r] = @ + 1]
  /\ Moved(r, "claim")
  /\ UNCHANGED <<up, claim, offset, pool, engines, robbed, kept, strays>>

(* The configuration, the save or the process itself fails; so does an     *)
(* engine whose address another one is bound to.                           *)
LaunchFails(r) ==
  /\ step[r].at = "launch"
  /\ GivesBack(r, PairPorts(step[r].pair))
  /\ step' = [step EXCEPT ![r] = Idle]
  /\ UNCHANGED <<up, offset, pool, engines, starts, robbed, strays>>

Spawn(r) ==
  /\ step[r].at = "launch"
  /\ Free(step[r].pair)
  /\ engines' = engines \cup {Engine(r, Starting(r))}
  /\ Moved(r, "wait")
  /\ UNCHANGED <<up, claim, offset, pool, starts, robbed, kept, strays>>

(* worker-pids.json cannot be written: the start fails, and the engine     *)
(* runs on with nobody to stop it.                                         *)
SpawnFails(r) ==
  /\ step[r].at = "launch"
  /\ Free(step[r].pair)
  /\ engines' = engines \cup {Engine(r, Starting(r))}
  /\ strays' = strays \cup {Engine(r, Starting(r))}
  /\ GivesBack(r, PairPorts(step[r].pair))
  /\ step' = [step EXCEPT ![r] = Idle]
  /\ UNCHANGED <<up, offset, pool, starts, robbed>>

(* The engine exits, answers wrongly, or not before the deadline.          *)
StartFails(r) ==
  /\ step[r].at = "wait"
  /\ Gone({Engine(r, Starting(r))})
  /\ GivesBack(r, PairPorts(step[r].pair))
  /\ step' = [step EXCEPT ![r] = Idle]
  /\ UNCHANGED <<up, offset, pool, starts, robbed>>

(* The handshake succeeds, and launch returns.                             *)
Launched(r) ==
  /\ step[r].at = "wait"
  /\ Engine(r, Starting(r)) \in engines
  /\ Moved(r, "connect")
  /\ UNCHANGED <<up, claim, offset, pool, engines, starts, robbed, kept, strays>>

(* The session connects, and the worker joins the pool.                    *)
Ready(r) ==
  /\ step[r].at = "connect"
  /\ Engine(r, Starting(r)) \in engines
  /\ pool' = [pool EXCEPT ![r] = @ \cup {Starting(r)}]
  /\ step' = [step EXCEPT ![r] = Idle]
  /\ UNCHANGED <<up, claim, offset, engines, starts, robbed, kept, strays>>

(* A worker is lost from its pool, with its engine and its claims.         *)
Lost(r, w) ==
  /\ strays' = strays \cup ({Engine(r, w)} \cap engines)
  /\ Leaves(r, PairPorts(w.pair))

(* The session does not connect: nobody undoes what launch did.            *)
SessionFails(r) ==
  /\ step[r].at = "connect"
  /\ Lost(r, Starting(r))
  /\ step' = [step EXCEPT ![r] = Idle]
  /\ UNCHANGED <<up, claim, offset, pool, engines, starts, robbed>>

(* manager.shutdown: the engine is told to quit or killed, then its ports  *)
(* are released.                                                           *)
Stopped(r, w) ==
  /\ Gone({Engine(r, w)})
  /\ GivesBack(r, PairPorts(w.pair))
  /\ pool' = [pool EXCEPT ![r] = @ \ {w}]

(* pool.restart: the failed worker is shut down before its replacement is  *)
(* started under an id of its own; if that fails, neither is in the pool.  *)
Restart(r, w) ==
  /\ w \in pool[r]
  /\ step[r].at = "idle"
  /\ starts[r] < MaxStarts[r]
  /\ Stopped(r, w)
  /\ starts' = [starts EXCEPT ![r] = @ + 1]
  /\ Moved(r, "claim")
  /\ UNCHANGED <<up, offset, robbed>>

(* It has left the pool when its evidence is written, and that fails.      *)
RestartFails(r, w) ==
  /\ w \in pool[r]
  /\ step[r].at = "idle"
  /\ pool' = [pool EXCEPT ![r] = @ \ {w}]
  /\ Lost(r, w)
  /\ UNCHANGED <<up, claim, step, offset, engines, starts, robbed>>

(* pool.shutdown, of one worker or, by close, of each.                     *)
Shutdown(r, w) ==
  /\ w \in pool[r]
  /\ step[r].at = "idle"
  /\ Stopped(r, w)
  /\ UNCHANGED <<up, step, offset, starts, robbed>>

-----------------------------------------------------------------------------
(* An engine dies; nobody is told.                                         *)
EngineDies ==
  /\ \E e \in engines : Gone({e})
  /\ UNCHANGED <<up, claim, step, offset, pool, starts, robbed, kept>>

(* A run is killed, or interrupted while it starts a worker; what it had   *)
(* claimed stays claimed, and its engines run on unless a job ends them.   *)
RunEnds(r) ==
  /\ r \in up
  /\ up' = up \ {r}
  /\ step' = [step EXCEPT ![r] = Idle]
  /\ pool' = [pool EXCEPT ![r] = {}]
  /\ engines' = IF JobObject THEN {e \in engines : e.run # r} ELSE engines
  /\ kept' = [kept EXCEPT ![r] = {}]
  /\ strays' = {e \in strays : e.run # r}
  /\ UNCHANGED <<claim, offset, starts, robbed>>

Orphans == {e \in engines : e.run \notin up}

(* reap_orphans, by any living run; _terminate calls taskkill.             *)
ReapOrphans ==
  /\ Windows
  /\ up # {} /\ Orphans # {}
  /\ Gone(Orphans)
  /\ UNCHANGED <<up, claim, step, offset, pool, starts, robbed, kept>>

(* What a run does by itself while it starts a worker.                     *)
StartStep(r) ==
  \/ Create(r) \/ Judge(r) \/ Unlink(r) \/ Write(r) \/ Probe(r) \/ AllocateRaises(r)
  \/ LaunchFails(r) \/ Spawn(r) \/ SpawnFails(r) \/ StartFails(r) \/ Launched(r)
  \/ Ready(r) \/ SessionFails(r)

Next ==
  \/ \E r \in Runs : Start(r) \/ StartStep(r) \/ RunEnds(r)
  \/ \E r \in Runs : \E w \in pool[r] : Restart(r, w) \/ RestartFails(r, w) \/ Shutdown(r, w)
  \/ EngineDies
  \/ ReapOrphans

Spec == Init /\ [][Next]_vars

(* A run that starts a worker goes on with it: every wait has a deadline.  *)
FairSpec == Spec /\ \A r \in Runs : WF_vars(StartStep(r))

-----------------------------------------------------------------------------
Places == {"idle", "claim", "write", "unlink", "probe", "launch", "wait", "connect"}

(* Every variable keeps its shape.                                         *)
TypeOK ==
  /\ up \subseteq Runs
  /\ claim \in [Ports -> [owner : Runs \cup {NoRun}, written : BOOLEAN]]
  /\ step \in [Runs -> [at : Places, tried : Pairs, port : {"game", "rcon"},
                        again : BOOLEAN, pair : Pairs]]
  /\ offset \in [Runs -> Pairs]
  /\ starts \in [Runs -> Nat]
  /\ pool \in [Runs -> SUBSET [id : Nat \ {0}, pair : Pairs]]
  /\ engines \subseteq [run : Runs, id : Nat \ {0}, pair : Pairs]
  /\ robbed \in BOOLEAN
  /\ kept \in [Runs -> SUBSET Ports]
  /\ strays \subseteq engines

(* The pairs a run has got from allocate_ports and not given back.         *)
Held(r) ==
  {w.pair : w \in pool[r]}
    \cup (IF step[r].at \in {"launch", "wait", "connect"} THEN {step[r].pair} ELSE {})

(* "Ports are not accidentally shared across workers": what a run has got  *)
(* is claimed in its name, and so no other's, until it is given back, as   *)
(* long as no claim of a living run was unlinked (allocate_ports, launch). *)
HeldClaimed ==
  ~ robbed => \A r \in up : \A n \in Held(r) : \A p \in PairPorts(n) :
                claim[p] = [owner |-> r, written |-> TRUE]

(* "A worker that never came up must not keep its ports claimed": a run at *)
(* rest has claims on the ports of its pool only, and every engine of a    *)
(* living run is in its pool or being waited for -- but for the claims and *)
(* engines lost where no handler undoes a failure (launch, start, restart, *)
(* close).                                                                 *)
NothingKept ==
  \A r \in up :
    /\ step[r].at = "idle" =>
         \A p \in Ports : claim[p].owner = r =>
           p \in kept[r] \/ \E w \in pool[r] : w.pair = p[1]
    /\ \A e \in engines : e.run = r =>
         \/ [id |-> e.id, pair |-> e.pair] \in pool[r]
         \/ e \in strays
         \/ step[r].at \in {"wait", "connect"} /\ e = Engine(r, Starting(r))

(* "The pool closes every worker it started on the way out, including when *)
(* the body raised": no engine runs on, with its ports claimed, outside    *)
(* the pool of a living run at rest (start, restart).                      *)
GuaranteedTeardown ==
  \A r \in up : step[r].at = "idle" =>
    \A e \in engines :
      e.run = r /\ (\A p \in PairPorts(e.pair) : claim[p].owner = r) =>
        [id |-> e.id, pair |-> e.pair] \in pool[r]

(* "All three are closed here" (allocate_ports): no two living runs are    *)
(* ever given the same pair.                                               *)
PairsExclusive ==
  \A r, s \in up : r # s => Held(r) \cap Held(s) = {}

(* The pair a run that starts a worker is looking at.                      *)
After(s) == IF step[s].at \in {"claim", "write", "unlink", "probe"} THEN {Pair(s)} ELSE {}

PassesOver(r) ==
  /\ Judge(r) \/ Probe(r)
  /\ step'[r].at = "idle" \/ (step'[r].at = "claim" /\ step'[r].tried # step[r].tried)

(* A crash "cannot leak the pool": a run that looks at a claim, or at the  *)
(* sockets, passes the pair over only if another living run has it or is   *)
(* after it, or an engine is bound to it, or a run that still lives has    *)
(* left the claim behind (_reservation_is_stale and _port_free).           *)
PassesOverTakenOnly ==
  [][\A r \in Runs : PassesOver(r) =>
       \/ \E s \in up \ {r} : Pair(r) \in Held(s) \cup After(s)
       \/ Pair(r) \in Held(r)
       \/ ~ Free(Pair(r))
       \/ \E s \in up : Port(r) \in kept[s]]_vars

(* Starting a worker ends, whatever other runs do to the claims it tries:  *)
(* in a worker of the pool or in a failure (launch).                       *)
StartsEnd == \A r \in Runs : step[r].at # "idle" ~> step[r].at = "idle"
=============================================================================
