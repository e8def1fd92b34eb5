---------------------------- MODULE WorkersProofs ---------------------------
(***************************************************************************)
(* Proofs about Workers, for every set of runs, every number of port pairs *)
(* and of starts, and every platform: whose claims are on disk, and whose  *)
(* engines run, between any two steps of any runs.                         *)
(*                                                                         *)
(* And about Holdout, which plays the frozen scenes on such workers, for   *)
(* any scenes, slots and attempts: where each scene is, how often it was   *)
(* started, what is given up, and that it implements Redelivery.           *)
(***************************************************************************)
EXTENDS Workers, Holdout, TLAPS

Trying(r) == step[r].at \in {"claim", "write", "unlink", "probe"}

(* The ports a run is about to have, or has for the worker it waits for.   *)
Takes(r, p) ==
  \/ step[r].at \in {"launch", "wait", "connect"} /\ p[1] = step[r].pair
  \/ Trying(r) /\ step[r].port = "rcon" /\ p = <<Pair(r), "game">>
  \/ step[r].at \in {"write", "probe"} /\ p = Port(r)

(* The ports of the workers in its pool.                                   *)
Holds(r, p) == \E w \in pool[r] : w.pair = p[1]

(* Where a run stands between two starts, and after its end.               *)
AtRest(r) ==
  /\ step[r].at = "idle" => step[r] = Idle
  /\ r \notin up => step[r].at = "idle" /\ pool[r] = {}
  /\ step[r].at = "probe" => step[r].port = "rcon"
  /\ step[r].at # "idle" => starts[r] >= 1

(* A claim in the run's name is one it holds, is taking or has failed to   *)
(* give back, and names its process but for the file it is just writing.   *)
ClaimsCovered(r) ==
  \A p \in Ports : claim[p].owner = r =>
    /\ Holds(r, p) \/ Takes(r, p) \/ p \in kept[r]
    /\ claim[p].written \/ (step[r].at = "write" /\ p = Port(r)) \/ p \in kept[r]

(* And it has every claim it should have; no two of its workers, nor one   *)
(* of them and the one being started, are on the same pair, and none is on *)
(* a pair whose claim was not given back.                                  *)
ClaimsKept(r) ==
  /\ \A p \in Ports : Holds(r, p) \/ Takes(r, p) => claim[p].owner = r
  /\ \A p \in Ports : ~ (Holds(r, p) /\ Takes(r, p))
  /\ \A v, w \in pool[r] : v.pair = w.pair => v = w
  /\ \A p \in kept[r] : claim[p].owner = r /\ ~ Holds(r, p) /\ ~ Takes(r, p)

EnginesKnown(r) ==
  \A e \in engines : e.run = r =>
    \/ [id |-> e.id, pair |-> e.pair] \in pool[r]
    \/ step[r].at \in {"wait", "connect"} /\ e = Engine(r, Starting(r))
    \/ e \in strays

RunInv(r) ==
  /\ AtRest(r)
  /\ r \in up => /\ ClaimsCovered(r) /\ EnginesKnown(r)
                 /\ ~ robbed => ClaimsKept(r)

IInv == TypeOK /\ \A r \in Runs : RunInv(r)

USE RunsAssumption, PairsAssumption, PlatformAssumption

-----------------------------------------------------------------------------
LEMMA PortsOK ==
  /\ \A n \in Pairs : <<n, "game">> \in Ports /\ <<n, "rcon">> \in Ports
  /\ \A n \in Pairs, p \in Ports : p \in PairPorts(n) <=> p[1] = n
  /\ \A p \in Ports : p[1] \in Pairs
BY DEF Ports, PairPorts

LEMMA PairOK ==
  ASSUME TypeOK, NEW r \in Runs
  PROVE  Pair(r) \in Pairs /\ Port(r) \in Ports
<1>1. offset[r] \in Nat /\ step[r].tried \in Nat /\ step[r].port \in {"game", "rcon"}
  BY DEF TypeOK, Pairs
<1>2. \A a \in Nat : a % PortPairs \in 0 .. PortPairs - 1
  OBVIOUS
<1>3. Pair(r) \in Pairs
  BY <1>1, <1>2 DEF Pair, Pairs
<1>4. QED  BY <1>1, <1>3 DEF Port, Ports

Steps == [at : Places, tried : Pairs, port : {"game", "rcon"}, again : BOOLEAN, pair : Pairs]

LEMMA IdleOK == Idle \in Steps /\ NoFile \in [owner : Runs \cup {NoRun}, written : BOOLEAN]
BY DEF Idle, Steps, Places, Pairs, NoFile

(* What a step of run r leaves of the others: their own state, the claims  *)
(* they have unless one was unlinked under them or had been left behind,   *)
(* and no new claim or engine in their name.                               *)
LeavesOthers(r) ==
  /\ up' \subseteq up
  /\ \A s \in Runs \ {r} : step'[s] = step[s] /\ pool'[s] = pool[s] /\ offset'[s] = offset[s]
                            /\ starts'[s] = starts[s] /\ (s \in up' <=> s \in up)
  /\ \A p \in Ports : claim'[p] = claim[p] \/ claim'[p].owner \in {r, NoRun}
  /\ \A s \in Runs \ {r} : /\ kept'[s] \subseteq kept[s]
                            /\ \A p \in kept[s] \ kept'[s] : claim'[p].owner = NoRun
  /\ ~ robbed' => /\ ~ robbed
                  /\ \A s \in up \ {r}, p \in Ports : claim[p].owner = s =>
                       claim'[p] = claim[p] \/ p \in kept[s] \ kept'[s]
  /\ \A e \in engines' : e \in engines \/ e.run = r
  /\ \A e \in strays : e \in engines' /\ e.run # r => e \in strays'

LEMMA OtherRun ==
  ASSUME TypeOK, NEW r \in Runs, NEW s \in Runs \ {r}, RunInv(s), LeavesOthers(r)
  PROVE  RunInv(s)'
<1>1. /\ step'[s] = step[s] /\ pool'[s] = pool[s] /\ offset'[s] = offset[s]
      /\ starts'[s] = starts[s] /\ (s \in up' <=> s \in up) /\ s # NoRun
  BY DEF LeavesOthers
<1>2. /\ Pair(s)' = Pair(s) /\ Port(s)' = Port(s) /\ Starting(s)' = Starting(s)
      /\ \A p : (Takes(s, p)' <=> Takes(s, p)) /\ (Holds(s, p)' <=> Holds(s, p))
  BY <1>1 DEF Pair, Port, Starting, Takes, Trying, Holds
<1>3. AtRest(s)'
  BY <1>1 DEF RunInv, AtRest
<1>4. ASSUME s \in up' PROVE ClaimsCovered(s)'
  <2>1. ClaimsCovered(s)
    BY <1>1, <1>4 DEF RunInv
  <2>2. \A p \in Ports : claim'[p].owner = s =>
          claim'[p] = claim[p] /\ (p \in kept'[s] <=> p \in kept[s])
    BY <1>1 DEF LeavesOthers
  <2>3. QED  BY <1>1, <1>2, <2>1, <2>2 DEF ClaimsCovered
<1>5. ASSUME s \in up' PROVE EnginesKnown(s)'
  <2>1. /\ EnginesKnown(s) /\ \A e \in engines' : e.run = s => e \in engines
        /\ \A e \in strays : e \in engines' /\ e.run = s => e \in strays'
    BY <1>1, <1>5 DEF RunInv, LeavesOthers
  <2>2. Engine(s, Starting(s))' = Engine(s, Starting(s))
    BY <1>2 DEF Engine
  <2>3. QED  BY <1>1, <2>1, <2>2 DEF EnginesKnown
<1>6. ASSUME s \in up', ~ robbed' PROVE ClaimsKept(s)'
  <2>1. ClaimsKept(s) /\ s \in up
    BY <1>1, <1>6 DEF RunInv, LeavesOthers
  <2>2. /\ \A p \in Ports : claim[p].owner = s => claim'[p] = claim[p] \/ p \in kept[s] \ kept'[s]
        /\ kept'[s] \subseteq kept[s]
    BY <1>6, <2>1 DEF LeavesOthers
  <2>3. ASSUME NEW p \in Ports, Holds(s, p) \/ Takes(s, p) PROVE claim'[p].owner = s
    BY <2>1, <2>2, <2>3 DEF ClaimsKept
  <2>4. ASSUME NEW p \in kept'[s]
        PROVE  claim'[p].owner = s /\ ~ Holds(s, p) /\ ~ Takes(s, p)
    <3>1. p \in Ports
      BY <2>2 DEF TypeOK
    <3>2. QED  BY <2>1, <2>2, <2>4, <3>1 DEF ClaimsKept
  <2>5. QED  BY <1>1, <1>2, <2>1, <2>3, <2>4 DEF ClaimsKept
<1>7. QED  BY <1>3, <1>4, <1>5, <1>6 DEF RunInv

(* One step of one run, put together.                                      *)
LEMMA OneRun ==
  ASSUME IInv, NEW r \in Runs, TypeOK', LeavesOthers(r), RunInv(r)'
  PROVE  IInv'
BY OtherRun DEF IInv

(* A run that does something has not ended.                                *)
LEMMA Active ==
  ASSUME IInv, NEW r \in Runs, step[r].at # "idle"
  PROVE  /\ r \in up /\ starts[r] >= 1 /\ starts[r] \in Nat \ {0}
         /\ ClaimsCovered(r) /\ EnginesKnown(r) /\ (~ robbed => ClaimsKept(r))
<1>1. r \in up /\ starts[r] >= 1 /\ starts[r] \in Nat
  BY DEF IInv, TypeOK, RunInv, AtRest
<1>2. QED  BY <1>1 DEF IInv, RunInv

-----------------------------------------------------------------------------
EngineSet == [run : Runs, id : Nat \ {0}, pair : Pairs]

(* The engines of run r are known when it is starting none.                *)
EnginesFit(r) ==
  /\ engines' \subseteq EngineSet
  /\ \A e \in engines' : e \in engines \/ e.run = r
  /\ \A e \in engines' : e.run = r => [id |-> e.id, pair |-> e.pair] \in pool[r] \/ e \in strays'
  /\ strays' \subseteq engines'
  /\ \A e \in strays : e \in engines' => e \in strays'

(* It goes on to the next pair, or stops.                                  *)
Retreats(r) ==
  /\ step' = [step EXCEPT ![r] = step'[r]] /\ step'[r] \in Steps
  /\ step'[r].port = "game" /\ (step'[r] = Idle \/ step'[r].at = "claim")

(* A run gives up what it was taking: the files of D go, all of them its   *)
(* own or those it unlinks, and the others it leaves behind.               *)
GivesUp(r, D) ==
  /\ step[r].at # "idle"
  /\ Retreats(r)
  /\ claim' = [p \in Ports |-> IF p \in D THEN NoFile ELSE claim[p]]
  /\ \A p \in Ports : Takes(r, p) /\ claim[p].owner = r => p \in D \/ p \in kept'[r]
  /\ \A p \in D : claim[p].owner \in up =>
       \/ robbed'
       \/ claim[p].owner = r /\ Takes(r, p)
       \/ \E s \in Runs : claim[p].owner = s /\ p \in kept[s] \ kept'[s]
  /\ robbed' \in BOOLEAN /\ (robbed => robbed')
  /\ kept' \in [Runs -> SUBSET Ports]
  /\ \A s \in Runs : kept[s] \ kept'[s] \subseteq D
  /\ \A s \in Runs \ {r} : kept'[s] \subseteq kept[s]
  /\ \A p \in kept'[r] \ kept[r] : Takes(r, p) /\ claim[p].owner = r /\ p \notin D
  /\ EnginesFit(r)
  /\ UNCHANGED <<up, pool, starts>>
  /\ UNCHANGED offset

LEMMA GivesUpOK ==
  ASSUME IInv, NEW r \in Runs, NEW D \in SUBSET Ports, GivesUp(r, D)
  PROVE  IInv'
<1>1. TypeOK /\ RunInv(r) /\ r \in up /\ starts[r] >= 1 /\ ClaimsCovered(r)
      /\ (~ robbed => ClaimsKept(r))
  BY Active DEF IInv, GivesUp
<1>2. /\ step \in [Runs -> Steps]
      /\ claim \in [Ports -> [owner : Runs \cup {NoRun}, written : BOOLEAN]]
      /\ kept \in [Runs -> SUBSET Ports]
  BY <1>1 DEF TypeOK, Steps
<1>3. /\ step' \in [Runs -> Steps]
      /\ \A s \in Runs \ {r} : step'[s] = step[s]
  BY <1>2 DEF GivesUp, Retreats
<1>4. claim' \in [Ports -> [owner : Runs \cup {NoRun}, written : BOOLEAN]]
  BY <1>2, IdleOK DEF GivesUp
<1>5. \A p \in Ports : claim'[p] = IF p \in D THEN NoFile ELSE claim[p]
  BY DEF GivesUp
<1>6. NoFile.owner = NoRun /\ NoRun # r
  BY DEF NoFile
<1>7. TypeOK'
  <2>1. /\ engines' \subseteq EngineSet /\ robbed' \in BOOLEAN /\ strays' \subseteq engines'
        /\ kept' \in [Runs -> SUBSET Ports] /\ UNCHANGED <<up, offset, pool, starts>>
    BY DEF GivesUp, EnginesFit
  <2>2. QED  BY <1>1, <1>3, <1>4, <2>1 DEF TypeOK, Steps, EngineSet
<1>8. LeavesOthers(r)
  <2>1. ASSUME NEW s \in Runs \ {r}, NEW p \in kept[s] \ kept'[s]  PROVE claim'[p].owner = NoRun
    <3>1. p \in D /\ p \in Ports
      BY <1>2, <2>1 DEF GivesUp
    <3>2. QED  BY <1>5, <1>6, <3>1
  <2>2. ASSUME ~ robbed', NEW s \in up \ {r}, NEW p \in Ports, claim[p].owner = s
        PROVE  claim'[p] = claim[p] \/ p \in kept[s] \ kept'[s]
    BY <1>5, <2>2 DEF GivesUp
  <2>3. \A p \in Ports : claim'[p] = claim[p] \/ claim'[p].owner \in {r, NoRun}
    BY <1>5, <1>6
  <2>4. /\ \A e \in engines' : e \in engines \/ e.run = r
        /\ \A e \in strays : e \in engines' => e \in strays'
        /\ UNCHANGED <<up, offset, pool, starts>> /\ (~ robbed' => ~ robbed)
        /\ \A s \in Runs \ {r} : kept'[s] \subseteq kept[s]
    BY DEF GivesUp, EnginesFit
  <2>5. QED  BY <1>3, <2>1, <2>2, <2>3, <2>4 DEF LeavesOthers
<1>9. AtRest(r)'
  BY <1>1 DEF GivesUp, Retreats, AtRest, Idle
<1>10. \A p : ~ Takes(r, p)' /\ (Holds(r, p)' <=> Holds(r, p))
  BY DEF GivesUp, Retreats, Takes, Trying, Holds, Idle
<1>11. ClaimsCovered(r)'
  <2> SUFFICES ASSUME NEW p \in Ports, claim'[p].owner = r, p \notin kept'[r]
               PROVE  Holds(r, p)' /\ claim'[p].written
    BY DEF ClaimsCovered
  <2>1. p \notin D /\ claim'[p] = claim[p] /\ claim[p].owner = r
    BY <1>5, <1>6
  <2>2. ~ Takes(r, p) /\ p \notin kept[r]
    BY <2>1 DEF GivesUp
  <2>3. Holds(r, p) /\ claim[p].written
    BY <1>1, <2>1, <2>2 DEF ClaimsCovered, Takes
  <2>4. QED  BY <1>10, <2>1, <2>3
<1>12. EnginesKnown(r)'
  BY DEF GivesUp, EnginesFit, EnginesKnown
<1>13. ASSUME ~ robbed' PROVE ClaimsKept(r)'
  <2>1. ClaimsKept(r) /\ pool' = pool
    BY <1>1, <1>13 DEF GivesUp
  <2>2. ASSUME NEW p \in Ports, Holds(r, p) PROVE claim'[p].owner = r
    <3>1. claim[p].owner = r /\ ~ Takes(r, p) /\ p \notin kept[r]
      BY <2>1, <2>2 DEF ClaimsKept
    <3>2. p \notin D
      BY <1>1, <1>13, <3>1 DEF GivesUp
    <3>3. QED  BY <1>5, <3>1, <3>2
  <2>3. ASSUME NEW p \in kept'[r] PROVE claim'[p].owner = r /\ ~ Holds(r, p)
    <3>1. p \in Ports
      BY <2>3 DEF GivesUp
    <3>2. CASE p \in kept[r]
      <4>1. claim[p].owner = r /\ ~ Takes(r, p) /\ ~ Holds(r, p)
        BY <2>1, <3>2 DEF ClaimsKept
      <4>2. p \notin D
        BY <1>1, <1>13, <2>3, <4>1 DEF GivesUp
      <4>3. QED  BY <1>5, <3>1, <4>1, <4>2
    <3>3. CASE p \notin kept[r]
      <4>1. Takes(r, p) /\ claim[p].owner = r /\ p \notin D
        BY <2>3, <3>3 DEF GivesUp
      <4>2. QED  BY <1>5, <2>1, <3>1, <4>1 DEF ClaimsKept
    <3>4. QED  BY <3>2, <3>3
  <2>4. QED  BY <1>10, <2>1, <2>2, <2>3 DEF ClaimsKept
<1>14. RunInv(r)'
  BY <1>9, <1>11, <1>12, <1>13 DEF RunInv
<1>15. QED  BY <1>7, <1>8, <1>14, OneRun

(* The next pair is tried, or none is left.                                *)
LEMMA NextPairOK ==
  ASSUME TypeOK, NEW r \in Runs, NextPair(r)
  PROVE  Retreats(r)
<1> DEFINE next == [Idle EXCEPT !.at = "claim", !.tried = step[r].tried + 1]
           new == IF step[r].tried + 1 < PortPairs THEN next ELSE Idle
<1>1. step \in [Runs -> Steps] /\ step[r].tried \in Pairs
  BY DEF TypeOK, Steps
<1>2. step' = [step EXCEPT ![r] = new]
  BY DEF NextPair
<1>3. step[r].tried + 1 < PortPairs => step[r].tried + 1 \in Pairs
  BY <1>1 DEF Pairs
<1>4. /\ step[r].tried + 1 < PortPairs => next \in Steps
      /\ next.port = "game" /\ next.at = "claim"
  BY <1>3, IdleOK DEF Idle, Steps, Places
<1>5. new \in Steps /\ new.port = "game" /\ (new = Idle \/ new.at = "claim")
  BY <1>4, IdleOK DEF Idle
<1> HIDE DEF new
<1>6. step'[r] = new
  BY <1>1, <1>2
<1>7. QED  BY <1>1, <1>2, <1>5, <1>6 DEF Retreats

LEMMA StopsOK ==
  ASSUME TypeOK, NEW r \in Runs, step' = [step EXCEPT ![r] = Idle]
  PROVE  Retreats(r)
BY IdleOK DEF TypeOK, Steps, Idle, Retreats

LEMMA FirstOK ==
  ASSUME TypeOK, NEW r \in Runs
  PROVE  First(r) \in SUBSET Ports /\ PairPorts(Pair(r)) \in SUBSET Ports
         /\ PairPorts(step[r].pair) \in SUBSET Ports
BY PairOK, PortsOK DEF First, PairPorts, TypeOK

(* What a run gives back: the files of D go, the others it has in its name *)
(* are left behind.                                                        *)
BackOK(r, ports, D) ==
  /\ claim' = [p \in Ports |-> IF p \in D THEN NoFile ELSE claim[p]]
  /\ \A p \in D : p \in ports /\ claim[p].owner = r /\ claim[p].written
  /\ \A p \in ports : claim[p].owner = r /\ claim[p].written => p \in D \/ p \in kept'[r]
  /\ kept' \in [Runs -> SUBSET Ports]
  /\ \A s \in Runs \ {r} : kept'[s] = kept[s]
  /\ kept[r] \subseteq kept'[r]
  /\ \A p \in kept'[r] \ kept[r] : p \in ports /\ claim[p].owner = r /\ p \notin D

LEMMA GivesBackOK ==
  ASSUME TypeOK, NEW r \in Runs, NEW ports \in SUBSET Ports, GivesBack(r, ports)
  PROVE  \E D \in SUBSET Ports : BackOK(r, ports, D)
<1>1. PICK S \in SUBSET BeingRead(r, ports) :
        claim' = Released(r, ports \ S) /\ kept' = [kept EXCEPT ![r] = @ \cup S]
  BY DEF GivesBack
<1> DEFINE D == {p \in ports \ S : claim[p].owner = r /\ claim[p].written}
<1>2. /\ claim' = [p \in Ports |-> IF p \in D THEN NoFile ELSE claim[p]]
      /\ \A p \in D : p \in ports /\ claim[p].owner = r /\ claim[p].written
      /\ \A p \in S : p \in ports /\ claim[p].owner = r /\ p \notin D
  BY <1>1 DEF Released, BeingRead
<1>3. kept \in [Runs -> SUBSET Ports] /\ S \subseteq Ports
  BY <1>1 DEF TypeOK, BeingRead
<1>4. /\ kept' \in [Runs -> SUBSET Ports] /\ kept'[r] = kept[r] \cup S
      /\ \A s \in Runs \ {r} : kept'[s] = kept[s]
  BY <1>1, <1>3
<1>5. \A p \in ports : claim[p].owner = r /\ claim[p].written => p \in D \/ p \in kept'[r]
  BY <1>4
<1>6. D \in SUBSET Ports
  OBVIOUS
<1> HIDE DEF D
<1>7. BackOK(r, ports, D)
  BY <1>2, <1>4, <1>5 DEF BackOK
<1>8. QED  BY <1>6, <1>7

(* A start that gives back the ports it was taking.                        *)
LEMMA BacksOut ==
  ASSUME IInv, NEW r \in Runs, NEW ports \in SUBSET Ports, GivesBack(r, ports),
         step[r].at \notin {"idle", "write"}, \A p \in Ports : Takes(r, p) <=> p \in ports,
         Retreats(r), EnginesFit(r), UNCHANGED robbed, UNCHANGED <<up, pool, starts>>,
         UNCHANGED offset
  PROVE  IInv'
<1>1. TypeOK /\ ClaimsCovered(r) /\ robbed \in BOOLEAN
  BY Active DEF IInv, TypeOK
<1>2. PICK D \in SUBSET Ports : BackOK(r, ports, D)
  BY <1>1, GivesBackOK
<1>3. ASSUME NEW p \in Ports, Takes(r, p), claim[p].owner = r PROVE p \in D \/ p \in kept'[r]
  <2>1. claim[p].written \/ p \in kept[r]
    BY <1>1, <1>3 DEF ClaimsCovered
  <2>2. QED  BY <1>2, <1>3, <2>1 DEF BackOK
<1>4. \A p \in D : claim[p].owner = r /\ Takes(r, p)
  BY <1>2 DEF BackOK
<1>5. /\ kept' \in [Runs -> SUBSET Ports]
      /\ \A s \in Runs : kept[s] \ kept'[s] \subseteq D
      /\ \A s \in Runs \ {r} : kept'[s] \subseteq kept[s]
      /\ \A p \in kept'[r] \ kept[r] : Takes(r, p) /\ claim[p].owner = r /\ p \notin D
      /\ claim' = [p \in Ports |-> IF p \in D THEN NoFile ELSE claim[p]]
  BY <1>2 DEF BackOK
<1>6. GivesUp(r, D)
  BY <1>1, <1>3, <1>4, <1>5 DEF GivesUp
<1>7. QED  BY <1>6, GivesUpOK

LEMMA RefusedOK ==
  ASSUME IInv, NEW r \in Runs, step[r].at \in {"claim", "unlink"}, Refused(r),
         UNCHANGED <<up, offset, pool, engines, starts, strays>>
  PROVE  IInv'
<1>1. TypeOK /\ EnginesKnown(r) /\ strays \subseteq engines /\ engines \subseteq EngineSet
  BY Active DEF IInv, TypeOK, EngineSet
<1>2. First(r) \in SUBSET Ports /\ GivesBack(r, First(r)) /\ UNCHANGED robbed
  BY <1>1, FirstOK DEF Refused
<1>3. Retreats(r)
  BY <1>1, NextPairOK DEF Refused
<1>4. \A p \in Ports : Takes(r, p) <=> p \in First(r)
  BY DEF Takes, Trying, First
<1>5. EnginesFit(r)
  BY <1>1 DEF EnginesFit, EnginesKnown
<1>6. QED  BY <1>2, <1>3, <1>4, <1>5, BacksOut

(* A start that fails in launch gives back both ports; an engine nobody    *)
(* could be told of goes on.                                               *)
LEMMA LaunchFailsOK ==
  ASSUME IInv, NEW r \in Runs, LaunchFails(r) \/ SpawnFails(r) \/ StartFails(r)
  PROVE  IInv'
<1> DEFINE ports == PairPorts(step[r].pair)
<1>1. /\ step[r].at \in {"launch", "wait"} /\ UNCHANGED <<up, offset, pool, starts, robbed>>
      /\ GivesBack(r, ports) /\ step' = [step EXCEPT ![r] = Idle]
  BY DEF LaunchFails, SpawnFails, StartFails
<1>2. /\ TypeOK /\ EnginesKnown(r) /\ strays \subseteq engines /\ engines \subseteq EngineSet
      /\ starts[r] \in Nat \ {0} /\ step[r].pair \in Pairs
  BY <1>1, Active DEF IInv, TypeOK, EngineSet
<1>3. ports \in SUBSET Ports /\ Retreats(r)
  BY <1>1, <1>2, FirstOK, StopsOK
<1>4. \A p \in Ports : Takes(r, p) <=> p \in ports
  BY <1>1, <1>2, PortsOK DEF Takes, Trying
<1>5. Engine(r, Starting(r)) \in EngineSet /\ Engine(r, Starting(r)).run = r
  BY <1>2 DEF Engine, Starting, EngineSet
<1>6. EnginesFit(r)
  <2>1. CASE LaunchFails(r)
    BY <1>2, <2>1 DEF LaunchFails, EnginesFit, EnginesKnown
  <2>2. CASE SpawnFails(r)
    <3>1. /\ engines' = engines \cup {Engine(r, Starting(r))} /\ step[r].at = "launch"
          /\ strays' = strays \cup {Engine(r, Starting(r))}
      BY <2>2 DEF SpawnFails
    <3>2. QED  BY <1>2, <1>5, <3>1 DEF EnginesFit, EnginesKnown
  <2>3. CASE StartFails(r)
    <3>1. /\ engines' = engines \ {Engine(r, Starting(r))} /\ strays' = strays \ {Engine(r, Starting(r))}
      BY <2>3 DEF StartFails, Gone
    <3>2. QED  BY <1>2, <3>1 DEF EnginesFit, EnginesKnown
  <2>4. QED  BY <2>1, <2>2, <2>3
<1> HIDE DEF ports
<1>7. QED  BY <1>1, <1>3, <1>4, <1>6, BacksOut

(* A start that fails where nothing is given back.                         *)
LEMMA LeftOK ==
  ASSUME IInv, NEW r \in Runs, AllocateRaises(r) \/ SessionFails(r)
  PROVE  IInv'
<1> DEFINE ports == IF step[r].at = "connect" THEN PairPorts(step[r].pair)
                    ELSE First(r) \cup IF step[r].at = "claim" THEN {} ELSE {Port(r)}
<1>1. /\ step[r].at \in {"claim", "write", "probe", "connect"}
      /\ UNCHANGED <<up, claim, offset, pool, engines, starts, robbed>>
      /\ Leaves(r, ports) /\ step' = [step EXCEPT ![r] = Idle]
  BY DEF AllocateRaises, SessionFails, Lost, Starting
<1>2. /\ TypeOK /\ EnginesKnown(r) /\ strays \subseteq engines /\ engines \subseteq EngineSet
      /\ step[r].pair \in Pairs /\ robbed \in BOOLEAN /\ AtRest(r)
      /\ kept \in [Runs -> SUBSET Ports] /\ claim = [p \in Ports |-> claim[p]]
  BY <1>1, Active DEF IInv, RunInv, TypeOK, EngineSet
<1>3. Retreats(r) /\ First(r) \in SUBSET Ports /\ Port(r) \in Ports
      /\ PairPorts(step[r].pair) \in SUBSET Ports
  BY <1>1, <1>2, FirstOK, StopsOK, PairOK
<1>4. ports \in SUBSET Ports
  BY <1>3
<1>5. \A p \in Ports : Takes(r, p) <=> p \in ports
  BY <1>1, <1>2, PortsOK DEF Takes, Trying, First
<1> HIDE DEF ports
<1>6. /\ kept' \in [Runs -> SUBSET Ports] /\ \A s \in Runs \ {r} : kept'[s] = kept[s]
      /\ kept'[r] = kept[r] \cup {p \in ports : claim[p].owner = r}
  BY <1>1, <1>2, <1>4 DEF Leaves
<1>7. EnginesFit(r)
  <2>1. CASE AllocateRaises(r)
    BY <1>1, <1>2, <2>1 DEF AllocateRaises, EnginesFit, EnginesKnown
  <2>2. CASE SessionFails(r)
    <3>1. strays' = strays \cup ({Engine(r, Starting(r))} \cap engines)
      BY <2>2 DEF SessionFails, Lost
    <3>2. QED  BY <1>1, <1>2, <3>1 DEF EnginesFit, EnginesKnown
  <2>3. QED  BY <2>1, <2>2
<1>8. GivesUp(r, {})
  BY <1>1, <1>2, <1>3, <1>4, <1>5, <1>6, <1>7 DEF GivesUp
<1>9. QED  BY <1>8, GivesUpOK

-----------------------------------------------------------------------------
(* A change of what one run is at.                                         *)
LEMMA StepSet ==
  ASSUME TypeOK, NEW r \in Runs, NEW new \in Steps, step' = [step EXCEPT ![r] = new]
  PROVE  /\ step' \in [Runs -> Steps] /\ \A s \in Runs \ {r} : step'[s] = step[s]
         /\ step'[r] = new
BY DEF TypeOK, Steps

LEMMA MovedOK ==
  ASSUME TypeOK, NEW r \in Runs, NEW place \in Places, Moved(r, place)
  PROVE  /\ step' \in [Runs -> Steps] /\ \A s \in Runs \ {r} : step'[s] = step[s]
         /\ step'[r].at = place /\ step'[r].tried = step[r].tried /\ step'[r].port = step[r].port
         /\ step'[r].pair = step[r].pair
<1> DEFINE new == [step[r] EXCEPT !.at = place]
<1>1. step[r] \in Steps
  BY DEF TypeOK, Steps
<1>2. /\ new \in Steps /\ new.at = place
      /\ new.tried = step[r].tried /\ new.port = step[r].port /\ new.pair = step[r].pair
  BY <1>1 DEF Steps
<1>3. step' = [step EXCEPT ![r] = new]
  BY DEF Moved
<1> HIDE DEF new
<1>4. QED  BY <1>2, <1>3, StepSet

LEMMA CreateOK ==
  ASSUME IInv, NEW r \in Runs, Create(r)
  PROVE  IInv'
<1> DEFINE port == Port(r)
<1>1. /\ step[r].at = "claim" /\ claim[port] = NoFile
      /\ claim' = [claim EXCEPT ![port] = [owner |-> r, written |-> FALSE]]
      /\ UNCHANGED <<up, offset, pool, engines, starts, robbed, kept, strays>>
  BY DEF Create
<1>2. TypeOK /\ AtRest(r) /\ r \in up /\ starts[r] >= 1
      /\ ClaimsCovered(r) /\ EnginesKnown(r) /\ (~ robbed => ClaimsKept(r))
  BY <1>1, Active DEF IInv, RunInv
<1>3. port \in Ports /\ Pair(r) \in Pairs /\ port = <<Pair(r), step[r].port>>
  BY <1>2, PairOK DEF Port
<1>4. /\ step' \in [Runs -> Steps] /\ \A s \in Runs \ {r} : step'[s] = step[s]
      /\ step'[r].at = "write" /\ step'[r].tried = step[r].tried
      /\ step'[r].port = step[r].port /\ step'[r].pair = step[r].pair
  <2>1. "write" \in Places
    BY DEF Places
  <2>2. QED  BY <1>2, <2>1, MovedOK DEF Create
<1>5. Pair(r)' = Pair(r) /\ Port(r)' = port
  BY <1>1, <1>4 DEF Pair, Port
<1> HIDE DEF port
<1>6. /\ claim' \in [Ports -> [owner : Runs \cup {NoRun}, written : BOOLEAN]]
      /\ claim'[port].owner = r /\ \A p \in Ports \ {port} : claim'[p] = claim[p]
  BY <1>1, <1>2, <1>3 DEF TypeOK
<1>7. TypeOK'
  BY <1>1, <1>2, <1>4, <1>6 DEF TypeOK, Steps
<1>8. LeavesOthers(r)
  <2>1. claim[port].owner = NoRun /\ NoRun \notin up
    BY <1>1, <1>2 DEF NoFile, TypeOK
  <2>2. QED  BY <1>1, <1>4, <1>6, <2>1 DEF LeavesOthers
<1>9. AtRest(r)'
  BY <1>1, <1>2, <1>4 DEF AtRest
<1>10. /\ \A p \in Ports : Takes(r, p)' <=> Takes(r, p) \/ p = port
       /\ \A p : Holds(r, p)' <=> Holds(r, p)
  BY <1>1, <1>4, <1>5 DEF Takes, Trying, Holds, port
<1>11. ClaimsCovered(r)'
  BY <1>1, <1>2, <1>4, <1>5, <1>6, <1>10 DEF ClaimsCovered
<1>12. EnginesKnown(r)'
  BY <1>1, <1>2 DEF EnginesKnown
<1>13. ASSUME ~ robbed PROVE ClaimsKept(r)'
  <2>1. ~ Holds(r, port) /\ port \notin kept[r]
    BY <1>1, <1>2, <1>3, <1>13 DEF ClaimsKept, NoFile
  <2>2. kept[r] \subseteq Ports
    BY <1>2 DEF TypeOK
  <2>3. QED  BY <1>1, <1>2, <1>6, <1>10, <1>13, <2>1, <2>2 DEF ClaimsKept
<1>14. QED
  BY <1>1, <1>7, <1>8, <1>9, <1>11, <1>12, <1>13, OneRun DEF RunInv

(* A stale claim is judged: nothing on disk changes yet.                   *)
LEMMA JudgeOK ==
  ASSUME IInv, NEW r \in Runs, Judge(r)
  PROVE  IInv'
<1>1. step[r].at = "claim" /\ UNCHANGED <<up, offset, pool, engines, starts, strays>>
  BY DEF Judge
<1>2. CASE Moved(r, "unlink") /\ UNCHANGED <<claim, robbed, kept>>
  <2>1. TypeOK /\ AtRest(r) /\ r \in up /\ starts[r] >= 1
        /\ ClaimsCovered(r) /\ EnginesKnown(r) /\ (~ robbed => ClaimsKept(r))
    BY <1>1, Active DEF IInv, RunInv
  <2>2. /\ step' \in [Runs -> Steps] /\ \A s \in Runs \ {r} : step'[s] = step[s]
        /\ step'[r].at = "unlink" /\ step'[r].tried = step[r].tried
        /\ step'[r].port = step[r].port /\ step'[r].pair = step[r].pair
    <3>1. "unlink" \in Places
      BY DEF Places
    <3>2. QED  BY <1>2, <2>1, <3>1, MovedOK
  <2>3. \A p : (Takes(r, p)' <=> Takes(r, p)) /\ (Holds(r, p)' <=> Holds(r, p))
    BY <1>1, <2>2 DEF Takes, Trying, Holds, Pair, Port
  <2>4. TypeOK' /\ LeavesOthers(r) /\ AtRest(r)'
    BY <1>1, <1>2, <2>1, <2>2 DEF TypeOK, Steps, LeavesOthers, AtRest
  <2>5. ClaimsCovered(r)' /\ EnginesKnown(r)' /\ (~ robbed => ClaimsKept(r)')
    BY <1>1, <1>2, <2>1, <2>3 DEF ClaimsCovered, EnginesKnown, ClaimsKept
  <2>6. QED  BY <1>2, <2>4, <2>5, OneRun DEF RunInv
<1>3. CASE Refused(r)
  BY <1>1, <1>3, RefusedOK
<1>4. QED  BY <1>2, <1>3 DEF Judge
(* A file is unlinked, and the claim tried once more, or given up.         *)
LEMMA UnlinkOK ==
  ASSUME IInv, NEW r \in Runs, Unlink(r)
  PROVE  IInv'
<1> DEFINE port == Port(r)
<1>1. step[r].at = "unlink" /\ UNCHANGED <<up, offset, pool, engines, starts, strays>>
  BY DEF Unlink
<1>2. TypeOK /\ AtRest(r) /\ r \in up /\ starts[r] >= 1
      /\ ClaimsCovered(r) /\ EnginesKnown(r) /\ (~ robbed => ClaimsKept(r))
  BY <1>1, Active DEF IInv, RunInv
<1>3. port \in Ports /\ step \in [Runs -> Steps]
  BY <1>2, PairOK DEF TypeOK, Steps
<1>4. NoFile.owner = NoRun /\ NoRun # r /\ NoRun \notin up
  BY <1>2 DEF NoFile, TypeOK
<1> HIDE DEF port
<1>5. CASE Refused(r)
  BY <1>1, <1>5, RefusedOK
<1>6. kept \in [Runs -> SUBSET Ports] /\ strays \subseteq engines /\ engines \subseteq EngineSet
  BY <1>2 DEF TypeOK, EngineSet
<1>7. /\ Forgotten(port) \in [Runs -> SUBSET Ports]
      /\ \A s \in Runs : Forgotten(port)[s] = kept[s] \ {port}
  BY <1>6 DEF Forgotten
<1>8. ASSUME Unlinks(r)
      PROVE  /\ robbed' \in BOOLEAN /\ (robbed => robbed')
             /\ ~ robbed' => \A s \in up : claim[port].owner = s => port \in kept[s]
  BY <1>2, <1>8 DEF Unlinks, port, TypeOK
<1>9. CASE /\ Unlinks(r)
           /\ claim' = [claim EXCEPT ![port] = NoFile]
           /\ kept' = Forgotten(port)
           /\ step' = [step EXCEPT ![r].at = "claim", ![r].again = TRUE]
  <2> DEFINE new == [step[r] EXCEPT !.at = "claim", !.again = TRUE]
  <2>1. step' = [step EXCEPT ![r] = new]
    BY <1>9
  <2>2. /\ new \in Steps /\ new.at = "claim" /\ new.tried = step[r].tried
        /\ new.port = step[r].port /\ new.pair = step[r].pair
    BY <1>3 DEF Steps, Places
  <2> HIDE DEF new
  <2>3. /\ step' \in [Runs -> Steps] /\ \A s \in Runs \ {r} : step'[s] = step[s]
        /\ step'[r] = new
    BY <1>2, <2>1, <2>2, StepSet
  <2>4. /\ claim' \in [Ports -> [owner : Runs \cup {NoRun}, written : BOOLEAN]]
        /\ claim'[port] = NoFile /\ \A p \in Ports \ {port} : claim'[p] = claim[p]
    BY <1>2, <1>3, <1>9, IdleOK DEF TypeOK
  <2>5. \A p : (Takes(r, p)' <=> Takes(r, p)) /\ (Holds(r, p)' <=> Holds(r, p))
    BY <1>1, <2>2, <2>3 DEF Takes, Trying, Holds, Pair, Port
  <2>6. /\ kept' \in [Runs -> SUBSET Ports] /\ \A s \in Runs : kept'[s] = kept[s] \ {port}
    BY <1>7, <1>9
  <2>7. TypeOK'
    BY <1>1, <1>2, <1>8, <1>9, <2>3, <2>4, <2>6 DEF TypeOK, Steps
  <2>8. LeavesOthers(r)
    <3>1. ASSUME NEW s \in Runs \ {r}, NEW p \in kept[s] \ kept'[s]  PROVE claim'[p].owner = NoRun
      BY <1>4, <2>4, <2>6, <3>1
    <3>2. ASSUME ~ robbed', NEW s \in up \ {r}, NEW p \in Ports, claim[p].owner = s
          PROVE  claim'[p] = claim[p] \/ p \in kept[s] \ kept'[s]
      <4>1. CASE p = port
        <5>1. s \in Runs
          BY <1>2, <3>2 DEF TypeOK
        <5>2. QED  BY <1>8, <1>9, <2>6, <3>2, <4>1, <5>1
      <4>2. CASE p # port
        BY <2>4, <4>2
      <4>3. QED  BY <4>1, <4>2
    <3>3. \A p \in Ports : claim'[p] = claim[p] \/ claim'[p].owner \in {r, NoRun}
      BY <1>4, <2>4
    <3>4. QED  BY <1>1, <1>8, <1>9, <2>3, <2>6, <3>1, <3>2, <3>3 DEF LeavesOthers
  <2>9. AtRest(r)'
    BY <1>1, <1>2, <2>2, <2>3 DEF AtRest
  <2>10. ClaimsCovered(r)'
    <3> SUFFICES ASSUME NEW p \in Ports, claim'[p].owner = r, p \notin kept'[r]
                 PROVE  (Holds(r, p) \/ Takes(r, p)) /\ claim'[p].written
      BY <2>5 DEF ClaimsCovered
    <3>1. p # port /\ claim'[p] = claim[p] /\ claim[p].owner = r /\ p \notin kept[r]
      BY <1>4, <2>4, <2>6
    <3>2. QED  BY <1>1, <1>2, <3>1 DEF ClaimsCovered
  <2>11. EnginesKnown(r)'
    BY <1>1, <1>2, <2>2, <2>3 DEF EnginesKnown
  <2>12. ASSUME ~ robbed' PROVE ClaimsKept(r)'
    <3>1. ~ robbed /\ ClaimsKept(r) /\ (claim[port].owner = r => port \in kept[r])
      BY <1>2, <1>8, <1>9, <2>12
    <3>2. ASSUME NEW p \in Ports, Holds(r, p) \/ Takes(r, p) PROVE claim'[p].owner = r
      <4>1. claim[p].owner = r /\ p \notin kept[r]
        BY <3>1, <3>2 DEF ClaimsKept
      <4>2. QED  BY <2>4, <3>1, <4>1
    <3>3. ASSUME NEW p \in kept'[r] PROVE claim'[p].owner = r /\ ~ Holds(r, p) /\ ~ Takes(r, p)
      <4>1. p \in Ports /\ p # port /\ p \in kept[r]
        BY <1>6, <2>6, <3>3
      <4>2. QED  BY <2>4, <3>1, <4>1 DEF ClaimsKept
    <3>4. QED  BY <1>1, <2>5, <3>1, <3>2, <3>3 DEF ClaimsKept
  <2>13. QED  BY <1>2, <2>7, <2>8, <2>9, <2>10, <2>11, <2>12, OneRun DEF RunInv
<1>10. ASSUME NEW S \in SUBSET BeingRead(r, First(r)), Unlinks(r), NextPair(r),
              claim' = [Released(r, First(r) \ S) EXCEPT ![port] = NoFile],
              kept' = [Forgotten(port) EXCEPT ![r] = @ \cup S]
       PROVE  IInv'
  <2> DEFINE D == {p \in Ports : \/ p = port
                                 \/ p \in First(r) \ S /\ claim[p].owner = r /\ claim[p].written}
  <2>1. Retreats(r)
    BY <1>2, <1>10, NextPairOK
  <2>2. /\ \A p \in First(r) : Takes(r, p) /\ p \in Ports
        /\ \A p \in Ports : Takes(r, p) => p \in First(r)
        /\ port \notin First(r)
    <3>1. port = <<Pair(r), step[r].port>>
      BY DEF Port, port
    <3>2. QED  BY <1>1, <1>2, <3>1, FirstOK DEF Takes, Trying, First
  <2>3. claim' = [p \in Ports |-> IF p \in D THEN NoFile ELSE claim[p]]
    BY <1>3, <1>10 DEF Released
  <2>4. /\ kept' \in [Runs -> SUBSET Ports] /\ kept'[r] = (kept[r] \ {port}) \cup S
        /\ \A s \in Runs \ {r} : kept'[s] = kept[s] \ {port}
    <3>1. S \subseteq Ports
      BY <2>2 DEF BeingRead
    <3>2. QED  BY <1>7, <1>10, <3>1
  <2>5. ASSUME NEW p \in Ports, Takes(r, p), claim[p].owner = r PROVE p \in D \/ p \in kept'[r]
    <3>1. claim[p].written \/ p \in kept[r]
      BY <1>1, <1>2, <2>5 DEF ClaimsCovered
    <3>2. QED  BY <2>2, <2>4, <2>5, <3>1
  <2>6. ASSUME NEW p \in D, claim[p].owner \in up
        PROVE  \/ robbed'
               \/ claim[p].owner = r /\ Takes(r, p)
               \/ \E s \in Runs : claim[p].owner = s /\ p \in kept[s] \ kept'[s]
    <3>1. CASE p \in First(r) /\ claim[p].owner = r
      BY <2>2, <3>1
    <3>2. CASE p = port
      <4>1. port \notin S
        BY <2>2 DEF BeingRead
      <4>2. \A s \in Runs : port \notin kept'[s]
        BY <2>4, <4>1
      <4>3. claim[p].owner \in Runs
        BY <1>2, <2>6 DEF TypeOK
      <4>4. QED  BY <1>8, <1>10, <2>6, <3>2, <4>2, <4>3
    <3>3. QED  BY <3>1, <3>2
  <2>7. \A p \in kept'[r] \ kept[r] : Takes(r, p) /\ claim[p].owner = r /\ p \notin D
    BY <2>2, <2>4 DEF BeingRead
  <2>8. \A s \in Runs : kept[s] \ kept'[s] \subseteq D
    BY <1>3, <2>4
  <2>9. EnginesFit(r)
    BY <1>1, <1>2, <1>6 DEF EnginesFit, EnginesKnown
  <2>10. D \in SUBSET Ports
    OBVIOUS
  <2> HIDE DEF D
  <2>11. /\ robbed' \in BOOLEAN /\ (robbed => robbed') /\ kept' \in [Runs -> SUBSET Ports]
         /\ \A s \in Runs \ {r} : kept'[s] \subseteq kept[s]
         /\ step[r].at # "idle" /\ UNCHANGED <<up, pool, starts>> /\ UNCHANGED offset
    BY <1>1, <1>8, <1>10, <2>4
  <2>12. GivesUp(r, D)
    BY <2>1, <2>3, <2>5, <2>6, <2>7, <2>8, <2>9, <2>11 DEF GivesUp
  <2>13. QED  BY <2>10, <2>12, GivesUpOK
<1>11. QED  BY <1>5, <1>9, <1>10 DEF Unlink, port

(* The pid is written into the run's own file, and into no other's.        *)
LEMMA WriteOK ==
  ASSUME IInv, NEW r \in Runs, Write(r)
  PROVE  IInv'
<1> DEFINE port == Port(r)
           new == [step[r] EXCEPT !.at = IF step[r].port = "game" THEN "claim" ELSE "probe",
                                  !.port = "rcon", !.again = FALSE]
<1>1. /\ step[r].at = "write"
      /\ UNCHANGED <<up, offset, pool, engines, starts, robbed, kept, strays>>
      /\ claim' = [claim EXCEPT ![port].written = @ \/ claim[port].owner = r]
      /\ step' = [step EXCEPT ![r] = new]
  BY DEF Write
<1>2. TypeOK /\ AtRest(r) /\ r \in up /\ starts[r] >= 1
      /\ ClaimsCovered(r) /\ EnginesKnown(r) /\ (~ robbed => ClaimsKept(r))
  BY <1>1, Active DEF IInv, RunInv
<1>3. port \in Ports /\ step \in [Runs -> Steps] /\ step[r].port \in {"game", "rcon"}
  BY <1>2, PairOK DEF TypeOK, Steps
<1>4. /\ new \in Steps /\ new.tried = step[r].tried /\ new.port = "rcon"
      /\ new.at = IF step[r].port = "game" THEN "claim" ELSE "probe"
  BY <1>3 DEF Steps, Places
<1>5. port = <<Pair(r), step[r].port>>
  BY DEF Port
<1> HIDE DEF new, port
<1>6. /\ step' \in [Runs -> Steps] /\ \A s \in Runs \ {r} : step'[s] = step[s]
      /\ step'[r] = new
  BY <1>1, <1>2, <1>4, StepSet
<1>7. /\ claim' \in [Ports -> [owner : Runs \cup {NoRun}, written : BOOLEAN]]
      /\ \A p \in Ports \ {port} : claim'[p] = claim[p]
      /\ claim'[port].owner = claim[port].owner
      /\ claim[port].owner = r => claim'[port].written
      /\ claim[port].owner # r => claim'[port] = claim[port]
  <2> DEFINE F == [owner : Runs \cup {NoRun}, written : BOOLEAN]
             file == [claim[port] EXCEPT !.written = @ \/ claim[port].owner = r]
  <2>1. claim \in [Ports -> F] /\ claim[port] \in F
    BY <1>2, <1>3 DEF TypeOK
  <2>2. /\ file \in F /\ file.owner = claim[port].owner
        /\ file.written = (claim[port].written \/ claim[port].owner = r)
    BY <2>1
  <2>3. claim[port].owner # r => file = claim[port]
    BY <2>1, <2>2
  <2>4. claim' = [claim EXCEPT ![port] = file]
    BY <1>1
  <2> HIDE DEF file
  <2>5. QED  BY <1>3, <2>1, <2>2, <2>3, <2>4
<1>8. Pair(r)' = Pair(r)
  BY <1>1, <1>4, <1>6 DEF Pair
<1>9. \A p : (Takes(r, p)' <=> Takes(r, p)) /\ (Holds(r, p)' <=> Holds(r, p))
  BY <1>1, <1>3, <1>4, <1>5, <1>6, <1>8 DEF Takes, Trying, Holds, Port, port
<1>10. TypeOK'
  BY <1>1, <1>2, <1>6, <1>7 DEF TypeOK, Steps
<1>11. LeavesOthers(r)
  BY <1>1, <1>2, <1>6, <1>7 DEF LeavesOthers, TypeOK
<1>12. AtRest(r)'
  BY <1>1, <1>2, <1>4, <1>6 DEF AtRest
<1>13. ClaimsCovered(r)'
  BY <1>1, <1>2, <1>7, <1>9 DEF ClaimsCovered, port
<1>14. EnginesKnown(r)'
  BY <1>1, <1>2 DEF EnginesKnown
<1>15. ASSUME ~ robbed PROVE ClaimsKept(r)'
  BY <1>1, <1>2, <1>7, <1>9, <1>15 DEF ClaimsKept
<1>16. QED
  BY <1>1, <1>10, <1>11, <1>12, <1>13, <1>14, <1>15, OneRun DEF RunInv

(* Both sockets of the pair are free, or the pair is given back.           *)
LEMMA ProbeOK ==
  ASSUME IInv, NEW r \in Runs, Probe(r)
  PROVE  IInv'
<1>1. step[r].at = "probe" /\ UNCHANGED <<up, pool, engines, starts, robbed, strays>>
  BY DEF Probe
<1>2. TypeOK /\ AtRest(r) /\ r \in up /\ starts[r] >= 1
      /\ ClaimsCovered(r) /\ EnginesKnown(r) /\ (~ robbed => ClaimsKept(r))
  BY <1>1, Active DEF IInv, RunInv
<1>3. /\ Pair(r) \in Pairs /\ step \in [Runs -> Steps] /\ offset \in [Runs -> Pairs]
      /\ step[r].port = "rcon"
  BY <1>1, <1>2, PairOK DEF TypeOK, Steps, AtRest
<1>4. \A p \in Ports : Takes(r, p) <=> p \in PairPorts(Pair(r))
  BY <1>1, <1>3 DEF Takes, Trying, Port, PairPorts
<1>5. CASE /\ step' = [step EXCEPT ![r] = [Idle EXCEPT !.at = "launch", !.pair = Pair(r)]]
           /\ offset' = [offset EXCEPT ![r] = (Pair(r) + 1) % PortPairs]
           /\ UNCHANGED <<claim, kept>>
  <2> DEFINE new == [Idle EXCEPT !.at = "launch", !.pair = Pair(r)]
  <2>1. new \in Steps /\ new.at = "launch" /\ new.pair = Pair(r)
    BY <1>3, IdleOK DEF Idle, Steps, Places
  <2> HIDE DEF new
  <2>2. /\ step' \in [Runs -> Steps] /\ \A s \in Runs \ {r} : step'[s] = step[s]
        /\ step'[r] = new
    BY <1>2, <1>5, <2>1, StepSet DEF new
  <2>3. /\ offset' \in [Runs -> Pairs]
        /\ \A s \in Runs \ {r} : offset'[s] = offset[s]
    <3>1. \A a \in Nat : (a + 1) % PortPairs \in 0 .. PortPairs - 1
      OBVIOUS
    <3>2. (Pair(r) + 1) % PortPairs \in Pairs
      BY <1>3, <3>1 DEF Pairs
    <3>3. QED  BY <1>3, <1>5, <3>2
  <2>4. /\ \A p \in Ports : Takes(r, p)' <=> Takes(r, p)
        /\ \A p : Holds(r, p)' <=> Holds(r, p)
    <3>1. \A p \in Ports : Takes(r, p)' <=> p[1] = Pair(r)
      BY <2>1, <2>2 DEF Takes, Trying
    <3>2. QED  BY <1>1, <1>3, <1>4, <3>1, PortsOK DEF Holds
  <2>5. TypeOK' /\ LeavesOthers(r) /\ AtRest(r)'
    <3>1. TypeOK'
      BY <1>1, <1>2, <1>5, <2>2, <2>3 DEF TypeOK, Steps
    <3>2. LeavesOthers(r)
      BY <1>1, <1>5, <2>2, <2>3 DEF LeavesOthers
    <3>3. AtRest(r)'
      BY <1>1, <1>2, <2>1, <2>2 DEF AtRest
    <3>4. QED  BY <3>1, <3>2, <3>3
  <2>6. ClaimsCovered(r)' /\ EnginesKnown(r)' /\ (~ robbed => ClaimsKept(r)')
    <3>1. ClaimsCovered(r)'
      BY <1>1, <1>2, <1>5, <2>4 DEF ClaimsCovered
    <3>2. EnginesKnown(r)'
      BY <1>1, <1>2 DEF EnginesKnown
    <3>3. ASSUME ~ robbed PROVE ClaimsKept(r)'
      <4>1. kept[r] \subseteq Ports
        BY <1>2 DEF TypeOK
      <4>2. QED  BY <1>1, <1>2, <1>5, <2>4, <3>3, <4>1 DEF ClaimsKept
    <3>4. QED  BY <3>1, <3>2, <3>3
  <2>7. QED  BY <1>1, <2>5, <2>6, OneRun DEF RunInv
<1>6. CASE GivesBack(r, PairPorts(Pair(r))) /\ NextPair(r) /\ UNCHANGED offset
  <2>1. Retreats(r) /\ PairPorts(Pair(r)) \in SUBSET Ports
    BY <1>2, <1>6, NextPairOK, FirstOK
  <2>2. EnginesFit(r)
    BY <1>1, <1>2 DEF EnginesFit, EnginesKnown, TypeOK, EngineSet
  <2>3. QED  BY <1>1, <1>4, <1>6, <2>1, <2>2, BacksOut
<1>7. QED  BY <1>5, <1>6 DEF Probe

-----------------------------------------------------------------------------
(* An idle run takes nothing.                                              *)
LEMMA TakesNothing ==
  ASSUME NEW r \in Runs, AtRest(r), step[r].at = "idle"
  PROVE  step[r] = Idle /\ \A p : ~ Takes(r, p)
BY DEF AtRest, Takes, Trying, Idle

LEMMA StartOK ==
  ASSUME IInv, NEW r \in Runs, Start(r)
  PROVE  IInv'
<1>1. /\ r \in up /\ step[r].at = "idle" /\ starts[r] < MaxStarts[r]
      /\ starts' = [starts EXCEPT ![r] = @ + 1]
      /\ UNCHANGED <<up, claim, offset, pool, engines, robbed, kept, strays>>
  BY DEF Start
<1>2. TypeOK /\ AtRest(r) /\ ClaimsCovered(r) /\ EnginesKnown(r)
      /\ (~ robbed => ClaimsKept(r))
  BY <1>1 DEF IInv, RunInv
<1>3. step[r] = Idle /\ \A p : ~ Takes(r, p)
  BY <1>1, <1>2, TakesNothing
<1>4. /\ step' \in [Runs -> Steps] /\ \A s \in Runs \ {r} : step'[s] = step[s]
      /\ step'[r].at = "claim" /\ step'[r].port = "game"
  <2>1. "claim" \in Places
    BY DEF Places
  <2>2. QED  BY <1>2, <1>3, <2>1, MovedOK DEF Start, Idle
<1>5. /\ starts' \in [Runs -> Nat] /\ starts'[r] >= 1
      /\ \A s \in Runs \ {r} : starts'[s] = starts[s]
  BY <1>1, <1>2 DEF TypeOK
<1>6. \A p : ~ Takes(r, p)' /\ (Holds(r, p)' <=> Holds(r, p))
  BY <1>1, <1>4 DEF Takes, Trying, Holds
<1>7. TypeOK'
  BY <1>1, <1>2, <1>4, <1>5 DEF TypeOK, Steps
<1>8. LeavesOthers(r)
  BY <1>1, <1>4, <1>5 DEF LeavesOthers
<1>9. AtRest(r)'
  BY <1>1, <1>4, <1>5 DEF AtRest
<1>10. ClaimsCovered(r)' /\ EnginesKnown(r)' /\ (~ robbed => ClaimsKept(r)')
  BY <1>1, <1>2, <1>3, <1>6 DEF ClaimsCovered, EnginesKnown, ClaimsKept
<1>11. QED  BY <1>1, <1>7, <1>8, <1>9, <1>10, OneRun DEF RunInv

(* The engine started is the one the run waits for.                        *)
LEMMA SpawnOK ==
  ASSUME IInv, NEW r \in Runs, Spawn(r)
  PROVE  IInv'
<1>1. /\ step[r].at = "launch" /\ engines' = engines \cup {Engine(r, Starting(r))}
      /\ UNCHANGED <<up, claim, offset, pool, starts, robbed, kept, strays>>
  BY DEF Spawn
<1>2. TypeOK /\ AtRest(r) /\ r \in up /\ starts[r] \in Nat \ {0}
      /\ ClaimsCovered(r) /\ EnginesKnown(r) /\ (~ robbed => ClaimsKept(r))
  BY <1>1, Active DEF IInv, RunInv
<1>3. /\ step' \in [Runs -> Steps] /\ \A s \in Runs \ {r} : step'[s] = step[s]
      /\ step'[r].at = "wait" /\ step'[r].pair = step[r].pair
  <2>1. "wait" \in Places
    BY DEF Places
  <2>2. QED  BY <1>2, <2>1, MovedOK DEF Spawn
<1>4. /\ Engine(r, Starting(r)) \in [run : Runs, id : Nat \ {0}, pair : Pairs]
      /\ Engine(r, Starting(r))' = Engine(r, Starting(r)) /\ Engine(r, Starting(r)).run = r
  BY <1>1, <1>2, <1>3 DEF Engine, Starting, TypeOK
<1>5. \A p : (Takes(r, p)' <=> Takes(r, p)) /\ (Holds(r, p)' <=> Holds(r, p))
  BY <1>1, <1>3 DEF Takes, Trying, Holds
<1>6. TypeOK'
  BY <1>1, <1>2, <1>3, <1>4 DEF TypeOK, Steps
<1>7. LeavesOthers(r)
  BY <1>1, <1>3, <1>4 DEF LeavesOthers
<1>8. AtRest(r)'
  BY <1>1, <1>2, <1>3 DEF AtRest
<1>9. ClaimsCovered(r)' /\ (~ robbed => ClaimsKept(r)')
  BY <1>1, <1>2, <1>5 DEF ClaimsCovered, ClaimsKept
<1>10. EnginesKnown(r)'
  BY <1>1, <1>2, <1>3, <1>4 DEF EnginesKnown
<1>11. QED  BY <1>1, <1>6, <1>7, <1>8, <1>9, <1>10, OneRun DEF RunInv

(* The run goes on waiting for its engine, now to connect.                 *)
LEMMA LaunchedOK ==
  ASSUME IInv, NEW r \in Runs, Launched(r)
  PROVE  IInv'
<1>1. /\ step[r].at = "wait"
      /\ UNCHANGED <<up, claim, offset, pool, engines, starts, robbed, kept, strays>>
  BY DEF Launched
<1>2. TypeOK /\ AtRest(r) /\ r \in up /\ starts[r] >= 1
      /\ ClaimsCovered(r) /\ EnginesKnown(r) /\ (~ robbed => ClaimsKept(r))
  BY <1>1, Active DEF IInv, RunInv
<1>3. /\ step' \in [Runs -> Steps] /\ \A s \in Runs \ {r} : step'[s] = step[s]
      /\ step'[r].at = "connect" /\ step'[r].pair = step[r].pair
  <2>1. "connect" \in Places
    BY DEF Places
  <2>2. QED  BY <1>2, <2>1, MovedOK DEF Launched
<1>4. /\ \A p : (Takes(r, p)' <=> Takes(r, p)) /\ (Holds(r, p)' <=> Holds(r, p))
      /\ Engine(r, Starting(r))' = Engine(r, Starting(r))
  BY <1>1, <1>3 DEF Takes, Trying, Holds, Engine, Starting
<1>5. TypeOK' /\ LeavesOthers(r) /\ AtRest(r)'
  BY <1>1, <1>2, <1>3 DEF TypeOK, Steps, LeavesOthers, AtRest
<1>6. ClaimsCovered(r)' /\ (~ robbed => ClaimsKept(r)')
  BY <1>1, <1>2, <1>4 DEF ClaimsCovered, ClaimsKept
<1>7. EnginesKnown(r)'
  BY <1>1, <1>2, <1>3, <1>4 DEF EnginesKnown
<1>8. QED  BY <1>1, <1>5, <1>6, <1>7, OneRun DEF RunInv

(* What was being taken for the worker is held with it.                    *)
LEMMA ReadyOK ==
  ASSUME IInv, NEW r \in Runs, Ready(r)
  PROVE  IInv'
<1> DEFINE w == Starting(r)
<1>1. /\ step[r].at = "connect" /\ pool' = [pool EXCEPT ![r] = @ \cup {w}]
      /\ step' = [step EXCEPT ![r] = Idle]
      /\ UNCHANGED <<up, claim, offset, engines, starts, robbed, kept, strays>>
  BY DEF Ready
<1>2. TypeOK /\ AtRest(r) /\ r \in up /\ starts[r] \in Nat \ {0}
      /\ ClaimsCovered(r) /\ EnginesKnown(r) /\ (~ robbed => ClaimsKept(r))
  BY <1>1, Active DEF IInv, RunInv
<1>3. /\ w \in [id : Nat \ {0}, pair : Pairs] /\ w.pair = step[r].pair
      /\ w.pair \in Pairs /\ Engine(r, w) = [run |-> r, id |-> w.id, pair |-> w.pair]
  BY <1>2 DEF Starting, Engine, TypeOK
<1>4. /\ step' \in [Runs -> Steps] /\ \A s \in Runs \ {r} : step'[s] = step[s]
      /\ step'[r] = Idle
  BY <1>1, <1>2, IdleOK, StepSet
<1> HIDE DEF w
<1>5. /\ pool' \in [Runs -> SUBSET [id : Nat \ {0}, pair : Pairs]]
      /\ pool'[r] = pool[r] \cup {w} /\ \A s \in Runs \ {r} : pool'[s] = pool[s]
  BY <1>1, <1>2, <1>3 DEF TypeOK
<1>6. \A p : /\ ~ Takes(r, p)' /\ (Holds(r, p)' <=> Holds(r, p) \/ w.pair = p[1])
             /\ (Takes(r, p) <=> w.pair = p[1])
  BY <1>1, <1>3, <1>4, <1>5 DEF Takes, Trying, Holds, Idle
<1>7. TypeOK'
  BY <1>1, <1>2, <1>4, <1>5 DEF TypeOK, Steps
<1>8. LeavesOthers(r)
  BY <1>1, <1>4, <1>5 DEF LeavesOthers
<1>9. AtRest(r)'
  BY <1>1, <1>2, <1>4 DEF AtRest, Idle
<1>10. ClaimsCovered(r)'
  BY <1>1, <1>2, <1>6 DEF ClaimsCovered
<1>11. EnginesKnown(r)'
  <2> SUFFICES ASSUME NEW e \in engines, e.run = r, e \notin strays
               PROVE  [id |-> e.id, pair |-> e.pair] \in pool'[r]
    BY <1>1 DEF EnginesKnown
  <2>1. CASE [id |-> e.id, pair |-> e.pair] \in pool[r]
    BY <1>5, <2>1
  <2>2. CASE e = Engine(r, w)
    <3>1. [id |-> e.id, pair |-> e.pair] = w
      BY <1>3, <2>2
    <3>2. QED  BY <1>5, <3>1
  <2>3. QED  BY <1>2, <2>1, <2>2 DEF EnginesKnown, w
<1>12. ASSUME ~ robbed PROVE ClaimsKept(r)'
  <2>1. \A v \in pool[r] : v.pair # w.pair
    <3>1. <<w.pair, "game">> \in Ports /\ <<w.pair, "game">>[1] = w.pair
      BY <1>3, PortsOK
    <3>2. ~ Holds(r, <<w.pair, "game">>)
      BY <1>2, <1>6, <1>12, <3>1 DEF ClaimsKept
    <3>3. QED  BY <3>1, <3>2 DEF Holds
  <2>2. \A u, v \in pool'[r] : u.pair = v.pair => u = v
    BY <1>2, <1>5, <1>12, <2>1 DEF ClaimsKept
  <2>3. kept[r] \subseteq Ports
    BY <1>2 DEF TypeOK
  <2>4. QED  BY <1>1, <1>2, <1>6, <1>12, <2>2, <2>3 DEF ClaimsKept
<1>13. QED
  BY <1>1, <1>7, <1>8, <1>9, <1>10, <1>11, <1>12, OneRun DEF RunInv

(* A worker is stopped: the ports of its pair are given back, and no other *)
(* worker of the pool had one of them.                                     *)
LEMMA StoppedOK ==
  ASSUME IInv, NEW r \in Runs, NEW w \in pool[r], Stopped(r, w), step[r].at = "idle",
         UNCHANGED <<up, offset, robbed>>,
         \/ UNCHANGED <<step, starts>>
         \/ starts[r] < MaxStarts[r] /\ starts' = [starts EXCEPT ![r] = @ + 1] /\ Moved(r, "claim")
  PROVE  IInv'
<1>1. TypeOK /\ AtRest(r) /\ r \in up /\ ClaimsCovered(r) /\ EnginesKnown(r)
      /\ (~ robbed => ClaimsKept(r))
  BY DEF IInv, RunInv, AtRest
<1>2. step[r] = Idle /\ \A p : ~ Takes(r, p)
  BY <1>1, TakesNothing
<1>3. /\ step' \in [Runs -> Steps] /\ \A s \in Runs \ {r} : step'[s] = step[s]
      /\ step'[r].at \in {"idle", "claim"} /\ step'[r].port = "game"
      /\ step'[r].at = "idle" => step'[r] = Idle
  <2>1. CASE step' = step
    BY <1>1, <1>2, <2>1 DEF TypeOK, Steps, Idle
  <2>2. CASE Moved(r, "claim")
    <3>1. "claim" \in Places
      BY DEF Places
    <3>2. QED  BY <1>1, <1>2, <2>2, <3>1, MovedOK DEF Idle
  <2>3. QED  BY <2>1, <2>2
<1>4. /\ starts' \in [Runs -> Nat] /\ \A s \in Runs \ {r} : starts'[s] = starts[s]
      /\ step'[r].at = "claim" => starts'[r] >= 1
  <2>1. CASE UNCHANGED <<step, starts>>
    BY <1>1, <2>1 DEF TypeOK
  <2>2. CASE starts[r] < MaxStarts[r] /\ starts' = [starts EXCEPT ![r] = @ + 1]
    BY <1>1, <2>2 DEF TypeOK
  <2>3. QED  BY <2>1, <2>2
<1>5. PICK D \in SUBSET Ports : BackOK(r, PairPorts(w.pair), D)
  <2>1. w.pair \in Pairs
    BY <1>1 DEF TypeOK
  <2>2. PairPorts(w.pair) \in SUBSET Ports
    BY <2>1, PortsOK DEF PairPorts
  <2>3. QED  BY <1>1, <2>2, GivesBackOK DEF Stopped
<1>6. /\ pool' \in [Runs -> SUBSET [id : Nat \ {0}, pair : Pairs]]
      /\ pool'[r] = pool[r] \ {w} /\ \A s \in Runs \ {r} : pool'[s] = pool[s]
      /\ engines' = engines \ {Engine(r, w)} /\ strays' = strays \ {Engine(r, w)}
  BY <1>1 DEF Stopped, Gone, TypeOK
<1>7. NoFile.owner = NoRun /\ NoRun # r
  BY DEF NoFile
<1>8. /\ claim' \in [Ports -> [owner : Runs \cup {NoRun}, written : BOOLEAN]]
      /\ \A p \in Ports : claim'[p] = IF p \in D THEN NoFile ELSE claim[p]
      /\ \A p \in D : p[1] = w.pair /\ claim[p].owner = r
      /\ \A p \in Ports : p[1] = w.pair /\ claim[p].owner = r /\ claim[p].written
                         => p \in D \/ p \in kept'[r]
      /\ kept' \in [Runs -> SUBSET Ports] /\ kept[r] \subseteq kept'[r]
      /\ \A s \in Runs \ {r} : kept'[s] = kept[s]
      /\ \A p \in kept'[r] \ kept[r] : p[1] = w.pair /\ claim[p].owner = r /\ p \notin D
  <2>1. w.pair \in Pairs /\ claim \in [Ports -> [owner : Runs \cup {NoRun}, written : BOOLEAN]]
    BY <1>1 DEF TypeOK
  <2>2. \A p \in Ports : p \in PairPorts(w.pair) <=> p[1] = w.pair
    BY <2>1, PortsOK
  <2>3. claim' = [p \in Ports |-> IF p \in D THEN NoFile ELSE claim[p]]
    BY <1>5 DEF BackOK
  <2>4. claim' \in [Ports -> [owner : Runs \cup {NoRun}, written : BOOLEAN]]
    BY <2>1, <2>3, IdleOK
  <2>5. /\ kept' \in [Runs -> SUBSET Ports] /\ kept[r] \subseteq kept'[r]
        /\ \A s \in Runs \ {r} : kept'[s] = kept[s]
        /\ \A p \in D : p \in PairPorts(w.pair) /\ claim[p].owner = r
        /\ \A p \in PairPorts(w.pair) : claim[p].owner = r /\ claim[p].written
                                        => p \in D \/ p \in kept'[r]
        /\ \A p \in kept'[r] \ kept[r] : p \in PairPorts(w.pair) /\ claim[p].owner = r /\ p \notin D
    BY <1>5 DEF BackOK
  <2>6. kept'[r] \subseteq Ports
    BY <2>5
  <2>7. QED  BY <2>2, <2>3, <2>4, <2>5, <2>6
<1>9. TypeOK'
  BY <1>1, <1>3, <1>4, <1>6, <1>8 DEF TypeOK, Steps
<1>10. LeavesOthers(r)
  <2>1. ASSUME NEW s \in up \ {r}, NEW p \in Ports, claim[p].owner = s  PROVE claim'[p] = claim[p]
    BY <1>8, <2>1
  <2>2. \A p \in Ports : claim'[p] = claim[p] \/ claim'[p].owner \in {r, NoRun}
    BY <1>7, <1>8
  <2>3. QED  BY <1>3, <1>4, <1>6, <1>8, <2>1, <2>2 DEF LeavesOthers
<1>11. AtRest(r)'
  BY <1>1, <1>3, <1>4 DEF AtRest
<1>12. \A p : ~ Takes(r, p)'
  BY <1>3 DEF Takes, Trying
<1>13. ClaimsCovered(r)'
  <2> SUFFICES ASSUME NEW p \in Ports, claim'[p].owner = r, p \notin kept'[r]
               PROVE  Holds(r, p)' /\ claim'[p].written
    BY DEF ClaimsCovered
  <2>1. claim'[p] = claim[p] /\ claim[p].owner = r /\ p \notin D /\ p \notin kept[r]
    BY <1>7, <1>8
  <2>2. Holds(r, p) /\ claim[p].written
    BY <1>1, <1>2, <2>1 DEF ClaimsCovered
  <2>3. p[1] # w.pair
    BY <1>8, <2>1, <2>2
  <2>4. QED  BY <1>6, <2>1, <2>2, <2>3 DEF Holds
<1>14. EnginesKnown(r)'
  <2> SUFFICES ASSUME NEW e \in engines', e.run = r, e \notin strays'
               PROVE  [id |-> e.id, pair |-> e.pair] \in pool'[r]
    BY DEF EnginesKnown
  <2>1. /\ e \in engines /\ e # Engine(r, w) /\ e \notin strays
        /\ [id |-> e.id, pair |-> e.pair] \in pool[r]
    BY <1>1, <1>2, <1>6 DEF EnginesKnown, Idle
  <2>2. /\ e \in [run : Runs, id : Nat \ {0}, pair : Pairs]
        /\ w \in [id : Nat \ {0}, pair : Pairs]
    BY <1>1, <2>1 DEF TypeOK
  <2>3. [id |-> e.id, pair |-> e.pair] # w
    BY <2>1, <2>2 DEF Engine
  <2>4. QED  BY <1>6, <2>1, <2>3
<1>15. ASSUME ~ robbed PROVE ClaimsKept(r)'
  <2>1. ClaimsKept(r)
    BY <1>1, <1>15
  <2>2. ASSUME NEW p \in Ports, Holds(r, p)' PROVE claim'[p].owner = r /\ p[1] # w.pair /\ Holds(r, p)
    <3>1. PICK v \in pool'[r] : v.pair = p[1]
      BY <2>2 DEF Holds
    <3>2. v \in pool[r] /\ v.pair # w.pair
      BY <1>6, <2>1, <3>1 DEF ClaimsKept
    <3>3. claim[p].owner = r /\ Holds(r, p)
      BY <2>1, <3>1, <3>2 DEF ClaimsKept, Holds
    <3>4. QED  BY <1>8, <3>1, <3>2, <3>3
  <2>3. ASSUME NEW p \in kept'[r] PROVE claim'[p].owner = r /\ ~ Holds(r, p)'
    <3>1. p \in Ports
      BY <1>8, <2>3
    <3>2. CASE p \in kept[r]
      <4>1. claim[p].owner = r /\ ~ Holds(r, p)
        BY <2>1, <3>2 DEF ClaimsKept
      <4>2. p[1] # w.pair
        BY <4>1 DEF Holds
      <4>3. QED  BY <1>8, <2>2, <3>1, <4>1, <4>2
    <3>3. CASE p \notin kept[r]
      BY <1>8, <2>2, <2>3, <3>1, <3>3
    <3>4. QED  BY <3>2, <3>3
  <2>4. QED  BY <1>6, <1>12, <2>1, <2>2, <2>3 DEF ClaimsKept
<1>16. QED
  BY <1>1, <1>9, <1>10, <1>11, <1>13, <1>14, <1>15, OneRun DEF RunInv

(* A worker leaves the pool, and everything else stays.                    *)
LEMMA RestartFailsOK ==
  ASSUME IInv, NEW r \in Runs, NEW w \in pool[r], RestartFails(r, w)
  PROVE  IInv'
<1>1. /\ step[r].at = "idle" /\ pool' = [pool EXCEPT ![r] = @ \ {w}]
      /\ strays' = strays \cup ({Engine(r, w)} \cap engines)
      /\ kept' = [kept EXCEPT ![r] = @ \cup {p \in PairPorts(w.pair) : claim[p].owner = r}]
      /\ UNCHANGED <<up, claim, step, offset, engines, starts, robbed>>
  BY DEF RestartFails, Lost, Leaves
<1>2. /\ TypeOK /\ AtRest(r) /\ r \in up /\ ClaimsCovered(r) /\ EnginesKnown(r)
      /\ (~ robbed => ClaimsKept(r)) /\ w.pair \in Pairs
  BY DEF IInv, RunInv, AtRest, TypeOK
<1>3. step[r] = Idle /\ \A p : ~ Takes(r, p)
  BY <1>1, <1>2, TakesNothing
<1>4. \A p \in Ports : p \in PairPorts(w.pair) <=> p[1] = w.pair
  BY <1>2, PortsOK
<1>5. PairPorts(w.pair) \subseteq Ports
  BY <1>2, PortsOK DEF PairPorts
<1>6. /\ kept' \in [Runs -> SUBSET Ports] /\ \A s \in Runs \ {r} : kept'[s] = kept[s]
      /\ kept'[r] = kept[r] \cup {p \in PairPorts(w.pair) : claim[p].owner = r}
      /\ pool' \in [Runs -> SUBSET [id : Nat \ {0}, pair : Pairs]]
      /\ pool'[r] = pool[r] \ {w} /\ \A s \in Runs \ {r} : pool'[s] = pool[s]
  BY <1>1, <1>2, <1>5 DEF TypeOK
<1>7. TypeOK'
  BY <1>1, <1>2, <1>6 DEF TypeOK
<1>8. LeavesOthers(r)
  BY <1>1, <1>6 DEF LeavesOthers
<1>9. AtRest(r)' /\ \A p : ~ Takes(r, p)'
  BY <1>1, <1>2, <1>3 DEF AtRest, Takes, Trying, Idle
<1>10. ClaimsCovered(r)'
  <2> SUFFICES ASSUME NEW p \in Ports, claim[p].owner = r, p \notin kept'[r]
               PROVE  Holds(r, p)' /\ claim[p].written
    BY <1>1 DEF ClaimsCovered
  <2>1. p \notin kept[r] /\ p[1] # w.pair
    BY <1>4, <1>6
  <2>2. Holds(r, p) /\ claim[p].written
    BY <1>2, <1>3, <2>1, <1>1 DEF ClaimsCovered, Idle
  <2>3. QED  BY <1>6, <2>1, <2>2 DEF Holds
<1>11. EnginesKnown(r)'
  <2> SUFFICES ASSUME NEW e \in engines, e.run = r, e \notin strays'
               PROVE  [id |-> e.id, pair |-> e.pair] \in pool'[r]
    BY <1>1 DEF EnginesKnown
  <2>1. [id |-> e.id, pair |-> e.pair] \in pool[r] /\ e # Engine(r, w)
    BY <1>1, <1>2 DEF EnginesKnown
  <2>2. /\ e \in [run : Runs, id : Nat \ {0}, pair : Pairs]
        /\ w \in [id : Nat \ {0}, pair : Pairs]
    BY <1>2 DEF TypeOK
  <2>3. [id |-> e.id, pair |-> e.pair] # w
    BY <2>1, <2>2 DEF Engine
  <2>4. QED  BY <1>6, <2>1, <2>3
<1>12. ASSUME ~ robbed PROVE ClaimsKept(r)'
  <2>1. ClaimsKept(r) /\ kept[r] \subseteq Ports
    BY <1>2, <1>12 DEF TypeOK
  <2>2. ASSUME NEW p \in Ports, Holds(r, p)' PROVE p[1] # w.pair /\ Holds(r, p)
    <3>1. PICK v \in pool'[r] : v.pair = p[1]
      BY <2>2 DEF Holds
    <3>2. v \in pool[r] /\ v.pair # w.pair
      BY <1>6, <2>1, <3>1 DEF ClaimsKept
    <3>3. QED  BY <3>1, <3>2 DEF Holds
  <2>3. ASSUME NEW p \in kept'[r] PROVE claim[p].owner = r /\ ~ Holds(r, p)'
    <3>1. p \in Ports /\ (p \in kept[r] \/ (p[1] = w.pair /\ claim[p].owner = r))
      BY <1>4, <1>5, <1>6, <2>1, <2>3
    <3>2. QED  BY <2>1, <2>2, <3>1 DEF ClaimsKept
  <2>4. QED  BY <1>1, <1>6, <1>9, <2>1, <2>2, <2>3 DEF ClaimsKept
<1>13. QED
  BY <1>1, <1>7, <1>8, <1>9, <1>10, <1>11, <1>12, OneRun DEF RunInv

-----------------------------------------------------------------------------
(* Engines go, and nobody is told.                                         *)
LEMMA EnginesGo ==
  ASSUME IInv, NEW E, Gone(E),
         UNCHANGED <<up, claim, step, offset, pool, starts, robbed, kept>>
  PROVE  IInv'
<1>0. /\ engines' \subseteq engines /\ strays' \subseteq engines'
      /\ \A e \in strays : e \in engines' => e \in strays'
  BY DEF IInv, TypeOK, Gone
<1>1. TypeOK'
  BY <1>0 DEF IInv, TypeOK
<1> SUFFICES ASSUME NEW r \in Runs PROVE RunInv(r)'
  BY <1>1 DEF IInv
<1>2. RunInv(r) /\ Engine(r, Starting(r))' = Engine(r, Starting(r))
  BY DEF IInv, Engine, Starting
<1>3. \A p : (Takes(r, p)' <=> Takes(r, p)) /\ (Holds(r, p)' <=> Holds(r, p))
  BY DEF Takes, Trying, Holds, Pair, Port
<1>4. AtRest(r)'
  BY <1>2 DEF RunInv, AtRest
<1>5. r \in up => ClaimsCovered(r)' /\ (~ robbed => ClaimsKept(r)')
  BY <1>2, <1>3 DEF RunInv, ClaimsCovered, ClaimsKept, Port, Pair
<1>6. r \in up => EnginesKnown(r)'
  BY <1>0, <1>2 DEF RunInv, EnginesKnown
<1>7. QED  BY <1>4, <1>5, <1>6 DEF RunInv

(* A run ends, and leaves its claims and perhaps its engines behind.       *)
LEMMA RunEndsOK ==
  ASSUME IInv, NEW r \in Runs, RunEnds(r)
  PROVE  IInv'
<1>1. TypeOK /\ UNCHANGED <<claim, offset, starts, robbed>> /\ up' = up \ {r}
      /\ engines' \subseteq engines /\ strays' = {e \in strays : e.run # r}
      /\ \A e \in strays' : e \in engines'
  BY DEF IInv, RunEnds, TypeOK
<1>2. /\ step' \in [Runs -> Steps] /\ \A s \in Runs \ {r} : step'[s] = step[s]
      /\ step'[r] = Idle
  BY <1>1, IdleOK, StepSet DEF RunEnds
<1>3. /\ pool' \in [Runs -> SUBSET [id : Nat \ {0}, pair : Pairs]]
      /\ pool'[r] = {} /\ \A s \in Runs \ {r} : pool'[s] = pool[s]
  BY <1>1 DEF RunEnds, TypeOK
<1>4. /\ kept' \in [Runs -> SUBSET Ports] /\ \A s \in Runs \ {r} : kept'[s] = kept[s]
  BY <1>1 DEF RunEnds, TypeOK
<1>5. TypeOK'
  BY <1>1, <1>2, <1>3, <1>4 DEF TypeOK, Steps
<1>6. LeavesOthers(r)
  BY <1>1, <1>2, <1>3, <1>4 DEF LeavesOthers
<1>7. AtRest(r)'
  BY <1>1, <1>2, <1>3 DEF AtRest, Idle
<1>8. QED  BY <1>1, <1>5, <1>6, <1>7, OneRun DEF RunInv

LEMMA InitOK == Init => IInv
<1> SUFFICES ASSUME Init PROVE IInv
  OBVIOUS
<1>1. /\ \A p \in Ports : claim[p] = NoFile /\ claim[p].owner = NoRun
      /\ \A r \in Runs : step[r] = Idle /\ pool[r] = {} /\ r # NoRun /\ r \in up
      /\ \A r \in Runs : kept[r] = {}
      /\ engines = {} /\ strays = {}
  BY DEF Init, NoFile
<1>2. TypeOK
  <2>1. /\ up \subseteq Runs /\ offset \in [Runs -> Pairs] /\ engines = {} /\ robbed \in BOOLEAN
        /\ strays = {} /\ kept \in [Runs -> SUBSET Ports]
        /\ pool \in [Runs -> SUBSET [id : Nat \ {0}, pair : Pairs]]
    BY DEF Init
  <2>2. claim \in [Ports -> [owner : Runs \cup {NoRun}, written : BOOLEAN]]
    BY IdleOK DEF Init
  <2>3. step \in [Runs -> Steps]
    BY IdleOK DEF Init
  <2>4. starts \in [Runs -> Nat]
    BY DEF Init
  <2>5. QED  BY <2>1, <2>2, <2>3, <2>4 DEF TypeOK, Steps
<1>3. ASSUME NEW r \in Runs PROVE RunInv(r)
  <2>1. \A p : ~ Takes(r, p) /\ ~ Holds(r, p)
    BY <1>1 DEF Takes, Trying, Holds, Idle
  <2>2. AtRest(r)
    BY <1>1 DEF AtRest, Idle
  <2>3. ClaimsCovered(r) /\ EnginesKnown(r) /\ ClaimsKept(r)
    BY <1>1, <2>1 DEF ClaimsCovered, EnginesKnown, ClaimsKept
  <2>4. QED  BY <2>2, <2>3 DEF RunInv
<1>4. QED  BY <1>2, <1>3 DEF IInv

LEMMA NextOK == IInv /\ [Next]_vars => IInv'
<1> SUFFICES ASSUME IInv, [Next]_vars PROVE IInv'
  OBVIOUS
<1>1. ASSUME NEW r \in Runs, StartStep(r) PROVE IInv'
  BY <1>1, CreateOK, JudgeOK, UnlinkOK, WriteOK, ProbeOK, LeftOK, LaunchFailsOK, SpawnOK,
     LaunchedOK, ReadyOK DEF StartStep
<1>2. ASSUME NEW r \in Runs, Start(r) \/ RunEnds(r) PROVE IInv'
  BY <1>2, StartOK, RunEndsOK
<1>3. ASSUME NEW r \in Runs, NEW w \in pool[r], Restart(r, w) \/ Shutdown(r, w) PROVE IInv'
  <2>1. /\ Stopped(r, w) /\ step[r].at = "idle" /\ UNCHANGED <<up, offset, robbed>>
        /\ \/ UNCHANGED <<step, starts>>
           \/ starts[r] < MaxStarts[r] /\ starts' = [starts EXCEPT ![r] = @ + 1] /\ Moved(r, "claim")
    BY <1>3 DEF Restart, Shutdown
  <2>2. QED  BY <2>1, StoppedOK
<1>4. ASSUME NEW r \in Runs, NEW w \in pool[r], RestartFails(r, w) PROVE IInv'
  BY <1>4, RestartFailsOK
<1>5. CASE EngineDies \/ ReapOrphans
  BY <1>5, EnginesGo DEF EngineDies, ReapOrphans
<1>6. CASE UNCHANGED vars
  <2>1. Gone({})
    BY <1>6 DEF vars, Gone
  <2>2. QED  BY <1>6, <2>1, EnginesGo DEF vars
<1>7. QED  BY <1>1, <1>2, <1>3, <1>4, <1>5, <1>6 DEF Next

(* Whose claims are on disk and whose engines run, at every moment of any  *)
(* number of runs, however their claims, probes, kills and restarts fall   *)
(* (worker.py, supervisor.py, pool.py).                                    *)
THEOREM Invariant == Spec => []IInv
<1>1. Init => IInv
  BY InitOK
<1>2. IInv /\ [Next]_vars => IInv'
  BY NextOK
<1>3. QED  BY <1>1, <1>2, PTL DEF Spec

(* Every variable keeps its shape.                                         *)
THEOREM TypeCorrect == Spec => []TypeOK
<1>1. IInv => TypeOK
  BY DEF IInv
<1>2. QED  BY <1>1, Invariant, PTL

-----------------------------------------------------------------------------
(* What a run has got it has claims on, or is taking.                      *)
LEMMA HeldIs ==
  ASSUME TypeOK, NEW r \in Runs, NEW n \in Held(r), NEW p \in PairPorts(n)
  PROVE  /\ p \in Ports /\ p[1] = n
         /\ Holds(r, p) \/ (Takes(r, p) /\ step[r].at \in {"launch", "wait", "connect"})
<1>1. n \in Pairs
  BY DEF TypeOK, Held
<1>2. p \in Ports /\ p[1] = n
  BY <1>1, PortsOK DEF PairPorts
<1>3. QED  BY <1>2 DEF Held, Holds, Takes

(* As long as no claim of a living run was unlinked, the ports a run has   *)
(* got are claimed in its name, by files that name its process             *)
(* (allocate_ports, launch).                                               *)
THEOREM PortsAreClaimed == Spec => []HeldClaimed
<1>1. IInv => HeldClaimed
  <2> SUFFICES ASSUME IInv, ~ robbed, NEW r \in up, NEW n \in Held(r), NEW p \in PairPorts(n)
               PROVE  claim[p] = [owner |-> r, written |-> TRUE]
    BY DEF HeldClaimed
  <2>1. TypeOK /\ r \in Runs /\ ClaimsCovered(r) /\ ClaimsKept(r)
    BY DEF IInv, RunInv, TypeOK
  <2>2. p \in Ports /\ (Holds(r, p) \/ (Takes(r, p) /\ step[r].at \in {"launch", "wait", "connect"}))
    BY <2>1, HeldIs
  <2>3. claim[p].owner = r /\ p \notin kept[r]
    BY <2>1, <2>2 DEF ClaimsKept
  <2>4. claim[p].written
    <3>1. CASE step[r].at = "write" /\ p = Port(r)
      <4>1. Takes(r, p) /\ Holds(r, p)
        BY <2>2, <3>1 DEF Takes
      <4>2. QED  BY <2>1, <2>2, <4>1 DEF ClaimsKept
    <3>2. QED  BY <2>1, <2>2, <2>3, <3>1 DEF ClaimsCovered
  <2>5. claim[p] \in [owner : Runs \cup {NoRun}, written : BOOLEAN]
    BY <2>1, <2>2 DEF TypeOK
  <2>6. QED  BY <2>3, <2>4, <2>5
<1>2. QED  BY <1>1, Invariant, PTL

(* No pair is ever shared while no claim of a living run was unlinked: the *)
(* races between the runs are closed but for that one (allocate_ports).    *)
THEOREM PairsAreExclusive == Spec => [](~ robbed => PairsExclusive)
<1>1. IInv => (~ robbed => PairsExclusive)
  <2> SUFFICES ASSUME IInv, ~ robbed, NEW r \in up, NEW s \in up,
                      NEW n \in Held(r) \cap Held(s)
               PROVE  r = s
    BY DEF PairsExclusive
  <2>1. TypeOK /\ r \in Runs /\ s \in Runs /\ ClaimsKept(r) /\ ClaimsKept(s)
    BY DEF IInv, RunInv, TypeOK
  <2>2. <<n, "game">> \in PairPorts(n)
    BY DEF PairPorts
  <2>3. QED  BY <2>1, <2>2, HeldIs DEF ClaimsKept
<1>2. QED  BY <1>1, Invariant, PTL

(* A run at rest has claims on the ports of its pool and on those it has   *)
(* failed to give back, and no others; and no engine of a living run is    *)
(* unknown to it but those lost from its pool: whatever else failed, and   *)
(* whatever the other runs did to its files (launch, restart, shutdown).   *)
THEOREM NothingIsKept == Spec => []NothingKept
<1>1. IInv => NothingKept
  <2> SUFFICES ASSUME IInv, NEW r \in up
               PROVE  /\ step[r].at = "idle" =>
                           \A p \in Ports : claim[p].owner = r =>
                             p \in kept[r] \/ \E w \in pool[r] : w.pair = p[1]
                      /\ EnginesKnown(r)
    BY DEF NothingKept, EnginesKnown
  <2>1. r \in Runs /\ AtRest(r) /\ ClaimsCovered(r) /\ EnginesKnown(r)
    BY DEF IInv, RunInv, TypeOK
  <2>2. ASSUME step[r].at = "idle", NEW p \in Ports, claim[p].owner = r
        PROVE  p \in kept[r] \/ \E w \in pool[r] : w.pair = p[1]
    BY <2>1, <2>2, TakesNothing DEF ClaimsCovered, Holds
  <2>3. QED  BY <2>1, <2>2
<1>2. QED  BY <1>1, Invariant, PTL

-----------------------------------------------------------------------------
(* A pair is passed over only when it is taken, or while a run that left   *)
(* its claim behind still lives: a crash "cannot leak the pool"            *)
(* (_reservation_is_stale, _port_free).                                    *)
THEOREM OnlyTakenPassedOver == Spec => PassesOverTakenOnly
<1> DEFINE IsTaken(r) == \/ \E s \in up \ {r} : Pair(r) \in Held(s) \cup After(s)
                         \/ Pair(r) \in Held(r)
                         \/ ~ Free(Pair(r))
                         \/ \E s \in up : Port(r) \in kept[s]
<1>1. ASSUME IInv, [Next]_vars, NEW r \in Runs, PassesOver(r)
      PROVE  IsTaken(r)
  <2>1. TypeOK
    BY <1>1 DEF IInv
  <2>2. Judge(r) \/ Probe(r)
    BY <1>1 DEF PassesOver
  <2>3. CASE Probe(r)
    <3>1. ASSUME Free(Pair(r)) PROVE FALSE
      <4>1. step' = [step EXCEPT ![r] = [Idle EXCEPT !.at = "launch", !.pair = Pair(r)]]
        BY <2>3, <3>1 DEF Probe
      <4>2. step'[r].at = "launch"
        BY <2>1, <4>1 DEF TypeOK, Idle
      <4>3. QED  BY <1>1, <4>2 DEF PassesOver
    <3>2. QED  BY <3>1
  <2>4. CASE Judge(r)
    <3>1. step[r].at = "claim" /\ ~ Stale(Port(r))
      <4>1. ASSUME Moved(r, "unlink") PROVE step'[r].at = "unlink"
        <5>1. "unlink" \in Places
          BY DEF Places
        <5>2. QED  BY <2>1, <4>1, <5>1, MovedOK
      <4>2. QED  BY <1>1, <2>4, <4>1 DEF Judge, PassesOver
    <3> DEFINE p == Port(r)
               s == claim[p].owner
    <3>2. p \in Ports /\ p = <<Pair(r), step[r].port>> /\ p[1] = Pair(r)
      BY <2>1, PairOK DEF Port
    <3>3. s \in up /\ s \in Runs /\ ClaimsCovered(s)
      BY <1>1, <2>1, <3>1 DEF Stale, IInv, RunInv, TypeOK
    <3>4. Holds(s, p) \/ Takes(s, p) \/ p \in kept[s]
      BY <3>2, <3>3 DEF ClaimsCovered
    <3>5. CASE Holds(s, p)
      <4>1. Pair(r) \in Held(s)
        BY <3>2, <3>5 DEF Holds, Held
      <4>2. QED  BY <3>3, <4>1
    <3>6. CASE Takes(s, p)
      <4>1. s # r
        BY <3>1, <3>2, <3>6 DEF Takes, Trying
      <4>2. Pair(r) \in Held(s) \cup After(s)
        BY <3>2, <3>6 DEF Takes, Trying, Held, After, Port
      <4>3. QED  BY <3>3, <4>1, <4>2
    <3>7. CASE p \in kept[s]
      BY <3>3, <3>7
    <3>8. QED  BY <3>4, <3>5, <3>6, <3>7
  <2>5. QED  BY <2>2, <2>3, <2>4
<1>2. IInv /\ [Next]_vars => [\A r \in Runs : PassesOver(r) => IsTaken(r)]_vars
  BY <1>1
<1>3. QED  BY <1>2, Invariant, PTL DEF Spec, PassesOverTakenOnly

-----------------------------------------------------------------------------
(***************************************************************************)
(* What Holdout promises of each scene that the workers of a run play, for *)
(* any number of workers and scenes, any limit of attempts and any length  *)
(* of an episode.                                                          *)
(***************************************************************************)
Elements(q) == {q[i] : i \in 1 .. Len(q)}
Distinct(q) == \A i, j \in 1 .. Len(q) : q[i] = q[j] => i = j

(* What step_wait collected is there to be scored from the slot on, or has *)
(* been collected up to it; outside of both there is nothing.              *)
Collected(w) ==
  \/ at = "step" /\ w < slot
  \/ at = "score" /\ slot <= w

ResultInv ==
  \A w \in Slots :
    /\ result[w].scene # NoScene => result[w].done
    /\ ~ Collected(w) => result[w].scene = NoScene

(* Slots are left to be reset only in vec.reset, or when it failed.        *)
ResetInv ==
  /\ at = "reset" => resetting # {}
  /\ at \notin {"reset", "aborted"} => resetting = {}

(* Every scene is in one place, told scene by scene.                       *)
PlaceInv ==
  /\ Distinct(queue)
  /\ \A w \in Playing : tag[w] \notin Queued /\ tag[w] \notin scored
  /\ \A w \in Waiting : result[w].scene \notin Queued /\ result[w].scene \notin scored
  /\ \A s \in Queued : s \notin scored
  /\ \A v, w \in Playing : tag[v] = tag[w] => v = w
  /\ \A v, w \in Waiting : result[v].scene = result[w].scene => v = w
  /\ \A v \in Playing, w \in Waiting : tag[v] # result[w].scene

(* A queued scene has an attempt left, and none has had too many.          *)
AttemptInv ==
  /\ \A s \in Queued : attempts[s] < RetryLimit
  /\ AttemptsBounded

(* Every scene is scored, or somewhere, or spent, or was dropped.          *)
Somewhere(s) ==
  \/ s \in scored \cup Queued \cup abandoned
  \/ attempts[s] = RetryLimit
  \/ \E w \in Playing : tag[w] = s
  \/ \E w \in Waiting : result[w].scene = s

SceneInv == at # "aborted" => \A s \in Scenes : Somewhere(s)

FrozenInv == HTypeOK /\ ResultInv /\ ResetInv /\ PlaceInv /\ AttemptInv /\ SceneInv

(* Giving up means that nothing is queued and nothing can be scored.       *)
GivenUp == at = "incomplete" => queue = << >> /\ InFlight = {}

USE CountsAssumption, NoSceneAssumption DEF hvars

-----------------------------------------------------------------------------
(* What pop(0) leaves of the queue.                                        *)
LEMMA TailOf ==
  ASSUME NEW q \in Seq(Scenes), q # << >>, Distinct(q)
  PROVE  /\ Tail(q) \in Seq(Scenes) /\ Head(q) \in Scenes
         /\ Distinct(Tail(q))
         /\ Elements(Tail(q)) = Elements(q) \ {Head(q)}
         /\ Head(q) \in Elements(q)
<1>1. Len(q) \in Nat \ {0} /\ Len(Tail(q)) = Len(q) - 1 /\ Head(q) = q[1]
  OBVIOUS
<1>2. \A i \in 1 .. Len(Tail(q)) : i + 1 \in 1 .. Len(q) /\ Tail(q)[i] = q[i + 1]
  BY <1>1
<1>3. Tail(q) \in Seq(Scenes) /\ Head(q) \in Scenes
  OBVIOUS
<1>4. Distinct(Tail(q))
  <2> SUFFICES ASSUME NEW i \in 1 .. Len(Tail(q)), NEW j \in 1 .. Len(Tail(q)),
                      Tail(q)[i] = Tail(q)[j]
               PROVE  i = j
    BY DEF Distinct
  <2>1. i + 1 = j + 1
    BY <1>2 DEF Distinct
  <2> QED
    BY <2>1
<1>5. Elements(Tail(q)) \subseteq Elements(q) \ {Head(q)}
  <2> SUFFICES ASSUME NEW i \in 1 .. Len(Tail(q))
               PROVE  Tail(q)[i] \in Elements(q) \ {Head(q)}
    BY DEF Elements
  <2>1. q[i + 1] # q[1]
    BY <1>1, <1>2 DEF Distinct
  <2> QED
    BY <1>1, <1>2, <2>1 DEF Elements
<1>6. Elements(q) \ {Head(q)} \subseteq Elements(Tail(q))
  <2> SUFFICES ASSUME NEW i \in 1 .. Len(q), q[i] # q[1]
               PROVE  q[i] \in Elements(Tail(q))
    BY <1>1 DEF Elements
  <2>1. i - 1 \in 1 .. Len(Tail(q)) /\ Tail(q)[i - 1] = q[i]
    BY <1>1
  <2> QED
    BY <2>1 DEF Elements
<1>7. Head(q) \in Elements(q)
  BY <1>1 DEF Elements
<1> QED
  BY <1>3, <1>4, <1>5, <1>6, <1>7

(* And what append adds to it.                                             *)
LEMMA AppendTo ==
  ASSUME NEW q \in Seq(Scenes), NEW s \in Scenes
  PROVE  /\ Append(q, s) \in Seq(Scenes)
         /\ Elements(Append(q, s)) = Elements(q) \cup {s}
         /\ Distinct(q) /\ s \notin Elements(q) => Distinct(Append(q, s))
<1>1. Len(q) \in Nat /\ Len(Append(q, s)) = Len(q) + 1
  OBVIOUS
<1>2. \A i \in 1 .. Len(q) : Append(q, s)[i] = q[i]
  OBVIOUS
<1>3. Append(q, s)[Len(q) + 1] = s
  OBVIOUS
<1>4. Elements(Append(q, s)) = Elements(q) \cup {s}
  BY <1>1, <1>2, <1>3 DEF Elements
<1>5. ASSUME Distinct(q), s \notin Elements(q) PROVE Distinct(Append(q, s))
  BY <1>1, <1>2, <1>3, <1>5 DEF Distinct, Elements
<1> QED
  BY <1>4, <1>5

(* release_episode, of a scene that is not queued: it is queued now, or    *)
(* spent, or there was none.                                               *)
LEMMA RequeuedOK ==
  ASSUME NEW q \in Seq(Scenes), Distinct(q),
         NEW tries \in [Scenes -> Nat], \A s \in Scenes : tries[s] <= RetryLimit,
         NEW t \in Scenes \cup {NoScene}, t \notin Elements(q)
  PROVE  LET r == Requeued(q, tries, t)
         IN  /\ r \in Seq(Scenes) /\ Distinct(r)
             /\ \/ /\ t # NoScene /\ tries[t] < RetryLimit
                   /\ Elements(r) = Elements(q) \cup {t}
                \/ /\ t # NoScene => tries[t] = RetryLimit
                   /\ r = q
<1>1. CASE t # NoScene /\ tries[t] < RetryLimit
  BY <1>1, AppendTo DEF Requeued
<1>2. CASE ~ (t # NoScene /\ tries[t] < RetryLimit)
  <2>1. Requeued(q, tries, t) = q
    BY <1>2 DEF Requeued
  <2>2. t # NoScene => tries[t] = RetryLimit
    BY <1>2
  <2> QED
    BY <2>1, <2>2
<1> QED
  BY <1>1, <1>2

(* What _reset_one takes: a scene of the queue, for one more attempt.      *)
LEMMA TakenOK ==
  ASSUME HTypeOK, PlaceInv, AttemptInv
  PROVE  /\ Taken \in Scenes \cup {NoScene}
         /\ Taken # NoScene => Taken \in Queued
         /\ Left \in Seq(Scenes) /\ Distinct(Left)
         /\ Elements(Left) = Queued \ {Taken}
         /\ Tried \in [Scenes -> Nat]
         /\ \A s \in Scenes : Tried[s] <= RetryLimit
         /\ \A s \in Elements(Left) : Tried[s] < RetryLimit
         /\ \A s \in Scenes : attempts[s] = RetryLimit => Tried[s] = RetryLimit
<1>1. Queued = Elements(queue)
  BY DEF Queued, Elements
<1>2. CASE queue = << >>
  <2>1. Taken = NoScene /\ Left = queue /\ Tried = attempts /\ Queued = {}
    BY <1>2 DEF Taken, Left, Tried, Queued
  <2> QED
    BY <1>1, <2>1 DEF HTypeOK, PlaceInv, AttemptInv, AttemptsBounded
<1>3. CASE queue # << >>
  <2>1. /\ Taken = Head(queue) /\ Left = Tail(queue)
        /\ Tried = [attempts EXCEPT ![Head(queue)] = @ + 1]
    BY <1>3 DEF Taken, Left, Tried
  <2>2. /\ Left \in Seq(Scenes) /\ Taken \in Scenes /\ Distinct(Left)
        /\ Elements(Left) = Queued \ {Taken} /\ Taken \in Queued
    BY <1>1, <1>3, <2>1, TailOf DEF HTypeOK, PlaceInv
  <2>3. attempts \in [Scenes -> Nat] /\ attempts[Taken] < RetryLimit
    BY <2>2 DEF HTypeOK, AttemptInv
  <2>4. /\ Tried \in [Scenes -> Nat] /\ Tried[Taken] = attempts[Taken] + 1
        /\ \A s \in Scenes \ {Taken} : Tried[s] = attempts[s]
    BY <2>1, <2>2, <2>3
  <2>5. ASSUME NEW s \in Scenes PROVE Tried[s] <= RetryLimit
    <3>1. attempts[s] \in Nat /\ attempts[s] <= RetryLimit
      BY <2>3 DEF AttemptInv, AttemptsBounded
    <3>2. CASE s = Taken
      BY <2>3, <2>4, <3>1, <3>2
    <3>3. CASE s # Taken
      BY <2>4, <3>1, <3>3
    <3> QED
      BY <3>2, <3>3
  <2>6. Elements(Left) \subseteq Scenes
    BY <2>2 DEF Elements
  <2>7. \A s \in Elements(Left) : Tried[s] < RetryLimit
    BY <2>2, <2>4, <2>6 DEF AttemptInv
  <2>8. \A s \in Scenes : attempts[s] = RetryLimit => Tried[s] = RetryLimit
    BY <2>3, <2>4
  <2> QED
    BY <2>2, <2>4, <2>5, <2>7, <2>8
<1> QED
  BY <1>2, <1>3

(* _reset_one succeeds: the scene moves from the queue to the worker.      *)
LEMMA ResetOneOK ==
  ASSUME HTypeOK, PlaceInv, AttemptInv, NEW w \in Slots, ResetOne(w)
  PROVE  /\ queue' \in Seq(Scenes) /\ Distinct(queue')
         /\ Queued' = Queued \ {Taken}
         /\ attempts' \in [Scenes -> Nat] /\ AttemptInv'
         /\ tag' \in [Slots -> Scenes \cup {NoScene}] /\ tag'[w] = Taken
         /\ \A v \in Slots \ {w} : tag'[v] = tag[v]
         /\ steps' \in [Slots -> 0 .. MaxSteps - 1]
         /\ \A s \in Scenes : attempts[s] = RetryLimit => attempts'[s] = RetryLimit
<1>1. /\ queue' = Left /\ attempts' = Tried
      /\ tag' = [tag EXCEPT ![w] = Taken] /\ steps' = [steps EXCEPT ![w] = 0]
  BY DEF ResetOne
<1>2. Queued' = Elements(queue')
  BY DEF Queued, Elements
<1>3. tag' \in [Slots -> Scenes \cup {NoScene}] /\ tag'[w] = Taken
  BY <1>1, TakenOK DEF HTypeOK
<1>4. steps' \in [Slots -> 0 .. MaxSteps - 1]
  BY <1>1 DEF HTypeOK
<1>5. \A v \in Slots \ {w} : tag'[v] = tag[v]
  BY <1>1 DEF HTypeOK
<1>6. AttemptInv'
  BY <1>1, <1>2, TakenOK DEF AttemptInv, AttemptsBounded
<1> QED
  BY <1>1, <1>2, <1>3, <1>4, <1>5, <1>6, TakenOK

(* It fails: the scene it took is back in the queue, or spent.             *)
LEMMA ResetOneFailsOK ==
  ASSUME HTypeOK, PlaceInv, AttemptInv, NEW w \in Slots, ResetOneFails(w)
  PROVE  /\ queue' \in Seq(Scenes) /\ Distinct(queue')
         /\ Queued' \subseteq Queued
         /\ \A s \in Queued : s \in Queued' \/ attempts'[s] = RetryLimit
         /\ attempts' \in [Scenes -> Nat] /\ AttemptInv'
         /\ tag' \in [Slots -> Scenes \cup {NoScene}]
         /\ \A s \in Scenes : attempts[s] = RetryLimit => attempts'[s] = RetryLimit
<1>1. /\ queue' = Requeued(Left, Tried, Taken) /\ attempts' = Tried
      /\ tag' = [tag EXCEPT ![w] = Taken]
  BY DEF ResetOneFails
<1>2. Queued' = Elements(queue')
  BY DEF Queued, Elements
<1>3. tag' \in [Slots -> Scenes \cup {NoScene}]
  BY <1>1, TakenOK DEF HTypeOK
<1>4. Taken \notin Elements(Left)
  BY TakenOK
<1>5. /\ queue' \in Seq(Scenes) /\ Distinct(queue')
      /\ \/ /\ Taken # NoScene /\ Tried[Taken] < RetryLimit
            /\ Elements(queue') = Elements(Left) \cup {Taken}
         \/ /\ Taken # NoScene => Tried[Taken] = RetryLimit
            /\ queue' = Left
  BY <1>1, <1>4, TakenOK, RequeuedOK
<1>6. \A s \in Queued' : attempts'[s] < RetryLimit
  BY <1>1, <1>2, <1>5, TakenOK
<1>7. AttemptInv'
  BY <1>1, <1>6, TakenOK DEF AttemptInv, AttemptsBounded
<1>8. NoScene \notin Queued
  BY DEF Queued, HTypeOK
<1>9. Queued' \subseteq Queued
  BY <1>2, <1>5, TakenOK
<1>10. \A s \in Queued : s \in Queued' \/ attempts'[s] = RetryLimit
  BY <1>1, <1>2, <1>5, <1>8, TakenOK
<1> QED
  BY <1>1, <1>3, <1>5, <1>7, <1>9, <1>10, TakenOK

-----------------------------------------------------------------------------
LEMMA InitFrozen == HInit => FrozenInv
<1> SUFFICES ASSUME HInit PROVE FrozenInv
  OBVIOUS
<1> USE DEF HInit
<1>1. queue \in Seq(Scenes) /\ Len(queue) = SceneCount /\ \A i \in 1 .. SceneCount : queue[i] = i
  BY DEF Scenes
<1>2. Distinct(queue) /\ Queued = Scenes
  BY <1>1 DEF Distinct, Queued, Scenes
<1>3. HTypeOK
  BY <1>1 DEF HTypeOK, Slots, Scenes, Running
<1>4. Playing = {} /\ Waiting = {}
  BY DEF Playing, Waiting, Running
<1>5. ResultInv /\ ResetInv
  <2>1. \A w \in Slots : result[w].scene = NoScene
    BY DEF Running
  <2>2. 1 \in Slots
    BY DEF Slots
  <2> QED
    BY <2>1, <2>2 DEF ResultInv, ResetInv
<1>6. PlaceInv
  BY <1>2, <1>4 DEF PlaceInv
<1>7. AttemptInv /\ SceneInv
  BY <1>2 DEF AttemptInv, AttemptsBounded, SceneInv, Somewhere
<1> QED
  BY <1>3, <1>5, <1>6, <1>7 DEF FrozenInv

(* vec.reset: nothing waits for its score; a worker that was reset plays   *)
(* what it took, and one that could not be ends the evaluation.            *)
LEMMA ResetWorkerStep ==
  ASSUME FrozenInv, NEW w \in Slots, ResetWorker(w)
  PROVE  FrozenInv'
<1> USE DEF FrozenInv
<1>1. /\ at = "reset" /\ w \in resetting /\ resetting' = resetting \ {w}
      /\ UNCHANGED <<slot, result, scored, abandoned>>
  BY DEF ResetWorker
<1>2. Waiting = {} /\ Waiting' = {} /\ ResultInv'
  <2>1. \A v \in Slots : result[v].scene = NoScene
    BY <1>1 DEF ResultInv, Collected
  <2> QED
    BY <1>1, <2>1 DEF Waiting, ResultInv
<1>3. Taken # NoScene => Taken \in Queued
  BY TakenOK
<1>4. CASE ResetOne(w) /\ at' = IF resetting = {w} THEN "loop" ELSE at
  <2>1. HTypeOK' /\ ResetInv'
    <3>1. HTypeOK'
      BY <1>1, <1>4, ResetOneOK DEF HTypeOK
    <3>2. ResetInv'
      BY <1>1, <1>4 DEF ResetInv
    <3> QED
      BY <3>1, <3>2
  <2>2. \A v \in Playing' \ {w} : v \in Playing /\ tag'[v] = tag[v]
    BY <1>1, <1>4, ResetOneOK DEF Playing
  <2>3. w \in Playing' => tag'[w] = Taken /\ Taken # NoScene
    BY <1>4, ResetOneOK DEF Playing
  <2>4. PlaceInv'
    <3>1. \A v \in Playing' : tag'[v] \notin Queued' /\ tag'[v] \notin scored'
      BY <1>1, <1>3, <1>4, <2>2, <2>3, ResetOneOK DEF PlaceInv
    <3>2. \A u, v \in Playing' : tag'[u] = tag'[v] => u = v
      BY <1>3, <2>2, <2>3 DEF PlaceInv
    <3>3. \A s \in Queued' : s \notin scored'
      BY <1>1, <1>4, ResetOneOK DEF PlaceInv
    <3> QED
      BY <1>2, <1>4, <3>1, <3>2, <3>3, ResetOneOK DEF PlaceInv
  <2>5. \A v \in Playing : v \in Playing' /\ tag'[v] = tag[v]
    BY <1>1, <1>4, ResetOneOK DEF Playing
  <2>6. Taken # NoScene => w \in Playing' /\ tag'[w] = Taken
    BY <1>1, <1>4, ResetOneOK DEF Playing
  <2>7. SceneInv'
    <3> SUFFICES ASSUME NEW s \in Scenes PROVE Somewhere(s)'
      BY DEF SceneInv
    <3>1. Somewhere(s) /\ s # NoScene
      BY <1>1 DEF SceneInv
    <3>2. CASE s \in Queued
      BY <1>1, <1>4, <2>6, <3>1, <3>2, ResetOneOK DEF Somewhere
    <3>3. CASE s \notin Queued
      BY <1>1, <1>2, <1>4, <2>5, <3>1, <3>3, ResetOneOK DEF Somewhere
    <3> QED
      BY <3>2, <3>3
  <2> QED
    BY <1>2, <1>4, <2>1, <2>4, <2>7, ResetOneOK
<1>5. CASE ResetOneFails(w) /\ at' = "aborted"
  <2>1. HTypeOK' /\ ResetInv' /\ SceneInv'
    BY <1>1, <1>5, ResetOneFailsOK DEF HTypeOK, ResetInv, SceneInv, ResetOneFails, Ended
  <2>2. Playing' = {}
    BY <1>5 DEF Playing
  <2>3. PlaceInv'
    BY <1>1, <1>2, <1>5, <2>2, ResetOneFailsOK DEF PlaceInv
  <2> QED
    BY <1>2, <1>5, <2>1, <2>3, ResetOneFailsOK
<1> QED
  BY <1>4, <1>5 DEF ResetWorker

(* The head of the loop changes nothing but where the evaluation is.       *)
LEMMA LoopStep ==
  ASSUME FrozenInv, Loop
  PROVE  FrozenInv'
<1> USE DEF FrozenInv
<1>1. /\ at = "loop" /\ slot' = 1
      /\ at' \in {"complete", "incomplete", "step"}
      /\ UNCHANGED <<resetting, queue, attempts, tag, steps, result, scored, abandoned>>
  BY DEF Loop
<1>2. \A w \in Slots : result[w].scene = NoScene
  BY <1>1 DEF ResultInv, Collected
<1>3. Playing' = Playing /\ Waiting' = Waiting /\ Queued' = Queued
  BY <1>1 DEF Playing, Waiting, Queued
<1>4. HTypeOK'
  BY <1>1 DEF HTypeOK, Slots, Ended
<1>5. ResultInv' /\ ResetInv'
  BY <1>1, <1>2 DEF ResultInv, ResetInv
<1>6. PlaceInv'
  BY <1>1, <1>3 DEF PlaceInv, Distinct
<1>7. AttemptInv'
  BY <1>1, <1>3 DEF AttemptInv, AttemptsBounded
<1>8. SceneInv'
  BY <1>1, <1>3 DEF SceneInv, Somewhere
<1> QED
  BY <1>4, <1>5, <1>6, <1>7, <1>8

(* What the slot is collected as, and where the evaluation goes on.        *)
LEMMA OnwardOK ==
  ASSUME FrozenInv, at = "step", Onward,
         NEW r \in [done : BOOLEAN, failed : BOOLEAN, scene : Scenes \cup {NoScene}],
         result' = [result EXCEPT ![slot] = r],
         r.scene # NoScene => r.done
  PROVE  /\ at' \in {"step", "score"} /\ slot \in Slots /\ slot' \in Slots
         /\ resetting = {} /\ UNCHANGED <<resetting, abandoned>>
         /\ result' \in [Slots -> [done : BOOLEAN, failed : BOOLEAN,
                                   scene : Scenes \cup {NoScene}]]
         /\ result[slot].scene = NoScene /\ result'[slot] = r
         /\ \A v \in Slots \ {slot} : result'[v] = result[v]
         /\ ResultInv' /\ ResetInv'
<1> USE DEF FrozenInv
<1>1. /\ at' = IF slot = Workers THEN "score" ELSE "step"
      /\ slot' = IF slot = Workers THEN 1 ELSE slot + 1
      /\ UNCHANGED <<resetting, abandoned>>
  BY DEF Onward
<1>2. slot \in 1 .. Workers /\ slot' \in 1 .. Workers
  BY <1>1 DEF HTypeOK, Slots
<1>3. resetting = {} /\ ResetInv'
  BY <1>1 DEF ResetInv
<1>4. /\ result' \in [Slots -> [done : BOOLEAN, failed : BOOLEAN,
                                scene : Scenes \cup {NoScene}]]
      /\ result'[slot] = r /\ \A v \in Slots \ {slot} : result'[v] = result[v]
  BY <1>2 DEF HTypeOK, Slots
<1>5. \A v \in Slots : slot <= v => result[v].scene = NoScene
  BY <1>2 DEF ResultInv, Collected, Slots
<1>6. ASSUME NEW v \in Slots
      PROVE  /\ result'[v].scene # NoScene => result'[v].done
             /\ ~ Collected(v)' => result'[v].scene = NoScene
  <2>1. result'[v].scene # NoScene => result'[v].done
    BY <1>4 DEF ResultInv
  <2>2. ~ Collected(v)' => v # slot /\ slot <= v
    BY <1>1, <1>2 DEF Collected, Slots
  <2> QED
    BY <1>4, <1>5, <2>1, <2>2
<1> QED
  BY <1>1, <1>2, <1>3, <1>4, <1>5, <1>6 DEF ResultInv, Slots

LEMMA StepRunsStep ==
  ASSUME FrozenInv, StepRuns
  PROVE  FrozenInv'
<1> USE DEF FrozenInv
<1>1. /\ at = "step" /\ Onward /\ steps[slot] + 1 < MaxSteps
      /\ steps' = [steps EXCEPT ![slot] = @ + 1]
      /\ result' = [result EXCEPT ![slot] = Running]
      /\ UNCHANGED <<queue, attempts, tag, scored>>
  BY DEF StepRuns
<1>2. /\ Running \in [done : BOOLEAN, failed : BOOLEAN, scene : Scenes \cup {NoScene}]
      /\ Running.scene = NoScene
  BY DEF Running
<1>3. /\ at' \in {"step", "score"} /\ slot \in Slots /\ slot' \in Slots
      /\ resetting = {} /\ UNCHANGED <<resetting, abandoned>>
      /\ result' \in [Slots -> [done : BOOLEAN, failed : BOOLEAN,
                                scene : Scenes \cup {NoScene}]]
      /\ result[slot].scene = NoScene /\ result'[slot] = Running
      /\ \A v \in Slots \ {slot} : result'[v] = result[v]
      /\ ResultInv' /\ ResetInv'
  BY <1>1, <1>2, OnwardOK
<1>4. HTypeOK'
  <2>1. steps[slot] \in 0 .. MaxSteps - 1 /\ steps[slot] + 1 \in 0 .. MaxSteps - 1
    BY <1>1, <1>3 DEF HTypeOK
  <2>2. steps' \in [Slots -> 0 .. MaxSteps - 1]
    BY <1>1, <1>3, <2>1 DEF HTypeOK
  <2> QED
    BY <1>1, <1>3, <2>2 DEF HTypeOK
<1>5. Playing' = Playing /\ Queued' = Queued
  BY <1>1, <1>3 DEF Playing, Queued
<1>6. \A v \in Slots : result'[v].scene = result[v].scene
  BY <1>2, <1>3
<1>7. Waiting' = Waiting
  BY <1>6 DEF Waiting
<1>8. PlaceInv'
  BY <1>1, <1>5, <1>6, <1>7 DEF PlaceInv, Distinct, Waiting
<1>9. AttemptInv'
  BY <1>1, <1>5 DEF AttemptInv, AttemptsBounded
<1>10. SceneInv'
  BY <1>1, <1>3, <1>5, <1>6, <1>7 DEF SceneInv, Somewhere, Waiting
<1> QED
  BY <1>3, <1>4, <1>8, <1>9, <1>10

(* The scene of the slot waits for its score, and the slot plays another.  *)
LEMMA StepEndsIs ==
  ASSUME FrozenInv, StepEnds
  PROVE  /\ at = "step" /\ at' \in {"step", "score"} /\ ResetOne(slot)
         /\ slot \in Slots /\ slot' \in Slots
         /\ resetting = {} /\ UNCHANGED <<scored, resetting, abandoned>>
         /\ result' \in [Slots -> [done : BOOLEAN, failed : BOOLEAN,
                                   scene : Scenes \cup {NoScene}]]
         /\ ResultInv' /\ ResetInv'
         /\ Taken # NoScene => Taken \in Queued
         /\ \A v \in Playing' \ {slot} : v \in Playing /\ tag'[v] = tag[v]
         /\ slot \in Playing' => tag'[slot] = Taken /\ Taken # NoScene
         /\ Taken # NoScene => slot \in Playing'
         /\ \A v \in Playing \ {slot} : v \in Playing' /\ tag'[v] = tag[v]
         /\ \A v \in Waiting' \ {slot} : v \in Waiting /\ result'[v].scene = result[v].scene
         /\ slot \in Waiting' => slot \in Playing /\ result'[slot].scene = tag[slot]
         /\ slot \in Playing => slot \in Waiting' /\ result'[slot].scene = tag[slot]
         /\ \A v \in Waiting : v # slot /\ v \in Waiting' /\ result'[v].scene = result[v].scene
<1> USE DEF FrozenInv
<1>1. PICK failed \in BOOLEAN :
        result' = [result EXCEPT ![slot] = [done |-> TRUE, failed |-> failed,
                                            scene |-> tag[slot]]]
  BY DEF StepEnds
<1> DEFINE r == [done |-> TRUE, failed |-> failed, scene |-> tag[slot]]
<1>2. at = "step" /\ Onward /\ ResetOne(slot) /\ UNCHANGED scored
  BY DEF StepEnds
<1>3. slot \in Slots /\ tag[slot] \in Scenes \cup {NoScene}
  BY DEF HTypeOK
<1>4. /\ r \in [done : BOOLEAN, failed : BOOLEAN, scene : Scenes \cup {NoScene}]
      /\ r.scene = tag[slot] /\ r.done
  BY <1>3
<1> HIDE DEF r
<1>5. result' = [result EXCEPT ![slot] = r]
  BY <1>1 DEF r
<1>6. /\ at' \in {"step", "score"} /\ slot' \in Slots
      /\ resetting = {} /\ UNCHANGED <<resetting, abandoned>>
      /\ result' \in [Slots -> [done : BOOLEAN, failed : BOOLEAN,
                                scene : Scenes \cup {NoScene}]]
      /\ result[slot].scene = NoScene /\ result'[slot] = r
      /\ \A v \in Slots \ {slot} : result'[v] = result[v]
      /\ ResultInv' /\ ResetInv'
  BY <1>2, <1>4, <1>5, OnwardOK
<1>7. Taken # NoScene => Taken \in Queued
  BY TakenOK
<1>8. /\ \A v \in Playing' \ {slot} : v \in Playing /\ tag'[v] = tag[v]
      /\ slot \in Playing' => tag'[slot] = Taken /\ Taken # NoScene
      /\ Taken # NoScene => slot \in Playing'
      /\ \A v \in Playing \ {slot} : v \in Playing' /\ tag'[v] = tag[v]
  BY <1>2, <1>3, <1>6, ResetOneOK DEF Playing
<1>9. /\ \A v \in Waiting' \ {slot} : v \in Waiting /\ result'[v].scene = result[v].scene
      /\ slot \in Waiting' => slot \in Playing /\ result'[slot].scene = tag[slot]
      /\ slot \in Playing => slot \in Waiting' /\ result'[slot].scene = tag[slot]
      /\ \A v \in Waiting : v # slot /\ v \in Waiting' /\ result'[v].scene = result[v].scene
  BY <1>2, <1>3, <1>4, <1>6 DEF Waiting, Playing
<1> QED
  BY <1>2, <1>3, <1>6, <1>7, <1>8, <1>9

LEMMA StepEndsStep ==
  ASSUME FrozenInv, StepEnds
  PROVE  FrozenInv'
<1> USE DEF FrozenInv
<1>1. /\ at = "step" /\ at' \in {"step", "score"} /\ ResetOne(slot)
      /\ slot \in Slots /\ slot' \in Slots
      /\ resetting = {} /\ UNCHANGED <<scored, resetting, abandoned>>
      /\ result' \in [Slots -> [done : BOOLEAN, failed : BOOLEAN,
                                scene : Scenes \cup {NoScene}]]
      /\ ResultInv' /\ ResetInv'
      /\ Taken # NoScene => Taken \in Queued
  BY StepEndsIs
<1>2. /\ \A v \in Playing' \ {slot} : v \in Playing /\ tag'[v] = tag[v]
      /\ slot \in Playing' => tag'[slot] = Taken /\ Taken # NoScene
      /\ Taken # NoScene => slot \in Playing'
      /\ \A v \in Playing \ {slot} : v \in Playing' /\ tag'[v] = tag[v]
  BY StepEndsIs
<1>3. /\ \A v \in Waiting' \ {slot} : v \in Waiting /\ result'[v].scene = result[v].scene
      /\ slot \in Waiting' => slot \in Playing /\ result'[slot].scene = tag[slot]
      /\ slot \in Playing => slot \in Waiting' /\ result'[slot].scene = tag[slot]
      /\ \A v \in Waiting : v # slot /\ v \in Waiting' /\ result'[v].scene = result[v].scene
  BY StepEndsIs
<1>4. HTypeOK'
  BY <1>1, ResetOneOK DEF HTypeOK
<1>5. PlaceInv'
  <2>1. \A v \in Playing' : tag'[v] \notin Queued' /\ tag'[v] \notin scored'
    BY <1>1, <1>2, ResetOneOK DEF PlaceInv
  <2>2. \A v \in Waiting' : result'[v].scene \notin Queued' /\ result'[v].scene \notin scored'
    BY <1>1, <1>3, ResetOneOK DEF PlaceInv
  <2>3. \A s \in Queued' : s \notin scored'
    BY <1>1, ResetOneOK DEF PlaceInv
  <2>4. \A u, v \in Playing' : tag'[u] = tag'[v] => u = v
    BY <1>1, <1>2 DEF PlaceInv
  <2>5. \A u, v \in Waiting' : result'[u].scene = result'[v].scene => u = v
    BY <1>3 DEF PlaceInv
  <2>6. \A u \in Playing', v \in Waiting' : tag'[u] # result'[v].scene
    BY <1>1, <1>2, <1>3 DEF PlaceInv
  <2> QED
    BY <1>1, <2>1, <2>2, <2>3, <2>4, <2>5, <2>6, ResetOneOK DEF PlaceInv
<1>6. SceneInv'
  <2> SUFFICES ASSUME NEW s \in Scenes PROVE Somewhere(s)'
    BY DEF SceneInv
  <2>1. Somewhere(s) /\ s # NoScene
    BY <1>1 DEF SceneInv
  <2>2. CASE s \in Queued
    BY <1>1, <1>2, <2>1, <2>2, ResetOneOK DEF Somewhere
  <2>3. CASE \E w \in Playing : tag[w] = s
    BY <1>2, <1>3, <2>1, <2>3 DEF Somewhere
  <2>4. CASE s \in scored \cup abandoned \/ attempts[s] = RetryLimit
    BY <1>1, <2>4, ResetOneOK DEF Somewhere
  <2>5. CASE \E w \in Waiting : result[w].scene = s
    BY <1>3, <2>5 DEF Somewhere
  <2> QED
    BY <2>1, <2>2, <2>3, <2>4, <2>5 DEF Somewhere
<1> QED
  BY <1>1, <1>4, <1>5, <1>6, ResetOneOK

(* Everything played and everything waiting for its score is dropped, and  *)
(* nothing else.                                                           *)
LEMMA DroppedAre ==
  ASSUME FrozenInv, at = "step"
  PROVE  /\ \A w \in Playing : tag[w] \in Dropped
         /\ \A w \in Waiting : result[w].scene \in Dropped
         /\ \A s \in Dropped : \/ \E w \in Playing : tag[w] = s
                               \/ \E w \in Waiting : result[w].scene = s
         /\ Dropped \subseteq Scenes
<1> USE DEF FrozenInv
<1>1. slot \in 1 .. Workers /\ resetting = {}
  BY DEF HTypeOK, Slots, ResetInv
<1>2. \A w \in Slots : w \in slot .. Workers \/ w \in 1 .. slot - 1
  BY <1>1 DEF Slots
<1>3. slot .. Workers \subseteq Slots /\ 1 .. slot - 1 \subseteq Slots
  BY <1>1 DEF Slots
<1>4. \A w \in Waiting : w \in 1 .. slot - 1
  BY <1>1 DEF Waiting, ResultInv, Collected, Slots
<1>5. \A w \in Playing : tag[w] \in Dropped
  BY <1>2 DEF Playing, Dropped
<1>6. \A w \in Waiting : result[w].scene \in Dropped
  BY <1>4 DEF Waiting, Dropped
<1>7. \A w \in Slots : /\ tag[w] # NoScene => w \in Playing
                       /\ result[w].scene # NoScene => w \in Waiting
  BY <1>1 DEF Playing, Waiting
<1>8. \A s \in Dropped : \/ \E w \in Playing : tag[w] = s
                        \/ \E w \in Waiting : result[w].scene = s
  BY <1>3, <1>7 DEF Dropped
<1>9. Dropped \subseteq Scenes
  BY <1>3 DEF Dropped, HTypeOK
<1> QED
  BY <1>5, <1>6, <1>8, <1>9

LEMMA ResetFailsStep ==
  ASSUME FrozenInv, ResetFails
  PROVE  FrozenInv'
<1> USE DEF FrozenInv
<1>1. /\ at = "step" /\ at' = "reset" /\ resetting' = Slots /\ slot' = 1
      /\ ResetOneFails(slot) /\ result' = [w \in Slots |-> Running]
      /\ abandoned' = abandoned \cup Dropped /\ UNCHANGED <<scored, steps>>
  BY DEF ResetFails, ResetOneFails
<1>2. slot \in Slots /\ slot \in 1 .. Workers /\ 1 \in Slots
  BY DEF HTypeOK, Slots
<1>3. \A w \in Slots : result'[w] = Running /\ Running.scene = NoScene
  BY <1>1 DEF Running
<1>4. Playing' = {} /\ Waiting' = {}
  BY <1>1, <1>3 DEF Playing, Waiting
<1>5. ResultInv' /\ ResetInv'
  BY <1>1, <1>2, <1>3 DEF ResultInv, ResetInv
<1>6. \A w \in Playing : tag[w] \in Dropped
  BY <1>1, DroppedAre
<1>7. \A w \in Waiting : result[w].scene \in Dropped
  BY <1>1, DroppedAre
<1>8. Dropped \subseteq Scenes
  BY <1>1, DroppedAre
<1>9. HTypeOK'
  <2>1. Running \in [done : BOOLEAN, failed : BOOLEAN, scene : Scenes \cup {NoScene}]
    BY DEF Running
  <2>2. result' \in [Slots -> [done : BOOLEAN, failed : BOOLEAN,
                               scene : Scenes \cup {NoScene}]]
    BY <1>1, <2>1
  <2> QED
    BY <1>1, <1>2, <1>8, <2>2, ResetOneFailsOK DEF HTypeOK
<1>10. PlaceInv'
  BY <1>1, <1>2, <1>4, ResetOneFailsOK DEF PlaceInv
<1>11. SceneInv'
  <2> SUFFICES ASSUME NEW s \in Scenes PROVE Somewhere(s)'
    BY DEF SceneInv
  <2>1. Somewhere(s)
    BY <1>1 DEF SceneInv
  <2>2. CASE s \in Queued \/ attempts[s] = RetryLimit
    BY <1>1, <1>2, <2>2, ResetOneFailsOK DEF Somewhere
  <2>3. CASE s \in scored \cup abandoned
    BY <1>1, <2>3 DEF Somewhere
  <2>4. CASE (\E w \in Playing : tag[w] = s) \/ (\E w \in Waiting : result[w].scene = s)
    BY <1>1, <1>6, <1>7, <2>4 DEF Somewhere
  <2> QED
    BY <2>1, <2>2, <2>3, <2>4 DEF Somewhere
<1> QED
  BY <1>1, <1>2, <1>5, <1>9, <1>10, <1>11, ResetOneFailsOK

(* The slot's episode, if it ended, is scored, or its scene goes back, or  *)
(* its attempts are spent.                                                 *)
LEMMA ScoreIs ==
  ASSUME FrozenInv, Score, NEW r, r = result[slot]
  PROVE  /\ at = "score" /\ at' \in {"loop", "score"} /\ slot \in Slots /\ slot' \in Slots
         /\ UNCHANGED <<resetting, attempts, tag, steps, abandoned>>
         /\ result' \in [Slots -> [done : BOOLEAN, failed : BOOLEAN,
                                   scene : Scenes \cup {NoScene}]]
         /\ ResultInv' /\ ResetInv' /\ r.scene \in Scenes \cup {NoScene}
         /\ Playing' = Playing /\ Waiting' = Waiting \ {slot}
         /\ r.scene # NoScene => slot \in Waiting /\ r.scene \notin Queued \cup scored
         /\ NoScene \notin scored /\ NoScene \notin Queued
         /\ queue' \in Seq(Scenes) /\ Distinct(queue') /\ scored' \subseteq Scenes
         /\ \/ scored' = scored \cup ({r.scene} \ {NoScene}) /\ Queued' = Queued
            \/ /\ scored' = scored /\ r.scene # NoScene /\ attempts[r.scene] < RetryLimit
               /\ Queued' = Queued \cup {r.scene}
            \/ /\ r.scene # NoScene => attempts[r.scene] = RetryLimit
               /\ scored' = scored /\ Queued' = Queued
         /\ \A v \in Playing : r.scene # NoScene => tag'[v] # r.scene
         /\ \A v \in Waiting \ {slot} : result'[v] = result[v] /\ result[v].scene # r.scene
         /\ \A v \in Playing : tag[v] # NoScene /\ tag'[v] = tag[v]
         /\ \A v \in Waiting : result[v].scene # NoScene
<1> USE DEF FrozenInv
<1>1. /\ at = "score"
      /\ queue' = IF r.done THEN GivenBack(r) ELSE queue
      /\ scored' = IF r.done /\ ~ r.failed THEN scored \cup ({r.scene} \ {NoScene})
                   ELSE scored
      /\ result' = [result EXCEPT ![slot] = Running]
      /\ at' = IF slot = Workers THEN "loop" ELSE "score"
      /\ slot' = IF slot = Workers THEN 1 ELSE slot + 1
      /\ UNCHANGED <<resetting, attempts, tag, steps, abandoned>>
  BY DEF Score
<1>2. slot \in 1 .. Workers /\ slot' \in 1 .. Workers /\ slot \in Slots
  BY <1>1 DEF HTypeOK, Slots
<1>3. r \in [done : BOOLEAN, failed : BOOLEAN, scene : Scenes \cup {NoScene}]
  BY <1>2 DEF HTypeOK
<1>4. /\ result' \in [Slots -> [done : BOOLEAN, failed : BOOLEAN,
                                scene : Scenes \cup {NoScene}]]
      /\ result'[slot].scene = NoScene
      /\ \A v \in Slots \ {slot} : result'[v] = result[v]
  <2>1. Running \in [done : BOOLEAN, failed : BOOLEAN, scene : Scenes \cup {NoScene}]
        /\ Running.scene = NoScene
    BY DEF Running
  <2> QED
    BY <1>1, <1>2, <2>1 DEF HTypeOK
<1>5. ResultInv'
  <2>1. ASSUME NEW v \in Slots, v # slot, ~ Collected(v)'
        PROVE  result[v].scene = NoScene
    BY <1>1, <1>2, <2>1 DEF ResultInv, Collected, Slots
  <2> QED
    BY <1>4, <2>1 DEF ResultInv
<1>6. ResetInv' /\ resetting = {}
  BY <1>1 DEF ResetInv
<1>7. Playing' = Playing /\ Waiting' = Waiting \ {slot}
  BY <1>1, <1>4 DEF Playing, Waiting
<1>8. r.scene # NoScene => slot \in Waiting /\ r.done /\ r.scene \notin Queued
                           /\ r.scene \notin scored
  BY <1>2 DEF Waiting, ResultInv, PlaceInv
<1>9. Queued = Elements(queue) /\ Queued' = Elements(queue')
      /\ NoScene \notin scored /\ NoScene \notin Queued
  BY DEF Queued, Elements, HTypeOK
<1>10. /\ queue' \in Seq(Scenes) /\ Distinct(queue') /\ scored' \subseteq Scenes
       /\ \/ /\ scored' = scored \cup ({r.scene} \ {NoScene}) /\ queue' = queue
          \/ /\ scored' = scored /\ r.scene # NoScene /\ attempts[r.scene] < RetryLimit
             /\ Queued' = Queued \cup {r.scene}
          \/ /\ r.scene # NoScene => attempts[r.scene] = RetryLimit
             /\ scored' = scored /\ queue' = queue
  <2>1. CASE r.done /\ ~ r.failed
    <3>1. GivenBack(r) = queue
      BY <2>1 DEF GivenBack
    <3> QED
      BY <1>1, <1>3, <2>1, <3>1 DEF HTypeOK, PlaceInv
  <2>2. CASE r.done /\ r.failed
    <3>1. r.scene \notin scored /\ r.scene \notin Elements(queue)
      BY <1>8, <1>9
    <3>2. queue' = Requeued(queue, attempts, r.scene) /\ scored' = scored
      BY <1>1, <2>2, <3>1 DEF GivenBack
    <3>3. /\ queue \in Seq(Scenes) /\ Distinct(queue)
          /\ attempts \in [Scenes -> Nat] /\ \A s \in Scenes : attempts[s] <= RetryLimit
          /\ r.scene \in Scenes \cup {NoScene}
      BY <1>3 DEF HTypeOK, PlaceInv, AttemptInv, AttemptsBounded
    <3>4. /\ queue' \in Seq(Scenes) /\ Distinct(queue')
          /\ \/ /\ r.scene # NoScene /\ attempts[r.scene] < RetryLimit
                /\ Elements(queue') = Elements(queue) \cup {r.scene}
             \/ /\ r.scene # NoScene => attempts[r.scene] = RetryLimit
                /\ queue' = queue
      <4> HIDE DEF FrozenInv
      <4> QED
        BY <3>1, <3>2, <3>3, RequeuedOK
    <3>5. scored' \subseteq Scenes
      BY <3>2 DEF HTypeOK
    <3> QED
      BY <1>9, <3>2, <3>4, <3>5
  <2>3. CASE ~ r.done
    BY <1>1, <1>8, <2>3 DEF HTypeOK, PlaceInv
  <2> QED
    BY <1>3, <2>1, <2>2, <2>3
<1>11. /\ \A v \in Playing : r.scene # NoScene => tag'[v] # r.scene
       /\ \A v \in Waiting \ {slot} : result'[v] = result[v] /\ result[v].scene # r.scene
       /\ \A v \in Playing : tag[v] # NoScene /\ tag'[v] = tag[v]
       /\ \A v \in Waiting : result[v].scene # NoScene
  <2>1. r.scene = result[slot].scene
    OBVIOUS
  <2>2. \A v \in Playing : v \in Slots /\ tag[v] # NoScene /\ tag'[v] = tag[v]
    BY <1>1 DEF Playing
  <2>3. \A v \in Waiting : v \in Slots /\ result[v].scene # NoScene
    BY DEF Waiting
  <2>4. \A v \in Waiting \ {slot} : result'[v] = result[v] /\ result[v].scene # r.scene
    BY <1>1, <1>2, <1>4, <1>8, <2>1, <2>3 DEF Waiting, PlaceInv
  <2>5. \A v \in Playing : r.scene # NoScene => tag[v] # r.scene
    BY <1>1, <1>2, <2>1 DEF Waiting, PlaceInv
  <2> QED
    BY <2>2, <2>3, <2>4, <2>5
<1>12. /\ at' \in {"loop", "score"} /\ slot' \in Slots /\ r.scene \in Scenes \cup {NoScene}
  BY <1>1, <1>2, <1>3 DEF Slots
<1>13. queue' = queue => Queued' = Queued
  BY <1>9
<1> QED
  BY <1>1, <1>2, <1>4, <1>5, <1>6, <1>7, <1>8, <1>9, <1>10, <1>11, <1>12, <1>13

LEMMA ScoreStep ==
  ASSUME FrozenInv, Score
  PROVE  FrozenInv'
<1> USE DEF FrozenInv
<1>1. PICK r : r = result[slot]
  OBVIOUS
<1>2. /\ at = "score" /\ at' \in {"loop", "score"} /\ slot \in Slots /\ slot' \in Slots
      /\ UNCHANGED <<resetting, attempts, tag, steps, abandoned>>
      /\ result' \in [Slots -> [done : BOOLEAN, failed : BOOLEAN,
                                scene : Scenes \cup {NoScene}]]
      /\ ResultInv' /\ ResetInv' /\ r.scene \in Scenes \cup {NoScene}
  BY <1>1, ScoreIs
<1>3. /\ Playing' = Playing /\ Waiting' = Waiting \ {slot}
      /\ r.scene # NoScene => slot \in Waiting /\ r.scene \notin Queued \cup scored
      /\ NoScene \notin scored /\ NoScene \notin Queued
  BY <1>1, ScoreIs
<1>4. /\ queue' \in Seq(Scenes) /\ Distinct(queue') /\ scored' \subseteq Scenes
      /\ \/ scored' = scored \cup ({r.scene} \ {NoScene}) /\ Queued' = Queued
         \/ /\ scored' = scored /\ r.scene # NoScene /\ attempts[r.scene] < RetryLimit
            /\ Queued' = Queued \cup {r.scene}
         \/ /\ r.scene # NoScene => attempts[r.scene] = RetryLimit
            /\ scored' = scored /\ Queued' = Queued
  BY <1>1, ScoreIs
<1>5. /\ \A v \in Playing : r.scene # NoScene => tag'[v] # r.scene
      /\ \A v \in Waiting \ {slot} : result'[v] = result[v] /\ result[v].scene # r.scene
      /\ \A v \in Playing : tag[v] # NoScene /\ tag'[v] = tag[v]
      /\ \A v \in Waiting : result[v].scene # NoScene
  BY <1>1, ScoreIs
<1>6. HTypeOK'
  BY <1>2, <1>4 DEF HTypeOK
<1>7. /\ \A s \in Queued' : s \in Queued \/ s = r.scene
      /\ \A s \in scored' : s \in scored \/ s = r.scene
      /\ NoScene \notin scored' /\ NoScene \notin Queued'
      /\ ~ (r.scene \in Queued' /\ r.scene \in scored')
  BY <1>3, <1>4
<1>8. PlaceInv'
  <2>1. \A v \in Playing' : tag'[v] \notin Queued' /\ tag'[v] \notin scored'
    BY <1>3, <1>5, <1>7 DEF PlaceInv
  <2>2. \A v \in Waiting' : result'[v].scene \notin Queued' /\ result'[v].scene \notin scored'
    BY <1>3, <1>5, <1>7 DEF PlaceInv
  <2>3. \A s \in Queued' : s \notin scored'
    BY <1>7 DEF PlaceInv
  <2>4. \A u, v \in Playing' : tag'[u] = tag'[v] => u = v
    BY <1>2, <1>3 DEF PlaceInv
  <2>5. \A u, v \in Waiting' : result'[u].scene = result'[v].scene => u = v
    BY <1>3, <1>5 DEF PlaceInv
  <2>6. \A u \in Playing', v \in Waiting' : tag'[u] # result'[v].scene
    BY <1>3, <1>5 DEF PlaceInv
  <2> QED
    BY <1>4, <2>1, <2>2, <2>3, <2>4, <2>5, <2>6 DEF PlaceInv
<1>9. AttemptInv'
  BY <1>2, <1>3, <1>4 DEF AttemptInv, AttemptsBounded
<1>10. SceneInv'
  <2> SUFFICES ASSUME NEW s \in Scenes PROVE Somewhere(s)'
    BY DEF SceneInv
  <2>1. Somewhere(s) /\ s # NoScene
    BY <1>2 DEF SceneInv
  <2>2. CASE s = r.scene
    BY <1>2, <1>4, <2>1, <2>2 DEF Somewhere
  <2>3. CASE s # r.scene
    <3>1. (\E w \in Waiting : result[w].scene = s) =>
            \E w \in Waiting' : result'[w].scene = s
      BY <1>1, <1>3, <1>5, <2>3
    <3>2. scored \subseteq scored' /\ Queued \subseteq Queued'
      BY <1>4
    <3> QED
      BY <1>2, <1>3, <2>1, <3>1, <3>2 DEF Somewhere
  <2> QED
    BY <2>2, <2>3
<1> QED
  BY <1>2, <1>4, <1>6, <1>8, <1>9, <1>10

LEMMA StepFrozen == FrozenInv /\ [HNext]_hvars => FrozenInv'
<1> SUFFICES ASSUME FrozenInv, [HNext]_hvars PROVE FrozenInv'
  OBVIOUS
<1>1. CASE UNCHANGED hvars
  BY <1>1 DEF FrozenInv, HTypeOK, ResultInv, Collected, ResetInv, PlaceInv, Distinct, Playing,
              Waiting, Queued, AttemptInv, AttemptsBounded, SceneInv, Somewhere
<1> QED
  BY <1>1, ResetWorkerStep, LoopStep, StepRunsStep, StepEndsStep, ResetFailsStep,
     ScoreStep DEF HNext

THEOREM FrozenInvariant == HSpec => []FrozenInv
BY InitFrozen, StepFrozen, PTL DEF HSpec

(* Only the head of the loop gives up, and nothing moves after it.         *)
LEMMA StepGivenUp == FrozenInv /\ GivenUp /\ [HNext]_hvars => GivenUp'
<1> SUFFICES ASSUME FrozenInv, GivenUp, [HNext]_hvars PROVE GivenUp'
  OBVIOUS
<1> USE DEF GivenUp
<1>1. CASE Loop
  <2>1. /\ at' = "incomplete" => queue = << >> /\ InFlight = {}
        /\ UNCHANGED <<queue, tag, scored>>
    BY <1>1 DEF Loop
  <2> QED
    BY <2>1 DEF InFlight
<1>2. ASSUME NEW w \in Slots, ResetWorker(w) PROVE GivenUp'
  BY <1>2 DEF ResetWorker
<1>3. CASE StepRuns \/ StepEnds
  BY <1>3 DEF StepRuns, StepEnds, Onward
<1>4. CASE ResetFails \/ Score
  BY <1>4 DEF ResetFails, Score
<1>5. CASE UNCHANGED hvars
  BY <1>5 DEF InFlight
<1> QED
  BY <1>1, <1>2, <1>3, <1>4, <1>5 DEF HNext

-----------------------------------------------------------------------------
(* Every variable keeps its shape, and no episode exceeds its budget of    *)
(* decisions (FactorioVecEnv.step_wait).                                   *)
THEOREM ScenesTypeCorrect == HSpec => []HTypeOK
<1>1. FrozenInv => HTypeOK
  BY DEF FrozenInv
<1> QED
  BY <1>1, FrozenInvariant, PTL

(* A scene is queued, played, waiting for its score or scored, and never   *)
(* in two of these, or twice in one (_reset_one, evaluate_parallel).       *)
THEOREM ScenesInOnePlace == HSpec => []OnePlace
<1>1. FrozenInv => OnePlace
  BY DEF FrozenInv, PlaceInv, OnePlace, Distinct, Queued
<1> QED
  BY <1>1, FrozenInvariant, PTL

(* However episodes and resets fail, no scene is started more often than   *)
(* the limit says (release_episode).                                       *)
THEOREM RetriesBounded == HSpec => []AttemptsBounded
<1>1. FrozenInv => AttemptsBounded
  BY DEF FrozenInv, AttemptInv
<1> QED
  BY <1>1, FrozenInvariant, PTL

(* An evaluation that gives up has spent the attempts of every scene it    *)
(* did not score, or dropped it when a worker could not reset              *)
(* (evaluate_parallel).                                                    *)
THEOREM GivesUpHonestly == HSpec => []GivesUpOnSpentOnly
<1>1. FrozenInv /\ GivenUp => GivesUpOnSpentOnly
  <2> SUFFICES ASSUME FrozenInv, GivenUp, at = "incomplete",
                      NEW s \in Scenes, s \notin scored
               PROVE  s \in Exhausted \cup abandoned
    BY DEF GivesUpOnSpentOnly
  <2>1. Somewhere(s)
    BY DEF FrozenInv, SceneInv
  <2>2. s \notin Queued
    BY DEF GivenUp, Queued
  <2>3. ~ \E w \in Waiting : result[w].scene = s
    BY DEF FrozenInv, ResultInv, Collected, Waiting
  <2>4. ~ \E w \in Playing : tag[w] = s
    BY DEF GivenUp, InFlight, Playing
  <2> QED
    BY <2>1, <2>2, <2>3, <2>4 DEF Somewhere, Exhausted
<1>2. HInit => GivenUp
  BY DEF HInit, GivenUp
<1> QED
  BY <1>1, <1>2, InitFrozen, StepFrozen, StepGivenUp, PTL DEF HSpec
-----------------------------------------------------------------------------
(* Holdout implements Redelivery: in which place a scene is, which is one  *)
(* only, and how each step moves it.                                       *)
Out(s) == \E w \in Playing : tag[w] = s
Unscored(s) == \E w \in Waiting : result[w].scene = s

LEMMA PlaceIs ==
  ASSUME PlaceInv, NEW s \in Scenes
  PROVE  /\ s \in scored => Place(s) = "done"
         /\ s \in Queued => Place(s) = "owed"
         /\ Out(s) => Place(s) = "out"
         /\ Unscored(s) => Place(s) = "ended"
         /\ ~ (s \in scored \/ s \in Queued \/ Out(s) \/ Unscored(s)) => Place(s) = "gone"
BY DEF PlaceInv, Place, Out, Unscored

LEMMA NextPlaceIs ==
  ASSUME PlaceInv', NEW s \in Scenes
  PROVE  /\ s \in scored' => Place(s)' = "done"
         /\ s \in Queued' => Place(s)' = "owed"
         /\ Out(s)' => Place(s)' = "out"
         /\ Unscored(s)' => Place(s)' = "ended"
         /\ ~ (s \in scored' \/ s \in Queued' \/ Out(s)' \/ Unscored(s)') => Place(s)' = "gone"
BY DEF PlaceInv, Place, Out, Unscored

LEMMA PlaceStays ==
  ASSUME NEW s \in Scenes, s \in scored' <=> s \in scored, s \in Queued' <=> s \in Queued,
         Out(s)' <=> Out(s), Unscored(s)' <=> Unscored(s)
  PROVE  Place(s)' = Place(s)
BY DEF Place, Out, Unscored

(* The steps of Redelivery, scene by scene.                                *)
Hands(s) ==
  /\ Place(s) = "owed" /\ attempts[s] < RetryLimit
  /\ attempts'[s] = attempts[s] + 1
  /\ Place(s)' \in {"out", Retried!BackFrom(attempts'[s])}

Loses(s) ==
  /\ Place(s) \in {"out", "ended"} /\ Place(s)' = "gone"
  /\ s \in abandoned' \/ at' = "aborted"
  /\ attempts'[s] = attempts[s]

Moves(s) ==
  \/ Hands(s)
  \/ Loses(s)
  \/ /\ attempts'[s] = attempts[s]
     /\ \/ Place(s)' = Place(s)
        \/ Place(s) = "out" /\ Place(s)' = "ended"
        \/ Place(s) = "ended" /\ Place(s)' \in {"done", Retried!BackFrom(attempts[s])}

Implements ==
  /\ at # "aborted" /\ abandoned \subseteq abandoned'
  /\ \A s \in abandoned' \ abandoned : s \in Scenes /\ Loses(s)
  /\ \A s \in Scenes : Moves(s)

(* What is taken counts as an attempt, and nothing else does.              *)
LEMMA TriedIs ==
  ASSUME FrozenInv, attempts' = Tried, NEW s \in Scenes
  PROVE  attempts'[s] = IF s = Taken THEN attempts[s] + 1 ELSE attempts[s]
<1>1. CASE queue = << >>
  BY <1>1 DEF Tried, Taken
<1>2. CASE queue # << >>
  <2>1. Head(queue) \in Scenes /\ attempts \in [Scenes -> Nat]
    BY <1>2 DEF FrozenInv, HTypeOK
  <2> QED
    BY <1>2, <2>1 DEF Tried, Taken
<1> QED
  BY <1>1, <1>2

(* A scene that a reset takes is played, or back, or spent.                *)
LEMMA TakenHands ==
  ASSUME FrozenInv, AttemptInv', PlaceInv', attempts' = Tried, NEW s \in Scenes, s = Taken,
         \/ Out(s)'
         \/ s \in Queued'
         \/ attempts'[s] = RetryLimit /\ s \notin scored' /\ ~ Unscored(s)'
  PROVE  Hands(s)
<1>1. s \in Queued /\ attempts[s] < RetryLimit
  BY TakenOK DEF FrozenInv, AttemptInv
<1>2. Place(s) = "owed" /\ attempts'[s] = attempts[s] + 1
  BY <1>1, PlaceIs, TriedIs DEF FrozenInv
<1>3. CASE Out(s)'
  BY <1>1, <1>2, <1>3, NextPlaceIs DEF Hands
<1>4. CASE s \in Queued'
  <2>1. Retried!BackFrom(attempts'[s]) = "owed"
    BY <1>4 DEF Retried!BackFrom, AttemptInv
  <2> QED
    BY <1>1, <1>2, <1>4, <2>1, NextPlaceIs DEF Hands
<1>5. CASE ~ Out(s)' /\ s \notin Queued'
  <2>1. Retried!BackFrom(attempts'[s]) = "gone"
    BY <1>5 DEF Retried!BackFrom
  <2> QED
    BY <1>1, <1>2, <1>5, <2>1, NextPlaceIs DEF Hands
<1> QED
  BY <1>3, <1>4, <1>5

LEMMA ResetWorkerImplements ==
  ASSUME FrozenInv, FrozenInv', NEW w \in Slots, ResetWorker(w)
  PROVE  Implements
<1> USE DEF FrozenInv
<1>1. /\ at = "reset" /\ w \in resetting /\ resetting' = resetting \ {w}
      /\ UNCHANGED <<slot, result, scored, abandoned>> /\ attempts' = Tried
  BY DEF ResetWorker, ResetOne, ResetOneFails
<1>2. \A s : ~ Unscored(s) /\ ~ Unscored(s)'
  BY <1>1 DEF ResultInv, Collected, Waiting, Unscored
<1>3. Taken # NoScene => Taken \in Queued
  BY TakenOK
<1>4. ASSUME ResetOne(w), at' # "aborted", NEW s \in Scenes
      PROVE  Moves(s)
  <2>1. /\ \A v \in Playing' \ {w} : v \in Playing /\ tag'[v] = tag[v]
        /\ \A v \in Playing : v \in Playing' /\ tag'[v] = tag[v]
        /\ w \in Playing' => tag'[w] = Taken
        /\ Taken # NoScene => w \in Playing' /\ tag'[w] = Taken
    BY <1>1, <1>4, ResetOneOK DEF Playing
  <2>2. Queued' = Queued \ {Taken}
    BY <1>4, ResetOneOK
  <2>3. CASE s = Taken
    <3>1. Out(s)'
      BY <2>1, <2>3, NoSceneAssumption DEF Out
    <3> QED
      BY <1>1, <2>3, <3>1, TakenHands DEF Moves
  <2>4. CASE s # Taken
    <3>1. Out(s)' <=> Out(s)
      BY <2>1, <2>4 DEF Out
    <3> QED
      BY <1>1, <1>2, <2>2, <2>4, <3>1, PlaceStays, TriedIs DEF Moves
  <2> QED
    BY <2>3, <2>4
<1>5. ASSUME ResetOneFails(w), at' = "aborted", NEW s \in Scenes
      PROVE  Moves(s)
  <2>1. ~ Out(s)'
    BY <1>5 DEF Playing, Out
  <2>2. /\ Queued' \subseteq Queued
        /\ s \in Queued => s \in Queued' \/ attempts'[s] = RetryLimit
    BY <1>5, ResetOneFailsOK
  <2>3. CASE s = Taken
    <3>1. s \in Queued /\ s \notin scored'
      BY <1>1, <1>3, <2>3 DEF PlaceInv
    <3> QED
      BY <1>1, <1>2, <2>2, <2>3, <3>1, TakenHands DEF Moves
  <2>4. CASE s # Taken
    <3>1. attempts'[s] = attempts[s]
      BY <1>1, <2>4, TriedIs
    <3>2. s \in Queued' <=> s \in Queued
      BY <2>2, <3>1 DEF AttemptInv
    <3>3. CASE Out(s)
      <4>1. s \notin scored' /\ s \notin Queued'
        BY <1>1, <3>2, <3>3 DEF Out, PlaceInv
      <4> QED
        BY <1>2, <1>5, <2>1, <3>1, <3>3, <4>1, PlaceIs, NextPlaceIs DEF Moves, Loses
    <3>4. CASE ~ Out(s)
      BY <1>1, <1>2, <2>1, <3>1, <3>2, <3>4, PlaceStays DEF Moves
    <3> QED
      BY <3>3, <3>4
  <2> QED
    BY <2>3, <2>4
<1>6. \/ ResetOne(w) /\ at' # "aborted"
      \/ ResetOneFails(w) /\ at' = "aborted"
  BY <1>1 DEF ResetWorker
<1> QED
  BY <1>1, <1>4, <1>5, <1>6 DEF Implements

(* The head of the loop, and an episode that goes on, move no scene.       *)
LEMMA NothingMoves ==
  ASSUME FrozenInv, Loop \/ StepRuns
  PROVE  Implements
<1> USE DEF FrozenInv
<1>1. /\ at # "aborted" /\ at' # "aborted"
      /\ UNCHANGED <<resetting, queue, attempts, tag, scored, abandoned>>
  BY DEF Loop, StepRuns, Onward
<1>2. Waiting' = Waiting /\ \A v \in Waiting : result'[v].scene = result[v].scene
  <2>1. CASE Loop
    BY <2>1 DEF Loop, Waiting
  <2>2. CASE StepRuns
    <3>1. result[slot].scene = NoScene /\ slot \in Slots
      BY <2>2 DEF StepRuns, ResultInv, Collected, HTypeOK, Slots
    <3>2. \A v \in Slots : result'[v].scene = result[v].scene
      BY <2>2, <3>1 DEF StepRuns, Running, HTypeOK
    <3> QED
      BY <3>2 DEF Waiting
  <2> QED
    BY <2>1, <2>2
<1>3. Playing' = Playing /\ Queued' = Queued
  BY <1>1 DEF Playing, Queued
<1>4. ASSUME NEW s \in Scenes  PROVE Moves(s)
  <2>1. Out(s)' <=> Out(s)
    BY <1>1, <1>3 DEF Out
  <2>2. Unscored(s)' <=> Unscored(s)
    BY <1>2 DEF Unscored
  <2> QED
    BY <1>1, <1>3, <2>1, <2>2, PlaceStays DEF Moves
<1> QED
  BY <1>1, <1>4 DEF Implements

LEMMA StepEndsImplements ==
  ASSUME FrozenInv, FrozenInv', StepEnds
  PROVE  Implements
<1> USE DEF FrozenInv
<1>1. /\ at = "step" /\ at' \in {"step", "score"} /\ ResetOne(slot) /\ slot \in Slots
      /\ UNCHANGED <<scored, abandoned>>
      /\ Taken # NoScene => Taken \in Queued
  BY StepEndsIs
<1>2. /\ \A v \in Playing' \ {slot} : v \in Playing /\ tag'[v] = tag[v]
      /\ slot \in Playing' => tag'[slot] = Taken /\ Taken # NoScene
      /\ Taken # NoScene => slot \in Playing'
      /\ \A v \in Playing \ {slot} : v \in Playing' /\ tag'[v] = tag[v]
  BY StepEndsIs
<1>3. /\ \A v \in Waiting' \ {slot} : v \in Waiting /\ result'[v].scene = result[v].scene
      /\ slot \in Waiting' => slot \in Playing /\ result'[slot].scene = tag[slot]
      /\ slot \in Playing => slot \in Waiting' /\ result'[slot].scene = tag[slot]
      /\ \A v \in Waiting : v # slot /\ v \in Waiting' /\ result'[v].scene = result[v].scene
  BY StepEndsIs
<1>4. attempts' = Tried /\ Queued' = Queued \ {Taken}
  BY <1>1, ResetOneOK DEF ResetOne
<1>5. ASSUME NEW s \in Scenes  PROVE Moves(s)
  <2>1. CASE s = Taken
    <3>1. Out(s)'
      BY <1>1, <1>2, <2>1, ResetOneOK DEF Out
    <3> QED
      BY <1>4, <2>1, <3>1, TakenHands DEF Moves
  <2>2. CASE s # Taken /\ slot \in Playing /\ tag[slot] = s
    <3>1. Out(s) /\ Unscored(s)'
      BY <1>3, <2>2 DEF Out, Unscored
    <3> QED
      BY <1>4, <2>2, <3>1, PlaceIs, NextPlaceIs, TriedIs DEF Moves
  <2>3. CASE s # Taken /\ ~ (slot \in Playing /\ tag[slot] = s)
    <3>1. Out(s)' <=> Out(s)
      BY <1>2, <2>3 DEF Out
    <3>2. Unscored(s)' <=> Unscored(s)
      BY <1>3, <2>3 DEF Unscored
    <3> QED
      BY <1>1, <1>4, <2>3, <3>1, <3>2, PlaceStays, TriedIs DEF Moves
  <2> QED
    BY <2>1, <2>2, <2>3
<1> QED
  BY <1>1, <1>5 DEF Implements

LEMMA ResetFailsImplements ==
  ASSUME FrozenInv, FrozenInv', ResetFails
  PROVE  Implements
<1> USE DEF FrozenInv
<1>1. /\ at = "step" /\ at' = "reset" /\ resetting' = Slots /\ slot \in Slots
      /\ ResetOneFails(slot) /\ attempts' = Tried
      /\ abandoned' = abandoned \cup Dropped /\ UNCHANGED scored
  BY DEF ResetFails, ResetOneFails, HTypeOK
<1>2. \A s : ~ Out(s)' /\ ~ Unscored(s)'
  <2>1. \A v \in Slots : result'[v].scene = NoScene
    BY DEF ResetFails, Running
  <2> QED
    BY <1>1, <2>1 DEF Playing, Waiting, Out, Unscored
<1>3. \A s \in Scenes : s \in Dropped <=> Out(s) \/ Unscored(s)
  BY <1>1, DroppedAre DEF Out, Unscored
<1>4. Dropped \subseteq Scenes
  BY <1>1, DroppedAre
<1>5. ASSUME NEW s \in Scenes
      PROVE  /\ s \in Dropped => Loses(s)
             /\ Moves(s)
  <2>1. /\ Queued' \subseteq Queued
        /\ s \in Queued => s \in Queued' \/ attempts'[s] = RetryLimit
    BY <1>1, ResetOneFailsOK
  <2>2. CASE s = Taken
    <3>1. s \in Queued
      BY <2>2, TakenOK
    <3>2. s \notin scored' /\ s \notin Dropped
      BY <1>1, <1>3, <3>1 DEF PlaceInv, Out, Unscored
    <3> QED
      BY <1>1, <1>2, <2>1, <2>2, <3>1, <3>2, TakenHands DEF Moves
  <2>3. CASE s # Taken
    <3>1. attempts'[s] = attempts[s]
      BY <1>1, <2>3, TriedIs
    <3>2. s \in Queued' <=> s \in Queued
      BY <2>1, <3>1 DEF AttemptInv
    <3>3. CASE s \in Dropped
      <4>1. s \notin scored' /\ s \notin Queued'
        BY <1>1, <1>3, <3>2, <3>3 DEF Out, Unscored, PlaceInv
      <4>2. Place(s) \in {"out", "ended"} /\ Place(s)' = "gone"
        BY <1>2, <1>3, <3>3, <4>1, PlaceIs, NextPlaceIs
      <4> QED
        BY <1>1, <3>1, <3>3, <4>2 DEF Moves, Loses
    <3>4. CASE s \notin Dropped
      BY <1>1, <1>2, <1>3, <3>1, <3>2, <3>4, PlaceStays DEF Moves
    <3> QED
      BY <3>3, <3>4
  <2> QED
    BY <2>2, <2>3
<1> QED
  BY <1>1, <1>4, <1>5 DEF Implements

LEMMA ScoreImplements ==
  ASSUME FrozenInv, FrozenInv', Score
  PROVE  Implements
<1> USE DEF FrozenInv
<1>1. PICK r : r = result[slot]
  OBVIOUS
<1>2. /\ at = "score" /\ slot \in Slots
      /\ UNCHANGED <<attempts, tag, abandoned>>
      /\ Playing' = Playing /\ Waiting' = Waiting \ {slot}
      /\ r.scene # NoScene => slot \in Waiting /\ r.scene \notin Queued \cup scored
  BY <1>1, ScoreIs
<1>3. \/ scored' = scored \cup ({r.scene} \ {NoScene}) /\ Queued' = Queued
      \/ /\ scored' = scored /\ r.scene # NoScene /\ attempts[r.scene] < RetryLimit
         /\ Queued' = Queued \cup {r.scene}
      \/ /\ r.scene # NoScene => attempts[r.scene] = RetryLimit
         /\ scored' = scored /\ Queued' = Queued
  BY <1>1, ScoreIs
<1>4. /\ \A v \in Playing : r.scene # NoScene => tag'[v] # r.scene
      /\ \A v \in Waiting \ {slot} : result'[v] = result[v] /\ result[v].scene # r.scene
  BY <1>1, ScoreIs
<1>5. ASSUME NEW s \in Scenes  PROVE Moves(s)
  <2>1. Out(s)' <=> Out(s)
    BY <1>2 DEF Out
  <2>2. CASE s = r.scene
    <3>1. Unscored(s) /\ ~ Unscored(s)' /\ ~ Out(s)'
      BY <1>1, <1>2, <1>4, <2>2, NoSceneAssumption DEF Out, Unscored
    <3>2. Place(s) = "ended" /\ s \notin Queued /\ s \notin scored
      BY <1>2, <2>2, <3>1, PlaceIs, NoSceneAssumption
    <3>3. CASE s \in scored'
      BY <1>2, <3>2, <3>3, NextPlaceIs DEF Moves
    <3>4. CASE s \notin scored'
      <4>1. \/ attempts[s] < RetryLimit /\ s \in Queued'
            \/ attempts[s] = RetryLimit /\ s \notin Queued'
        BY <1>3, <2>2, <3>2, <3>4, NoSceneAssumption
      <4>2. Place(s)' = Retried!BackFrom(attempts[s])
        BY <3>1, <3>4, <4>1, NextPlaceIs DEF Retried!BackFrom
      <4> QED
        BY <1>2, <3>2, <4>2 DEF Moves
    <3> QED
      BY <3>3, <3>4
  <2>3. CASE s # r.scene
    <3>1. Unscored(s)' <=> Unscored(s)
      BY <1>1, <1>2, <1>4, <2>3 DEF Unscored
    <3>2. s \in Queued' <=> s \in Queued
      BY <1>3, <2>3
    <3>3. s \in scored' <=> s \in scored
      BY <1>3, <2>3
    <3> QED
      BY <1>2, <2>1, <3>1, <3>2, <3>3, PlaceStays DEF Moves
  <2> QED
    BY <2>2, <2>3
<1> QED
  BY <1>2, <1>5 DEF Implements

(* So each step is a step of Redelivery.                                   *)
LEMMA ImplementsIs ==
  ASSUME FrozenInv, FrozenInv', Implements
  PROVE  Retried!Next
<1>1. ASSUME NEW s \in Scenes, Loses(s)
      PROVE  Retried!Lost(s)
  BY <1>1 DEF Retried!Lost, Loses
<1>2. ASSUME NEW s \in Scenes
      PROVE  \/ Retried!HandedOut(s) \/ Retried!Ends(s) \/ Retried!Settled(s)
             \/ Retried!Lost(s) \/ Retried!Stays(s)
  <2>1. Moves(s)
    BY DEF Implements
  <2>2. CASE Hands(s)
    BY <2>2 DEF Hands, Retried!HandedOut
  <2>3. CASE attempts'[s] = attempts[s] /\ Place(s)' = Place(s)
    BY <2>3 DEF Retried!Stays
  <2>4. CASE attempts'[s] = attempts[s] /\ Place(s) = "out" /\ Place(s)' = "ended"
    BY <2>4 DEF Retried!Ends
  <2>5. CASE /\ attempts'[s] = attempts[s] /\ Place(s) = "ended"
             /\ Place(s)' \in {"done", Retried!BackFrom(attempts[s])}
    BY <2>5 DEF Retried!Settled
  <2> QED
    BY <1>1, <2>1, <2>2, <2>3, <2>4, <2>5 DEF Moves
<1>3. [s \in Scenes |-> Place(s)]' \in [Scenes -> Retried!Places]
  BY DEF Place, Retried!Places
<1>4. attempts' \in [Scenes -> 0 .. RetryLimit]
  <2>1. \A s \in Scenes : attempts'[s] \in Nat /\ attempts'[s] <= RetryLimit
    BY DEF FrozenInv, HTypeOK, AttemptInv, AttemptsBounded
  <2> QED
    BY <2>1 DEF FrozenInv, HTypeOK
<1> QED
  BY <1>1, <1>2, <1>3, <1>4 DEF Retried!Next, Implements

(* The queue keeps its promise to each scene, whatever fails and in which  *)
(* order: scored or given up it stays so, each start is an attempt, and    *)
(* only a failing reset beside it or the abort takes one with attempts     *)
(* left (_reset_one, release_episode, evaluate_parallel).                  *)
THEOREM RedeliveryKept == HSpec => ImplementsRedelivery
<1>1. HInit => Retried!Init
  <2> SUFFICES ASSUME HInit PROVE Retried!Init
    OBVIOUS
  <2>1. PlaceInv /\ Queued = Scenes
    <3>1. queue = [i \in Scenes |-> i] /\ Len(queue) = SceneCount
      BY DEF HInit, Scenes
    <3>2. Queued = Scenes
      BY <3>1 DEF Queued, Scenes
    <3> QED
      BY <3>2, InitFrozen DEF FrozenInv
  <2>2. \A s \in Scenes : Place(s) = "owed"
    BY <2>1, PlaceIs
  <2> QED
    BY <2>2 DEF HInit, Retried!Init
<1>2. FrozenInv /\ FrozenInv' /\ [HNext]_hvars => [Retried!Next]_(Retried!vars)
  <2> SUFFICES ASSUME FrozenInv, FrozenInv', [HNext]_hvars
               PROVE  [Retried!Next]_(Retried!vars)
    OBVIOUS
  <2>1. CASE UNCHANGED hvars
    <3>1. \A s \in Scenes : Place(s)' = Place(s)
      BY <2>1 DEF Place, Playing, Waiting, Queued
    <3> QED
      BY <2>1, <3>1 DEF Retried!vars
  <2> QED
    BY <2>1, ResetWorkerImplements, NothingMoves, StepEndsImplements, ResetFailsImplements,
       ScoreImplements, ImplementsIs DEF HNext
<1> QED
  BY <1>1, <1>2, InitFrozen, StepFrozen, PTL DEF HSpec, ImplementsRedelivery, Retried!Spec
=============================================================================
