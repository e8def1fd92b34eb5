------------------------- MODULE NavigationProofs -------------------------
(***************************************************************************)
(* Proofs about Navigation, for any map, any goals, any limits and any     *)
(* number of changes: what the search finds is a shortest way over what is *)
(* known, and a walk through a world that stands still finds the way there *)
(* is.                                                                     *)
(***************************************************************************)
EXTENDS Navigation, FiniteSetTheorems, WellFoundedInduction, TLAPS

Area == Cardinality(Tiles)

(* What the agent knows, block by block.                                   *)
StoreOK ==
  \A b \in DOMAIN store.blocks : \A t \in store.blocks[b] : t \in Tiles /\ BlockOf(t) = b

(* The search under way: costs are of real ways, each cost counts one of   *)
(* the closed tiles, and each way leads back to the body.                  *)
Traced(o, c, p, cl) ==
  /\ o \subseteq Tiles /\ cl \subseteq Tiles /\ o \cap cl = {}
  /\ c \in [o \cup cl -> Nat]
  /\ body \in o \cup cl /\ c[body] = 0
  /\ \A t \in o \cup cl : c[t] <= Cardinality(cl) /\ t \in Reached(KnownBlocked)[c[t]]
  /\ \A t \in (o \cup cl) \ {body} :
       /\ t \in DOMAIN p /\ p[t] \in cl /\ c[t] = c[p[t]] + 1
       /\ t \in Neighbours(p[t]) /\ t \notin KnownBlocked

(* The closed tiles are at their distance, and what is beside one is known *)
(* to be no further than by way of it.                                     *)
Settles(o, c, cl) ==
  \A t \in cl :
    /\ ~ IsGoal(t)
    /\ \A k \in 0 .. Area : t \in Reached(KnownBlocked)[k] => c[t] <= k
    /\ \A m \in Neighbours(t) :
         InBox(m) /\ m \notin KnownBlocked => m \in o \cup cl /\ c[m] <= c[t] + 1

Searching(o, c, p, cl) == Traced(o, c, p, cl) /\ Settles(o, c, cl)

SearchInv ==
  \/ Unsearched
  \/ turn = "search" /\ Searching(open, cost, parent, closed)

(* A route as it is walked: from tile to tile, to a goal, and the body is  *)
(* on it or beside its next tile.                                          *)
Routed(r) ==
  /\ Len(r) > 0 /\ IsGoal(r[Len(r)])
  /\ \A i \in 1 .. Len(r) - 1 : r[i + 1] \in Neighbours(r[i])

OnRoute ==
  /\ walk.index \in 1 .. Len(walk.route)
  /\ turn = "engine" => body \in Neighbours(Ahead)
  /\ turn \in {"poll", "steer"} => body \in Neighbours(Ahead) \/ (body = Ahead /\ walk.stall = 0)
  /\ turn = "steer" => ~ Arrived

Reasons == {"none", "time_budget", "search_budget", "destination_blocked", "no_route",
            "replan_limit", "target_gone", "blocked"}

Walks ==
  [status : {"none", "running", "completed", "failed", "rejected"}, reason : Reasons,
   route : Seq(Tiles), index : Nat, replans : Nat, limit : Nat, stall : Nat, since : Nat,
   elapsed : Nat, why : {"none", "request", "look", "bump"}]

Typed ==
  /\ solid \subseteq Tiles /\ body \in Tiles /\ goal \in Goals /\ present \in BOOLEAN
  /\ turn \in {"engine", "poll", "steer", "search"} /\ walk \in Walks
  /\ changes \in Nat /\ forgot \in BOOLEAN /\ StoreOK

WalkInv ==
  /\ turn \in {"poll", "steer"} => Running
  /\ turn = "search" =>
       /\ ~ Arrived /\ walk.why \in {"request", "look", "bump"}
       /\ walk.why = "request" <=> ~ Running
       /\ walk.status \in {"none", "running"}
  /\ Running => Routed(walk.route)
  /\ Running /\ turn # "search" => OnRoute

IInv == Typed /\ SearchInv /\ WalkInv

(* In a world that has not changed and of which nothing was forgotten:     *)
(* what is known is so, the route was clear when it was planned, and each  *)
(* replan has found an obstacle that is not on it.                         *)
OfRoute == {walk.route[i] : i \in 1 .. Len(walk.route)}

Still ==
  /\ present /\ body \notin solid /\ KnownBlocked \subseteq solid
  /\ turn = "search" => walk.replans <= Cardinality(KnownBlocked)
  /\ Running /\ turn # "search" => walk.replans <= Cardinality(KnownBlocked \ OfRoute)
  /\ turn \in {"poll", "steer"} /\ walk.stall > 0 => Ahead \in solid
  /\ FindsTheWay

StillInv == changes = 0 /\ ~ forgot => Still

(* Sets of numbers.                                                        *)
LEMMA LeastIn ==
  ASSUME NEW T, T \subseteq Nat, T # {}
  PROVE  \E x \in T : \A y \in T : x <= y
<1>1. PICK x \in T : \A y \in T : ~ (<<y, x>> \in OpToRel(<, Nat))
  BY NatLessThanWellFounded, WFMin
<1>2. ASSUME NEW y \in T
      PROVE  x <= y
  <2>1. <<y, x>> \in Nat \X Nat /\ <<y, x>>[1] = y /\ <<y, x>>[2] = x
    OBVIOUS
  <2>2. ~ (y < x)
    BY <1>1, <2>1 DEF OpToRel
  <2>3. QED  BY <2>2
<1>3. QED  BY <1>2

LEMMA MaxIs ==
  ASSUME NEW T, T \subseteq Nat, T # {}, NEW n \in Nat, \A x \in T : x <= n
  PROVE  Max(T) \in T /\ \A x \in T : x <= Max(T)
<1> DEFINE U == {k \in Nat : \E x \in T : k = n - x}
<1>1. U \subseteq Nat /\ U # {}
  <2>1. PICK x \in T : TRUE
    OBVIOUS
  <2>2. n - x \in U
    BY <2>1
  <2>q. QED  BY <2>2
<1>2. PICK k \in U : \A y \in U : k <= y
  BY <1>1, LeastIn
<1>3. PICK x \in T : k = n - x
  BY <1>2
<1>4. ASSUME NEW y \in T  PROVE x >= y
  <2>1. n - y \in U
    OBVIOUS
  <2>2. n - x <= n - y
    BY <1>2, <1>3, <2>1
  <2>q. QED  BY <2>2
<1>5. \E z \in T : \A y \in T : z >= y
  BY <1>4
<1>6. Max(T) \in T /\ \A y \in T : Max(T) >= y
  BY <1>5 DEF Max
<1>q. QED  BY <1>6

-----------------------------------------------------------------------------
(* The map.                                                                *)
LEMMA TilesFinite ==
  /\ IsFiniteSet(Tiles) /\ Area \in Nat
  /\ \A t \in Tiles : /\ t[1] \in 0 .. Width - 1 /\ t[2] \in 0 .. Height - 1
                      /\ t = <<t[1], t[2]>>
<1>1. IsFiniteSet(0 .. Width - 1) /\ IsFiniteSet(0 .. Height - 1)
  BY TerrainAssumption, FS_Interval
<1>2. IsFiniteSet(Tiles)
  BY <1>1, FS_Product DEF Tiles
<1>q. QED  BY <1>2, FS_CardinalityType DEF Area, Tiles

LEMMA GapIs ==
  ASSUME NEW a \in Int, NEW b \in Int
  PROVE  Gap(a, b) \in Nat /\ Gap(a, b) = Gap(b, a) /\ (Gap(a, b) = 0 <=> a = b)
BY DEF Gap

LEMMA NeighboursAre ==
  ASSUME NEW t \in Tiles, NEW n \in Neighbours(t)
  PROVE  /\ n \in Tiles /\ n # t /\ t \in Neighbours(n)
         /\ Gap(n[1], t[1]) <= 1 /\ Gap(n[2], t[2]) <= 1
<1>1. n \in Tiles /\ Gap(n[1], t[1]) + Gap(n[2], t[2]) = 1
  BY DEF Neighbours
<1>2. n[1] \in Int /\ n[2] \in Int /\ t[1] \in Int /\ t[2] \in Int
  BY <1>1, TilesFinite, TerrainAssumption
<1>3. Gap(n[1], t[1]) \in Nat /\ Gap(n[2], t[2]) \in Nat
      /\ Gap(n[1], t[1]) = Gap(t[1], n[1]) /\ Gap(n[2], t[2]) = Gap(t[2], n[2])
  BY <1>2, GapIs
<1>4. n # t
  <2>1. ASSUME n = t  PROVE FALSE
    <3>1. Gap(n[1], t[1]) = 0 /\ Gap(n[2], t[2]) = 0
      BY <1>2, <2>1, GapIs
    <3>q. QED  BY <1>1, <3>1
  <2>q. QED  BY <2>1
<1>q. QED  BY <1>1, <1>3, <1>4 DEF Neighbours

(* The heuristic changes by no more than a tile from a tile to the next.   *)
LEMMA HeuristicIs ==
  ASSUME goal.x \in Nat, goal.y \in Nat, goal.radius \in Nat, goal.radius >= Tile, NEW t \in Tiles
  PROVE  /\ Heuristic(t) \in Nat
         /\ Heuristic(t) <= Tile * (Width + Height + 2) + goal.x + goal.y
         /\ \A n \in Neighbours(t) : Heuristic(n) <= Heuristic(t) + Tile
<1> DEFINE a(i) == Gap(Middle(i), goal.x)
           b(i) == Gap(Middle(i), goal.y)
           r == ((PlanRadius * 3) \div 2)
<1>1. PlanRadius \in Nat /\ r \in Nat
  BY DEF PlanRadius, Tile
<1>2. \A i \in Int : Middle(i) = 8 * i + 4
  BY DEF Middle, Tile
<1>3. \A u \in Tiles : u[1] \in Nat /\ u[2] \in Nat /\ u[1] <= Width /\ u[2] <= Height
  BY TilesFinite, TerrainAssumption
<1>4. \A u \in Tiles : Heuristic(u) = IF a(u[1]) + b(u[2]) - r - 8 < 0 THEN 0
                                      ELSE a(u[1]) + b(u[2]) - r - 8
  BY DEF Heuristic, Tile
<1>5. ASSUME NEW i \in Nat  PROVE a(i) \in Nat /\ b(i) \in Nat /\ a(i) <= 8 * i + 4 + goal.x /\ b(i) <= 8 * i + 4 + goal.y
  BY <1>2 DEF Gap
<1>6. ASSUME NEW i \in Nat, NEW j \in Nat  PROVE a(j) <= a(i) + 8 * Gap(j, i) /\ b(j) <= b(i) + 8 * Gap(j, i)
  BY <1>2 DEF Gap
<1>7. ASSUME NEW n \in Neighbours(t)
      PROVE  a(n[1]) + b(n[2]) <= a(t[1]) + b(t[2]) + 8
  <2>1. n \in Tiles /\ Gap(n[1], t[1]) + Gap(n[2], t[2]) = 1
    BY DEF Neighbours
  <2>2. n[1] \in Nat /\ n[2] \in Nat /\ t[1] \in Nat /\ t[2] \in Nat
    BY <2>1, <1>3
  <2>3. Gap(n[1], t[1]) \in Nat /\ Gap(n[2], t[2]) \in Nat
    BY <2>2 DEF Gap
  <2>4. a(n[1]) <= a(t[1]) + 8 * Gap(n[1], t[1]) /\ b(n[2]) <= b(t[2]) + 8 * Gap(n[2], t[2])
    BY <1>6, <2>2
  <2>5. a(n[1]) \in Nat /\ a(t[1]) \in Nat /\ b(n[2]) \in Nat /\ b(t[2]) \in Nat
    BY <1>5, <2>2
  <2> HIDE DEF a, b
  <2>q. QED  BY <2>1, <2>3, <2>4, <2>5
<1>8. Heuristic(t) \in Nat /\ Heuristic(t) <= Tile * (Width + Height + 2) + goal.x + goal.y
  <2>1. t[1] \in Nat /\ t[2] \in Nat /\ t[1] <= Width /\ t[2] <= Height
    BY <1>3
  <2>2. a(t[1]) \in Nat /\ b(t[2]) \in Nat /\ a(t[1]) <= 8 * t[1] + 4 + goal.x /\ b(t[2]) <= 8 * t[2] + 4 + goal.y
    BY <1>5, <2>1
  <2> HIDE DEF a, b, r
  <2>q. QED  BY <1>1, <1>4, <2>1, <2>2, TerrainAssumption DEF Tile
<1>9. ASSUME NEW n \in Neighbours(t)
      PROVE  Heuristic(n) <= Heuristic(t) + Tile
  <2>1. n \in Tiles
    BY DEF Neighbours
  <2>2. n[1] \in Nat /\ n[2] \in Nat /\ t[1] \in Nat /\ t[2] \in Nat
    BY <2>1, <1>3
  <2>3. a(n[1]) \in Nat /\ a(t[1]) \in Nat /\ b(n[2]) \in Nat /\ b(t[2]) \in Nat
    BY <1>5, <2>2
  <2>4. a(n[1]) + b(n[2]) <= a(t[1]) + b(t[2]) + 8
    BY <1>7
  <2> HIDE DEF a, b, r
  <2>q. QED  BY <1>1, <1>4, <2>1, <2>3, <2>4 DEF Tile
<1>q. QED  BY <1>8, <1>9

-----------------------------------------------------------------------------
(* The layers of ground around the body: a recursion over numbers has a    *)
(* solution, by the least number up to which it has none.                  *)
Layers(f, S, n) ==
  f = [i \in 0 .. n |-> IF i = 0 THEN {body} ELSE Grown(f[i - 1], S)]

LEMMA LayersAre ==
  ASSUME NEW S, NEW n \in Nat, NEW f, Layers(f, S, n), NEW i \in 0 .. n
  PROVE  f[i] = IF i = 0 THEN {body} ELSE Grown(f[i - 1], S)
<1> DEFINE g == [j \in 0 .. n |-> IF j = 0 THEN {body} ELSE Grown(f[j - 1], S)]
<1>1. g[i] = IF i = 0 THEN {body} ELSE Grown(f[i - 1], S)
  OBVIOUS
<1>2. f = g
  BY DEF Layers
<1> HIDE DEF g
<1>q. QED  BY <1>1, <1>2, Zenon

LEMMA LayersExist ==
  ASSUME NEW S, NEW n \in Nat
  PROVE  \E f : Layers(f, S, n)
<1> DEFINE T == {k \in Nat : ~ \E f : Layers(f, S, k)}
<1> SUFFICES ASSUME T # {}  PROVE FALSE
  OBVIOUS
<1>1. PICK k \in T : \A y \in T : k <= y
  <2>1. T \subseteq Nat
    OBVIOUS
  <2>q. QED  BY <2>1, LeastIn
<1>2. k \in Nat /\ ~ \E f : Layers(f, S, k)
  OBVIOUS
<1>3. CASE k = 0
  <2> DEFINE f == [i \in 0 .. 0 |-> {body}]
  <2>1. f = [i \in 0 .. 0 |-> IF i = 0 THEN {body} ELSE Grown(f[i - 1], S)]
    OBVIOUS
  <2>2. Layers(f, S, 0)
    BY <2>1 DEF Layers
  <2>q. QED  BY <1>2, <1>3, <2>2
<1>4. CASE k # 0
  <2>1. k - 1 \in Nat /\ k - 1 \notin T
    BY <1>1, <1>2, <1>4
  <2>2. PICK f : Layers(f, S, k - 1)
    BY <2>1
  <2> DEFINE g == [i \in 0 .. k |-> IF i = 0 THEN {body} ELSE Grown(f[i - 1], S)]
  <2> HIDE DEF T
  <2>3. ASSUME NEW i \in 0 .. k - 1  PROVE g[i] = f[i]
    <3>1. g[i] = IF i = 0 THEN {body} ELSE Grown(f[i - 1], S)
      <4>1. i \in 0 .. k
        BY <1>2
      <4>q. QED  BY <4>1, Zenon
    <3>2. f[i] = IF i = 0 THEN {body} ELSE Grown(f[i - 1], S)
      BY <2>1, <2>2, LayersAre
    <3> HIDE DEF g
    <3>q. QED  BY <3>1, <3>2, Zenon
  <2>4. ASSUME NEW i \in 0 .. k  PROVE g[i] = IF i = 0 THEN {body} ELSE Grown(g[i - 1], S)
    <3>1. i # 0 => i - 1 \in 0 .. k - 1
      BY <1>2
    <3>2. i # 0 => g[i - 1] = f[i - 1]
      BY <2>3, <3>1
    <3>q. QED  BY <3>2
  <2>5. g = [i \in 0 .. k |-> g[i]]
    OBVIOUS
  <2> HIDE DEF g
  <2>6. g = [i \in 0 .. k |-> IF i = 0 THEN {body} ELSE Grown(g[i - 1], S)]
    BY <2>4, <2>5
  <2>q. QED  BY <1>2, <2>6 DEF Layers
<1>q. QED  BY <1>3, <1>4

LEMMA ReachedIs ==
  ASSUME NEW S
  PROVE  /\ Reached(S)[0] = {body}
         /\ \A n \in 1 .. Area : Reached(S)[n] = Grown(Reached(S)[n - 1], S)
<1> DEFINE R == Reached(S)
<1>1. \E f : Layers(f, S, Area)
  BY LayersExist, TilesFinite
<1>2. R = CHOOSE f : f = [n \in 0 .. Cardinality(Tiles) |->
                           IF n = 0 THEN {body} ELSE Grown(f[n - 1], S)]
  BY DEF Reached
<1>3. Layers(R, S, Area)
  BY <1>1, <1>2 DEF Layers, Area
<1> HIDE DEF R
<1>4. Area \in Nat
  BY TilesFinite
<1>5. 0 \in 0 .. Area
  BY <1>4
<1>6. R[0] = {body}
  BY <1>3, <1>4, <1>5, LayersAre
<1>7. ASSUME NEW n \in 1 .. Area  PROVE R[n] = Grown(R[n - 1], S)
  <2>1. n \in 0 .. Area /\ n # 0
    BY <1>4
  <2>q. QED  BY <1>3, <1>4, <2>1, LayersAre
<1>q. QED  BY <1>6, <1>7 DEF R

LEMMA ReachedStays ==
  ASSUME body' = body, goal' = goal, NEW S
  PROVE  Reached(S)' = Reached(S)
<1>1. \A f, i : Grown(f, S)' = Grown(f, S)
  BY DEF Grown, InBox, GoalTile
<1>q. QED  BY <1>1 DEF Reached

(* What is reached.                                                        *)
LEMMA ReachedGrows ==
  ASSUME body \in Tiles, NEW S, NEW n \in 0 .. Area
  PROVE  /\ Reached(S)[n] \subseteq Tiles
         /\ n + 1 <= Area => Reached(S)[n + 1] = Grown(Reached(S)[n], S)
<1> DEFINE R == Reached(S)
           T == {k \in Nat : k <= Area /\ ~ (R[k] \subseteq Tiles)}
<1>1. Area \in Nat /\ R[0] = {body} /\ \A k \in 1 .. Area : R[k] = Grown(R[k - 1], S)
  BY TilesFinite, ReachedIs
<1> HIDE DEF R
<1>2. ASSUME T # {}  PROVE FALSE
  <2>1. T \subseteq Nat
    OBVIOUS
  <2>2. PICK k \in T : \A y \in T : k <= y
    BY <1>2, <2>1, LeastIn
  <2>3. k \in Nat /\ k <= Area /\ ~ (R[k] \subseteq Tiles)
    OBVIOUS
  <2>4. k # 0
    BY <1>1, <2>3
  <2>5. k - 1 \in Nat /\ k - 1 <= Area /\ k - 1 \notin T
    BY <1>1, <2>2, <2>3, <2>4
  <2>6. R[k - 1] \subseteq Tiles
    BY <2>5
  <2>7. R[k] = Grown(R[k - 1], S)
    BY <1>1, <2>3, <2>4
  <2>q. QED  BY <2>3, <2>6, <2>7 DEF Grown, Neighbours
<1>3. R[n] \subseteq Tiles
  BY <1>1, <1>2
<1>4. n + 1 <= Area => R[n + 1] = Grown(R[n], S)
  <2>1. n + 1 <= Area => n + 1 \in 1 .. Area /\ n + 1 - 1 = n
    BY <1>1
  <2>q. QED  BY <1>1, <2>1
<1>q. QED  BY <1>3, <1>4 DEF R

(* More obstacles leave less to be reached.                                *)
LEMMA ReachedShrinks ==
  ASSUME body \in Tiles, NEW S, NEW U, S \subseteq U, NEW n \in 0 .. Area
  PROVE  Reached(U)[n] \subseteq Reached(S)[n]
<1> DEFINE R == Reached(S)  Q == Reached(U)
           T == {k \in Nat : k <= Area /\ ~ (Q[k] \subseteq R[k])}
<1>1. /\ Area \in Nat /\ R[0] = {body} /\ \A k \in 1 .. Area : R[k] = Grown(R[k - 1], S)
      /\ Q[0] = {body} /\ \A k \in 1 .. Area : Q[k] = Grown(Q[k - 1], U)
  BY TilesFinite, ReachedIs
<1> HIDE DEF R, Q
<1>2. ASSUME T # {}  PROVE FALSE
  <2>1. T \subseteq Nat
    OBVIOUS
  <2>2. PICK k \in T : \A y \in T : k <= y
    BY <1>2, <2>1, LeastIn
  <2>3. k \in Nat /\ k <= Area /\ ~ (Q[k] \subseteq R[k])
    OBVIOUS
  <2>4. k # 0
    BY <1>1, <2>3
  <2>5. k - 1 \in Nat /\ k - 1 <= Area /\ k - 1 \notin T
    BY <1>1, <2>2, <2>3, <2>4
  <2>6. Q[k - 1] \subseteq R[k - 1]
    BY <2>5
  <2>7. R[k] = Grown(R[k - 1], S) /\ Q[k] = Grown(Q[k - 1], U)
    BY <1>1, <2>3, <2>4
  <2>q. QED  BY <2>3, <2>6, <2>7 DEF Grown
<1>q. QED  BY <1>1, <1>2 DEF R, Q

LEMMA ReachableShrinks ==
  ASSUME body \in Tiles, NEW S, NEW U, S \subseteq U, Reachable(U)
  PROVE  Reachable(S)
<1>1. Area \in Nat /\ Area \in 0 .. Area
  BY TilesFinite
<1>q. QED  BY <1>1, ReachedShrinks DEF Reachable, Area

(* The ground that is known.                                               *)
LEMMA KnownIs ==
  ASSUME StoreOK
  PROVE  /\ KnownBlocked \subseteq Tiles /\ IsFiniteSet(KnownBlocked)
         /\ \A t : TerrainBlocked(store, t) <=> t \in KnownBlocked
<1>1. KnownBlocked \subseteq Tiles
  BY DEF StoreOK, KnownBlocked
<1>2. \A t : TerrainBlocked(store, t) <=> t \in KnownBlocked
  BY DEF StoreOK, KnownBlocked, TerrainBlocked
<1>q. QED  BY <1>1, <1>2, TilesFinite, FS_Subset

GoalOK == goal \in Goals

LEMMA GoalIs ==
  ASSUME GoalOK
  PROVE  /\ goal.x \in Nat /\ goal.y \in Nat /\ goal.radius \in Nat /\ goal.radius >= Tile
         /\ goal.entity \in BOOLEAN /\ goal.box \in [1 .. 4 -> Int]
BY NavigationAssumption DEF GoalOK

(* The frontier: to what lies at a distance and is not closed at it, the   *)
(* heap holds a tile on the way whose priority does not pass the way's.    *)
LEMMA Frontier ==
  ASSUME body \in Tiles, GoalOK, Searching(open, cost, parent, closed),
         NEW n \in 0 .. Area, NEW t \in Reached(KnownBlocked)[n]
  PROVE  \/ t \in closed /\ cost[t] <= n
         \/ \E m \in open : Priority(m, cost[m]) <= Tile * n + Heuristic(t)
<1> DEFINE R == Reached(KnownBlocked)
           Covered(u, k) == \/ u \in closed /\ cost[u] <= k
                            \/ \E m \in open : Priority(m, cost[m]) <= Tile * k + Heuristic(u)
           T == {k \in Nat : k <= Area /\ \E u \in R[k] : ~ Covered(u, k)}
<1> SUFFICES ASSUME T # {}  PROVE FALSE
  <2>1. n \in Nat /\ n <= Area
    BY TilesFinite
  <2>q. QED  BY <2>1
<1>1. /\ Area \in Nat /\ R[0] = {body}
      /\ \A k \in 1 .. Area : R[k] = Grown(R[k - 1], KnownBlocked)
      /\ \A k \in 0 .. Area : R[k] \subseteq Tiles
  BY TilesFinite, ReachedIs, ReachedGrows
<1> HIDE DEF R
<1>2. /\ open \subseteq Tiles /\ closed \subseteq Tiles /\ body \in open \cup closed
      /\ cost[body] = 0 /\ \A u \in open \cup closed : cost[u] \in Nat
  BY DEF Searching, Traced
<1>3. \A u \in Tiles : /\ Heuristic(u) \in Nat
                       /\ \A m \in Neighbours(u) : Heuristic(m) <= Heuristic(u) + Tile
  BY GoalIs, HeuristicIs
<1>4. PICK k \in T : \A y \in T : k <= y
  <2>1. T \subseteq Nat
    OBVIOUS
  <2>q. QED  BY <2>1, LeastIn
<1>5. PICK u \in R[k] : k \in Nat /\ k <= Area /\ ~ Covered(u, k)
  OBVIOUS
<1>6. ASSUME k > 0  PROVE k - 1 \in 0 .. Area /\ \A v \in R[k - 1] : Covered(v, k - 1)
  <2>1. k - 1 \in Nat /\ k - 1 <= Area /\ k - 1 \notin T
    BY <1>1, <1>4, <1>5, <1>6
  <2>q. QED  BY <2>1, <1>1
<1> HIDE DEF T
<1>7. \A m \in open : Priority(m, cost[m]) = 8 * cost[m] + Heuristic(m)
  BY DEF Priority, Tile
<1>8. u \in Tiles
  BY <1>1, <1>5
<1>9. ASSUME u \in open, cost[u] <= k  PROVE FALSE
  <2>1. Priority(u, cost[u]) <= Tile * k + Heuristic(u)
    BY <1>2, <1>3, <1>5, <1>7, <1>8, <1>9 DEF Tile
  <2>q. QED  BY <1>5, <1>9, <2>1
<1>10. CASE k = 0
  <2>1. u = body
    BY <1>1, <1>5, <1>10
  <2>q. QED  BY <1>2, <1>5, <1>9, <1>10, <2>1
<1>11. CASE k > 0 /\ u \in R[k - 1]
  <2>1. Covered(u, k - 1)
    BY <1>6, <1>11
  <2>2. CASE u \in closed /\ cost[u] <= k - 1
    BY <1>2, <1>5, <2>2
  <2>3. CASE \E m \in open : Priority(m, cost[m]) <= Tile * (k - 1) + Heuristic(u)
    <3>1. PICK m \in open : Priority(m, cost[m]) <= Tile * (k - 1) + Heuristic(u)
      BY <2>3
    <3>2. Priority(m, cost[m]) <= Tile * k + Heuristic(u)
      BY <1>2, <1>3, <1>5, <1>7, <1>8, <3>1 DEF Tile
    <3>q. QED  BY <1>5, <3>2
  <2>q. QED  BY <2>1, <2>2, <2>3
<1>12. CASE k > 0 /\ u \notin R[k - 1]
  <2>1. PICK v \in R[k - 1] : u \in Neighbours(v) /\ u \notin KnownBlocked /\ InBox(u)
    <3>1. u \in Grown(R[k - 1], KnownBlocked)
      BY <1>1, <1>5, <1>12
    <3>q. QED  BY <1>12, <3>1 DEF Grown
  <2>2. v \in Tiles /\ Covered(v, k - 1)
    BY <1>1, <1>6, <1>12, <2>1
  <2>3. CASE v \in closed /\ cost[v] <= k - 1
    <3>1. u \in open \cup closed /\ cost[u] <= cost[v] + 1
      BY <2>1, <2>3 DEF Searching, Settles
    <3>2. cost[u] <= k
      BY <1>2, <1>5, <2>3, <3>1
    <3>q. QED  BY <1>5, <1>9, <3>1, <3>2
  <2>4. CASE \E m \in open : Priority(m, cost[m]) <= Tile * (k - 1) + Heuristic(v)
    <3>1. PICK m \in open : Priority(m, cost[m]) <= Tile * (k - 1) + Heuristic(v)
      BY <2>4
    <3>2. Heuristic(v) <= Heuristic(u) + Tile
      BY <1>3, <1>8, <2>1, <2>2, NeighboursAre
    <3>3. Priority(m, cost[m]) <= Tile * k + Heuristic(u)
      BY <1>2, <1>3, <1>5, <1>7, <1>8, <2>2, <3>1, <3>2 DEF Tile
    <3>q. QED  BY <1>5, <3>3
  <2>q. QED  BY <2>2, <2>3, <2>4
<1>q. QED  BY <1>5, <1>10, <1>11, <1>12

(* A tile the heap gives is at its distance: what its neighbours are, and  *)
(* the whole search, stays so when it is closed.                           *)
LEMMA ClosedAtDistance ==
  ASSUME body \in Tiles, GoalOK, Searching(open, cost, parent, closed),
         NEW n, First(n), NEW k \in 0 .. Area, n \in Reached(KnownBlocked)[k]
  PROVE  cost[n] <= k
<1>1. /\ n \in open /\ n \notin closed /\ \A m \in open : Priority(n, cost[n]) <= Priority(m, cost[m])
      /\ open \subseteq Tiles /\ \A m \in open : cost[m] \in Nat
  BY DEF First, Searching, Traced
<1>2. PICK m \in open : Priority(m, cost[m]) <= Tile * k + Heuristic(n)
  BY <1>1, Frontier
<1>3. Heuristic(n) \in Nat /\ Heuristic(m) \in Nat /\ k \in Nat
  BY <1>1, GoalIs, HeuristicIs, TilesFinite
<1>4. Tile * cost[n] + Heuristic(n) <= Tile * k + Heuristic(n)
  BY <1>1, <1>2, <1>3 DEF Priority, Tile
<1>q. QED  BY <1>1, <1>3, <1>4 DEF Tile

LEMMA ExpandOK ==
  ASSUME body \in Tiles, GoalOK, StoreOK, Searching(open, cost, parent, closed), Expand
  PROVE  Searching(open', cost', parent', closed')
<1> DEFINE R == Reached(KnownBlocked)
<1>1. PICK n \in open :
        /\ First(n) /\ ~ IsGoal(n)
        /\ closed' = closed \cup {n} /\ open' = (open \ {n}) \cup Better(n)
        /\ cost' = [t \in DOMAIN cost \cup Better(n) |-> IF t \in Better(n) THEN cost[n] + 1 ELSE cost[t]]
        /\ parent' = [t \in DOMAIN parent \cup Better(n) |-> IF t \in Better(n) THEN n ELSE parent[t]]
  BY DEF Expand
<1> DEFINE B == Better(n)
<1>2. Traced(open, cost, parent, closed) /\ Settles(open, cost, closed)
  BY DEF Searching
<1>3. /\ open \subseteq Tiles /\ closed \subseteq Tiles /\ open \cap closed = {} /\ n \in Tiles
      /\ DOMAIN cost = open \cup closed /\ \A t \in open \cup closed : cost[t] \in Nat
      /\ body \in open \cup closed /\ cost[body] = 0
      /\ \A t \in open \cup closed : cost[t] <= Cardinality(closed) /\ t \in R[cost[t]]
  BY <1>1, <1>2 DEF Traced
<1>4. /\ B \subseteq Tiles /\ B \cap closed = {} /\ n \notin B /\ body \notin B
      /\ \A m \in B : /\ m \in Neighbours(n) /\ InBox(m) /\ m \notin KnownBlocked
                      /\ m \in open \cup closed => cost[n] + 1 < cost[m]
  <2>1. \A m \in B : /\ m \in Neighbours(n) \ closed /\ InBox(m) /\ m \notin KnownBlocked
                     /\ m \in open \cup closed => cost[n] + 1 < cost[m]
    BY <1>3, KnownIs DEF Better
  <2>2. \A m \in B : m \in Tiles /\ m # n
    BY <1>3, <2>1, NeighboursAre
  <2>3. body \notin B
    BY <1>1, <1>3, <2>1
  <2>q. QED  BY <2>1, <2>2, <2>3
<1>5. \A m \in Neighbours(n) \ closed : InBox(m) /\ m \notin KnownBlocked /\ m \notin B =>
        m \in open \cup closed /\ cost[m] <= cost[n] + 1
  BY <1>1, <1>3, KnownIs DEF Better
<1>6. /\ Cardinality(closed) \in Nat /\ Cardinality(closed') = Cardinality(closed) + 1
      /\ Cardinality(closed') <= Area /\ Area \in Nat
  <2>1. IsFiniteSet(closed)
    BY <1>3, TilesFinite, FS_Subset
  <2>2. closed' \subseteq Tiles /\ n \notin closed
    BY <1>1, <1>3
  <2>3. Cardinality(closed') = Cardinality(closed) + 1
    BY <1>1, <2>1, <2>2, FS_AddElement
  <2>4. Cardinality(closed') <= Area
    BY <2>2, TilesFinite, FS_Subset DEF Area
  <2>q. QED  BY <2>1, <2>3, <2>4, FS_CardinalityType, TilesFinite
<1> HIDE DEF B, R
<1>7. /\ open' \cup closed' = open \cup closed \cup B /\ open' \cap closed' = {}
      /\ open' \subseteq Tiles /\ closed' \subseteq Tiles
  BY <1>1, <1>3, <1>4 DEF B
<1>21. cost' = [t \in open' \cup closed' |-> IF t \in B THEN cost[n] + 1 ELSE cost[t]]
  BY <1>1, <1>3, <1>7 DEF B
<1>8. /\ \A t \in B : cost'[t] = cost[n] + 1
      /\ \A t \in (open' \cup closed') \ B : cost'[t] = cost[t]
  BY <1>7, <1>21
<1>9. \A t \in open' \cup closed' : cost'[t] \in Nat
  BY <1>1, <1>3, <1>7, <1>8
<1>10. ASSUME NEW t \in open \cup closed
       PROVE  cost'[t] <= cost[t] /\ (t \in closed => cost'[t] = cost[t])
  <2>1. t \in open' \cup closed' /\ cost[t] \in Nat /\ cost[n] \in Nat
    BY <1>1, <1>3, <1>7
  <2>2. CASE t \in B
    <3>1. cost'[t] = cost[n] + 1
      BY <1>8, <2>1, <2>2
    <3>2. cost[n] + 1 < cost[t] /\ t \notin closed
      BY <1>4, <2>2
    <3>q. QED  BY <2>1, <3>1, <3>2
  <2>3. CASE t \notin B
    <3>1. cost'[t] = cost[t]
      BY <1>8, <2>1, <2>3
    <3>q. QED  BY <2>1, <3>1
  <2>q. QED  BY <2>2, <2>3
<1>11. cost'[n] = cost[n] /\ n \in closed' /\ n \in R[cost[n]] /\ cost[n] + 1 <= Cardinality(closed')
  BY <1>1, <1>3, <1>4, <1>6, <1>7, <1>8
<1>12. R[cost[n] + 1] = Grown(R[cost[n]], KnownBlocked)
  <2>1. cost[n] \in 0 .. Area /\ cost[n] + 1 <= Area
    BY <1>1, <1>3, <1>6, <1>11
  <2>q. QED  BY <2>1, ReachedGrows DEF R
<1>13. \A m \in Neighbours(n) : InBox(m) /\ m \notin KnownBlocked => m \in R[cost[n] + 1]
  BY <1>11, <1>12 DEF Grown
<1>14. ASSUME NEW t \in open' \cup closed'
       PROVE  cost'[t] <= Cardinality(closed') /\ t \in R[cost'[t]]
  <2>1. CASE t \in B
    <3>1. cost'[t] = cost[n] + 1
      BY <1>8, <2>1
    <3>2. t \in Neighbours(n) /\ InBox(t) /\ t \notin KnownBlocked
      BY <1>4, <2>1
    <3>3. t \in R[cost[n] + 1]
      BY <1>13, <3>2
    <3>q. QED  BY <1>11, <3>1, <3>3
  <2>2. CASE t \notin B
    BY <1>3, <1>6, <1>7, <1>8, <2>2
  <2>q. QED  BY <2>1, <2>2
<1>15. ASSUME NEW t \in (open' \cup closed') \ {body}
       PROVE  /\ t \in DOMAIN parent' /\ parent'[t] \in closed' /\ cost'[t] = cost'[parent'[t]] + 1
              /\ t \in Neighbours(parent'[t]) /\ t \notin KnownBlocked
  <2>1. CASE t \in B
    <3>1. t \in DOMAIN parent' /\ parent'[t] = n
      BY <1>1, <2>1 DEF B
    <3>2. t \in Neighbours(n) /\ t \notin KnownBlocked
      BY <1>4, <2>1
    <3>3. cost'[t] = cost'[n] + 1 /\ n \in closed'
      BY <1>8, <1>11, <2>1
    <3>q. QED  BY <3>1, <3>2, <3>3
  <2>2. CASE t \notin B
    <3>1. t \in (open \cup closed) \ {body}
      BY <1>7, <2>2
    <3>2. /\ t \in DOMAIN parent /\ parent[t] \in closed /\ cost[t] = cost[parent[t]] + 1
          /\ t \in Neighbours(parent[t]) /\ t \notin KnownBlocked
      BY <1>2, <3>1 DEF Traced
    <3>3. t \in DOMAIN parent' /\ parent'[t] = parent[t]
      BY <1>1, <2>2, <3>2 DEF B
    <3>4. cost'[t] = cost[t] /\ cost'[parent[t]] = cost[parent[t]]
      BY <1>8, <1>10, <2>2, <3>2
    <3>q. QED  BY <1>1, <3>2, <3>3, <3>4
  <2>q. QED  BY <2>1, <2>2
<1>16. Traced(open', cost', parent', closed')
  <2>1. cost' \in [open' \cup closed' -> Nat]
    BY <1>9, <1>21
  <2>2. body \in open' \cup closed' /\ cost'[body] = 0
    BY <1>3, <1>4, <1>7, <1>8
  <2>q. QED  BY <1>7, <1>14, <1>15, <2>1, <2>2 DEF Traced, R
<1>17. ASSUME NEW k \in 0 .. Area, n \in R[k]  PROVE cost[n] <= k
  BY <1>1, <1>17, ClosedAtDistance DEF R
<1>18. ASSUME NEW m \in Neighbours(n), InBox(m), m \notin KnownBlocked
       PROVE  m \in open' \cup closed' /\ cost'[m] <= cost[n] + 1
  <2>1. CASE m \in B
    <3>1. m \in open' \cup closed' /\ cost'[m] = cost[n] + 1 /\ cost[n] \in Nat
      BY <1>1, <1>3, <1>7, <1>8, <2>1
    <3>q. QED  BY <3>1
  <2>2. CASE m \in closed
    <3>1. m \in R[cost[n] + 1] /\ cost[n] + 1 \in 0 .. Area
      BY <1>1, <1>3, <1>6, <1>11, <1>13, <1>18
    <3>2. cost[m] <= cost[n] + 1
      BY <1>2, <2>2, <3>1 DEF Settles, R
    <3>q. QED  BY <1>7, <1>10, <2>2, <3>2
  <2>3. CASE m \notin B /\ m \notin closed
    <3>1. m \in open \cup closed /\ cost[m] <= cost[n] + 1
      BY <1>5, <1>18, <2>3
    <3>q. QED  BY <1>7, <1>8, <2>3, <3>1
  <2>q. QED  BY <2>1, <2>2, <2>3
<1>19. ASSUME NEW t \in closed'
       PROVE  /\ ~ IsGoal(t)
              /\ \A k \in 0 .. Area : t \in R[k] => cost'[t] <= k
              /\ \A m \in Neighbours(t) :
                   InBox(m) /\ m \notin KnownBlocked => m \in open' \cup closed' /\ cost'[m] <= cost'[t] + 1
  <2>1. CASE t = n
    BY <1>1, <1>11, <1>17, <1>18, <2>1
  <2>2. CASE t \in closed
    <3>1. /\ ~ IsGoal(t)
          /\ \A k \in 0 .. Area : t \in R[k] => cost[t] <= k
          /\ \A m \in Neighbours(t) :
               InBox(m) /\ m \notin KnownBlocked => m \in open \cup closed /\ cost[m] <= cost[t] + 1
      BY <1>2, <2>2 DEF Settles, R
    <3>2. cost'[t] = cost[t]
      BY <1>10, <2>2
    <3>3. ASSUME NEW m \in open \cup closed, cost[m] <= cost[t] + 1
          PROVE  m \in open' \cup closed' /\ cost'[m] <= cost[t] + 1
      <4>1. cost'[m] <= cost[m] /\ cost'[m] \in Nat /\ cost[m] \in Nat /\ cost[t] \in Nat
        BY <1>3, <1>7, <1>9, <1>10, <2>2
      <4>q. QED  BY <1>7, <3>3, <4>1
    <3>q. QED  BY <3>1, <3>2, <3>3
  <2>q. QED  BY <1>1, <1>19, <2>1, <2>2
<1>20. Settles(open', cost', closed')
  BY <1>19 DEF Settles, R
<1>q. QED  BY <1>16, <1>20 DEF Searching

LEMMA SearchBeginsOK ==
  ASSUME body \in Tiles, SearchBegins
  PROVE  Searching(open', cost', parent', closed')
<1>1. open' = {body} /\ cost' = [t \in {body} |-> 0] /\ closed' = {}
  BY DEF SearchBegins
<1>2. cost' \in [open' \cup closed' -> Nat] /\ cost'[body] = 0
  BY <1>1
<1>3. body \in Reached(KnownBlocked)[0] /\ Cardinality(closed') = 0
  BY <1>1, ReachedIs, FS_EmptySet
<1>4. open' \cup closed' = {body} /\ (open' \cup closed') \ {body} = {}
  BY <1>1
<1>5. \A t \in open' \cup closed' :
        cost'[t] <= Cardinality(closed') /\ t \in Reached(KnownBlocked)[cost'[t]]
  <2>1. cost'[body] <= Cardinality(closed')
    BY <1>2, <1>3
  <2>q. QED  BY <1>2, <1>3, <1>4, <2>1, Zenon
<1>6. Traced(open', cost', parent', closed')
  BY <1>1, <1>2, <1>4, <1>5 DEF Traced
<1>7. Settles(open', cost', closed')
  BY <1>1 DEF Settles
<1>q. QED  BY <1>6, <1>7 DEF Searching

(* What a search that has ended shows.                                     *)
LEMMA NothingLeft ==
  ASSUME body \in Tiles, GoalOK, Searching(open, cost, parent, closed), open = {}
  PROVE  ~ Reachable(KnownBlocked)
<1>1. Area \in Nat /\ Area \in 0 .. Area
  BY TilesFinite
<1>2. ASSUME NEW t \in Reached(KnownBlocked)[Area]  PROVE ~ IsGoal(t)
  <2>1. \/ t \in closed /\ cost[t] <= Area
        \/ \E m \in open : Priority(m, cost[m]) <= Tile * Area + Heuristic(t)
    BY <1>1, Frontier
  <2>2. t \in closed
    BY <2>1
  <2>q. QED  BY <2>2 DEF Searching, Settles
<1>q. QED  BY <1>2 DEF Reachable, Area

LEMMA ShortestFound ==
  ASSUME body \in Tiles, GoalOK, Searching(open, cost, parent, closed),
         NEW t \in Tiles, FoundAt(t)
  PROVE  \E n \in 0 .. cost[t] : AtDistance(n) /\ Tile * (cost[t] - n) <= Overestimate
<1> DEFINE R == Reached(KnownBlocked)
           T == {k \in Nat : k <= Area /\ \E g \in R[k] : IsGoal(g)}
           H == {Heuristic(u) : u \in {v \in Tiles : IsGoal(v)}}
<1>1. /\ First(t) /\ IsGoal(t) /\ t \in open /\ cost[t] \in Nat /\ t \in R[cost[t]]
      /\ cost[t] <= Area /\ Area \in Nat
  <2>1. First(t) /\ IsGoal(t) /\ t \in open
    BY DEF FoundAt, First
  <2>2. /\ cost[t] \in Nat /\ t \in R[cost[t]] /\ cost[t] <= Cardinality(closed)
        /\ closed \in SUBSET Tiles
    BY <2>1 DEF Searching, Traced
  <2>3. IsFiniteSet(closed) /\ Cardinality(closed) <= Area
    BY <2>2, TilesFinite, FS_Subset DEF Area
  <2>q. QED  BY <2>1, <2>2, <2>3, TilesFinite, FS_CardinalityType
<1> HIDE DEF R
<1>2. cost[t] \in T
  BY <1>1
<1>3. PICK n \in T : \A y \in T : n <= y
  <2>1. T \subseteq Nat
    OBVIOUS
  <2>q. QED  BY <1>2, <2>1, LeastIn
<1>4. n \in Nat /\ n <= Area /\ n \in 0 .. cost[t]
  BY <1>1, <1>2, <1>3
<1>5. PICK g \in R[n] : IsGoal(g)
  BY <1>3
<1>6. g \in Tiles
  <2>1. n \in 0 .. Area
    BY <1>1, <1>4
  <2>q. QED  BY <2>1, ReachedGrows DEF R
<1>7. n > 0 => \A u \in R[n - 1] : ~ IsGoal(u)
  <2>1. n > 0 => n - 1 \in Nat /\ n - 1 <= Area /\ n - 1 \notin T
    BY <1>1, <1>3, <1>4
  <2>q. QED  BY <2>1
<1> HIDE DEF T
<1>8. AtDistance(n)
  BY <1>5, <1>7 DEF AtDistance, R
<1>9. PICK m \in open : Priority(m, cost[m]) <= Tile * n + Heuristic(g)
  <2>1. g \notin closed
    BY <1>5 DEF Searching, Settles
  <2>2. n \in 0 .. Area
    BY <1>1, <1>4
  <2>3. g \in Reached(KnownBlocked)[n]
    BY DEF R
  <2>q. QED  BY <2>1, <2>2, <2>3, Frontier
<1>10. /\ Heuristic(t) \in Nat /\ Heuristic(g) \in Nat /\ Heuristic(m) \in Nat /\ cost[m] \in Nat
       /\ Priority(t, cost[t]) <= Priority(m, cost[m])
  <2>1. m \in Tiles /\ cost[m] \in Nat
    BY DEF Searching, Traced
  <2>q. QED  BY <1>1, <1>6, <2>1, GoalIs, HeuristicIs DEF First
<1>11. Heuristic(g) <= Overestimate
  <2>1. H \subseteq Nat /\ Heuristic(g) \in H
    BY <1>5, <1>6, GoalIs, HeuristicIs
  <2> DEFINE b == Tile * (Width + Height + 2) + goal.x + goal.y
  <2>2. b \in Nat /\ \A x \in H : x <= b
    BY GoalIs, HeuristicIs, TerrainAssumption DEF Tile
  <2>3. Overestimate = Max(H)
    BY DEF Overestimate
  <2> HIDE DEF H, b
  <2>q. QED  BY <2>1, <2>2, <2>3, MaxIs
<1>12. Overestimate \in Nat
  <2>1. H \subseteq Nat /\ Heuristic(g) \in H
    BY <1>5, <1>6, GoalIs, HeuristicIs
  <2> DEFINE b == Tile * (Width + Height + 2) + goal.x + goal.y
  <2>2. b \in Nat /\ \A x \in H : x <= b
    BY GoalIs, HeuristicIs, TerrainAssumption DEF Tile
  <2>3. Overestimate = Max(H)
    BY DEF Overestimate
  <2> HIDE DEF H, b
  <2>q. QED  BY <2>1, <2>2, <2>3, MaxIs
<1>13. Tile * (cost[t] - n) <= Overestimate
  BY <1>1, <1>4, <1>9, <1>10, <1>11, <1>12 DEF Priority, Tile
<1>q. QED  BY <1>4, <1>8, <1>13

(* The search is about the ground that is known, the body and the goal: it *)
(* holds while these stand still.                                          *)
LEMMA KnownReachStays ==
  ASSUME UNCHANGED <<store, body, goal>>
  PROVE  KnownBlocked' = KnownBlocked /\ Reached(KnownBlocked)' = Reached(KnownBlocked)
<1>1. KnownBlocked' = KnownBlocked
  BY DEF KnownBlocked
<1>2. \A f : Grown(f, KnownBlocked)' = Grown(f, KnownBlocked)
  BY <1>1 DEF Grown, InBox, GoalTile
<1>q. QED  BY <1>1, <1>2 DEF Reached

LEMMA SearchingStays ==
  ASSUME UNCHANGED <<store, body, goal>>, Searching(open', cost', parent', closed')
  PROVE  Searching(open, cost, parent, closed)'
<1>1. KnownBlocked' = KnownBlocked /\ Reached(KnownBlocked)' = Reached(KnownBlocked)
  BY KnownReachStays
<1>2. \A t : IsGoal(t)' = IsGoal(t) /\ InBox(t)' = InBox(t)
  BY DEF IsGoal, PlanRadius, InBox, GoalTile
<1>3. Traced(open', cost', parent', closed') /\ Settles(open', cost', closed')
  BY DEF Searching
<1>4. Traced(open, cost, parent, closed)'
  BY <1>1, <1>3 DEF Traced
<1>5. Settles(open, cost, closed)'
  BY <1>1, <1>2, <1>3 DEF Settles
<1>q. QED  BY <1>4, <1>5 DEF Searching

(* The way back from a tile that was reached: a recursion over the search  *)
(* has a solution, by the least cost up to which it has none.              *)
Leads(f, k) ==
  f = [u \in {v \in DOMAIN cost : cost[v] <= k} |->
        IF u = body THEN << >> ELSE Append(f[parent[u]], u)]

LEMMA LeadsAre ==
  ASSUME NEW k, NEW f, Leads(f, k), NEW u \in DOMAIN cost, cost[u] <= k
  PROVE  f[u] = IF u = body THEN << >> ELSE Append(f[parent[u]], u)
<1> DEFINE D == {v \in DOMAIN cost : cost[v] <= k}
           g == [w \in D |-> IF w = body THEN << >> ELSE Append(f[parent[w]], w)]
<1>1. u \in D
  OBVIOUS
<1> HIDE DEF D
<1>2. g[u] = IF u = body THEN << >> ELSE Append(f[parent[u]], u)
  BY <1>1
<1>3. f = g
  BY DEF Leads, D
<1> HIDE DEF g
<1>q. QED  BY <1>2, <1>3, Zenon

LEMMA CostsAre ==
  ASSUME Searching(open, cost, parent, closed), NEW u \in DOMAIN cost
  PROVE  /\ u \in Tiles /\ cost[u] \in Nat
         /\ u = body => cost[u] = 0
         /\ u # body => /\ parent[u] \in DOMAIN cost /\ parent[u] \in Tiles
                        /\ cost[u] = cost[parent[u]] + 1 /\ cost[parent[u]] \in Nat
                        /\ u \in Neighbours(parent[u]) /\ u \notin KnownBlocked
<1>1. /\ open \subseteq Tiles /\ closed \subseteq Tiles /\ cost \in [open \cup closed -> Nat]
      /\ cost[body] = 0
      /\ \A t \in (open \cup closed) \ {body} :
           /\ parent[t] \in closed /\ cost[t] = cost[parent[t]] + 1
           /\ t \in Neighbours(parent[t]) /\ t \notin KnownBlocked
  BY DEF Searching, Traced
<1>2. DOMAIN cost = open \cup closed /\ \A t \in open \cup closed : cost[t] \in Nat
  BY <1>1
<1>q. QED  BY <1>1, <1>2

LEMMA LeadsExist ==
  ASSUME Searching(open, cost, parent, closed), NEW n \in Nat
  PROVE  \E f : Leads(f, n)
<1> DEFINE T == {k \in Nat : ~ \E f : Leads(f, k)}
           D(k) == {v \in DOMAIN cost : cost[v] <= k}
<1> SUFFICES ASSUME T # {}  PROVE FALSE
  OBVIOUS
<1>1. PICK k \in T : \A y \in T : k <= y
  <2>1. T \subseteq Nat
    OBVIOUS
  <2>q. QED  BY <2>1, LeastIn
<1>2. k \in Nat /\ ~ \E f : Leads(f, k)
  OBVIOUS
<1>3. CASE k = 0
  <2> DEFINE f == [u \in D(0) |-> << >>]
  <2>1. \A u \in D(0) : u = body
    <3> SUFFICES ASSUME NEW u \in D(0), u # body  PROVE FALSE
      OBVIOUS
    <3>1. u \in DOMAIN cost /\ cost[u] <= 0
      OBVIOUS
    <3>2. cost[u] = cost[parent[u]] + 1 /\ cost[parent[u]] \in Nat
      BY <3>1, CostsAre
    <3>q. QED  BY <3>1, <3>2
  <2> HIDE DEF D
  <2>2. f = [u \in D(0) |-> IF u = body THEN << >> ELSE Append(f[parent[u]], u)]
    BY <2>1
  <2>3. Leads(f, 0)
    BY <2>2 DEF Leads, D
  <2>q. QED  BY <1>2, <1>3, <2>3
<1>4. CASE k # 0
  <2>1. k - 1 \in Nat /\ k - 1 \notin T
    BY <1>1, <1>2, <1>4
  <2>2. PICK f : Leads(f, k - 1)
    BY <2>1
  <2> DEFINE g == [u \in D(k) |-> IF u = body THEN << >> ELSE Append(f[parent[u]], u)]
  <2> HIDE DEF T
  <2>3. ASSUME NEW u \in DOMAIN cost, cost[u] <= k - 1  PROVE g[u] = f[u]
    <3>1. u \in D(k)
      BY <1>2, <2>3, CostsAre
    <3> HIDE DEF D
    <3>2. g[u] = IF u = body THEN << >> ELSE Append(f[parent[u]], u)
      BY <3>1
    <3>3. f[u] = IF u = body THEN << >> ELSE Append(f[parent[u]], u)
      BY <2>2, <2>3, LeadsAre
    <3>q. QED  BY <3>2, <3>3
  <2>4. ASSUME NEW u \in D(k)  PROVE g[u] = IF u = body THEN << >> ELSE Append(g[parent[u]], u)
    <3>1. CASE u = body
      BY <3>1
    <3>2. CASE u # body
      <4>1. u \in DOMAIN cost /\ cost[u] <= k
        OBVIOUS
      <4>2. parent[u] \in DOMAIN cost /\ cost[parent[u]] <= k - 1
        BY <1>2, <3>2, <4>1, CostsAre
      <4>3. g[parent[u]] = f[parent[u]]
        BY <2>3, <4>2
      <4>4. g[u] = Append(f[parent[u]], u)
        BY <3>2
      <4> HIDE DEF g
      <4>q. QED  BY <3>2, <4>3, <4>4
    <3>q. QED  BY <3>1, <3>2
  <2>5. g = [u \in D(k) |-> g[u]]
    OBVIOUS
  <2> HIDE DEF g, D
  <2>6. g = [u \in D(k) |-> IF u = body THEN << >> ELSE Append(g[parent[u]], u)]
    BY <2>4, <2>5
  <2>7. Leads(g, k)
    BY <2>6 DEF Leads, D
  <2>q. QED  BY <1>2, <2>7
<1>q. QED  BY <1>3, <1>4

(* A route from the body's tile to t, from tile to tile over ground that   *)
(* is not known to be blocked.                                             *)
IsRoute(r, u) ==
  /\ r \in Seq(Tiles) /\ Len(r) = cost[u]
  /\ \A i \in 1 .. Len(r) : r[i] \notin KnownBlocked
  /\ \A i \in 1 .. Len(r) - 1 : r[i + 1] \in Neighbours(r[i])
  /\ Len(r) > 0 => r[Len(r)] = u /\ r[1] \in Neighbours(body)

LEMMA RouteIs ==
  ASSUME body \in Tiles, Searching(open, cost, parent, closed), NEW t \in open
  PROVE  /\ IsRoute(RouteTo(t), t)
         /\ t # body => cost[t] > 0
<1> DEFINE R == CHOOSE f : f = [u \in DOMAIN cost |->
                                 IF u = body THEN << >> ELSE Append(f[parent[u]], u)]
           T == {k \in Nat : \E u \in DOMAIN cost : cost[u] = k /\ ~ IsRoute(R[u], u)}
<1>1. Cardinality(closed) \in Nat /\ \A u \in DOMAIN cost : cost[u] <= Cardinality(closed)
  <2>1. closed \in SUBSET Tiles /\ cost \in [open \cup closed -> Nat]
        /\ \A u \in open \cup closed : cost[u] <= Cardinality(closed)
    BY DEF Searching, Traced
  <2>2. IsFiniteSet(closed)
    BY <2>1, TilesFinite, FS_Subset
  <2>q. QED  BY <2>1, <2>2, FS_CardinalityType
<1>2. PICK f : Leads(f, Cardinality(closed))
  BY <1>1, LeadsExist
<1>3. {v \in DOMAIN cost : cost[v] <= Cardinality(closed)} = DOMAIN cost
  BY <1>1
<1>4. f = [u \in DOMAIN cost |-> IF u = body THEN << >> ELSE Append(f[parent[u]], u)]
  BY <1>2, <1>3 DEF Leads
<1>5. R = [u \in DOMAIN cost |-> IF u = body THEN << >> ELSE Append(R[parent[u]], u)]
  BY <1>4
<1>6. RouteTo(t) = R[t]
  BY DEF RouteTo
<1> HIDE DEF R
<1>7. Leads(R, Cardinality(closed))
  BY <1>3, <1>5 DEF Leads
<1>8. \A u \in DOMAIN cost : R[u] = IF u = body THEN << >> ELSE Append(R[parent[u]], u)
  BY <1>1, <1>7, LeadsAre
<1>9. ASSUME T # {}  PROVE FALSE
  <2>1. T \subseteq Nat
    OBVIOUS
  <2>2. PICK k \in T : \A y \in T : k <= y
    BY <1>9, <2>1, LeastIn
  <2>3. PICK u \in DOMAIN cost : cost[u] = k /\ ~ IsRoute(R[u], u)
    OBVIOUS
  <2>4. CASE u = body
    <3>1. R[u] = << >> /\ cost[u] = 0
      BY <1>8, <2>4, CostsAre
    <3>2. << >> \in Seq(Tiles) /\ Len(<< >>) = 0
      OBVIOUS
    <3>3. IsRoute(R[u], u)
      BY <3>1, <3>2 DEF IsRoute
    <3>q. QED  BY <2>3, <3>3
  <2>5. CASE u # body
    <3> DEFINE p == parent[u]  r == R[p]
    <3>1. /\ p \in DOMAIN cost /\ p \in Tiles /\ cost[u] = cost[p] + 1 /\ cost[p] \in Nat
          /\ u \in Neighbours(p) /\ u \notin KnownBlocked /\ u \in Tiles
      BY <2>5, CostsAre
    <3>2. IsRoute(r, p)
      <4>1. cost[p] \notin T
        BY <2>2, <2>3, <3>1
      <4>q. QED  BY <3>1, <4>1
    <3>3. R[u] = Append(r, u)
      BY <1>8, <2>5
    <3>4. cost[p] = 0 => p = body
      <4>1. p # body => cost[p] = cost[parent[p]] + 1 /\ cost[parent[p]] \in Nat
        BY <3>1, CostsAre
      <4>q. QED  BY <4>1
    <3> HIDE DEF p, r, T
    <3> DEFINE s == Append(r, u)
    <3>5. /\ r \in Seq(Tiles) /\ Len(r) = cost[p] /\ Len(r) \in Nat
          /\ \A i \in 1 .. Len(r) : r[i] \notin KnownBlocked
          /\ \A i \in 1 .. Len(r) - 1 : r[i + 1] \in Neighbours(r[i])
          /\ Len(r) > 0 => r[Len(r)] = p /\ r[1] \in Neighbours(body)
      BY <3>2 DEF IsRoute
    <3>6. /\ s \in Seq(Tiles) /\ Len(s) = Len(r) + 1 /\ s[Len(r) + 1] = u
          /\ \A i \in 1 .. Len(r) : s[i] = r[i]
      BY <3>1, <3>5
    <3> HIDE DEF s
    <3>7. ASSUME NEW i \in 1 .. Len(s)  PROVE s[i] \notin KnownBlocked
      <4>1. CASE i = Len(r) + 1
        BY <3>1, <3>6, <4>1
      <4>2. CASE i # Len(r) + 1
        BY <3>5, <3>6, <4>2
      <4>q. QED  BY <4>1, <4>2
    <3>12. Len(s) - 1 = Len(r)
      BY <3>5, <3>6
    <3>13. ASSUME NEW i \in 1 .. Len(r)  PROVE s[i + 1] \in Neighbours(s[i])
      <4>1. CASE i = Len(r)
        <5>1. s[i + 1] = u /\ s[i] = p
          BY <3>5, <3>6, <4>1
        <5>q. QED  BY <3>1, <5>1
      <4>2. CASE i # Len(r)
        <5>1. i \in 1 .. Len(r) - 1 /\ i + 1 \in 1 .. Len(r) /\ i \in 1 .. Len(r)
          BY <3>5, <3>6, <4>2
        <5>2. s[i + 1] = r[i + 1] /\ s[i] = r[i]
          BY <3>6, <5>1
        <5>q. QED  BY <3>5, <5>1, <5>2
      <4>q. QED  BY <4>1, <4>2
    <3>8. \A i \in 1 .. Len(s) - 1 : s[i + 1] \in Neighbours(s[i])
      BY <3>12, <3>13
    <3>9. s[Len(s)] = u /\ s[1] \in Neighbours(body)
      <4>1. CASE Len(r) = 0
        BY <3>1, <3>4, <3>5, <3>6, <4>1
      <4>2. CASE Len(r) > 0
        <5>1. 1 \in 1 .. Len(r)
          BY <3>5, <4>2
        <5>2. s[1] = r[1]
          BY <3>6, <5>1
        <5>q. QED  BY <3>5, <3>6, <4>2, <5>2
      <4>q. QED  BY <3>5, <4>1, <4>2
    <3>10. Len(s) = cost[u]
      BY <3>1, <3>5, <3>6
    <3>11. IsRoute(s, u)
      BY <3>6, <3>7, <3>8, <3>9, <3>10 DEF IsRoute
    <3>q. QED  BY <2>3, <3>3, <3>11 DEF s
  <2>q. QED  BY <2>4, <2>5
<1>10. t \in DOMAIN cost
  BY DEF Searching, Traced
<1>11. IsRoute(R[t], t)
  <2>1. cost[t] \in Nat /\ cost[t] \notin T
    BY <1>9, <1>10, CostsAre
  <2>q. QED  BY <1>10, <2>1
<1>12. t # body => cost[t] > 0
  <2>1. t # body => cost[t] = cost[parent[t]] + 1 /\ cost[parent[t]] \in Nat
    BY <1>10, CostsAre
  <2>q. QED  BY <2>1
<1>q. QED  BY <1>6, <1>11, <1>12

-----------------------------------------------------------------------------
(* Looking: what is not dropped is kept or corrected, and nothing that was *)
(* just looked at is dropped.                                              *)
Fresh(st, S, o) ==
  [b \in DOMAIN st.blocks \cup Touched(o) |->
     IF b \in Touched(o)
     THEN (IF b \in DOMAIN st.blocks THEN st.blocks[b] \ Seen(o) ELSE {})
          \cup {t \in Marked(S, o) : BlockOf(t) = b}
     ELSE st.blocks[b]]

LEMMA ObservedIs ==
  ASSUME NEW st, NEW S, NEW o
  PROVE  \E D : /\ D \cap Touched(o) = {}
                /\ DOMAIN Observed(st, S, o).blocks = (DOMAIN st.blocks \cup Touched(o)) \ D
                /\ \A b \in (DOMAIN st.blocks \cup Touched(o)) \ D :
                     Observed(st, S, o).blocks[b] = Fresh(st, S, o)[b]
<1> DEFINE before(b, c) == b[1] < c[1] \/ (b[1] = c[1] /\ b[2] < c[2])
           rec == [blocks |-> Fresh(st, S, o),
                   order |-> st.order \o SetToSortSeq(Touched(o) \ DOMAIN st.blocks, before)]
           order == rec.order
           excess == Len(order) - BlockLimit
           others(k) == {j \in 1 .. k : order[j] \notin Touched(o)}
           last == CHOOSE k \in DOMAIN order :
                     order[k] \notin Touched(o) /\ Cardinality(others(k)) = excess
           dropped == {order[j] : j \in others(last)}
<1>1. Observed(st, S, o) = Evicted(rec, Touched(o))
  BY DEF Observed, Fresh
<1>2. dropped \cap Touched(o) = {}
  OBVIOUS
<1>3. Evicted(rec, Touched(o)).blocks =
        IF excess <= 0 THEN rec.blocks
        ELSE [b \in DOMAIN rec.blocks \ dropped |-> rec.blocks[b]]
  BY DEF Evicted
<1> HIDE DEF order, excess, last, dropped, others
<1>4. /\ rec.blocks = Fresh(st, S, o) /\ DOMAIN rec.blocks = DOMAIN st.blocks \cup Touched(o)
      /\ rec.blocks = [b \in (DOMAIN st.blocks \cup Touched(o)) \ {} |-> Fresh(st, S, o)[b]]
  BY DEF Fresh
<1> HIDE DEF rec
<1>5. CASE excess <= 0
  <2>1. Observed(st, S, o).blocks = Fresh(st, S, o)
    BY <1>1, <1>3, <1>4, <1>5
  <2>2. DOMAIN Fresh(st, S, o) = DOMAIN st.blocks \cup Touched(o)
    BY DEF Fresh
  <2>3. /\ {} \cap Touched(o) = {}
        /\ DOMAIN Observed(st, S, o).blocks = (DOMAIN st.blocks \cup Touched(o)) \ {}
        /\ \A b \in (DOMAIN st.blocks \cup Touched(o)) \ {} :
             Observed(st, S, o).blocks[b] = Fresh(st, S, o)[b]
    BY <2>1, <2>2
  <2>q. QED  BY <2>3, Zenon
<1>6. CASE ~ (excess <= 0)
  <2>1. Observed(st, S, o).blocks = [b \in DOMAIN rec.blocks \ dropped |-> rec.blocks[b]]
    BY <1>1, <1>3, <1>6
  <2>2. /\ DOMAIN Observed(st, S, o).blocks = (DOMAIN st.blocks \cup Touched(o)) \ dropped
        /\ \A b \in (DOMAIN st.blocks \cup Touched(o)) \ dropped :
             Observed(st, S, o).blocks[b] = Fresh(st, S, o)[b]
    BY <1>4, <2>1
  <2>q. QED  BY <1>2, <2>2
<1>q. QED  BY <1>5, <1>6

LEMMA FreshIs ==
  ASSUME NEW st, NEW S, NEW o
  PROVE  \A b \in DOMAIN st.blocks \cup Touched(o) :
           Fresh(st, S, o)[b] =
             IF b \in Touched(o)
             THEN (IF b \in DOMAIN st.blocks THEN st.blocks[b] \ Seen(o) ELSE {})
                  \cup {t \in Marked(S, o) : BlockOf(t) = b}
             ELSE st.blocks[b]
BY DEF Fresh

LEMMA SeenIs ==
  ASSUME NEW o \in Tiles
  PROVE  /\ Seen(o) \subseteq Within(o, Radius) /\ Seen(o) \subseteq Tiles
         /\ Neighbours(o) \subseteq Seen(o)
         /\ \A t \in Seen(o) : BlockOf(t) \in Touched(o)
<1>1. o[1] \in Int /\ o[2] \in Int
  BY TilesFinite, TerrainAssumption
<1>2. \A t \in Tiles : Gap(t[1], o[1]) \in Nat /\ Gap(t[2], o[2]) \in Nat
  BY <1>1, GapIs, TilesFinite, TerrainAssumption
<1>3. Radius \in Nat /\ Radius - 1 \in Nat /\ 1 <= Radius - 1
  BY TerrainAssumption
<1>4. Seen(o) \subseteq Within(o, Radius) /\ Seen(o) \subseteq Tiles
  BY <1>2, <1>3 DEF Seen, Within
<1>5. ASSUME NEW t \in Neighbours(o)  PROVE t \in Seen(o)
  <2>1. t \in Tiles /\ Gap(t[1], o[1]) <= 1 /\ Gap(t[2], o[2]) <= 1
    BY NeighboursAre
  <2>q. QED  BY <1>2, <1>3, <2>1 DEF Seen, Within
<1>q. QED  BY <1>4, <1>5 DEF Touched

LEMMA LookIs ==
  ASSUME body \in Tiles, solid \subseteq Tiles, StoreOK, Look
  PROVE  /\ StoreOK'
         /\ forgot \in BOOLEAN => forgot' \in BOOLEAN
         /\ forgot => forgot'
         /\ KnownBlocked \subseteq solid => KnownBlocked' \subseteq solid
         /\ KnownBlocked \subseteq solid /\ ~ forgot' => KnownBlocked \subseteq KnownBlocked'
         /\ \A t \in Neighbours(body) \cap solid : t \in KnownBlocked'
<1> DEFINE F == Fresh(store, solid, body)  Z == Touched(body)
<1>1. PICK D : /\ D \cap Z = {}
               /\ DOMAIN Observed(store, solid, body).blocks = (DOMAIN store.blocks \cup Z) \ D
               /\ \A b \in (DOMAIN store.blocks \cup Z) \ D :
                    Observed(store, solid, body).blocks[b] = F[b]
  BY ObservedIs
<1>2. /\ DOMAIN store'.blocks = (DOMAIN store.blocks \cup Z) \ D
      /\ \A b \in (DOMAIN store.blocks \cup Z) \ D : store'.blocks[b] = F[b]
  BY <1>1 DEF Look
<1>3. \A b \in DOMAIN store.blocks \cup Z :
        F[b] = IF b \in Z
               THEN (IF b \in DOMAIN store.blocks THEN store.blocks[b] \ Seen(body) ELSE {})
                    \cup {t \in Marked(solid, body) : BlockOf(t) = b}
               ELSE store.blocks[b]
  BY FreshIs
<1>4. \A t : t \in Marked(solid, body) <=>
               t \in solid /\ t \in Within(body, Radius) /\ BlockOf(t) \in Z
  BY DEF Marked
<1> HIDE DEF F, Z
<1>5. ASSUME NEW b \in DOMAIN store'.blocks, NEW t \in store'.blocks[b]
      PROVE  \/ b \in DOMAIN store.blocks /\ t \in store.blocks[b]
             \/ t \in solid /\ BlockOf(t) = b
  <2>1. b \in DOMAIN store.blocks \cup Z /\ t \in F[b]
    BY <1>2
  <2>q. QED  BY <1>3, <1>4, <2>1
<1>6. StoreOK'
  <2>1. ASSUME NEW b \in DOMAIN store'.blocks, NEW t \in store'.blocks[b]
        PROVE  t \in Tiles /\ BlockOf(t) = b
    BY <1>5, <2>1 DEF StoreOK
  <2>q. QED  BY <2>1 DEF StoreOK
<1>7. forgot' = (forgot \/ ~ (DOMAIN store.blocks \subseteq DOMAIN store'.blocks))
  BY DEF Look
<1>8. ASSUME KnownBlocked \subseteq solid  PROVE KnownBlocked' \subseteq solid
  <2>1. ASSUME NEW b \in DOMAIN store'.blocks, NEW t \in store'.blocks[b]  PROVE t \in solid
    BY <1>5, <1>8, <2>1 DEF KnownBlocked
  <2>q. QED  BY <2>1 DEF KnownBlocked
<1>9. ASSUME NEW t \in solid, t \in Within(body, Radius), BlockOf(t) \in Z
      PROVE  t \in KnownBlocked'
  <2>1. t \in Marked(solid, body) /\ BlockOf(t) \in DOMAIN store'.blocks
    BY <1>1, <1>2, <1>4, <1>9
  <2>2. t \in F[BlockOf(t)]
    BY <1>3, <1>9, <2>1
  <2>3. t \in store'.blocks[BlockOf(t)]
    BY <1>2, <2>1, <2>2
  <2>q. QED  BY <2>1, <2>3 DEF KnownBlocked
<1>10. ASSUME KnownBlocked \subseteq solid, ~ forgot'  PROVE KnownBlocked \subseteq KnownBlocked'
  <2>1. ASSUME NEW b \in DOMAIN store.blocks, NEW t \in store.blocks[b]
        PROVE  t \in KnownBlocked'
    <3>1. t \in solid /\ t \in Tiles /\ BlockOf(t) = b
      BY <1>10, <2>1 DEF KnownBlocked, StoreOK
    <3>2. b \in DOMAIN store'.blocks
      BY <1>7, <1>10
    <3>3. CASE b \in Z /\ t \in Seen(body)
      BY <1>9, <3>1, <3>3, SeenIs
    <3>4. CASE b \notin Z \/ t \notin Seen(body)
      <4>1. t \in F[b]
        BY <1>3, <2>1, <3>4
      <4>2. t \in store'.blocks[b]
        BY <1>2, <3>2, <4>1
      <4>q. QED  BY <3>2, <4>2 DEF KnownBlocked
    <3>q. QED  BY <3>3, <3>4
  <2>q. QED  BY <2>1 DEF KnownBlocked
<1>11. ASSUME NEW t \in Neighbours(body) \cap solid  PROVE t \in KnownBlocked'
  <2>1. t \in Within(body, Radius) /\ BlockOf(t) \in Z
    BY SeenIs DEF Z
  <2>q. QED  BY <1>9, <2>1
<1>12. (forgot \in BOOLEAN => forgot' \in BOOLEAN) /\ (forgot => forgot')
  BY <1>7
<1>q. QED  BY <1>6, <1>8, <1>10, <1>11, <1>12

-----------------------------------------------------------------------------
(* The steps of the walk.                                                  *)
LEMMA GoalStays ==
  ASSUME UNCHANGED goal
  PROVE  /\ \A t : IsGoal(t)' = IsGoal(t)
         /\ \A r : Routed(r)' = Routed(r)
<1>1. \A t : IsGoal(t)' = IsGoal(t)
  BY DEF IsGoal, PlanRadius
<1>q. QED  BY <1>1 DEF Routed

LEMMA StoreStays ==
  ASSUME UNCHANGED store, StoreOK
  PROVE  StoreOK'
BY DEF StoreOK

LEMMA NoWalkIs == NoWalk \in Walks /\ NoWalk.status = "none"
<1>1. << >> \in Seq(Tiles)
  OBVIOUS
<1>q. QED  BY <1>1 DEF NoWalk, Walks, Reasons

LEMMA EndsOK ==
  ASSUME NEW w \in Walks, NEW s, NEW r, Ends(w, s, r),
         s \in {"completed", "failed", "rejected"}, r \in Reasons
  PROVE  /\ walk' \in Walks /\ turn' = "engine" /\ walk'.status = s /\ walk'.reason = r
         /\ walk'.limit = w.limit /\ walk'.replans = w.replans
         /\ WalkInv'
<1>1. turn' = "engine" /\ walk' = [w EXCEPT !.status = s, !.reason = r]
  BY DEF Ends
<1>2. walk' \in Walks /\ walk'.status = s /\ walk'.reason = r
      /\ walk'.limit = w.limit /\ walk'.replans = w.replans
  BY <1>1 DEF Walks
<1>3. WalkInv'
  BY <1>1, <1>2 DEF WalkInv, Running
<1>q. QED  BY <1>1, <1>2, <1>3

LEMMA Idle ==
  ASSUME SearchInv, turn # "search", UNCHANGED search
  PROVE  Unsearched /\ SearchInv'
<1>1. Unsearched
  BY DEF SearchInv
<1>q. QED  BY <1>1 DEF SearchInv, Unsearched, search

LEMMA InitOK ==
  ASSUME Init
  PROVE  IInv
<1>1. /\ solid \subseteq Tiles /\ body \in Tiles /\ goal \in Goals /\ present = TRUE
      /\ store = NoTerrain /\ Unsearched
      /\ turn = "engine" /\ walk = NoWalk /\ changes = 0 /\ forgot = FALSE
  BY NavigationAssumption DEF Init
<1>2. StoreOK
  <2>1. DOMAIN store.blocks = {}
    BY <1>1 DEF NoTerrain
  <2>q. QED  BY <2>1 DEF StoreOK
<1>3. WalkInv
  BY <1>1, NoWalkIs DEF WalkInv, Running
<1>q. QED  BY <1>1, <1>2, <1>3, NoWalkIs DEF IInv, Typed, SearchInv

LEMMA NavigateOK ==
  ASSUME IInv, Navigate
  PROVE  IInv'
<1>1. Typed /\ SearchInv /\ WalkInv
  BY DEF IInv
<1>2. /\ turn = "engine" /\ goal' \in Goals /\ Look /\ UNCHANGED <<search, body, solid, present, changes>>
      /\ body \in Tiles /\ solid \subseteq Tiles /\ StoreOK /\ forgot \in BOOLEAN
      /\ present \in BOOLEAN /\ changes \in Nat
  BY <1>1 DEF Navigate, Typed
<1>3. StoreOK' /\ forgot' \in BOOLEAN
  BY <1>2, LookIs
<1>4. SearchInv'
  BY <1>1, <1>2, Idle
<1>5. CASE There(goal')
  <2>1. Ends(NoWalk, "completed", "none")
    BY <1>5 DEF Navigate
  <2>2. walk' \in Walks /\ turn' = "engine" /\ WalkInv'
    BY <2>1, NoWalkIs, EndsOK DEF Reasons
  <2>q. QED  BY <1>2, <1>3, <1>4, <2>2 DEF IInv, Typed
<1>6. CASE ~ There(goal')
  <2>1. PICK n \in Limits : walk' = [NoWalk EXCEPT !.limit = n, !.why = "request"]
    BY <1>6 DEF Navigate
  <2>2. turn' = "search"
    BY <1>6 DEF Navigate
  <2>3. walk' \in Walks /\ walk'.status = "none" /\ walk'.why = "request"
    BY <2>1, NoWalkIs, NavigationAssumption DEF Walks
  <2>4. ~ Arrived'
    BY <1>2, <1>6 DEF Arrived, There
  <2>5. WalkInv'
    BY <2>2, <2>3, <2>4 DEF WalkInv, Running
  <2>q. QED  BY <1>2, <1>3, <1>4, <2>2, <2>3, <2>5 DEF IInv, Typed
<1>q. QED  BY <1>5, <1>6

(* What an action of the poller leaves alone.                              *)
LEMMA PollingOK ==
  ASSUME IInv, Polling, turn # "search", Look \/ Unseeing, WalkInv', walk' \in Walks,
         turn' \in {"engine", "poll", "steer", "search"}
  PROVE  IInv'
<1>1. Typed /\ SearchInv
  BY DEF IInv
<1>2. StoreOK' /\ forgot' \in BOOLEAN
  <2>1. body \in Tiles /\ solid \subseteq Tiles /\ StoreOK /\ forgot \in BOOLEAN
    BY <1>1 DEF Typed
  <2>2. CASE Look
    BY <2>1, <2>2, LookIs
  <2>3. CASE Unseeing
    BY <2>1, <2>3, StoreStays DEF Unseeing
  <2>q. QED  BY <2>2, <2>3
<1>3. SearchInv'
  BY <1>1, Idle DEF Polling
<1>q. QED  BY <1>1, <1>2, <1>3 DEF IInv, Typed, Polling

(* Where a route is walked on, it is the same route.                       *)
LEMMA RoutedStays ==
  ASSUME UNCHANGED goal, Routed(walk.route), walk'.route = walk.route
  PROVE  Routed(walk.route)'
BY GoalStays DEF Routed

LEMMA WalkIs ==
  ASSUME IInv, Running, turn # "search"
  PROVE  /\ walk \in Walks /\ walk.route \in Seq(Tiles) /\ Routed(walk.route) /\ OnRoute
         /\ walk.index \in 1 .. Len(walk.route) /\ Ahead \in Tiles /\ body \in Tiles
         /\ Len(walk.route) \in Nat
<1>1. walk \in Walks /\ Routed(walk.route) /\ OnRoute /\ body \in Tiles
  BY DEF IInv, Typed, WalkInv
<1>2. walk.route \in Seq(Tiles) /\ walk.index \in 1 .. Len(walk.route)
  BY <1>1 DEF Walks, OnRoute
<1>3. Ahead \in Tiles
  BY <1>2 DEF Ahead
<1>q. QED  BY <1>1, <1>2, <1>3

LEMMA TickOK ==
  ASSUME IInv, Tick
  PROVE  IInv'
<1>1. /\ turn = "engine" /\ Running /\ turn' = "poll"
      /\ body' = IF Ahead \in solid THEN body ELSE Ahead
      /\ walk' = [walk EXCEPT !.stall = IF body' = body THEN @ + 1 ELSE 0,
                              !.since = @ + 1, !.elapsed = @ + 1]
      /\ Unseeing /\ UNCHANGED <<search, goal, solid, present, changes, walks>>
  BY DEF Tick
<1>2. /\ walk \in Walks /\ walk.route \in Seq(Tiles) /\ Routed(walk.route) /\ OnRoute
      /\ walk.index \in 1 .. Len(walk.route) /\ Ahead \in Tiles /\ body \in Tiles
  BY <1>1, WalkIs
<1>3. /\ walk' \in Walks /\ walk'.route = walk.route /\ walk'.index = walk.index
      /\ walk'.status = "running" /\ walk'.stall = IF body' = body THEN walk.stall + 1 ELSE 0
  <2> DEFINE z == IF body' = body THEN walk.stall + 1 ELSE 0
             v == walk.since + 1
             e == walk.elapsed + 1
  <2>1. walk' = [walk EXCEPT !.stall = z, !.since = v, !.elapsed = e]
    BY <1>1
  <2>2. walk.stall \in Nat /\ walk.since \in Nat /\ walk.elapsed \in Nat /\ walk.status = "running"
    BY <1>1, <1>2 DEF Walks, Running
  <2>3. z \in Nat /\ v \in Nat /\ e \in Nat
    BY <2>2
  <2> HIDE DEF z, v, e
  <2>4. /\ walk' \in Walks /\ walk'.route = walk.route /\ walk'.index = walk.index
        /\ walk'.status = walk.status /\ walk'.stall = z
    BY <1>2, <2>1, <2>3 DEF Walks
  <2>q. QED  BY <2>2, <2>4 DEF z
<1>4. Ahead' = Ahead /\ body \in Neighbours(Ahead) /\ body # Ahead
  BY <1>1, <1>2, <1>3, NeighboursAre DEF OnRoute, Ahead
<1>5. OnRoute'
  <2>1. CASE Ahead \in solid
    <3>1. body' \in Neighbours(Ahead)
      BY <1>1, <1>4, <2>1
    <3>2. (body \in Neighbours(Ahead))'
      BY <1>4, <3>1 DEF Neighbours
    <3>q. QED  BY <1>1, <1>2, <1>3, <3>2 DEF OnRoute
  <2>2. CASE Ahead \notin solid
    <3>1. (body = Ahead)' /\ walk'.stall = 0
      BY <1>1, <1>3, <1>4, <2>2
    <3>q. QED  BY <1>1, <1>2, <1>3, <3>1 DEF OnRoute
  <2>q. QED  BY <2>1, <2>2
<1>6. WalkInv'
  <2>1. Routed(walk.route)'
    BY <1>1, <1>2, <1>3, RoutedStays
  <2>q. QED  BY <1>1, <1>3, <1>5, <2>1 DEF WalkInv, Running
<1>7. SearchInv'
  BY <1>1, Idle DEF IInv
<1>8. Typed'
  <2>1. StoreOK' /\ forgot' = forgot
    BY <1>1, StoreStays DEF IInv, Typed, Unseeing
  <2>q. QED  BY <1>1, <1>2, <1>3, <2>1 DEF IInv, Typed
<1>q. QED  BY <1>6, <1>7, <1>8 DEF IInv

LEMMA StopsOK ==
  ASSUME IInv, Arrives \/ TimesOut \/ TargetGone
  PROVE  IInv'
<1>1. PICK s \in {"completed", "failed"}, r \in Reasons : Ends(walk, s, r)
  BY DEF Arrives, TimesOut, TargetGone, Reasons
<1>2. walk \in Walks /\ Polling /\ Unseeing /\ turn # "search"
  BY DEF IInv, Typed, Arrives, TimesOut, TargetGone
<1>3. walk' \in Walks /\ turn' = "engine" /\ WalkInv'
  BY <1>1, <1>2, EndsOK
<1>q. QED  BY <1>2, <1>3, PollingOK

(* The walk goes on where it is.                                           *)
LEMMA GoesOnOK ==
  ASSUME IInv, GoesOn, Polling, turn' = "steer",
         walk' = walk \/ walk' = [walk EXCEPT !.since = 0]
  PROVE  WalkInv' /\ walk' \in Walks
<1>1. turn = "poll" /\ ~ Arrived /\ Running /\ UNCHANGED <<body, goal>>
  BY DEF GoesOn, Polling, IInv, WalkInv
<1>2. /\ walk \in Walks /\ Routed(walk.route) /\ OnRoute
      /\ walk.index \in 1 .. Len(walk.route)
  BY <1>1, WalkIs
<1>3. /\ walk' \in Walks /\ walk'.route = walk.route /\ walk'.index = walk.index
      /\ walk'.status = walk.status /\ walk'.stall = walk.stall
  BY <1>2 DEF Walks
<1>4. Arrived' = Arrived
  BY <1>1 DEF Arrived, There
<1>5. Ahead' = Ahead
  BY <1>3 DEF Ahead
<1>6. OnRoute'
  BY <1>1, <1>2, <1>3, <1>4, <1>5 DEF OnRoute, Neighbours
<1>7. Routed(walk.route)'
  BY <1>1, <1>2, <1>3, RoutedStays
<1>q. QED  BY <1>1, <1>3, <1>4, <1>6, <1>7 DEF WalkInv, Running

LEMMA WalksOnOK ==
  ASSUME IInv, WalksOn
  PROVE  IInv'
<1>1. GoesOn /\ Polling /\ turn' = "steer" /\ walk' = walk /\ Unseeing /\ turn = "poll"
  BY DEF WalksOn, GoesOn
<1>2. WalkInv' /\ walk' \in Walks
  BY <1>1, GoesOnOK
<1>q. QED  BY <1>1, <1>2, PollingOK

(* A route is planned again, or the replans are spent.                     *)
LEMMA ReplansOK ==
  ASSUME IInv, Running, turn \in {"poll", "steer"}, ~ Arrived, Polling,
         NEW w, w = [walk EXCEPT !.since = 0],
         NEW why \in {"look", "bump"}, NEW r \in Reasons, Replans(w, why, r)
  PROVE  /\ WalkInv' /\ walk' \in Walks /\ turn' \in {"engine", "search"}
         /\ \/ /\ turn' = "engine" /\ walk.replans >= walk.limit
               /\ walk'.status = "failed" /\ walk'.limit = walk.limit
            \/ turn' = "search" /\ walk'.replans = walk.replans + 1 /\ walk'.status = "running"
<1>1. walk \in Walks /\ UNCHANGED <<body, goal>>
  BY DEF IInv, Typed, Polling
<1>2. /\ w \in Walks /\ w.replans = walk.replans /\ w.limit = walk.limit /\ w.route = walk.route
      /\ w.status = walk.status
  BY <1>1 DEF Walks
<1>3. CASE w.replans >= w.limit
  <2>1. Ends(w, "failed", r)
    BY <1>3 DEF Replans
  <2>q. QED  BY <1>2, <1>3, <2>1, EndsOK
<1>4. CASE ~ (w.replans >= w.limit)
  <2>1. turn' = "search" /\ walk' = [w EXCEPT !.replans = @ + 1, !.why = why]
    BY <1>4 DEF Replans
  <2>2. /\ walk' \in Walks /\ walk'.route = walk.route /\ walk'.why = why
        /\ walk'.status = walk.status /\ walk'.replans = walk.replans + 1
    <3> DEFINE z == w.replans + 1
    <3>1. z \in Nat /\ walk' = [w EXCEPT !.replans = z, !.why = why]
      BY <1>2, <2>1 DEF Walks
    <3> HIDE DEF z
    <3>2. /\ walk' \in Walks /\ walk'.route = w.route /\ walk'.why = why
          /\ walk'.status = w.status /\ walk'.replans = z
      BY <1>2, <3>1 DEF Walks
    <3>q. QED  BY <1>2, <3>2 DEF z
  <2>3. ~ Arrived' /\ Running'
    BY <1>1, <2>2 DEF Arrived, There, Running
  <2>4. Routed(walk.route)'
    BY <1>1, <2>2, RoutedStays DEF IInv, WalkInv
  <2>5. WalkInv'
    BY <2>1, <2>2, <2>3, <2>4 DEF WalkInv, Running
  <2>q. QED  BY <2>1, <2>2, <2>3, <2>5 DEF Running
<1>q. QED  BY <1>3, <1>4

LEMMA LooksAheadOK ==
  ASSUME IInv, LooksAhead
  PROVE  IInv'
<1>1. GoesOn /\ Look /\ Polling /\ turn = "poll" /\ Running /\ ~ Arrived
  BY DEF LooksAhead, GoesOn, IInv, WalkInv
<1> DEFINE w == [walk EXCEPT !.since = 0]
<1>2. CASE RouteBlocked(store')
  <2>1. Replans(w, "look", "replan_limit")
    BY <1>2 DEF LooksAhead
  <2> HIDE DEF w
  <2>2. WalkInv' /\ walk' \in Walks /\ turn' \in {"engine", "search"}
    BY <1>1, <2>1, ReplansOK DEF Reasons, w
  <2>q. QED  BY <1>1, <2>2, PollingOK
<1>3. CASE ~ RouteBlocked(store')
  <2>1. turn' = "steer" /\ walk' = w
    BY <1>3 DEF LooksAhead
  <2>2. WalkInv' /\ walk' \in Walks
    BY <1>1, <2>1, GoesOnOK
  <2>q. QED  BY <1>1, <2>1, <2>2, PollingOK
<1>q. QED  BY <1>2, <1>3

LEMMA BumpsOK ==
  ASSUME IInv, Bumps
  PROVE  IInv'
<1>1. turn = "steer" /\ Look /\ Polling /\ Replans([walk EXCEPT !.since = 0], "bump", "blocked")
  BY DEF Bumps, Onward
<1>2. Running
  BY <1>1 DEF IInv, WalkInv
<1>3. ~ Arrived
  BY <1>1, <1>2 DEF IInv, WalkInv, OnRoute
<1>4. WalkInv' /\ walk' \in Walks /\ turn' \in {"engine", "search"}
  BY <1>1, <1>2, <1>3, ReplansOK DEF Reasons
<1>q. QED  BY <1>1, <1>4, PollingOK

(* A goal is farther than the body's tile: the radius of the plan is less  *)
(* than that of the arrival.                                               *)
LEMMA NearerIs ==
  ASSUME GoalOK, NEW t \in Tiles, IsGoal(t)
  PROVE  Near(goal, t, goal.radius)
<1> DEFINE dx == Outside(Middle(t[1]), goal.box[1], goal.box[3])
           dy == Outside(Middle(t[2]), goal.box[2], goal.box[4])
<1>1. goal.radius \in Nat /\ goal.radius >= 8 /\ PlanRadius = goal.radius - 2
  BY GoalIs DEF PlanRadius, Tile
<1>2. dx \in Int /\ dy \in Int
  <2>1. Middle(t[1]) \in Int /\ Middle(t[2]) \in Int
    BY TilesFinite, TerrainAssumption DEF Middle, Tile
  <2>2. goal.box[1] \in Int /\ goal.box[2] \in Int /\ goal.box[3] \in Int /\ goal.box[4] \in Int
    BY GoalIs
  <2>q. QED  BY <2>1, <2>2 DEF Outside
<1>3. dx * dx + dy * dy <= PlanRadius * PlanRadius
  BY DEF IsGoal, Near
<1> HIDE DEF dx, dy
<1>4. \A r \in Nat : r >= 8 => (r - 2) * (r - 2) <= r * r
  OBVIOUS
<1>5. dx * dx + dy * dy \in Int
  BY <1>2
<1>6. dx * dx + dy * dy <= goal.radius * goal.radius
  <2>1. PlanRadius * PlanRadius <= goal.radius * goal.radius
    BY <1>1, <1>4
  <2>2. PlanRadius * PlanRadius \in Int /\ goal.radius * goal.radius \in Int
    BY <1>1
  <2> DEFINE a == dx * dx + dy * dy  b == PlanRadius * PlanRadius  c == goal.radius * goal.radius
  <2>3. a \in Int /\ b \in Int /\ c \in Int /\ a <= b /\ b <= c
    BY <1>3, <1>5, <2>1, <2>2
  <2> HIDE DEF a, b, c
  <2>4. a <= c
    BY <2>3
  <2>q. QED  BY <2>4 DEF a, c
<1>q. QED  BY <1>6 DEF Near, dx, dy

LEMMA SteersOK ==
  ASSUME IInv, Steers
  PROVE  IInv'
<1>1. /\ turn = "steer" /\ turn' = "engine" /\ walk' = [walk EXCEPT !.index = Passed]
      /\ Unseeing /\ Polling /\ UNCHANGED <<body, goal>>
  BY DEF Steers, Onward, Polling
<1>2. Running
  BY <1>1 DEF IInv, WalkInv
<1>3. /\ walk \in Walks /\ walk.route \in Seq(Tiles) /\ Routed(walk.route) /\ OnRoute
      /\ walk.index \in 1 .. Len(walk.route) /\ Ahead \in Tiles /\ body \in Tiles
      /\ Len(walk.route) \in Nat
  BY <1>1, <1>2, WalkIs
<1>4. ~ Arrived /\ (body \in Neighbours(Ahead) \/ body = Ahead)
  BY <1>1, <1>3 DEF OnRoute
<1>5. body = Ahead => walk.index < Len(walk.route)
  <2>1. ASSUME body = Ahead, walk.index = Len(walk.route)  PROVE FALSE
    <3>1. IsGoal(body)
      BY <1>3, <2>1 DEF Routed, Ahead
    <3>2. Near(goal, body, goal.radius)
      BY <1>3, <3>1, NearerIs DEF IInv, Typed, GoalOK
    <3>q. QED  BY <1>4, <3>2 DEF Arrived, There
  <2>q. QED  BY <1>3, <2>1
<1>6. Passed \in 1 .. Len(walk.route) /\ body \in Neighbours(walk.route[Passed])
  <2>1. CASE body = Ahead
    <3>1. Passed = walk.index + 1 /\ walk.index \in 1 .. Len(walk.route) - 1
          /\ walk.index + 1 \in 1 .. Len(walk.route)
      BY <1>3, <1>5, <2>1 DEF Passed
    <3>2. walk.route[Passed] \in Neighbours(Ahead)
      BY <1>3, <3>1 DEF Routed, Ahead
    <3>q. QED  BY <1>3, <2>1, <3>1, <3>2, NeighboursAre
  <2>2. CASE body # Ahead
    <3>1. Passed = walk.index
      BY <2>2 DEF Passed
    <3>q. QED  BY <1>3, <1>4, <2>2, <3>1 DEF Ahead
  <2>q. QED  BY <2>1, <2>2
<1>7. Passed \in Nat
  BY <1>3, <1>6
<1>8. /\ walk' \in Walks /\ walk'.route = walk.route /\ walk'.index = Passed
      /\ walk'.status = walk.status
  BY <1>1, <1>3, <1>7 DEF Walks
<1>9. OnRoute'
  BY <1>1, <1>6, <1>8 DEF OnRoute, Ahead, Neighbours
<1>10. Routed(walk.route)'
  BY <1>1, <1>3, <1>8, RoutedStays
<1>11. WalkInv'
  BY <1>1, <1>9, <1>10 DEF WalkInv
<1>q. QED  BY <1>1, <1>8, <1>11, PollingOK

(* The steps of the search, and what the world and the observer do.        *)
LEMMA SearchesOK ==
  ASSUME IInv, Searches
  PROVE  IInv'
<1>1. turn = "search" /\ turn' = turn /\ walk' = walk /\ Standing
  BY DEF Searches
<1>2. UNCHANGED <<store, body, goal>> /\ UNCHANGED <<solid, present, changes, forgot>>
  BY <1>1 DEF Standing
<1>3. body \in Tiles /\ GoalOK /\ StoreOK /\ Typed /\ SearchInv /\ WalkInv
  BY DEF IInv, Typed, GoalOK
<1>4. Searching(open', cost', parent', closed')
  <2>1. CASE SearchBegins
    BY <1>3, <2>1, SearchBeginsOK
  <2>2. CASE Expand
    <3>1. Searching(open, cost, parent, closed)
      BY <1>3, <2>2 DEF SearchInv, Unsearched, Expand
    <3>q. QED  BY <1>3, <2>2, <3>1, ExpandOK
  <2>q. QED  BY <2>1, <2>2 DEF Searches
<1>5. SearchInv'
  BY <1>1, <1>2, <1>4, SearchingStays DEF SearchInv
<1>6. Typed'
  BY <1>1, <1>2, <1>3, StoreStays DEF Typed
<1>7. WalkInv'
  <2>1. Arrived' = Arrived
    BY <1>2 DEF Arrived, There
  <2>2. Routed(walk.route)' <=> Routed(walk.route)
    BY <1>1, <1>2, GoalStays DEF Routed
  <2>q. QED  BY <1>1, <1>3, <2>1, <2>2 DEF WalkInv, Running
<1>q. QED  BY <1>5, <1>6, <1>7 DEF IInv

(* What a search that found a goal hands to the walk.                      *)
LEMMA PlanIs ==
  ASSUME IInv, NEW t \in Found
  PROVE  /\ turn = "search" /\ ~ Arrived /\ t \in Tiles /\ t \in open
         /\ Searching(open, cost, parent, closed)
         /\ RouteTo(t) \in Seq(Tiles) /\ Routed(RouteTo(t)) /\ Len(RouteTo(t)) \in Nat
         /\ body \in Neighbours(RouteTo(t)[1])
         /\ \A i \in 1 .. Len(RouteTo(t)) : RouteTo(t)[i] \notin KnownBlocked
<1>1. t \in Tiles /\ turn = "search" /\ IsGoal(t) /\ t \in open /\ body \in Tiles /\ GoalOK
  BY DEF Found, FoundAt, First, IInv, Typed, GoalOK
<1>2. Searching(open, cost, parent, closed) /\ ~ Arrived
  BY <1>1 DEF IInv, SearchInv, Unsearched, WalkInv
<1>3. t # body
  <2>1. ASSUME t = body  PROVE FALSE
    <3>1. Near(goal, body, goal.radius)
      BY <1>1, <2>1, NearerIs
    <3>q. QED  BY <1>2, <3>1 DEF Arrived, There
  <2>q. QED  BY <2>1
<1> DEFINE r == RouteTo(t)
<1>4. IsRoute(r, t) /\ cost[t] > 0
  BY <1>1, <1>2, <1>3, RouteIs
<1> HIDE DEF r
<1>5. /\ r \in Seq(Tiles) /\ Len(r) \in Nat /\ Len(r) > 0
      /\ \A i \in 1 .. Len(r) : r[i] \notin KnownBlocked
      /\ \A i \in 1 .. Len(r) - 1 : r[i + 1] \in Neighbours(r[i])
      /\ r[Len(r)] = t /\ r[1] \in Neighbours(body)
  BY <1>4 DEF IsRoute
<1>6. Routed(r)
  BY <1>1, <1>5 DEF Routed
<1>7. body \in Neighbours(r[1])
  BY <1>1, <1>5, NeighboursAre
<1>q. QED  BY <1>1, <1>2, <1>5, <1>6, <1>7 DEF r

LEMMA PlansOK ==
  ASSUME IInv, Plans
  PROVE  IInv'
<1>1. PICK t \in Found :
        /\ walk' = [walk EXCEPT !.status = "running", !.route = RouteTo(t), !.index = 1,
                                !.stall = 0, !.why = "none"]
        /\ turn' = IF walk.why = "look" THEN "steer" ELSE "engine"
        /\ SearchEnds /\ Standing
  BY DEF Plans
<1> DEFINE r == RouteTo(t)
<1>2. /\ turn = "search" /\ ~ Arrived /\ r \in Seq(Tiles) /\ Routed(r) /\ Len(r) \in Nat
      /\ body \in Neighbours(r[1])
  BY PlanIs
<1> HIDE DEF r
<1>3. UNCHANGED <<store, body, goal, solid, present, changes, forgot, walks>>
  BY <1>1 DEF Standing
<1>4. /\ walk' \in Walks /\ walk'.status = "running" /\ walk'.route = r /\ walk'.index = 1
      /\ walk'.stall = 0
  <2>1. walk \in Walks
    BY DEF IInv, Typed
  <2>2. walk' = [walk EXCEPT !.status = "running", !.route = r, !.index = 1, !.stall = 0,
                             !.why = "none"]
    BY <1>1 DEF r
  <2>q. QED  BY <1>2, <2>1, <2>2 DEF Walks
<1>5. turn' \in {"steer", "engine"}
  BY <1>1
<1>6. SearchInv'
  BY <1>1 DEF SearchInv, Unsearched, SearchEnds
<1>7. Typed'
  BY <1>3, <1>4, <1>5, StoreStays DEF IInv, Typed
<1>8. Routed(walk.route)'
  BY <1>2, <1>3, <1>4, GoalStays DEF Routed
<1>9. OnRoute'
  <2>1. ~ Arrived'
    BY <1>2, <1>3 DEF Arrived, There
  <2>2. 1 \in 1 .. Len(r)
    BY <1>2 DEF Routed
  <2>3. Ahead' = r[1]
    BY <1>4 DEF Ahead
  <2>q. QED  BY <1>2, <1>3, <1>4, <2>1, <2>2, <2>3 DEF OnRoute, Neighbours
<1>10. WalkInv'
  BY <1>4, <1>5, <1>8, <1>9 DEF WalkInv, Running
<1>q. QED  BY <1>6, <1>7, <1>10 DEF IInv

LEMMA PlanFailsOK ==
  ASSUME IInv, PlanFails
  PROVE  IInv'
<1>1. turn = "search" /\ SearchEnds /\ Standing /\ walk.why \in {"request", "look", "bump"}
      /\ walk \in Walks
  BY DEF PlanFails, IInv, WalkInv, Typed
<1>2. PICK s \in {"failed", "rejected"}, r \in Reasons : Ends(walk, s, r)
  <2>1. Failure \in Reasons
    BY DEF Failure, Reasons
  <2>2. CASE walk.why = "request"
    BY <2>1, <2>2 DEF PlanFails
  <2>3. CASE walk.why = "look"
    BY <2>1, <2>3 DEF PlanFails
  <2>4. CASE walk.why = "bump"
    BY <2>4 DEF PlanFails, Reasons
  <2>q. QED  BY <1>1, <2>2, <2>3, <2>4
<1>3. walk' \in Walks /\ turn' = "engine" /\ WalkInv'
  BY <1>1, <1>2, EndsOK
<1>4. SearchInv'
  BY <1>1 DEF SearchInv, Unsearched, SearchEnds
<1>5. Typed'
  BY <1>1, <1>3, StoreStays DEF IInv, Typed, Standing
<1>q. QED  BY <1>3, <1>4, <1>5 DEF IInv

LEMMA ObservesOK ==
  ASSUME IInv, Observes
  PROVE  IInv'
<1>1. /\ turn = "engine" /\ Look
      /\ UNCHANGED <<search, body, goal, solid, present, turn, walk, changes, walks>>
  BY DEF Observes
<1>2. Typed /\ SearchInv /\ WalkInv
  BY DEF IInv
<1>3. StoreOK' /\ forgot' \in BOOLEAN
  BY <1>1, <1>2, LookIs DEF Typed
<1>4. Typed'
  BY <1>1, <1>2, <1>3 DEF Typed
<1>5. SearchInv'
  BY <1>1, <1>2, Idle
<1>6. WalkInv'
  <2>1. (Running => Routed(walk.route))'
    BY <1>1, <1>2, GoalStays DEF WalkInv, Running, Routed
  <2>2. (Running => OnRoute)'
    BY <1>1, <1>2 DEF WalkInv, Running, OnRoute, Ahead, Neighbours
  <2>q. QED  BY <1>1, <2>1, <2>2 DEF WalkInv
<1>q. QED  BY <1>4, <1>5, <1>6 DEF IInv

LEMMA ChangeOK ==
  ASSUME IInv, Change
  PROVE  IInv'
<1>1. /\ turn = "engine" /\ changes' = changes + 1 /\ Unseeing
      /\ UNCHANGED <<search, body, goal, turn, walk, walks>>
  BY DEF Change
<1>2. Typed /\ SearchInv /\ WalkInv
  BY DEF IInv
<1>3. solid' \subseteq Tiles /\ present' \in BOOLEAN
  BY <1>2 DEF Change, Typed
<1>4. Typed'
  BY <1>1, <1>2, <1>3, StoreStays DEF Typed, Unseeing
<1>5. SearchInv'
  BY <1>1, <1>2, Idle
<1>6. WalkInv'
  <2>1. (Running => Routed(walk.route))'
    BY <1>1, <1>2, GoalStays DEF WalkInv, Running, Routed
  <2>2. (Running => OnRoute)'
    BY <1>1, <1>2 DEF WalkInv, Running, OnRoute, Ahead, Neighbours
  <2>q. QED  BY <1>1, <2>1, <2>2 DEF WalkInv
<1>q. QED  BY <1>4, <1>5, <1>6 DEF IInv

LEMMA StutterOK ==
  ASSUME IInv, UNCHANGED vars
  PROVE  IInv'
<1>1. /\ UNCHANGED <<store, body, goal, open, cost, parent, closed>>
      /\ UNCHANGED <<solid, present, turn, walk, changes, forgot>>
  BY DEF vars, search
<1>2. Typed /\ SearchInv /\ WalkInv
  BY DEF IInv
<1>3. Typed'
  BY <1>1, <1>2, StoreStays DEF Typed
<1>4. SearchInv'
  <2>1. CASE Unsearched
    BY <1>1, <2>1 DEF SearchInv, Unsearched
  <2>2. CASE turn = "search" /\ Searching(open, cost, parent, closed)
    <3>1. Searching(open', cost', parent', closed')
      BY <1>1, <2>2
    <3>q. QED  BY <1>1, <2>2, <3>1, SearchingStays DEF SearchInv
  <2>q. QED  BY <1>2, <2>1, <2>2 DEF SearchInv
<1>5. WalkInv'
  <2>1. Arrived' = Arrived
    BY <1>1 DEF Arrived, There
  <2>2. (Running => Routed(walk.route))'
    BY <1>1, <1>2, GoalStays DEF WalkInv, Running, Routed
  <2>3. (Running /\ turn # "search" => OnRoute)'
    BY <1>1, <1>2, <2>1 DEF WalkInv, Running, OnRoute, Ahead, Neighbours
  <2>q. QED  BY <1>1, <1>2, <2>1, <2>2, <2>3 DEF WalkInv, Running
<1>q. QED  BY <1>3, <1>4, <1>5 DEF IInv

(* Between any two steps of navigation.lua the known ground lies on the    *)
(* map, a search under way knows true costs, and a route under way leads   *)
(* to the goal with the body on it.                                        *)
THEOREM NavInvariant == Spec => []IInv
<1>1. Init => IInv
  BY InitOK
<1>2. IInv /\ [Next]_vars => IInv'
  <2> SUFFICES ASSUME IInv, [Next]_vars  PROVE IInv'
    OBVIOUS
  <2>1. CASE Poll
    BY <2>1, StopsOK, WalksOnOK, LooksAheadOK, SteersOK, BumpsOK DEF Poll
  <2>2. CASE Next
    BY <2>1, <2>2, NavigateOK, TickOK, SearchesOK, PlansOK, PlanFailsOK, ChangeOK, ObservesOK
       DEF Next, Worker
  <2>3. CASE UNCHANGED vars
    BY <2>3, StutterOK
  <2>q. QED  BY <2>2, <2>3
<1>q. QED  BY <1>1, <1>2, PTL DEF Spec

(* What plan finds is no longer than a shortest way over the ground that   *)
(* is not known to be blocked by more than the heuristic overestimates,    *)
(* and where it finds none with nothing left open there is none.           *)
THEOREM Shortest == Spec => []RoutesShortest
<1>1. IInv => RoutesShortest
  <2> SUFFICES ASSUME IInv  PROVE RoutesShortest
    OBVIOUS
  <2>1. body \in Tiles /\ GoalOK
    BY DEF IInv, Typed, GoalOK
  <2>2. ASSUME NEW t \in Found
        PROVE  \E n \in 0 .. cost[t] : AtDistance(n) /\ Tile * (cost[t] - n) <= Overestimate
    <3>1. Searching(open, cost, parent, closed) /\ t \in Tiles
      BY PlanIs
    <3>2. FoundAt(t)
      BY DEF Found
    <3>q. QED  BY <2>1, <3>1, <3>2, ShortestFound
  <2>3. ASSUME turn = "search", cost # << >>, open = {}
        PROVE  ~ Reachable(KnownBlocked)
    <3>1. Searching(open, cost, parent, closed)
      BY <2>3 DEF IInv, SearchInv, Unsearched
    <3>q. QED  BY <2>1, <2>3, <3>1, NothingLeft
  <2>q. QED  BY <2>2, <2>3 DEF RoutesShortest
<1>q. QED  BY <1>1, NavInvariant, PTL

-----------------------------------------------------------------------------
(* In a world that stands still: a walk, or an observer, learns of ground  *)
(* that really is blocked and loses nothing of what it knew.               *)
LEMMA FiniteGround ==
  ASSUME NEW S, S \subseteq Tiles
  PROVE  /\ IsFiniteSet(S) /\ Cardinality(S) \in Nat
         /\ \A T \in SUBSET S : Cardinality(T) <= Cardinality(S) /\ Cardinality(T) \in Nat
         /\ \A T \in SUBSET S, x \in S : x \notin T => Cardinality(T) + 1 <= Cardinality(S)
<1>1. IsFiniteSet(S) /\ Cardinality(S) \in Nat
  BY TilesFinite, FS_Subset, FS_CardinalityType
<1>2. ASSUME NEW T \in SUBSET S
      PROVE  IsFiniteSet(T) /\ Cardinality(T) <= Cardinality(S) /\ Cardinality(T) \in Nat
  BY <1>1, FS_Subset, FS_CardinalityType
<1>3. ASSUME NEW T \in SUBSET S, NEW x \in S, x \notin T
      PROVE  Cardinality(T) + 1 <= Cardinality(S)
  <2>1. T \cup {x} \in SUBSET S
    OBVIOUS
  <2>2. Cardinality(T \cup {x}) = Cardinality(T) + 1
    BY <1>2, <1>3, FS_AddElement
  <2>q. QED  BY <1>2, <2>1, <2>2
<1>q. QED  BY <1>1, <1>2, <1>3

LEMMA KnownStays ==
  ASSUME UNCHANGED store
  PROVE  KnownBlocked' = KnownBlocked
BY DEF KnownBlocked

LEMMA StillLook ==
  ASSUME IInv, Look \/ Unseeing, KnownBlocked \subseteq solid, ~ forgot', UNCHANGED solid
  PROVE  /\ KnownBlocked \subseteq KnownBlocked' /\ KnownBlocked' \subseteq solid
         /\ solid \subseteq Tiles /\ ~ forgot
<1>1. body \in Tiles /\ solid \subseteq Tiles /\ StoreOK
  BY DEF IInv, Typed
<1>2. CASE Look
  BY <1>1, <1>2, LookIs
<1>3. CASE Unseeing
  BY <1>1, <1>3, KnownStays DEF Unseeing
<1>q. QED  BY <1>2, <1>3

(* A search that ends without a route, and not for its expansions, shows   *)
(* that there is none: what is known of the ground is so.                  *)
LEMMA ReachableStays ==
  ASSUME UNCHANGED <<body, goal, solid>>
  PROVE  Reachable(solid)' <=> Reachable(solid)
<1>1. \A f : Grown(f, solid)' = Grown(f, solid)
  BY DEF Grown, InBox, GoalTile
<1>2. Reached(solid)' = Reached(solid)
  BY <1>1 DEF Reached
<1>3. \A t : IsGoal(t)' = IsGoal(t)
  BY GoalStays
<1>q. QED  BY <1>2, <1>3 DEF Reachable

(* A walk that has not failed, or only for want of time or expansions.     *)
LEMMA NoFailure ==
  ASSUME walk'.status \notin {"rejected", "failed"} \/ walk'.reason \in {"time_budget", "search_budget"}
  PROVE  FindsTheWay'
BY DEF FindsTheWay

(* A bump's search that ends for its expansions, reported as "blocked".    *)
CutShort == turn = "search" /\ walk.why = "bump" /\ OutOfExpansions

LEMMA StillInit ==
  ASSUME Init
  PROVE  StillInv
<1>1. DOMAIN store.blocks = {}
  BY DEF Init, NoTerrain
<1>2. KnownBlocked = {}
  BY <1>1 DEF KnownBlocked
<1>3. turn = "engine" /\ walk.status = "none" /\ present /\ body \notin solid
  BY NoWalkIs DEF Init
<1>4. FindsTheWay
  BY <1>3 DEF FindsTheWay
<1>q. QED  BY <1>2, <1>3, <1>4 DEF StillInv, Still, Running

LEMMA StillNavigate ==
  ASSUME IInv, StillInv, Navigate
  PROVE  StillInv'
<1> SUFFICES ASSUME changes' = 0, ~ forgot'  PROVE Still'
  BY DEF StillInv
<1>1. Look /\ UNCHANGED <<search, body, solid, present, changes>>
  BY DEF Navigate
<1>2. ~ forgot
  BY <1>1 DEF Look
<1>3. present /\ body \notin solid /\ KnownBlocked \subseteq solid
  BY <1>1, <1>2 DEF StillInv, Still
<1>4. KnownBlocked' \subseteq solid' /\ KnownBlocked' \subseteq Tiles
  BY <1>1, <1>3, StillLook
<1>5. /\ turn' \in {"engine", "search"} /\ walk'.replans = 0
      /\ walk'.status \in {"none", "completed"}
  <2>1. CASE There(goal')
    <3>1. turn' = "engine" /\ walk' = [NoWalk EXCEPT !.status = "completed", !.reason = "none"]
      BY <2>1 DEF Navigate, Ends
    <3>q. QED  BY <3>1 DEF NoWalk
  <2>2. CASE ~ There(goal')
    <3>1. PICK n \in Limits : walk' = [NoWalk EXCEPT !.limit = n, !.why = "request"]
      BY <2>2 DEF Navigate
    <3>2. turn' = "search"
      BY <2>2 DEF Navigate
    <3>q. QED  BY <3>1, <3>2 DEF NoWalk
  <2>q. QED  BY <2>1, <2>2
<1>6. Cardinality(KnownBlocked') \in Nat
  BY <1>4, FiniteGround
<1>q. QED  BY <1>1, <1>3, <1>4, <1>5, <1>6, NoFailure DEF Running, Still

LEMMA StillTick ==
  ASSUME IInv, StillInv, Tick
  PROVE  StillInv'
<1> SUFFICES ASSUME changes' = 0, ~ forgot'  PROVE Still'
  BY DEF StillInv
<1>1. /\ turn = "engine" /\ Running /\ turn' = "poll"
      /\ body' = IF Ahead \in solid THEN body ELSE Ahead
      /\ walk' = [walk EXCEPT !.stall = IF body' = body THEN @ + 1 ELSE 0,
                              !.since = @ + 1, !.elapsed = @ + 1]
      /\ Unseeing /\ UNCHANGED <<search, goal, solid, present, changes, walks>>
  BY DEF Tick
<1>2. walk \in Walks /\ OnRoute /\ Ahead \in Tiles /\ body \in Tiles
  BY <1>1, WalkIs
<1>3. /\ present /\ body \notin solid /\ KnownBlocked \subseteq solid
      /\ walk.replans <= Cardinality(KnownBlocked \ OfRoute)
  BY <1>1 DEF StillInv, Still, Unseeing
<1>4. /\ walk'.route = walk.route /\ walk'.index = walk.index /\ walk'.replans = walk.replans
      /\ walk'.status = "running" /\ (body' # body => walk'.stall = 0)
  BY <1>1, <1>2 DEF Walks, Running
<1>5. KnownBlocked' = KnownBlocked /\ OfRoute' = OfRoute /\ Ahead' = Ahead
  BY <1>1, <1>4, KnownStays DEF Unseeing, OfRoute, Ahead
<1>6. body # Ahead
  BY <1>1, <1>2, NeighboursAre DEF OnRoute
<1>7. body' \notin solid /\ (walk'.stall > 0 => Ahead \in solid)
  BY <1>1, <1>3, <1>4, <1>6
<1>8. FindsTheWay'
  BY <1>4, NoFailure
<1>q. QED  BY <1>1, <1>3, <1>4, <1>5, <1>7, <1>8 DEF Still

(* What the poller's steps have in common.                                 *)
LEMMA StillPolling ==
  ASSUME IInv, StillInv, turn \in {"poll", "steer"}, Polling, Look \/ Unseeing,
         changes' = 0, ~ forgot'
  PROVE  /\ ~ forgot /\ changes = 0 /\ present' /\ body' \notin solid'
         /\ KnownBlocked \subseteq KnownBlocked' /\ KnownBlocked' \subseteq solid'
         /\ solid' \subseteq Tiles /\ KnownBlocked' \subseteq Tiles
         /\ walk.replans <= Cardinality(KnownBlocked \ OfRoute) /\ walk.replans \in Nat
         /\ walk.stall > 0 => Ahead \in solid
         /\ Running /\ UNCHANGED <<body, goal, solid, present>> /\ walk \in Walks
         /\ Cardinality(KnownBlocked \ OfRoute) \in Nat
<1>1. UNCHANGED <<body, goal, solid, present, changes>>
  BY DEF Polling
<1>2. ~ forgot
  BY DEF Look, Unseeing
<1>3. Running /\ walk \in Walks
  BY DEF IInv, WalkInv, Typed
<1>4. /\ present /\ body \notin solid /\ KnownBlocked \subseteq solid
      /\ walk.replans <= Cardinality(KnownBlocked \ OfRoute)
      /\ walk.stall > 0 => Ahead \in solid
  BY <1>1, <1>2, <1>3 DEF StillInv, Still
<1>5. /\ KnownBlocked \subseteq KnownBlocked' /\ KnownBlocked' \subseteq solid
      /\ solid \subseteq Tiles
  BY <1>1, <1>4, StillLook
<1>6. KnownBlocked \ OfRoute \subseteq Tiles
  BY <1>5
<1>7. Cardinality(KnownBlocked \ OfRoute) \in Nat
  BY <1>6, FiniteGround
<1>8. walk.replans \in Nat
  BY <1>3 DEF Walks
<1>q. QED  BY <1>1, <1>2, <1>3, <1>4, <1>5, <1>7, <1>8

LEMMA StillStops ==
  ASSUME IInv, StillInv, Arrives \/ TimesOut \/ TargetGone
  PROVE  StillInv'
<1> SUFFICES ASSUME changes' = 0, ~ forgot'  PROVE Still'
  BY DEF StillInv
<1>1. Polling /\ Unseeing /\ turn \in {"poll", "steer"}
  BY DEF Arrives, TimesOut, TargetGone
<1>2. /\ present' /\ body' \notin solid' /\ KnownBlocked' \subseteq solid'
      /\ present' = present /\ walk \in Walks
  BY <1>1, StillPolling
<1>3. Arrives \/ TimesOut
  BY <1>2 DEF TargetGone
<1>4. PICK s \in {"completed", "failed"}, r \in Reasons :
        Ends(walk, s, r) /\ (s = "completed" \/ r = "time_budget")
  BY <1>3 DEF Arrives, TimesOut, Reasons
<1>5. turn' = "engine" /\ walk'.status = s /\ walk'.reason = r
  BY <1>2, <1>4, EndsOK
<1>6. FindsTheWay'
  BY <1>4, <1>5, NoFailure
<1>q. QED  BY <1>2, <1>4, <1>5, <1>6 DEF Running, Still

(* A tile of the route that turns out to be blocked pays for a replan.     *)
LEMMA StillReplans ==
  ASSUME IInv, StillInv, turn \in {"poll", "steer"}, ~ Arrived, Polling, Look,
         NEW why \in {"look", "bump"}, NEW r \in Reasons,
         Replans([walk EXCEPT !.since = 0], why, r),
         NEW t \in OfRoute, t \in KnownBlocked'
  PROVE  StillInv'
<1> SUFFICES ASSUME changes' = 0, ~ forgot'  PROVE Still'
  BY DEF StillInv
<1>1. /\ present' /\ body' \notin solid' /\ KnownBlocked \subseteq KnownBlocked'
      /\ KnownBlocked' \subseteq solid' /\ solid' \subseteq Tiles /\ KnownBlocked' \subseteq Tiles
      /\ walk.replans <= Cardinality(KnownBlocked \ OfRoute) /\ walk.replans \in Nat
      /\ Running /\ walk \in Walks /\ Cardinality(KnownBlocked \ OfRoute) \in Nat
  BY StillPolling
<1>2. Cardinality(KnownBlocked \ OfRoute) + 1 <= Cardinality(KnownBlocked')
      /\ Cardinality(KnownBlocked') \in Nat
  <2>1. KnownBlocked \ OfRoute \in SUBSET KnownBlocked' /\ t \notin KnownBlocked \ OfRoute
    BY <1>1
  <2>q. QED  BY <1>1, <2>1, FiniteGround
<1>3. Cardinality(KnownBlocked') <= Cardinality(solid') /\ Cardinality(solid') \in Nat
  BY <1>1, FiniteGround
<1>4. walk.replans + 1 <= Cardinality(KnownBlocked') /\ walk.replans < Cardinality(solid')
  BY <1>1, <1>2, <1>3
<1>5. \/ /\ turn' = "engine" /\ walk.replans >= walk.limit
         /\ walk'.status = "failed" /\ walk'.limit = walk.limit
      \/ turn' = "search" /\ walk'.replans = walk.replans + 1 /\ walk'.status = "running"
  BY <1>1, ReplansOK
<1>6. walk.limit \in Nat
  BY <1>1 DEF Walks
<1>7. FindsTheWay'
  <2>1. CASE walk'.status = "running"
    BY <2>1, NoFailure
  <2>2. CASE walk.replans >= walk.limit /\ walk'.limit = walk.limit
    <3>1. ~ (walk'.limit >= Cardinality(solid'))
      BY <1>1, <1>3, <1>4, <1>6, <2>2
    <3>q. QED  BY <3>1 DEF FindsTheWay
  <2>q. QED  BY <1>5, <2>1, <2>2
<1>q. QED  BY <1>1, <1>4, <1>5, <1>7 DEF Running, Still

LEMMA StillGoesOn ==
  ASSUME IInv, StillInv, turn \in {"poll", "steer"}, Polling, Look \/ Unseeing,
         turn' \in {"steer", "engine"}, walk'.route = walk.route, walk'.replans = walk.replans,
         walk'.status = walk.status,
         turn' = "steer" => walk'.index = walk.index /\ walk'.stall = walk.stall
  PROVE  StillInv'
<1> SUFFICES ASSUME changes' = 0, ~ forgot'  PROVE Still'
  BY DEF StillInv
<1>1. /\ present' /\ body' \notin solid' /\ KnownBlocked \subseteq KnownBlocked'
      /\ KnownBlocked' \subseteq solid' /\ KnownBlocked' \subseteq Tiles
      /\ walk.replans <= Cardinality(KnownBlocked \ OfRoute) /\ walk.replans \in Nat
      /\ walk.stall > 0 => Ahead \in solid
      /\ Running /\ solid' = solid /\ Cardinality(KnownBlocked \ OfRoute) \in Nat
  BY StillPolling
<1>2. OfRoute' = OfRoute
  BY DEF OfRoute
<1>3. walk'.replans <= Cardinality((KnownBlocked \ OfRoute)')
  <2>1. (KnownBlocked \ OfRoute)' \subseteq Tiles /\ KnownBlocked \ OfRoute \in SUBSET (KnownBlocked \ OfRoute)'
    BY <1>1, <1>2
  <2>2. Cardinality(KnownBlocked \ OfRoute) <= Cardinality((KnownBlocked \ OfRoute)')
        /\ Cardinality((KnownBlocked \ OfRoute)') \in Nat
    BY <2>1, FiniteGround
  <2>q. QED  BY <1>1, <2>2
<1>4. turn' = "steer" => Ahead' = Ahead
  BY DEF Ahead
<1>5. FindsTheWay'
  BY <1>1, NoFailure DEF Running
<1>q. QED  BY <1>1, <1>3, <1>4, <1>5 DEF Still

LEMMA StillLooksAhead ==
  ASSUME IInv, StillInv, LooksAhead
  PROVE  StillInv'
<1>1. GoesOn /\ Look /\ Polling /\ turn = "poll" /\ Running /\ ~ Arrived /\ walk \in Walks
  BY DEF LooksAhead, GoesOn, IInv, WalkInv, Typed
<1>2. CASE RouteBlocked(store')
  <2>1. Replans([walk EXCEPT !.since = 0], "look", "replan_limit")
    BY <1>2 DEF LooksAhead
  <2>2. PICK i \in walk.index .. Len(walk.route) : TerrainBlocked(store', walk.route[i])
    BY <1>2 DEF RouteBlocked
  <2> DEFINE t == walk.route[i]
  <2>3. walk.route[i] \in OfRoute
    <3>1. walk.index \in 1 .. Len(walk.route) /\ Len(walk.route) \in Nat
      BY <1>1, WalkIs
    <3>2. i \in 1 .. Len(walk.route)
      BY <3>1
    <3>q. QED  BY <3>2 DEF OfRoute
  <2>4. walk.route[i] \in KnownBlocked'
    BY <2>2 DEF TerrainBlocked, KnownBlocked
  <2>q. QED  BY <1>1, <2>1, <2>3, <2>4, StillReplans DEF Reasons
<1>3. CASE ~ RouteBlocked(store')
  <2>1. turn' = "steer" /\ walk' = [walk EXCEPT !.since = 0]
    BY <1>3 DEF LooksAhead
  <2>2. /\ walk'.route = walk.route /\ walk'.replans = walk.replans /\ walk'.status = walk.status
        /\ walk'.index = walk.index /\ walk'.stall = walk.stall
    BY <1>1, <2>1 DEF Walks
  <2>q. QED  BY <1>1, <2>1, <2>2, StillGoesOn
<1>q. QED  BY <1>2, <1>3

LEMMA StillBumps ==
  ASSUME IInv, StillInv, Bumps
  PROVE  StillInv'
<1> SUFFICES ASSUME changes' = 0, ~ forgot'  PROVE StillInv'
  BY DEF StillInv
<1>1. /\ turn = "steer" /\ Look /\ Polling /\ walk.stall >= StallTicks
      /\ Replans([walk EXCEPT !.since = 0], "bump", "blocked")
  BY DEF Bumps, Onward
<1>2. Running
  BY <1>1 DEF IInv, WalkInv
<1>3. /\ walk \in Walks /\ OnRoute /\ walk.index \in 1 .. Len(walk.route) /\ Ahead \in Tiles
      /\ body \in Tiles
  BY <1>1, <1>2, WalkIs
<1>4. walk.stall > 0 /\ walk.stall # 0
  BY <1>1, <1>3, NavigationAssumption DEF Walks
<1>5. ~ Arrived /\ body \in Neighbours(Ahead) /\ Ahead \in OfRoute
  BY <1>1, <1>3, <1>4 DEF OnRoute, OfRoute, Ahead
<1>6. Ahead \in solid
  BY <1>1, <1>4, StillPolling
<1>7. Ahead \in Neighbours(body)
  BY <1>3, <1>5, NeighboursAre
<1>8. Ahead \in KnownBlocked'
  BY <1>1, <1>3, <1>6, <1>7, LookIs DEF IInv, Typed
<1>q. QED  BY <1>1, <1>5, <1>8, StillReplans DEF Reasons

LEMMA StillPoll ==
  ASSUME IInv, StillInv, Poll
  PROVE  StillInv'
<1>1. CASE Arrives \/ TimesOut \/ TargetGone
  BY <1>1, StillStops
<1>2. CASE WalksOn
  <2>1. turn = "poll" /\ Polling /\ Unseeing /\ turn' = "steer" /\ walk' = walk
    BY <1>2 DEF WalksOn, GoesOn
  <2>q. QED  BY <2>1, StillGoesOn
<1>3. CASE Steers
  <2>1. /\ turn = "steer" /\ Polling /\ Unseeing /\ turn' = "engine"
        /\ walk' = [walk EXCEPT !.index = Passed] /\ walk \in Walks
    BY <1>3 DEF Steers, Onward, IInv, Typed
  <2>2. /\ walk'.route = walk.route /\ walk'.replans = walk.replans /\ walk'.status = walk.status
    BY <2>1 DEF Walks
  <2>q. QED  BY <2>1, <2>2, StillGoesOn
<1>q. QED  BY <1>1, <1>2, <1>3, StillLooksAhead, StillBumps DEF Poll

LEMMA StillSearches ==
  ASSUME IInv, StillInv, Searches \/ UNCHANGED vars
  PROVE  StillInv'
<1> SUFFICES ASSUME changes' = 0, ~ forgot'  PROVE Still'
  BY DEF StillInv
<1>1. UNCHANGED <<store, body, goal, solid, present, changes, forgot, turn, walk>>
  BY DEF Searches, Standing, vars
<1>2. KnownBlocked' = KnownBlocked /\ OfRoute' = OfRoute /\ Ahead' = Ahead
  BY <1>1, KnownStays DEF OfRoute, Ahead
<1>3. /\ present /\ body \notin solid /\ KnownBlocked \subseteq solid
      /\ turn = "search" => walk.replans <= Cardinality(KnownBlocked)
      /\ Running /\ turn # "search" => walk.replans <= Cardinality(KnownBlocked \ OfRoute)
      /\ turn \in {"poll", "steer"} /\ walk.stall > 0 => Ahead \in solid
      /\ FindsTheWay
  BY <1>1 DEF StillInv, Still
<1>4. FindsTheWay'
  BY <1>1, <1>3, ReachableStays DEF FindsTheWay
<1>q. QED  BY <1>1, <1>2, <1>3, <1>4 DEF Running, Still

LEMMA StillPlans ==
  ASSUME IInv, StillInv, Plans
  PROVE  StillInv'
<1> SUFFICES ASSUME changes' = 0, ~ forgot'  PROVE Still'
  BY DEF StillInv
<1>1. PICK t \in Found :
        /\ walk' = [walk EXCEPT !.status = "running", !.route = RouteTo(t), !.index = 1,
                                !.stall = 0, !.why = "none"]
        /\ turn' = IF walk.why = "look" THEN "steer" ELSE "engine"
        /\ Standing
  BY DEF Plans
<1> DEFINE r == RouteTo(t)
<1>2. turn = "search" /\ \A i \in 1 .. Len(r) : r[i] \notin KnownBlocked
  BY PlanIs
<1>3. UNCHANGED <<store, body, goal, solid, present, changes, forgot, walks>>
  BY <1>1 DEF Standing
<1>4. /\ present /\ body \notin solid /\ KnownBlocked \subseteq solid
      /\ walk.replans <= Cardinality(KnownBlocked)
  BY <1>2, <1>3 DEF StillInv, Still
<1> HIDE DEF r
<1>5. /\ walk'.status = "running" /\ walk'.route = r /\ walk'.stall = 0
      /\ walk'.replans = walk.replans
  <2>1. walk \in Walks
    BY DEF IInv, Typed
  <2>2. walk' = [walk EXCEPT !.status = "running", !.route = r, !.index = 1, !.stall = 0,
                             !.why = "none"]
    BY <1>1 DEF r
  <2>q. QED  BY <2>1, <2>2 DEF Walks
<1>6. KnownBlocked' = KnownBlocked
  BY <1>3, KnownStays
<1>7. (KnownBlocked \ OfRoute)' = KnownBlocked
  BY <1>2, <1>5, <1>6 DEF OfRoute
<1>8. FindsTheWay'
  BY <1>5, NoFailure
<1>9. turn' \in {"steer", "engine"}
  BY <1>1
<1>q. QED  BY <1>3, <1>4, <1>5, <1>6, <1>7, <1>8, <1>9 DEF Still

LEMMA StillPlanFails ==
  ASSUME IInv, StillInv, PlanFails, ~ CutShort
  PROVE  StillInv'
<1> SUFFICES ASSUME changes' = 0, ~ forgot'  PROVE Still'
  BY DEF StillInv
<1>1. /\ turn = "search" /\ cost # << >> /\ SearchFails /\ Standing
      /\ walk.why \in {"request", "look", "bump"} /\ walk \in Walks
      /\ body \in Tiles /\ GoalOK
  BY DEF PlanFails, IInv, WalkInv, Typed, GoalOK
<1>2. UNCHANGED <<store, body, goal, solid, present, changes, forgot, walks>>
  BY <1>1 DEF Standing
<1>3. /\ present /\ body \notin solid /\ KnownBlocked \subseteq solid
  BY <1>2 DEF StillInv, Still
<1>4. KnownBlocked' = KnownBlocked
  BY <1>2, KnownStays
<1>5. PICK s \in {"failed", "rejected"}, r \in Reasons :
        Ends(walk, s, r) /\ (OutOfExpansions => r = "search_budget")
  <2>1. Failure \in Reasons /\ (OutOfExpansions => Failure = "search_budget")
    BY DEF Failure, Reasons
  <2>2. CASE walk.why = "request"
    BY <2>1, <2>2 DEF PlanFails
  <2>3. CASE walk.why = "look"
    BY <2>1, <2>3 DEF PlanFails
  <2>4. CASE walk.why = "bump"
    <3>1. ~ OutOfExpansions
      BY <1>1, <2>4 DEF CutShort
    <3>q. QED  BY <2>4, <3>1 DEF PlanFails, Reasons
  <2>q. QED  BY <1>1, <2>2, <2>3, <2>4
<1>6. turn' = "engine" /\ walk'.status = s /\ walk'.reason = r
  BY <1>1, <1>5, EndsOK
<1>7. FindsTheWay'
  <2>1. CASE OutOfExpansions
    BY <1>5, <1>6, <2>1, NoFailure
  <2>2. CASE ~ OutOfExpansions
    <3>1. open = {}
      BY <1>1, <2>2 DEF SearchFails
    <3>2. Searching(open, cost, parent, closed)
      BY <1>1 DEF IInv, SearchInv, Unsearched
    <3>3. ~ Reachable(KnownBlocked)
      BY <1>1, <3>1, <3>2, NothingLeft
    <3>4. ~ Reachable(solid)
      BY <1>1, <1>3, <3>3, ReachableShrinks
    <3>q. QED  BY <1>2, <3>4, ReachableStays DEF FindsTheWay
  <2>q. QED  BY <2>1, <2>2
<1>q. QED  BY <1>2, <1>3, <1>4, <1>6, <1>7 DEF Running, Still

LEMMA StillObserves ==
  ASSUME IInv, StillInv, Observes
  PROVE  StillInv'
<1> SUFFICES ASSUME changes' = 0, ~ forgot'  PROVE Still'
  BY DEF StillInv
<1>1. /\ turn = "engine" /\ Look
      /\ UNCHANGED <<search, body, goal, solid, present, turn, walk, changes, walks>>
  BY DEF Observes
<1>2. ~ forgot /\ changes = 0
  BY <1>1 DEF Look
<1>3. /\ present /\ body \notin solid /\ KnownBlocked \subseteq solid
      /\ Running => walk.replans <= Cardinality(KnownBlocked \ OfRoute)
      /\ FindsTheWay
  BY <1>1, <1>2 DEF StillInv, Still
<1>4. /\ KnownBlocked \subseteq KnownBlocked' /\ KnownBlocked' \subseteq solid
      /\ solid \subseteq Tiles
  BY <1>1, <1>3, StillLook
<1>5. OfRoute' = OfRoute
  BY <1>1 DEF OfRoute
<1>6. Running => walk.replans <= Cardinality((KnownBlocked \ OfRoute)')
  <2>1. (KnownBlocked \ OfRoute)' \subseteq Tiles /\ KnownBlocked \ OfRoute \in SUBSET (KnownBlocked \ OfRoute)'
    BY <1>4, <1>5
  <2>2. Cardinality(KnownBlocked \ OfRoute) <= Cardinality((KnownBlocked \ OfRoute)')
        /\ Cardinality((KnownBlocked \ OfRoute)') \in Nat /\ Cardinality(KnownBlocked \ OfRoute) \in Nat
    BY <2>1, FiniteGround
  <2>3. walk.replans \in Nat
    BY DEF IInv, Typed, Walks
  <2>q. QED  BY <1>3, <2>2, <2>3
<1>7. FindsTheWay'
  BY <1>1, <1>2, <1>3, ReachableStays DEF FindsTheWay
<1>q. QED  BY <1>1, <1>3, <1>4, <1>6, <1>7 DEF Running, Still

(* In a world that stands still a walk ends short of its goal only where   *)
(* no way leads on, if the search after a bump is never cut short: the     *)
(* walk then ends as "blocked" whatever its last search would have found.  *)
THEOREM FindsWay == Spec /\ []~CutShort => []FindsTheWay
<1>1. Init => StillInv
  BY StillInit
<1>2. IInv /\ StillInv /\ ~ CutShort /\ [Next]_vars => StillInv'
  <2> SUFFICES ASSUME IInv, StillInv, ~ CutShort, [Next]_vars  PROVE StillInv'
    OBVIOUS
  <2>1. CASE Change
    <3>1. changes' # 0
      BY <2>1 DEF Change, IInv, Typed
    <3>q. QED  BY <3>1 DEF StillInv, Still
  <2>2. CASE Next
    BY <2>1, <2>2, StillNavigate, StillTick, StillPoll, StillSearches, StillPlans,
       StillPlanFails, StillObserves DEF Next, Worker
  <2>3. CASE UNCHANGED vars
    BY <2>3, StillSearches
  <2>q. QED  BY <2>2, <2>3
<1>3. StillInv => FindsTheWay
  BY DEF StillInv, Still, FindsTheWay
<1>q. QED  BY <1>1, <1>2, <1>3, NavInvariant, PTL DEF Spec

(* A limit on expansions above the number of tiles never cuts a search     *)
(* short: then every walk through a world that stands still finds its way. *)
THEOREM FindsWayInRange ==
  ASSUME Area < MaxExpansions
  PROVE  Spec => []FindsTheWay
<1>1. IInv => ~ CutShort
  <2> SUFFICES ASSUME IInv, turn = "search", OutOfExpansions  PROVE FALSE
    BY DEF CutShort
  <2>1. PICK n \in open : TRUE
    BY DEF OutOfExpansions
  <2>2. closed \subseteq Tiles /\ n \in Tiles /\ n \notin closed
    BY <2>1 DEF IInv, SearchInv, Searching, Traced, Unsearched
  <2>3. Cardinality(closed) \in Nat /\ Cardinality(closed) + 1 <= Area
    BY <2>2, FiniteGround DEF Area
  <2>4. Cardinality(closed) + 1 >= MaxExpansions
    BY DEF OutOfExpansions, Spent
  <2>q. QED  BY <2>3, <2>4, TilesFinite, SearchAssumption
<1>q. QED  BY <1>1, FindsWay, NavInvariant, PTL
=============================================================================
