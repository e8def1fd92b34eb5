-------------------------------- MODULE Search --------------------------------
(***************************************************************************)
(* The route search of the navigator (navigation.lua plan): A* over the    *)
(* ground the agent knows, four-connected, to the tiles near a goal.  The  *)
(* search runs to its end inside one paused tick; here every expansion is  *)
(* a step.  Lengths are in eighths of a tile.  Of several nodes of the     *)
(* same value the heap may give any.                                       *)
(***************************************************************************)
EXTENDS Terrain, FiniteSetsExt

CONSTANTS
  Margin,         \* SEARCH_MARGIN
  MaxExpansions   \* MAX_EXPANSIONS

ASSUME SearchAssumption == Margin \in Nat /\ MaxExpansions \in Nat \ {0}

VARIABLES
  store,   \* the ground as the agent knows it
  body,    \* the tile the body stands in
  goal,    \* [x, y, box, entity, radius]: of a position the box is that point
  open, cost, parent, closed  \* the search: heap, cost_to, parent and closed

search == <<open, cost, parent, closed>>

-----------------------------------------------------------------------------
Tile == 8

Middle(i) == i * Tile + (Tile \div 2)

Outside(p, low, high) == IF p < low THEN low - p ELSE IF p > high THEN p - high ELSE 0

(* goal_distance, at the middle of a tile, is at most r.                   *)
Near(g, t, r) ==
  LET dx == Outside(Middle(t[1]), g.box[1], g.box[3])
      dy == Outside(Middle(t[2]), g.box[2], g.box[4])
  IN dx * dx + dy * dy <= r * r

PlanRadius == goal.radius - (Tile \div 4)

IsGoal(t) == Near(goal, t, PlanRadius)

GoalTile == <<goal.x \div Tile, goal.y \div Tile>>

(* The distance to the middle of the goal, less what is allowed for its    *)
(* extent.                                                                 *)
Heuristic(t) ==
  LET d == Gap(Middle(t[1]), goal.x) + Gap(Middle(t[2]), goal.y)
               - ((PlanRadius * 3) \div 2) - Tile
  IN IF d < 0 THEN 0 ELSE d

InBox(t) ==
  \A i \in 1 .. 2 :
    t[i] \in Min({body[i], GoalTile[i]}) - Margin .. Max({body[i], GoalTile[i]}) + Margin

Neighbours(t) == {n \in Tiles : Gap(n[1], t[1]) + Gap(n[2], t[2]) = 1}

(* Mutation: the heap is ordered by the distance still to go.              *)
PriorityGreedy(t, c) == Heuristic(t)

Priority(t, c) == Tile * c + Heuristic(t)

-----------------------------------------------------------------------------
Unsearched == open = {} /\ cost = << >> /\ parent = << >> /\ closed = {}

SearchBegins == open' = {body} /\ cost' = [t \in {body} |-> 0] /\ parent' = << >> /\ closed' = {}

(* The tile the heap gives: one of the least value.  (One that was found   *)
(* again at a lesser cost is in the heap twice; the dearer entry comes out *)
(* when the tile is closed, and is passed over.)                           *)
First(n) == n \in open /\ \A m \in open : Priority(n, cost[n]) <= Priority(m, cost[m])

(* The neighbours that are reached at a lesser cost than so far.           *)
Better(t) ==
  {n \in Neighbours(t) \ closed :
     /\ InBox(n) /\ ~TerrainBlocked(store, n)
     /\ n \in DOMAIN cost => cost[t] + 1 < cost[n]}

Spent == Cardinality(closed) + 1 >= MaxExpansions

Expand ==
  \E n \in open :
    LET better == Better(n) IN
    /\ First(n) /\ ~IsGoal(n) /\ ~Spent
    /\ closed' = closed \cup {n} /\ open' = (open \ {n}) \cup better
    /\ cost' = [t \in DOMAIN cost \cup better |-> IF t \in better THEN cost[n] + 1 ELSE cost[t]]
    /\ parent' = [t \in DOMAIN parent \cup better |-> IF t \in better THEN n ELSE parent[t]]

(* The tiles from the body's, which is left out, to t, which was reached.  *)
RouteTo(t) ==
  LET route[u \in DOMAIN cost] == IF u = body THEN << >> ELSE Append(route[parent[u]], u)
  IN route[t]

(* How the search ends: at a goal, with its expansions spent, or with an   *)
(* empty heap, where a position that is itself blocked is told apart.      *)
FoundAt(t) == First(t) /\ IsGoal(t)

OutOfExpansions == Spent /\ \E n \in open : First(n) /\ ~IsGoal(n)

Failure ==
  IF OutOfExpansions THEN "search_budget"
  ELSE IF ~goal.entity /\ TerrainBlocked(store, GoalTile) THEN "destination_blocked"
  ELSE "no_route"

SearchFails == open = {} \/ OutOfExpansions

-----------------------------------------------------------------------------
Grown(near, S) ==
  near \cup {t \in UNION {Neighbours(u) : u \in near} : t \notin S /\ InBox(t)}

(* The tiles within n steps of the body, over ground that is not in S.     *)
Reached(S) ==
  LET within[n \in 0 .. Cardinality(Tiles)] ==
        IF n = 0 THEN {body}
        ELSE Grown(within[n - 1], S)
  IN within

Reachable(S) == \E t \in Reached(S)[Cardinality(Tiles)] : IsGoal(t)

KnownBlocked == UNION {store.blocks[b] : b \in DOMAIN store.blocks}

(* So many steps lead to a goal over known ground, and one less does not.  *)
AtDistance(n) ==
  LET reached == Reached(KnownBlocked) IN
  /\ \E t \in reached[n] : IsGoal(t)
  /\ n > 0 => \A t \in reached[n - 1] : ~IsGoal(t)

(* By how much the heuristic may be above the steps that are really left:  *)
(* by nothing if the goal is a position.                                   *)
Overestimate == Max({Heuristic(t) : t \in {u \in Tiles : IsGoal(u)}})
=============================================================================
