------------------------------ MODULE Navigation ------------------------------
(***************************************************************************)
(* A walk to a position or beside an entity (actions.lua H.navigate and    *)
(* navigation.lua): planned over known ground, walked tile by tile and     *)
(* planned again where the ground turns out to be otherwise.               *)
(*                                                                         *)
(* The engine and the poller take turns.  A tick here is the time the body *)
(* needs for a tile, so that it always stands in the middle of one; the    *)
(* world changes, and is observed by others, between ticks.                *)
(***************************************************************************)
EXTENDS Search

CONSTANTS
  Maps,          \* the worlds: sets of tiles where the body cannot stand
  Starts,        \* where it may stand at first
  Goals,         \* what may be asked for
  StallTicks,    \* STALL_TICKS
  LookTicks,     \* REOBSERVE_TICKS
  MaxTicks,      \* max_ticks of a request
  Limits,        \* what a request may have as its replan_limit
  MaxChanges,    \* bound: changes of the world
  MaxWalks       \* bound: requests

ASSUME NavigationAssumption ==
  /\ \A m \in Maps : m \subseteq Tiles
  /\ Starts \subseteq Tiles
  /\ \A g \in Goals : {g.x, g.y, g.radius} \subseteq Nat /\ g.radius >= Tile /\ g.entity \in BOOLEAN
                     /\ g.box \in [1 .. 4 -> Int]
  /\ StallTicks \in Nat \ {0} /\ LookTicks \in Nat \ {0}
  /\ MaxTicks \in Nat \ {0} /\ Limits \subseteq Nat /\ MaxChanges \in Nat /\ MaxWalks \in Nat

VARIABLES
  solid,    \* the tiles where the body cannot stand
  present,  \* the entity asked for stands
  turn,     \* what comes next: "engine", "poll", "steer" or "search"
  walk,     \* the entry of the registry and why a route is searched, see NoWalk
  changes,  \* history: changes of the world
  forgot,   \* history: the store has dropped a block
  walks

vars == <<search, store, body, goal, solid, present, turn, walk, changes, forgot, walks>>

-----------------------------------------------------------------------------
NoWalk == [status |-> "none", reason |-> "none", route |-> << >>, index |-> 1, replans |-> 0,
           limit |-> 0, stall |-> 0, since |-> 0, elapsed |-> 0, why |-> "none"]

Running == walk.status = "running"

Init ==
  /\ solid \in Maps /\ body \in Starts \ solid /\ goal \in Goals
  /\ present = TRUE /\ store = NoTerrain /\ Unsearched
  /\ turn = "engine" /\ walk = NoWalk /\ changes = 0 /\ forgot = FALSE /\ walks = 0

(* navigation.observe.                                                     *)
Look ==
  /\ store' = Observed(store, solid, body)
  /\ forgot' = (forgot \/ ~(DOMAIN store.blocks \subseteq DOMAIN store'.blocks))

Unseeing == UNCHANGED <<store, forgot>>

Ends(w, status, reason) ==
  turn' = "engine" /\ walk' = [w EXCEPT !.status = status, !.reason = reason]

There(g) == Near(g, body, g.radius)

Arrived == There(goal)

(* What the poller leaves alone.                                           *)
Polling == UNCHANGED <<search, body, goal, solid, present, changes, walks>>

-----------------------------------------------------------------------------
(* H.navigate: look, done if the body is there, else plan.                 *)
Navigate ==
  /\ ~Running /\ turn = "engine" /\ walks < MaxWalks
  /\ goal' \in Goals /\ (goal'.entity => present) /\ walks' = walks + 1
  /\ Look
  /\ IF There(goal')
     THEN Ends(NoWalk, "completed", "none")
     ELSE /\ turn' = "search"
          /\ \E n \in Limits : walk' = [NoWalk EXCEPT !.limit = n, !.why = "request"]
  /\ UNCHANGED <<search, body, solid, present, changes>>

(* One tick of the engine: the body walks on if the next tile is free.     *)
Ahead == walk.route[walk.index]

Tick ==
  /\ turn = "engine" /\ Running /\ turn' = "poll"
  /\ body' = IF Ahead \in solid THEN body ELSE Ahead
  /\ walk' = [walk EXCEPT !.stall = IF body' = body THEN @ + 1 ELSE 0,
                          !.since = @ + 1, !.elapsed = @ + 1]
  /\ Unseeing /\ UNCHANGED <<search, goal, solid, present, changes, walks>>

(* replan, after its look: refused when the replans are spent.             *)
Replans(w, why, spent) ==
  IF w.replans >= w.limit
  THEN Ends(w, "failed", spent)
  ELSE turn' = "search" /\ walk' = [w EXCEPT !.replans = @ + 1, !.why = why]

(* The head of poll: arrived, too late, or time for a look ahead.          *)
Arrives ==
  /\ turn = "poll" /\ Arrived
  /\ Ends(walk, "completed", "none") /\ Unseeing /\ Polling

TimesOut ==
  /\ turn = "poll" /\ ~Arrived /\ walk.elapsed >= MaxTicks
  /\ Ends(walk, "failed", "time_budget") /\ Unseeing /\ Polling

GoesOn == turn = "poll" /\ ~Arrived /\ walk.elapsed < MaxTicks

WalksOn ==
  /\ GoesOn /\ walk.since < LookTicks
  /\ turn' = "steer" /\ walk' = walk /\ Unseeing /\ Polling

(* route_blocked: what is left of the route against what is known now.     *)
RouteBlocked(known) ==
  \E i \in walk.index .. Len(walk.route) : TerrainBlocked(known, walk.route[i])

LooksAhead ==
  /\ GoesOn /\ walk.since >= LookTicks /\ Look /\ Polling
  /\ LET seen == [walk EXCEPT !.since = 0] IN
     IF RouteBlocked(store') THEN Replans(seen, "look", "replan_limit")
                             ELSE turn' = "steer" /\ walk' = seen

(* The rest of poll: the target, the waypoints passed, the way on.         *)
TargetGone ==
  /\ turn = "steer" /\ goal.entity /\ ~present
  /\ Ends(walk, "failed", "target_gone") /\ Unseeing /\ Polling

Onward == turn = "steer" /\ (goal.entity => present)

Passed == IF walk.index < Len(walk.route) /\ Ahead = body THEN walk.index + 1 ELSE walk.index

Steers ==
  /\ Onward /\ walk.stall < StallTicks
  /\ turn' = "engine" /\ walk' = [walk EXCEPT !.index = Passed] /\ Unseeing /\ Polling

(* Commanded to walk and not moving: look and plan again.                  *)
Bumps ==
  /\ Onward /\ walk.stall >= StallTicks /\ Look /\ Polling
  /\ Replans([walk EXCEPT !.since = 0], "bump", "blocked")

Poll == Arrives \/ TimesOut \/ WalksOn \/ LooksAhead \/ TargetGone \/ Steers \/ Bumps

-----------------------------------------------------------------------------
Standing == UNCHANGED <<store, body, goal, solid, present, changes, forgot, walks>>

Searches ==
  /\ turn = "search" /\ Standing /\ UNCHANGED <<turn, walk>>
  /\ \/ cost = << >> /\ SearchBegins
     \/ Expand

SearchEnds == open' = {} /\ cost' = << >> /\ parent' = << >> /\ closed' = {}

Found == {t \in Tiles : turn = "search" /\ FoundAt(t)}

(* The walk begins, or goes on by the new route; one that looked ahead has *)
(* the rest of its poll to do.                                             *)
Plans ==
  \E t \in Found :
    /\ walk' = [walk EXCEPT !.status = "running", !.route = RouteTo(t), !.index = 1,
                            !.stall = 0, !.why = "none"]
    /\ turn' = IF walk.why = "look" THEN "steer" ELSE "engine"
    /\ SearchEnds /\ Standing

(* There is no route: the request is refused, or the walk ends.            *)
PlanFails ==
  /\ turn = "search" /\ cost # << >> /\ SearchFails
  /\ CASE walk.why = "request" -> Ends(walk, "rejected", Failure)
       [] walk.why = "look"    -> Ends(walk, "failed", Failure)
       [] walk.why = "bump"    -> Ends(walk, "failed", "blocked")
  /\ SearchEnds /\ Standing

-----------------------------------------------------------------------------
(* Something is built or cleared beside the body, or the target goes.      *)
Change ==
  /\ turn = "engine" /\ changes < MaxChanges /\ changes' = changes + 1
  /\ \/ \E t \in Tiles \ {body} :
          solid' = (solid \ {t}) \cup ({t} \ solid) /\ present' = present
     \/ present /\ goal.entity /\ present' = FALSE /\ solid' = solid \ {t \in Tiles : Near(goal, t, 0)}
  /\ Unseeing /\ UNCHANGED <<search, body, goal, turn, walk, walks>>

(* An observation was asked for: memory.update folds the terrain in.       *)
Observes ==
  /\ turn = "engine" /\ Look
  /\ UNCHANGED <<search, body, goal, solid, present, turn, walk, changes, walks>>

Worker == Tick \/ Poll \/ Searches \/ Plans \/ PlanFails

Next == Navigate \/ Worker \/ Change \/ Observes

Spec == Init /\ [][Next]_vars

-----------------------------------------------------------------------------
(* A route that the search gives is as short as any over known ground; to  *)
(* an entity, longer by no more than the heuristic overestimates beside    *)
(* it.  And it gives none only if there is none within the search's box.   *)
RoutesShortest ==
  /\ \A t \in Found : \E n \in 0 .. cost[t] : AtDistance(n) /\ Tile * (cost[t] - n) <= Overestimate
  /\ turn = "search" /\ cost # << >> /\ open = {} => ~Reachable(KnownBlocked)

(* In a world that stands still, whatever the body did not know of it at   *)
(* first: a walk that ends short of its goal, neither for its time nor for *)
(* its searches' expansions, ends where no way leads on.  No replan is     *)
(* wasted: one for each obstacle is enough.                                *)
FindsTheWay ==
  /\ walk.status \in {"rejected", "failed"} /\ walk.reason \notin {"time_budget", "search_budget"}
  /\ changes = 0 /\ ~forgot /\ walk.limit >= Cardinality(solid)
  => ~Reachable(solid)
=============================================================================
