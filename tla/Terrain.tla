------------------------------- MODULE Terrain --------------------------------
(***************************************************************************)
(* What the agent knows of the ground (memory.lua): for blocks of tiles it *)
(* has looked at, the tiles where its body cannot stand.  A tile of no     *)
(* block, or not listed in its block, counts as passable.                  *)
(***************************************************************************)
EXTENDS Integers, FiniteSets, Sequences, SequencesExt

CONSTANTS
  Width, Height,  \* bound: the map
  Block,          \* BLOCK: tiles along the side of a block
  Radius,         \* the sensor radius, in tiles (32 in every profile)
  BlockLimit      \* TERRAIN_BLOCK_LIMIT

Tiles == (0 .. Width - 1) \X (0 .. Height - 1)

Gap(a, b) == IF a < b THEN b - a ELSE a - b

Within(origin, n) == {t \in Tiles : Gap(t[1], origin[1]) <= n /\ Gap(t[2], origin[2]) <= n}

BlockOf(t) == <<t[1] \div Block, t[2] \div Block>>

(* The body stands in the middle of a tile: the tiles half a tile inside   *)
(* the radius are seen whole, those half a tile outside are seen in part.  *)
Seen(origin) == Within(origin, Radius - 1)

(* Mutation: a block counts as looked at when it was seen whole.           *)
TouchedWhole(origin) ==
  {b \in {BlockOf(t) : t \in Tiles} : \A t \in Tiles : BlockOf(t) = b => t \in Seen(origin)}

Touched(origin) == {BlockOf(t) : t \in Seen(origin)}

ASSUME TerrainAssumption ==
  /\ Width \in Nat \ {0} /\ Height \in Nat \ {0} /\ Block \in Nat \ {0} /\ Radius \in Nat \ {0, 1}
  /\ BlockLimit \in Nat /\ \A t \in Tiles : Cardinality(Touched(t)) <= BlockLimit

(* storage.frrl_terrain: blocks maps a block to its blocked tiles, order   *)
(* lists the blocks in the order in which they came in.                    *)
NoTerrain == [blocks |-> << >>, order |-> << >>]

TerrainBlocked(store, t) ==
  BlockOf(t) \in DOMAIN store.blocks /\ t \in store.blocks[BlockOf(t)]

(* What is there is marked, also on tiles seen in part, if their block is  *)
(* among those looked at.                                                  *)
Marked(solid, origin) == {t \in solid \cap Within(origin, Radius) : BlockOf(t) \in Touched(origin)}

(* Over the limit the oldest blocks are dropped, but none just looked at:  *)
(* these go to the end of the order if their turn comes.                   *)
Evicted(store, fresh) ==
  LET order == store.order
      excess == Len(order) - BlockLimit
      others(k) == {j \in 1 .. k : order[j] \notin fresh}
      last == CHOOSE k \in DOMAIN order :
                order[k] \notin fresh /\ Cardinality(others(k)) = excess
      kept == SelectSeq(SubSeq(order, 1, last), LAMBDA b : b \in fresh)
      dropped == {order[j] : j \in others(last)}
  IN IF excess <= 0 THEN store
     ELSE [blocks |-> [b \in DOMAIN store.blocks \ dropped |-> store.blocks[b]],
           order |-> SubSeq(order, last + 1, Len(order)) \o kept]

(* observe_terrain: of the blocks looked at, the tiles seen whole are      *)
(* forgotten and everything seen is marked.                                *)
Observed(store, solid, origin) ==
  LET fresh == Touched(origin)
      known(b) == IF b \in DOMAIN store.blocks THEN store.blocks[b] \ Seen(origin) ELSE {}
      marked(b) == {t \in Marked(solid, origin) : BlockOf(t) = b}
      before(b, c) == b[1] < c[1] \/ (b[1] = c[1] /\ b[2] < c[2])
  IN Evicted([blocks |-> [b \in DOMAIN store.blocks \cup fresh |->
                            IF b \in fresh THEN known(b) \cup marked(b) ELSE store.blocks[b]],
              order |-> store.order \o SetToSortSeq(fresh \ DOMAIN store.blocks, before)],
             fresh)
=============================================================================
