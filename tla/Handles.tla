------------------------------ MODULE Handles -------------------------------
(***************************************************************************)
(* Entity identity: mod/factoriorl/handles.lua, and the world it names.    *)
(*                                                                         *)
(* An observation mints a handle for each entity it lists; an action       *)
(* resolves the handle it was given.  Machines are known by unit number,   *)
(* which the engine never reuses; resources, trees, rocks and loose piles  *)
(* have none and are known by tile.  An entity of the model is built once  *)
(* and removed once: a rebuilt one is another entity.  The engine tells of *)
(* the removal of a registered machine in an event of its own, later.      *)
(***************************************************************************)
EXTENDS Naturals, Sequences

CONSTANTS
  Units,        \* entities that have a unit number
  Loose,        \* entities that have none
  Tiles, Types, Names,
  What,         \* the tile, type and name of each loose entity
  HandleLimit,  \* HANDLE_LIMIT
  MaxMints,     \* bound: handles minted in one episode
  MaxEpisodes   \* bound: episodes begun

ASSUME LooseAssumption ==
  /\ Units \cap Loose = {}
  /\ What \in [Loose -> [tile : Tiles, type : Types, name : Names]]
ASSUME HandleLimitAssumption == HandleLimit \in Nat \ {0}
ASSUME BoundAssumption == MaxMints \in Nat /\ MaxEpisodes \in Nat

Entities == Units \cup Loose

VARIABLES
  alive,      \* the entities that stand in the world
  gone,       \* the entities that were removed
  notices,    \* removals the engine has yet to tell the mod
  registered, \* machines the mod asked to be told about
  nextId,     \* next_id; handle "h<n>" is the number n
  byHandle,   \* by_handle
  byUnit,     \* by_unit
  byTile,     \* by_tile
  order,      \* order
  episodes,   \* how many episodes were begun
  given       \* history: <<handle, entity>> as handed out in this episode

vars == <<alive, gone, notices, registered, nextId, byHandle, byUnit, byTile,
          order, episodes, given>>
world == <<alive, gone, notices>>
registry == <<nextId, byHandle, byUnit, byTile, order>>

(* An entry of by_handle: the descriptor, and destroyed_tick as a flag.    *)
UnitEntry(u)  == [kind |-> "unit", of |-> u, destroyed |-> FALSE]
TileEntry(e)  == [kind |-> "tile", of |-> What[e], destroyed |-> FALSE]

Empty == [x \in {} |-> 0]
Without(f, x) == [y \in DOMAIN f \ {x} |-> f[y]]
With(f, x, v) == [y \in DOMAIN f \cup {x} |-> IF y = x THEN v ELSE f[y]]

Init ==
  /\ alive = {} /\ gone = {} /\ notices = {} /\ registered = {}
  /\ nextId = 1
  /\ byHandle = Empty /\ byUnit = Empty /\ byTile = Empty
  /\ order = << >>
  /\ episodes = 1
  /\ given = {}

-----------------------------------------------------------------------------
(* The world: an entity appears, and disappears.                           *)
Build(e) ==
  /\ e \in Entities \ (alive \cup gone)
  /\ alive' = alive \cup {e}
  /\ UNCHANGED <<gone, notices, registered, registry, episodes, given>>

Remove(e) ==
  /\ e \in alive
  /\ alive' = alive \ {e}
  /\ gone' = gone \cup {e}
  /\ notices' = IF e \in registered THEN notices \cup {e} ELSE notices
  /\ UNCHANGED <<registered, registry, episodes, given>>

-----------------------------------------------------------------------------
(* evict_if_needed: the reverse index of a dropped entry is cleared by its *)
(* key, whichever handle it holds by now.                                  *)
Dropped(index, kind, h) ==
  LET e == byHandle[h] IN
  IF e.kind # kind THEN index
  ELSE Without(index, IF kind = "unit" THEN e.of ELSE e.of.tile)

Oldest == order[1]

(* Mutation: mint looks nothing up.                                        *)
NeverKnown(e) == FALSE

Known(e) ==
  IF e \in Units THEN e \in DOMAIN byUnit ELSE What[e].tile \in DOMAIN byTile

(* The handle mint finds: a tile's, whatever it was minted for.            *)
HandleOf(e) == IF e \in Units THEN byUnit[e] ELSE byTile[What[e].tile]

(* mint, of an entity that has a handle and of one that has none.          *)
MintKnown(e) ==
  /\ e \in alive
  /\ Known(e)
  /\ given' = given \cup {<<HandleOf(e), e>>}
  /\ UNCHANGED <<world, registered, registry, episodes>>

MintNew(e) ==
  /\ e \in alive
  /\ ~ Known(e)
  /\ nextId <= MaxMints
  /\ LET full    == Len(order) = HandleLimit
         kept    == IF full THEN Without(byHandle, Oldest) ELSE byHandle
         units   == IF e \in Units THEN With(byUnit, e, nextId) ELSE byUnit
         tiles   == IF e \in Loose THEN With(byTile, What[e].tile, nextId) ELSE byTile
     IN  /\ byHandle' = With(kept, nextId, IF e \in Units THEN UnitEntry(e) ELSE TileEntry(e))
         /\ byUnit' = IF full THEN Dropped(units, "unit", Oldest) ELSE units
         /\ byTile' = IF full THEN Dropped(tiles, "tile", Oldest) ELSE tiles
         /\ order' = Append(IF full THEN Tail(order) ELSE order, nextId)
  /\ nextId' = nextId + 1
  /\ registered' = IF e \in Units THEN registered \cup {e} ELSE registered
  /\ given' = given \cup {<<nextId, e>>}
  /\ UNCHANGED <<world, episodes>>

Mint(e) == MintKnown(e) \/ MintNew(e)

-----------------------------------------------------------------------------
Marked(h) == [byHandle EXCEPT ![h].destroyed = TRUE]

(* The loose entities find_entities_filtered may return for an entry.      *)
Found(entry) ==
  {e \in alive \cap Loose : What[e].tile = entry.of.tile /\ What[e].type = entry.of.type}

(* What resolve may answer: nothing, for an unknown or destroyed handle.   *)
Answers(h) ==
  IF h \notin DOMAIN byHandle \/ byHandle[h].destroyed THEN {}
  ELSE IF byHandle[h].kind = "unit" THEN {byHandle[h].of} \cap alive
  ELSE {e \in Found(byHandle[h]) : What[e].name = byHandle[h].of.name}

(* resolve finds the machine invalid.                                      *)
MissMachine(h) ==
  /\ h \in DOMAIN byHandle
  /\ byHandle[h].kind = "unit" /\ ~ byHandle[h].destroyed
  /\ byHandle[h].of \notin alive
  /\ byHandle' = Marked(h)
  /\ byUnit' = Without(byUnit, byHandle[h].of)
  /\ UNCHANGED <<world, registered, nextId, byTile, order, episodes, given>>

(* resolve finds nothing of the type on the tile, or another name first.   *)
MissOnTile(h) ==
  /\ h \in DOMAIN byHandle
  /\ byHandle[h].kind = "tile" /\ ~ byHandle[h].destroyed
  /\ \/ Found(byHandle[h]) = {}
     \/ \E e \in Found(byHandle[h]) : What[e].name # byHandle[h].of.name
  /\ byHandle' = Marked(h)
  /\ byTile' = Without(byTile, byHandle[h].of.tile)
  /\ UNCHANGED <<world, registered, nextId, byUnit, order, episodes, given>>

(* on_object_destroyed                                                     *)
ObjectDestroyed(u) ==
  /\ u \in notices
  /\ notices' = notices \ {u}
  /\ byHandle' = IF u \in DOMAIN byUnit /\ byUnit[u] \in DOMAIN byHandle
                 THEN Marked(byUnit[u]) ELSE byHandle
  /\ byUnit' = Without(byUnit, u)
  /\ UNCHANGED <<alive, gone, registered, nextId, byTile, order, episodes, given>>

(* reset, by begin_episode: numbers start over and nothing is known.       *)
BeginEpisode ==
  /\ episodes < MaxEpisodes
  /\ episodes' = episodes + 1
  /\ nextId' = 1
  /\ byHandle' = Empty
  /\ byUnit' = Empty
  /\ byTile' = Empty
  /\ order' = << >>
  /\ given' = {}
  /\ UNCHANGED <<world, registered>>

Handles == 1 .. MaxMints

Next ==
  \/ \E e \in Entities : Build(e) \/ Remove(e) \/ Mint(e)
  \/ \E h \in Handles : MissMachine(h) \/ MissOnTile(h)
  \/ \E u \in Units : ObjectDestroyed(u)
  \/ BeginEpisode

Spec == Init /\ [][Next]_vars

-----------------------------------------------------------------------------
UnitEntries == [kind : {"unit"}, of : Units, destroyed : BOOLEAN]
TileEntries == [kind : {"tile"}, of : [tile : Tiles, type : Types, name : Names],
                destroyed : BOOLEAN]

(* Every variable keeps its shape, and only numbers handed out in this     *)
(* episode are in use.                                                     *)
TypeOK ==
  /\ alive \subseteq Entities /\ gone \subseteq Entities
  /\ notices \subseteq Units /\ registered \subseteq Units
  /\ nextId \in Nat \ {0}
  /\ DOMAIN byHandle \subseteq 1 .. nextId - 1
  /\ \A h \in DOMAIN byHandle : byHandle[h] \in UnitEntries \cup TileEntries
  /\ DOMAIN byUnit \subseteq Units
  /\ \A u \in DOMAIN byUnit : byUnit[u] \in 1 .. nextId - 1
  /\ DOMAIN byTile \subseteq Tiles
  /\ \A t \in DOMAIN byTile : byTile[t] \in 1 .. nextId - 1
  /\ order \in Seq(Nat)
  /\ episodes \in Nat
  /\ given \subseteq (1 .. nextId - 1) \X Entities

(* The order of minting lists exactly the handles that are kept, oldest    *)
(* first, and never more than the limit; so eviction drops the oldest      *)
(* (evict_if_needed).                                                      *)
OrderExact ==
  /\ Len(order) <= HandleLimit
  /\ {order[i] : i \in 1 .. Len(order)} = DOMAIN byHandle
  /\ \A i \in 1 .. Len(order) - 1 : order[i] < order[i + 1]

(* "Rebuilt entities do not inherit stale identity": a handle given for a  *)
(* machine never addresses anything else, and while the machine stands and *)
(* the registry keeps the handle it finds the machine, which has no second *)
(* one (mint, resolve).                                                    *)
MachinesKeepTheirHandle ==
  \A g \in given : g[2] \in Units =>
    /\ Answers(g[1]) \subseteq {g[2]}
    /\ g[2] \in alive /\ g[1] \in DOMAIN byHandle =>
         /\ g[2] \in Answers(g[1])
         /\ g[2] \in DOMAIN byUnit /\ byUnit[g[2]] = g[1]

(* The index holds no machine the mod would not be told about: it stands,  *)
(* or its removal is still to be announced (register_on_object_destroyed). *)
IndexedOrAnnounced ==
  \A u \in DOMAIN byUnit : u \in registered /\ (u \in alive \/ u \in notices)

(* "A stale tile handle fails rather than silently addressing whatever     *)
(* replaced it" (handles.lua): a handle is given for one entity only.      *)
OneEntityPerHandle ==
  \A g, f \in given : g[1] = f[1] => g[2] = f[2]
=============================================================================
