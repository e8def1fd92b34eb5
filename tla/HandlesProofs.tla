--------------------------- MODULE HandlesProofs ----------------------------
(***************************************************************************)
(* What Handles promises of machines, for any number of entities, tiles,   *)
(* handles and episodes and any limit of the registry.                     *)
(*                                                                         *)
(* The registry is inductively right about machines only together with the *)
(* order of minting, which eviction goes by, and with the world, which     *)
(* decides which entries may still be marked destroyed.                    *)
(***************************************************************************)
EXTENDS Handles, TLAPS

(* The order of minting, each handle of it below each later one.           *)
OrderInv ==
  /\ \A i \in 1 .. Len(order) : order[i] \in DOMAIN byHandle
  /\ \A h \in DOMAIN byHandle : \E i \in 1 .. Len(order) : order[i] = h
  /\ \A i, j \in 1 .. Len(order) : i < j => order[i] < order[j]
  /\ Len(order) <= HandleLimit

(* What was removed stays removed, and only that is announced.             *)
WorldInv ==
  /\ alive \cap gone = {}
  /\ notices \subseteq gone

(* The index names kept entries; an entry is of a machine that was built,  *)
(* and while it stands the entry is good and the index names it.           *)
UnitInv ==
  /\ \A u \in DOMAIN byUnit :
       /\ byUnit[u] \in DOMAIN byHandle
       /\ byHandle[byUnit[u]].kind = "unit" /\ byHandle[byUnit[u]].of = u
       /\ ~ byHandle[byUnit[u]].destroyed
       /\ u \in registered /\ (u \in alive \/ u \in notices)
  /\ \A h \in DOMAIN byHandle : byHandle[h].kind = "unit" =>
       /\ byHandle[h].of \in alive \cup gone
       /\ byHandle[h].of \in alive =>
            /\ ~ byHandle[h].destroyed
            /\ byHandle[h].of \in DOMAIN byUnit
            /\ byUnit[byHandle[h].of] = h

(* A handle given for a machine is, while it is kept, the machine's.       *)
GivenInv ==
  \A g \in given : g[2] \in Units /\ g[1] \in DOMAIN byHandle =>
    byHandle[g[1]].kind = "unit" /\ byHandle[g[1]].of = g[2]

IInv == TypeOK /\ OrderInv /\ WorldInv /\ UnitInv /\ GivenInv

USE DEF Entities, world, registry, vars

(* What the constants are assumed to be, as the steps below use it.        *)
LEMMA Descriptors ==
  /\ \A e \in Loose : What[e] \in [tile : Tiles, type : Types, name : Names]
  /\ \A e \in Loose : What[e].tile \in Tiles
  /\ \A e \in Units : e \notin Loose
BY LooseAssumption

LEMMA Entries ==
  /\ \A u \in Units : UnitEntry(u) \in UnitEntries
  /\ \A e \in Loose : TileEntry(e) \in TileEntries
BY Descriptors DEF UnitEntry, TileEntry, UnitEntries, TileEntries

(* An index without a key.                                                 *)
LEMMA WithoutKey ==
  ASSUME NEW f, NEW x
  PROVE  /\ DOMAIN Without(f, x) = DOMAIN f \ {x}
         /\ \A y \in DOMAIN f \ {x} : Without(f, x)[y] = f[y]
BY DEF Without

LEMMA MarkedEntry ==
  ASSUME NEW h \in DOMAIN byHandle,
         \A k \in DOMAIN byHandle : byHandle[k] \in UnitEntries \cup TileEntries
  PROVE  /\ DOMAIN Marked(h) = DOMAIN byHandle
         /\ \A k \in DOMAIN byHandle \ {h} : Marked(h)[k] = byHandle[k]
         /\ Marked(h)[h].kind = byHandle[h].kind
         /\ Marked(h)[h].of = byHandle[h].of
         /\ Marked(h)[h] \in UnitEntries \cup TileEntries
BY DEF Marked, UnitEntries, TileEntries

LEMMA InitIInv == Init => IInv
<1> SUFFICES ASSUME Init PROVE IInv
  OBVIOUS
<1> DOMAIN Empty = {}
  BY DEF Empty
<1>1. TypeOK
  BY DEF Init, TypeOK
<1>2. OrderInv
  BY HandleLimitAssumption DEF Init, OrderInv
<1>3. WorldInv /\ UnitInv /\ GivenInv
  BY DEF Init, WorldInv, UnitInv, GivenInv
<1> QED
  BY <1>1, <1>2, <1>3 DEF IInv

LEMMA BuildStep ==
  ASSUME IInv, NEW e \in Units \cup Loose, Build(e)
  PROVE  IInv'
<1>1. TypeOK'
  BY DEF IInv, Build, TypeOK
<1>2. OrderInv' /\ GivenInv'
  BY DEF IInv, Build, OrderInv, GivenInv
<1>3. WorldInv'
  BY DEF IInv, Build, WorldInv
<1>4. UnitInv'
  BY DEF IInv, Build, UnitInv
<1> QED
  BY <1>1, <1>2, <1>3, <1>4 DEF IInv

LEMMA RemoveStep ==
  ASSUME IInv, NEW e \in Units \cup Loose, Remove(e)
  PROVE  IInv'
<1>1. TypeOK'
  BY DEF IInv, Remove, TypeOK
<1>2. OrderInv' /\ GivenInv'
  BY DEF IInv, Remove, OrderInv, GivenInv
<1>3. WorldInv'
  BY DEF IInv, Remove, WorldInv
<1>4. UnitInv'
  BY DEF IInv, Remove, UnitInv
<1> QED
  BY <1>1, <1>2, <1>3, <1>4 DEF IInv

LEMMA MintKnownStep ==
  ASSUME IInv, NEW e \in Units \cup Loose, MintKnown(e)
  PROVE  IInv'
<1>1. HandleOf(e) \in 1 .. nextId - 1
  BY DEF IInv, MintKnown, Known, HandleOf, TypeOK
<1>2. e \in Units => byHandle[HandleOf(e)].kind = "unit" /\ byHandle[HandleOf(e)].of = e
  BY DEF IInv, MintKnown, Known, HandleOf, UnitInv
<1>3. TypeOK'
  BY <1>1 DEF IInv, MintKnown, TypeOK
<1>4. GivenInv'
  BY <1>2 DEF IInv, MintKnown, GivenInv
<1>5. OrderInv' /\ WorldInv' /\ UnitInv'
  BY DEF IInv, MintKnown, OrderInv, WorldInv, UnitInv
<1> QED
  BY <1>3, <1>4, <1>5 DEF IInv

LEMMA MissMachineStep ==
  ASSUME IInv, NEW h, MissMachine(h)
  PROVE  IInv'
<1>1. h \in DOMAIN byHandle
  BY DEF MissMachine
<1>2. /\ DOMAIN byHandle' = DOMAIN byHandle
      /\ \A k \in DOMAIN byHandle \ {h} : byHandle'[k] = byHandle[k]
      /\ byHandle'[h].kind = byHandle[h].kind
      /\ byHandle'[h].of = byHandle[h].of
      /\ byHandle'[h] \in UnitEntries \cup TileEntries
  BY <1>1, MarkedEntry DEF IInv, TypeOK, MissMachine
<1>3. /\ DOMAIN byUnit' = DOMAIN byUnit \ {byHandle[h].of}
      /\ \A x \in DOMAIN byUnit \ {byHandle[h].of} : byUnit'[x] = byUnit[x]
  BY WithoutKey DEF MissMachine
<1>4. TypeOK'
  BY <1>1, <1>2, <1>3 DEF IInv, MissMachine, TypeOK
<1>5. OrderInv' /\ WorldInv' /\ GivenInv'
  BY <1>1, <1>2 DEF IInv, MissMachine, OrderInv, WorldInv, GivenInv
<1>6. UnitInv'
  BY <1>1, <1>2, <1>3 DEF IInv, MissMachine, UnitInv
<1> QED
  BY <1>4, <1>5, <1>6 DEF IInv

LEMMA MissOnTileStep ==
  ASSUME IInv, NEW h, MissOnTile(h)
  PROVE  IInv'
<1>1. h \in DOMAIN byHandle
  BY DEF MissOnTile
<1>2. /\ DOMAIN byHandle' = DOMAIN byHandle
      /\ \A k \in DOMAIN byHandle \ {h} : byHandle'[k] = byHandle[k]
      /\ byHandle'[h].kind = byHandle[h].kind
      /\ byHandle'[h].of = byHandle[h].of
      /\ byHandle'[h] \in UnitEntries \cup TileEntries
  BY <1>1, MarkedEntry DEF IInv, TypeOK, MissOnTile
<1>3. /\ DOMAIN byTile' = DOMAIN byTile \ {byHandle[h].of.tile}
      /\ \A x \in DOMAIN byTile \ {byHandle[h].of.tile} : byTile'[x] = byTile[x]
  BY DEF MissOnTile, Without
<1>4. TypeOK'
  BY <1>1, <1>2, <1>3 DEF IInv, MissOnTile, TypeOK
<1>5. OrderInv' /\ WorldInv' /\ GivenInv'
  BY <1>1, <1>2 DEF IInv, MissOnTile, OrderInv, WorldInv, GivenInv
<1>6. byUnit' = byUnit /\ alive' = alive /\ gone' = gone /\ notices' = notices /\ registered' = registered
  BY DEF MissOnTile
<1>7. byHandle[h].kind = "tile"
  BY DEF MissOnTile
<1>8. \A u \in DOMAIN byUnit : byUnit[u] \in DOMAIN byHandle /\ byUnit[u] # h
  BY <1>7 DEF IInv, UnitInv
<1>9. UnitInv'
  <2>1. \A u \in DOMAIN byUnit : byHandle'[byUnit[u]] = byHandle[byUnit[u]]
    BY <1>2, <1>8
  <2>2. \A u \in DOMAIN byUnit' :
          /\ byUnit'[u] \in DOMAIN byHandle'
          /\ byHandle'[byUnit'[u]].kind = "unit" /\ byHandle'[byUnit'[u]].of = u
          /\ ~ byHandle'[byUnit'[u]].destroyed
          /\ u \in registered' /\ (u \in alive' \/ u \in notices')
    BY <1>2, <1>6, <2>1 DEF IInv, UnitInv
  <2>3. \A k \in DOMAIN byHandle' : byHandle'[k].kind = "unit" =>
          k # h /\ k \in DOMAIN byHandle /\ byHandle'[k] = byHandle[k]
    BY <1>2, <1>7
  <2>4. \A k \in DOMAIN byHandle' : byHandle'[k].kind = "unit" =>
          /\ byHandle'[k].of \in alive' \cup gone'
          /\ byHandle'[k].of \in alive' =>
               /\ ~ byHandle'[k].destroyed
               /\ byHandle'[k].of \in DOMAIN byUnit'
               /\ byUnit'[byHandle'[k].of] = k
    BY <1>6, <2>3 DEF IInv, UnitInv
  <2> QED
    BY <2>2, <2>4 DEF UnitInv
<1> QED
  BY <1>4, <1>5, <1>9 DEF IInv

LEMMA ObjectDestroyedStep ==
  ASSUME IInv, NEW u \in Units, ObjectDestroyed(u)
  PROVE  IInv'
<1>1. u \in DOMAIN byUnit => byHandle' = Marked(byUnit[u])
  BY DEF IInv, ObjectDestroyed, UnitInv
<1>2. u \notin DOMAIN byUnit => byHandle' = byHandle
  BY DEF ObjectDestroyed
<1>3. u \notin alive
  BY DEF IInv, ObjectDestroyed, WorldInv
<1>4. /\ DOMAIN byUnit' = DOMAIN byUnit \ {u}
      /\ \A v \in DOMAIN byUnit \ {u} : byUnit'[v] = byUnit[v]
  BY WithoutKey DEF ObjectDestroyed
<1>5. /\ DOMAIN byHandle' = DOMAIN byHandle
      /\ \A k \in DOMAIN byHandle :
           /\ byHandle'[k].kind = byHandle[k].kind
           /\ byHandle'[k].of = byHandle[k].of
           /\ byHandle'[k] \in UnitEntries \cup TileEntries
           /\ (u \in DOMAIN byUnit => k # byUnit[u]) => byHandle'[k] = byHandle[k]
  <2>1. CASE u \in DOMAIN byUnit
    BY <1>1, <2>1, MarkedEntry DEF IInv, TypeOK, UnitInv
  <2>2. CASE u \notin DOMAIN byUnit
    BY <1>2, <2>2 DEF IInv, TypeOK
  <2> QED
    BY <2>1, <2>2
<1>6. TypeOK'
  BY <1>4, <1>5 DEF IInv, ObjectDestroyed, TypeOK
<1>7. OrderInv' /\ WorldInv' /\ GivenInv'
  BY <1>5 DEF IInv, ObjectDestroyed, OrderInv, WorldInv, GivenInv
<1>8. UnitInv'
  <2>1. u \in DOMAIN byUnit => byHandle[byUnit[u]].of = u /\ byHandle[byUnit[u]].kind = "unit"
    BY DEF IInv, UnitInv
  <2>2. \A v \in DOMAIN byUnit' :
          /\ byUnit'[v] \in DOMAIN byHandle'
          /\ byHandle'[byUnit'[v]].kind = "unit" /\ byHandle'[byUnit'[v]].of = v
          /\ ~ byHandle'[byUnit'[v]].destroyed
          /\ v \in registered' /\ (v \in alive' \/ v \in notices')
    BY <1>3, <1>4, <1>5, <2>1 DEF IInv, ObjectDestroyed, UnitInv
  <2>3. \A k \in DOMAIN byHandle' : byHandle'[k].kind = "unit" =>
          /\ byHandle'[k].of \in alive' \cup gone'
          /\ byHandle'[k].of \in alive' =>
               /\ ~ byHandle'[k].destroyed
               /\ byHandle'[k].of \in DOMAIN byUnit'
               /\ byUnit'[byHandle'[k].of] = k
    BY <1>3, <1>4, <1>5, <2>1 DEF IInv, ObjectDestroyed, UnitInv
  <2> QED
    BY <2>2, <2>3 DEF UnitInv
<1> QED
  BY <1>6, <1>7, <1>8 DEF IInv

LEMMA BeginEpisodeStep ==
  ASSUME IInv, BeginEpisode
  PROVE  IInv'
<1> DOMAIN Empty = {}
  BY DEF Empty
<1>1. TypeOK'
  BY DEF IInv, BeginEpisode, TypeOK
<1>2. OrderInv'
  BY HandleLimitAssumption DEF BeginEpisode, OrderInv
<1>3. WorldInv' /\ UnitInv' /\ GivenInv'
  BY DEF IInv, BeginEpisode, WorldInv, UnitInv, GivenInv
<1> QED
  BY <1>1, <1>2, <1>3 DEF IInv
(* The registry after an eviction, or none: what is still kept is what the *)
(* order lists, and the oldest, if it went, is in neither.                 *)
LEMMA MintNewStep ==
  ASSUME IInv, NEW e \in Units \cup Loose, MintNew(e)
  PROVE  IInv'
<1> DEFINE full  == Len(order) = HandleLimit
           kept  == IF full THEN Without(byHandle, Oldest) ELSE byHandle
           units == IF e \in Units THEN With(byUnit, e, nextId) ELSE byUnit
           tiles == IF e \in Loose THEN With(byTile, What[e].tile, nextId) ELSE byTile
           entry == IF e \in Units THEN UnitEntry(e) ELSE TileEntry(e)
           rest  == IF full THEN Tail(order) ELSE order
<1>1. /\ byHandle' = With(kept, nextId, entry)
      /\ byUnit' = IF full THEN Dropped(units, "unit", Oldest) ELSE units
      /\ byTile' = IF full THEN Dropped(tiles, "tile", Oldest) ELSE tiles
      /\ order' = Append(rest, nextId)
      /\ nextId' = nextId + 1
      /\ registered' = IF e \in Units THEN registered \cup {e} ELSE registered
      /\ given' = given \cup {<<nextId, e>>}
      /\ alive' = alive /\ gone' = gone /\ notices' = notices /\ episodes' = episodes
      /\ e \in alive /\ ~ Known(e)
  BY DEF MintNew
<1>2. /\ order \in Seq(Nat) /\ nextId \in Nat \ {0} /\ HandleLimit \in Nat \ {0}
      /\ \A h \in DOMAIN byHandle : h \in Nat /\ h < nextId
      /\ nextId \notin DOMAIN byHandle
  BY HandleLimitAssumption DEF IInv, TypeOK
<1>3. full => /\ order # << >>
              /\ Oldest \in DOMAIN byHandle
              /\ Oldest # nextId
  BY <1>2 DEF IInv, OrderInv, Oldest
<1>4. DOMAIN kept = IF full THEN DOMAIN byHandle \ {Oldest} ELSE DOMAIN byHandle
  BY WithoutKey
<1>5. \A h \in DOMAIN kept : h \in DOMAIN byHandle /\ kept[h] = byHandle[h]
  BY WithoutKey, <1>4
<1>6. /\ DOMAIN byHandle' = DOMAIN kept \cup {nextId}
      /\ byHandle'[nextId] = entry
      /\ \A h \in DOMAIN kept : byHandle'[h] = byHandle[h]
  <2> nextId \notin DOMAIN kept
    BY <1>2, <1>5
  <2> HIDE DEF kept, entry
  <2>1. byHandle' = With(kept, nextId, entry)
    BY <1>1
  <2> QED
    BY <2>1, <1>5 DEF With
<1>7. /\ entry \in UnitEntries \cup TileEntries
      /\ entry.kind = IF e \in Units THEN "unit" ELSE "tile"
      /\ e \in Units => entry.of = e
      /\ ~ entry.destroyed
  BY Entries, Descriptors DEF UnitEntry, TileEntry
<1>8. /\ DOMAIN units = IF e \in Units THEN DOMAIN byUnit \cup {e} ELSE DOMAIN byUnit
      /\ e \in Units => units[e] = nextId
      /\ \A u \in DOMAIN byUnit : u # e => units[u] = byUnit[u]
  BY DEF With
<1>9. e \in Units => e \notin DOMAIN byUnit
  BY <1>1 DEF Known
<1>10. rest \in Seq(Nat)
  BY <1>2, <1>3
<1>11. IF full THEN Len(rest) = Len(order) - 1 /\ \A i \in 1 .. Len(rest) : rest[i] = order[i + 1]
       ELSE Len(rest) = Len(order) /\ \A i \in 1 .. Len(rest) : rest[i] = order[i]
  BY <1>2, <1>3
<1>12. /\ Len(order') = Len(rest) + 1
       /\ \A i \in 1 .. Len(rest) : order'[i] = rest[i]
       /\ order'[Len(rest) + 1] = nextId
  BY <1>1, <1>2, <1>10
<1>13. /\ \A i \in 1 .. Len(rest) : rest[i] \in DOMAIN kept
       /\ \A h \in DOMAIN kept : \E i \in 1 .. Len(rest) : rest[i] = h
       /\ \A i, j \in 1 .. Len(rest) : i < j => rest[i] < rest[j]
       /\ Len(rest) < HandleLimit
  <2>1. CASE ~ full
    BY <2>1, <1>2, <1>4 DEF IInv, OrderInv
  <2>2. CASE full
    <3>1. Len(rest) = Len(order) - 1 /\ Len(order) = HandleLimit /\ Len(order) \in Nat
      BY <2>2, <1>2, <1>11
    <3>2. \A i \in 1 .. Len(rest) : rest[i] = order[i + 1] /\ i + 1 \in 1 .. Len(order)
      BY <2>2, <1>11, <3>1
    <3>3. \A i, j \in 1 .. Len(order) : i < j => order[i] < order[j]
      BY DEF IInv, OrderInv
    <3>4. \A i, j \in 1 .. Len(rest) : i < j => rest[i] < rest[j]
      BY <3>1, <3>2, <3>3
    <3>5. \A i \in 1 .. Len(order) : order[i] \in DOMAIN byHandle /\ order[i] \in Nat
      BY <1>2 DEF IInv, OrderInv
    <3>6. \A i \in 1 .. Len(rest) : rest[i] # Oldest
      <4> SUFFICES ASSUME NEW i \in 1 .. Len(rest) PROVE rest[i] # Oldest
        OBVIOUS
      <4>1. 1 \in 1 .. Len(order) /\ i + 1 \in 1 .. Len(order) /\ 1 < i + 1
        BY <3>1, <3>2
      <4>2. order[1] < order[i + 1] /\ order[1] \in Nat /\ order[i + 1] \in Nat
        BY <4>1, <3>3, <3>5
      <4> QED
        BY <4>2, <3>2 DEF Oldest
    <3>7. \A h \in DOMAIN kept : \E i \in 1 .. Len(rest) : rest[i] = h
      <4> SUFFICES ASSUME NEW h \in DOMAIN kept PROVE \E i \in 1 .. Len(rest) : rest[i] = h
        OBVIOUS
      <4>1. PICK i \in 1 .. Len(order) : order[i] = h
        BY <1>4, <2>2 DEF IInv, OrderInv
      <4>2. i # 1
        BY <4>1, <1>4, <2>2 DEF Oldest
      <4>3. i - 1 \in 1 .. Len(rest) /\ rest[i - 1] = order[i]
        BY <4>2, <3>1, <3>2
      <4> QED
        BY <4>1, <4>3
    <3> QED
      BY <2>2, <3>1, <3>2, <3>4, <3>5, <3>6, <3>7, <1>2, <1>4
  <2> QED
    BY <2>1, <2>2
<1>14. OrderInv'
  <2>1. Len(rest) \in Nat
    BY <1>10
  <2>2. \A i \in 1 .. Len(order') : order'[i] \in DOMAIN byHandle'
    BY <2>1, <1>6, <1>12, <1>13
  <2>3. \A h \in DOMAIN byHandle' : \E i \in 1 .. Len(order') : order'[i] = h
    <3> SUFFICES ASSUME NEW h \in DOMAIN byHandle'
                 PROVE  \E i \in 1 .. Len(order') : order'[i] = h
      OBVIOUS
    <3>1. CASE h = nextId
      <4>1. Len(rest) + 1 \in 1 .. Len(order')
        BY <2>1, <1>12
      <4> QED
        BY <4>1, <3>1, <1>12
    <3>2. CASE h # nextId
      <4>1. PICK i \in 1 .. Len(rest) : rest[i] = h
        BY <3>2, <1>6, <1>13
      <4>2. i \in 1 .. Len(order')
        BY <2>1, <1>12
      <4> QED
        BY <4>1, <4>2, <1>12
    <3> QED
      BY <3>1, <3>2
  <2>4. \A i, j \in 1 .. Len(order') : i < j => order'[i] < order'[j]
    <3> SUFFICES ASSUME NEW i \in 1 .. Len(order'), NEW j \in 1 .. Len(order'), i < j
                 PROVE  order'[i] < order'[j]
      OBVIOUS
    <3>1. i \in 1 .. Len(rest)
      BY <2>1, <1>12
    <3>2. rest[i] \in DOMAIN byHandle
      BY <3>1, <1>4, <1>13
    <3>3. CASE j = Len(rest) + 1
      BY <3>1, <3>2, <3>3, <1>2, <1>12
    <3>4. CASE j \in 1 .. Len(rest)
      BY <3>1, <3>4, <1>12, <1>13
    <3> QED
      BY <3>3, <3>4, <2>1, <1>12
  <2> QED
    BY <2>1, <2>2, <2>3, <2>4, <1>2, <1>12, <1>13 DEF OrderInv
<1>15. /\ DOMAIN byUnit' = IF full /\ byHandle[Oldest].kind = "unit"
                          THEN DOMAIN units \ {byHandle[Oldest].of} ELSE DOMAIN units
       /\ \A u \in DOMAIN byUnit' : byUnit'[u] = units[u]
  <2>1. full /\ byHandle[Oldest].kind = "unit" => byUnit' = Without(units, byHandle[Oldest].of)
    BY <1>1 DEF Dropped
  <2>2. ~ (full /\ byHandle[Oldest].kind = "unit") => byUnit' = units
    BY <1>1 DEF Dropped
  <2> HIDE DEF units, full
  <2>3. CASE full /\ byHandle[Oldest].kind = "unit"
    BY <2>1, <2>3 DEF Without
  <2> QED
    BY <2>2, <2>3
<1>16. /\ DOMAIN byTile' \subseteq DOMAIN tiles
       /\ \A t \in DOMAIN byTile' : byTile'[t] = tiles[t]
  <2>1. full /\ byHandle[Oldest].kind = "tile" => byTile' = Without(tiles, byHandle[Oldest].of.tile)
    BY <1>1 DEF Dropped
  <2>2. ~ (full /\ byHandle[Oldest].kind = "tile") => byTile' = tiles
    BY <1>1 DEF Dropped
  <2> HIDE DEF tiles, full
  <2>3. CASE full /\ byHandle[Oldest].kind = "tile"
    BY <2>1, <2>3 DEF Without
  <2> QED
    BY <2>2, <2>3
<1>17. /\ DOMAIN tiles = IF e \in Loose THEN DOMAIN byTile \cup {What[e].tile} ELSE DOMAIN byTile
       /\ \A t \in DOMAIN tiles : tiles[t] = nextId \/ (t \in DOMAIN byTile /\ tiles[t] = byTile[t])
  BY DEF With
<1> HIDE DEF kept, units, tiles, entry, rest
<1>18. \A u \in DOMAIN byUnit : byUnit[u] \in DOMAIN byHandle
         /\ byHandle[byUnit[u]].kind = "unit" /\ byHandle[byUnit[u]].of = u
         /\ ~ byHandle[byUnit[u]].destroyed
         /\ u \in registered /\ (u \in alive \/ u \in notices)
  BY DEF IInv, UnitInv
<1>19. \A h \in DOMAIN byHandle : byHandle[h].kind = "unit" =>
         /\ byHandle[h].of \in alive \cup gone
         /\ byHandle[h].of \in alive =>
              ~ byHandle[h].destroyed /\ byHandle[h].of \in DOMAIN byUnit
              /\ byUnit[byHandle[h].of] = h
  BY DEF IInv, UnitInv
<1>20. e \in Units => /\ e \in DOMAIN byUnit' /\ byUnit'[e] = nextId
                      /\ e \in registered' /\ e \in alive'
  BY <1>1, <1>3, <1>8, <1>9, <1>15, <1>19
<1>21. \A u \in DOMAIN byUnit' : u # e =>
         u \in DOMAIN byUnit /\ byUnit'[u] = byUnit[u] /\ byUnit[u] \in DOMAIN kept
  BY <1>4, <1>8, <1>15, <1>18
<1>22. \A u \in DOMAIN byUnit' :
         /\ byUnit'[u] \in DOMAIN byHandle'
         /\ byHandle'[byUnit'[u]].kind = "unit" /\ byHandle'[byUnit'[u]].of = u
         /\ ~ byHandle'[byUnit'[u]].destroyed
         /\ u \in registered' /\ (u \in alive' \/ u \in notices')
  <2> SUFFICES ASSUME NEW u \in DOMAIN byUnit'
               PROVE  /\ byUnit'[u] \in DOMAIN byHandle'
                      /\ byHandle'[byUnit'[u]].kind = "unit" /\ byHandle'[byUnit'[u]].of = u
                      /\ ~ byHandle'[byUnit'[u]].destroyed
                      /\ u \in registered' /\ (u \in alive' \/ u \in notices')
    OBVIOUS
  <2>1. CASE u = e
    <3>1. e \in Units
      BY <2>1, <1>8, <1>15 DEF IInv, TypeOK
    <3> QED
      BY <2>1, <3>1, <1>6, <1>7, <1>20
  <2>2. CASE u # e
    <3>1. byUnit'[u] = byUnit[u] /\ u \in DOMAIN byUnit /\ byHandle'[byUnit[u]] = byHandle[byUnit[u]]
      BY <2>2, <1>6, <1>21
    <3> QED
      BY <2>2, <3>1, <1>1, <1>6, <1>18, <1>21
  <2> QED
    BY <2>1, <2>2
<1>23. \A h \in DOMAIN byHandle' : byHandle'[h].kind = "unit" =>
         /\ byHandle'[h].of \in alive' \cup gone'
         /\ byHandle'[h].of \in alive' =>
              /\ ~ byHandle'[h].destroyed
              /\ byHandle'[h].of \in DOMAIN byUnit'
              /\ byUnit'[byHandle'[h].of] = h
  <2> SUFFICES ASSUME NEW h \in DOMAIN byHandle', byHandle'[h].kind = "unit"
               PROVE  /\ byHandle'[h].of \in alive' \cup gone'
                      /\ byHandle'[h].of \in alive' =>
                           /\ ~ byHandle'[h].destroyed
                           /\ byHandle'[h].of \in DOMAIN byUnit'
                           /\ byUnit'[byHandle'[h].of] = h
    OBVIOUS
  <2>1. CASE h = nextId
    BY <2>1, <1>6, <1>7, <1>20
  <2>2. CASE h # nextId
    <3>1. h \in DOMAIN kept /\ h \in DOMAIN byHandle /\ byHandle'[h] = byHandle[h]
      BY <2>2, <1>5, <1>6
    <3>2. byHandle[h].of \in alive \cup gone
      BY <3>1, <1>19
    <3>3. ASSUME byHandle[h].of \in alive
          PROVE  /\ ~ byHandle[h].destroyed
                 /\ byHandle[h].of \in DOMAIN byUnit' /\ byUnit'[byHandle[h].of] = h
      <4>1. /\ ~ byHandle[h].destroyed /\ byHandle[h].of \in DOMAIN byUnit
            /\ byUnit[byHandle[h].of] = h
        BY <3>1, <3>3, <1>19
      <4>2. byHandle[h].of # e
        BY <4>1, <1>9 DEF IInv, TypeOK
      <4>3. byHandle[h].of \in DOMAIN units /\ units[byHandle[h].of] = h
        BY <4>1, <4>2, <1>8
      <4>4. full /\ byHandle[Oldest].kind = "unit" => byHandle[h].of # byHandle[Oldest].of
        BY <3>1, <3>3, <4>1, <1>3, <1>4, <1>19
      <4> QED
        BY <4>1, <4>3, <4>4, <1>15
    <3> QED
      BY <3>1, <3>2, <3>3, <1>1
  <2> QED
    BY <2>1, <2>2
<1>24. UnitInv'
  BY <1>22, <1>23 DEF UnitInv
<1>25. WorldInv'
  BY <1>1 DEF IInv, WorldInv
<1>26. GivenInv'
  <2> SUFFICES ASSUME NEW g \in given', g[2] \in Units, g[1] \in DOMAIN byHandle'
               PROVE  byHandle'[g[1]].kind = "unit" /\ byHandle'[g[1]].of = g[2]
    BY DEF GivenInv
  <2>1. CASE g \in given
    <3>1. g[1] \in 1 .. nextId - 1
      BY <2>1 DEF IInv, TypeOK
    <3>2. g[1] # nextId
      BY <3>1, <1>2
    <3> QED
      BY <2>1, <3>2, <1>5, <1>6 DEF IInv, GivenInv
  <2>2. CASE g = <<nextId, e>>
    BY <2>2, <1>6, <1>7
  <2> QED
    BY <2>1, <2>2, <1>1
<1>27. TypeOK'
  <2>1. nextId' \in Nat \ {0} /\ 1 .. nextId' - 1 = 1 .. nextId - 1 \cup {nextId}
    BY <1>1, <1>2
  <2>2. DOMAIN byHandle' \subseteq 1 .. nextId' - 1
    BY <2>1, <1>5, <1>6 DEF IInv, TypeOK
  <2>3. \A h \in DOMAIN byHandle' : byHandle'[h] \in UnitEntries \cup TileEntries
    BY <1>5, <1>6, <1>7 DEF IInv, TypeOK
  <2>4. DOMAIN byUnit' \subseteq Units
    BY <1>8, <1>15 DEF IInv, TypeOK
  <2>5. \A u \in DOMAIN byUnit' : byUnit'[u] \in 1 .. nextId' - 1
    BY <2>1, <2>4, <1>20, <1>21 DEF IInv, TypeOK
  <2>6. DOMAIN byTile' \subseteq Tiles
    BY <1>16, <1>17, Descriptors DEF IInv, TypeOK
  <2>7. \A t \in DOMAIN byTile' : byTile'[t] \in 1 .. nextId' - 1
    BY <2>1, <1>16, <1>17 DEF IInv, TypeOK
  <2>8. order' \in Seq(Nat)
    BY <1>1, <1>2, <1>10
  <2>9. given' \subseteq (1 .. nextId' - 1) \X (Units \cup Loose)
    BY <2>1, <1>1 DEF IInv, TypeOK
  <2>10. /\ alive' \subseteq Units \cup Loose /\ gone' \subseteq Units \cup Loose
         /\ notices' \subseteq Units /\ registered' \subseteq Units
         /\ episodes' \in Nat
    BY <1>1 DEF IInv, TypeOK
  <2> QED
    BY <2>1, <2>2, <2>3, <2>4, <2>5, <2>6, <2>7, <2>8, <2>9, <2>10 DEF TypeOK
<1> QED
  BY <1>14, <1>24, <1>25, <1>26, <1>27 DEF IInv

LEMMA StepIInv == IInv /\ [Next]_vars => IInv'
<1> SUFFICES ASSUME IInv, [Next]_vars PROVE IInv'
  OBVIOUS
<1>1. ASSUME NEW e \in Units \cup Loose, Build(e) \/ Remove(e) \/ Mint(e) PROVE IInv'
  BY <1>1, BuildStep, RemoveStep, MintKnownStep, MintNewStep DEF Mint
<1>2. ASSUME NEW h \in Handles, MissMachine(h) \/ MissOnTile(h) PROVE IInv'
  BY <1>2, MissMachineStep, MissOnTileStep
<1>3. ASSUME NEW u \in Units, ObjectDestroyed(u) PROVE IInv'
  BY <1>3, ObjectDestroyedStep
<1>4. CASE UNCHANGED vars
  BY <1>4 DEF IInv, TypeOK, OrderInv, WorldInv, UnitInv, GivenInv
<1> QED
  BY <1>1, <1>2, <1>3, <1>4, BeginEpisodeStep DEF Next

THEOREM Invariant == Spec => []IInv
BY InitIInv, StepIInv, PTL DEF Spec

-----------------------------------------------------------------------------
(* Every variable of the registry keeps its shape and every number in use  *)
(* was handed out in this episode (handles.reset, handles.mint).           *)
THEOREM TypeCorrect == Spec => []TypeOK
<1>1. IInv => TypeOK
  BY DEF IInv
<1> QED
  BY <1>1, Invariant, PTL

(* Eviction keeps the order of minting and the table in step, and within   *)
(* the limit (evict_if_needed).                                            *)
THEOREM OrderIsExact == Spec => []OrderExact
<1>1. IInv => OrderExact
  <2> SUFFICES ASSUME IInv PROVE OrderExact
    OBVIOUS
  <2>1. Len(order) \in Nat
    BY DEF IInv, TypeOK
  <2>2. {order[i] : i \in 1 .. Len(order)} = DOMAIN byHandle
    BY DEF IInv, OrderInv
  <2>3. \A i \in 1 .. Len(order) - 1 : order[i] < order[i + 1]
    <3> SUFFICES ASSUME NEW i \in 1 .. Len(order) - 1 PROVE order[i] < order[i + 1]
      OBVIOUS
    <3>1. i \in 1 .. Len(order) /\ i + 1 \in 1 .. Len(order) /\ i < i + 1
      BY <2>1
    <3> QED
      BY <3>1 DEF IInv, OrderInv
  <2> QED
    BY <2>2, <2>3 DEF IInv, OrderInv, OrderExact
<1> QED
  BY <1>1, Invariant, PTL

(* A handle given for a machine resolves to that machine or to nothing,    *)
(* however often others were built, evicted and minted; a machine that     *)
(* stands is found by it as long as the registry keeps it (handles.mint,   *)
(* handles.resolve).                                                       *)
THEOREM MachinesKept == Spec => []MachinesKeepTheirHandle
<1>1. IInv => MachinesKeepTheirHandle
  <2> SUFFICES ASSUME IInv, NEW g \in given, g[2] \in Units
               PROVE  /\ Answers(g[1]) \subseteq {g[2]}
                      /\ g[2] \in alive /\ g[1] \in DOMAIN byHandle =>
                           /\ g[2] \in Answers(g[1])
                           /\ g[2] \in DOMAIN byUnit /\ byUnit[g[2]] = g[1]
    BY DEF MachinesKeepTheirHandle
  <2>1. Answers(g[1]) \subseteq {g[2]}
    BY DEF IInv, GivenInv, Answers
  <2>2. ASSUME g[2] \in alive, g[1] \in DOMAIN byHandle
        PROVE  /\ g[2] \in Answers(g[1])
               /\ g[2] \in DOMAIN byUnit /\ byUnit[g[2]] = g[1]
    BY <2>2 DEF IInv, GivenInv, UnitInv, Answers
  <2> QED
    BY <2>1, <2>2
<1> QED
  BY <1>1, Invariant, PTL

(* The index never holds a machine whose removal will not be announced     *)
(* (register_on_object_destroyed, handles.on_object_destroyed).            *)
THEOREM IndexAnnounced == Spec => []IndexedOrAnnounced
<1>1. IInv => IndexedOrAnnounced
  BY DEF IInv, UnitInv, IndexedOrAnnounced
<1> QED
  BY <1>1, Invariant, PTL
=============================================================================
