SPECIFICATION Spec
CONSTANTS
  Units = {furnace}
  Loose = {ore, pile}
  Tiles = {here, there}
  Types = {"resource", "item-entity", "tree"}
  Names = {"iron-ore", "item-on-ground", "tree-01", "tree-02"}
  ore = ore
  pile = pile
  oak = oak
  pine = pine
  here = here
  there = there
  What <- LooseWhat
  HandleLimit = 2
  MaxMints = 4
  MaxEpisodes = 2
INVARIANT
  OneEntityPerHandle
CHECK_DEADLOCK FALSE
