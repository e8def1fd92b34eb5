SPECIFICATION Spec
CONSTANTS
  Units = {furnace, drill}
  Loose = {ore, pile, oak, pine}
  Tiles = {here, there}
  Types = {"resource", "item-entity", "tree"}
  Names = {"iron-ore", "item-on-ground", "tree-01", "tree-02"}
  ore = ore
  pile = pile
  oak = oak
  pine = pine
  here = here
  there = there
  What <- LooseWhat
  HandleLimit = 2
  MaxMints = 3
  MaxEpisodes = 2
SYMMETRY Symmetry
INVARIANT
  MachinesKeepTheirHandle
CHECK_DEADLOCK FALSE
