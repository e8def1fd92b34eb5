----------------------------- MODULE MCNavigation -----------------------------
(* A field of five tiles by three with a wall to go round, a trap to back  *)
(* out of, or a closed corner; a position, and an entity of two tiles.     *)
EXTENDS Navigation

Machine == {<<4, 1>>, <<4, 2>>}

SmallMaps ==
  {Machine \cup m : m \in {{<<2, 0>>, <<2, 1>>}, {<<2, 0>>, <<3, 1>>, <<2, 2>>}, {<<3, 0>>}}}

SmallStarts == {<<0, 0>>, <<1, 1>>}

Position(x, y) == [x |-> x, y |-> y, box |-> <<x, y, x, y>>, entity |-> FALSE, radius |-> 8]

SmallGoals ==
  {Position(36, 4),
   [x |-> 36, y |-> 16, box |-> <<33, 9, 39, 23>>, entity |-> TRUE, radius |-> 8]}
=============================================================================
