----------------------------- MODULE MCEpisode ------------------------------
(***************************************************************************)
(* Four tasks of the kinds the repository declares, cut small: a shaped    *)
(* one (navigate), one with a disruption (keep_line_running), one scored   *)
(* by a verification window (construct_smelting_line, belt_smelting) and   *)
(* an open world.                                                          *)
(***************************************************************************)
EXTENDS Episode

Plain == [kinds |-> {}, goal |-> 0, verify |-> 0, target |-> 0, steps |-> 3, ticks |-> 9,
          disruptAt |-> << >>, calls |-> {}]

Shaped1 == [Plain EXCEPT !.kinds = {"cost", "potential"}, !.goal = 2,
                         !.calls = {"skill", "finish"}]

Kept == [Plain EXCEPT !.kinds = {"cost", "high"}, !.goal = 2, !.ticks = 6,
                      !.disruptAt = <<3>>, !.calls = {"skill"}]

Built == [Plain EXCEPT !.verify = 3, !.target = 2, !.steps = 4, !.ticks = 6,
                       !.calls = {"bridge", "finish"}]

Open == [Plain EXCEPT !.calls = {"wait"}]

SmallTasks == {Shaped1, Kept, Built, Open}
=============================================================================
