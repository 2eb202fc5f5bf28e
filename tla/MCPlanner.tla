----------------------------- MODULE MCPlanner -----------------------------
(* Programs for the planner. *)
EXTENDS Planner

Line(id, rapid, shapes) ==
  [op |-> "line", id |-> id, rapid |-> rapid, indexer |-> FALSE, shapes |-> shapes]
Index(id) ==
  [op |-> "line", id |-> id, rapid |-> TRUE, indexer |-> TRUE, shapes |-> {"plain"}]

\* Feeds with every corner, enough of them to fill the queue.
Corners == <<Line(1, FALSE, {"plain"}),
             Line(2, FALSE, {"arc", "consume", "parabolic"}),
             Line(3, FALSE, {"arc", "tangent", "corner"}),
             Line(4, FALSE, {"arc", "refused"})>>

\* A feed, the spindle started at constant surface speed, a feed that awaits its
\* speed, a thread, a rapid and the feed after it.
Thread == <<Line(1, FALSE, {"plain"}),
            [op |-> "spindle", css |-> TRUE],
            Line(2, FALSE, {"parabolic", "zero"}),
            [op |-> "sync", sync |-> "position"],
            Line(3, FALSE, {"parabolic"}),
            [op |-> "sync", sync |-> "none"],
            Line(4, TRUE, {"plain"}),
            Line(5, FALSE, {"plain"})>>

\* A feed and an indexing move in exact stop mode.
Indexing == <<Line(1, FALSE, {"plain"}),
              [op |-> "term", term |-> "stop"],
              Index(2),
              [op |-> "term", term |-> "parabolic"],
              Line(3, TRUE, {"plain"})>>

MCSystems ==
  {[program |-> Corners, orders |-> {"pause", "resume", "step", "abort", "turn", "disable"}],
   [program |-> Thread, orders |-> {"abort", "turn"}],
   [program |-> SubSeq(Thread, 1, 5), orders |-> {"pause", "resume", "disable"}],
   [program |-> Indexing, orders |-> {"abort", "turn", "disable"}]}

\* The spindle is started between two feeds: the second awaits its speed.
SpindleStarts == <<Line(1, FALSE, {"plain"}), [op |-> "spindle", css |-> FALSE],
                   Line(2, FALSE, {"plain"})>>
SpindleSystems == {[program |-> SpindleStarts, orders |-> {}]}
============================================================================
