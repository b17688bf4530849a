---------------------------- MODULE MCOrionDrive -----------------------------
(***************************************************************************)
(* What the orion node owes the car while the model takes its time.        *)
(***************************************************************************)
EXTENDS OrionDrive

\* near_node: the waypoint that main is about to read is still there, though
\* the worker pops the same deque between the test of its length and the read.
NodeThere == ctrl = "second" => Remaining(deques[Len(deques)]) > 1

\* "agent mode still reports the real gap": a frame is reported as run without
\* memory exactly if the frame run before it is that much older; and unless the
\* timestamps are made up, exactly those do run without it.
GapReported ==
  job.at = "model" /\ ~skipped =>
    /\ job.gap <=> ran # None /\ job.odom.at - ran >= MemoryMaxDt
    /\ mode = "sensor" => (job.kept <=> ran # None /\ ~job.gap)

\* "advance along the latched CarlaRoute": the command of a frame is that of a
\* waypoint the car is at, wherever it has got to between two forwards.
AtTheCar(f) ==
  LET ahead == deques[f.deque].lo - f.odom.pos IN ahead \in -MinDist..MinDist
Commanded == job.at = "built" /\ job.deque # 0 /\ job.token = serial /\ job.odom.route = serial
WayAhead == Commanded /\ astray = {} => AtTheCar(job)

\* "the model has stopped answering": once its plan is too old the car is not
\* driven on, however long the forward takes.
StallBraked == plan # NoPlan /\ ~due /\ applied = "drive" => now - plan <= StallTimeout
=============================================================================
