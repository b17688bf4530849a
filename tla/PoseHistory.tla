----------------------------- MODULE PoseHistory -----------------------------
(***************************************************************************)
(* PoseHistory of agent_inputs.py: the stamped odometry samples from which *)
(* recogdrive_node.py cuts the history its model is given.  The pose is    *)
(* how far the car is along a line; `runs' tells the runs of the simulator *)
(* a pose was taken from.                                                  *)
(***************************************************************************)
EXTENDS Integers, Sequences

CONSTANTS
  MaxAge,   \* max_age_sec
  Frames,   \* NUM_HISTORY_FRAMES
  Interval  \* NAVSIM_INTERVAL_SEC

ASSUME HistoryAssumption == {MaxAge, Frames, Interval} \subseteq Nat \ {0}

Oldest(samples) == samples[1]
Newest(samples) == samples[Len(samples)]

Stale(samples, cutoff) == {i \in 1..Len(samples) - 1 : samples[i].t < cutoff}

\* Mutant: no more is kept than the window spans.
TrimToWindow(samples, now) ==
  LET stale == Stale(samples, now - (Frames - 1) * Interval)
  IN  SubSeq(samples, 1 + (IF stale = {} THEN 0 ELSE CHOOSE n \in stale : \A m \in stale : m <= n),
             Len(samples))

\* Samples come in order, so those that are too old are the first ones.
Trim(samples, now) ==
  LET stale == Stale(samples, now - MaxAge)
  IN  SubSeq(samples, 1 + (IF stale = {} THEN 0 ELSE CHOOSE n \in stale : \A m \in stale : m <= n),
             Len(samples))

Backwards(samples, s) == samples # <<>> /\ s.t < Newest(samples).t

Add(samples, s) ==
  IF Backwards(samples, s) THEN <<s>>
  ELSE IF samples # <<>> /\ s.t = Newest(samples).t
       THEN [samples EXCEPT ![Len(samples)] = s]
       ELSE Trim(Append(samples, s), s.t)

At(s) == [runs |-> {s.run}, x |-> s.x]

Between(a, b, t) ==
  [runs |-> {a.run, b.run}, x |-> a.x + ((t - a.t) * (b.x - a.x)) \div (b.t - a.t)]

\* Linear between the two neighbours, and clamped to the buffer's ends.
Sample(samples, t) ==
  IF t <= Oldest(samples).t THEN At(Oldest(samples))
  ELSE IF t >= Newest(samples).t THEN At(Newest(samples))
  ELSE LET later == {i \in 2..Len(samples) : samples[i].t >= t}
           hi == CHOOSE i \in later : samples[i - 1].t <= t
       IN  Between(samples[hi - 1], samples[hi], t)

FrameTime(tRef, i) == tRef - (Frames - i) * Interval
Window(samples, tRef) == [i \in 1..Frames |-> Sample(samples, FrameTime(tRef, i))]
=============================================================================
