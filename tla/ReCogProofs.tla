----------------------------- MODULE ReCogProofs -----------------------------
(***************************************************************************)
(* ReCogDrive, the node and its fast path.  The node, for any number of    *)
(* runs, any window and any car: what the model is given is of the run the *)
(* car is in and true, and the plan is cut where the car is.  The static   *)
(* tensors, for prompts of any lengths, any number of frames and any       *)
(* layout of the context: the planner attends to what the reference would  *)
(* have laid out, and draws with the node's own generator.                 *)
(*                                                                         *)
(* The prover has no induction over a formula; where one is needed (the    *)
(* neighbours of a time, the samples that are too old, the way over        *)
(* several ticks) the proof takes the least, or the greatest, member of a  *)
(* set of numbers.                                                         *)
(***************************************************************************)
EXTENDS MCReCogDrive, SequenceTheorems, WellFoundedInduction, NaturalsInduction,
        TLAPS

-----------------------------------------------------------------------------
(* sets of numbers                                                         *)

\* A set of naturals has a least member.
LEMMA LeastMember ==
  ASSUME NEW T, T \subseteq Nat, T # {}
  PROVE  \E m \in T : \A k \in T : m <= k
<1> DEFINE R == OpToRel(<, Nat)
<1>1. \A x, y \in Nat : x < y => <<x, y>> \in R
  BY DEF OpToRel
<1>2. IsWellFoundedOn(R, Nat)
  BY NatLessThanWellFounded
<1>3. PICK m \in T : \A k \in T : ~ (<<k, m>> \in R)
  <2> HIDE DEF R
  <2> QED
    BY <1>2, WFMin
<1>4. ASSUME NEW k \in T
      PROVE  m <= k
  <2>1. ~ (k < m)
    BY <1>1, <1>3
  <2> QED
    BY <2>1
<1> QED
  BY <1>4

\* A set of integers with an upper bound has a greatest member.
LEMMA GreatestMember ==
  ASSUME NEW b \in Int, NEW T, \A k \in T : k \in Int /\ k <= b, T # {}
  PROVE  \E n \in T : \A m \in T : m <= n
<1> DEFINE U == {b - k : k \in T}
<1>1. U \subseteq Nat /\ U # {}
  OBVIOUS
<1>2. PICK u \in U : \A v \in U : u <= v
  <2> HIDE DEF U
  <2> QED
    BY <1>1, LeastMember
<1>3. PICK n \in T : u = b - n
  OBVIOUS
<1>4. ASSUME NEW m \in T
      PROVE  m <= n
  <2>1. b - m \in U
    OBVIOUS
  <2>2. b - n <= b - m
    BY <1>2, <1>3, <2>1
  <2> QED
    BY <2>2
<1> QED
  BY <1>4

-----------------------------------------------------------------------------
(* the way of the car                                                      *)

Sightings == [t : Nat, run : Nat, x : Nat]

SimTyped ==
  /\ wall \in Nat /\ epoch \in Nat /\ run \in Nat \ {0} /\ start \in Nat /\ epoch + start <= wall
  /\ path \in Seq(Nat) /\ Len(path) = sim - start + 1
  /\ \A k \in 1..Len(path) - 1 : path[k + 1] - path[k] \in Steps
  /\ quiet \in 0..MaxQuiet

\* The way from one tick to the next, and over several at the same speed.
LEMMA OneTick ==
  ASSUME SimTyped, NEW t \in start..sim
  PROVE  /\ PosAt(t) \in Nat
         /\ t < sim => PosAt(t + 1) - PosAt(t) \in Steps
<1>1. t - start + 1 \in 1..Len(path) /\ sim \in Int
  BY DEF SimTyped, sim
<1>2. PosAt(t) \in Nat
  BY <1>1 DEF SimTyped, PosAt
<1>3. ASSUME t < sim
      PROVE  PosAt(t + 1) - PosAt(t) \in Steps
  <2> DEFINE k == t - start + 1
  <2>1. k \in 1..Len(path) - 1 /\ (t + 1) - start + 1 = k + 1
    BY <1>1, <1>3 DEF SimTyped
  <2> HIDE DEF k
  <2>2. path[k + 1] - path[k] \in Steps
    BY <2>1 DEF SimTyped
  <2>3. PosAt(t) = path[k]
    BY DEF PosAt, k
  <2> QED
    BY <2>1, <2>2, <2>3 DEF PosAt
<1> QED
  BY <1>2, <1>3

LEMMA EvenWay ==
  ASSUME SimTyped, NEW a \in start..sim, NEW v \in Int,
         \A t \in a..sim - 1 : PosAt(t + 1) - PosAt(t) = v
  PROVE  PosAt(sim) = PosAt(a) + (sim - a) * v
<1> DEFINE P(n) == PosAt(a + n) = PosAt(a) + n * v
           T == {n \in Nat : a + n <= sim /\ ~P(n)}
<1>0. sim \in Int /\ start \in Nat /\ a \in Int
  BY DEF SimTyped, sim
<1>1. ASSUME T # {}
      PROVE  FALSE
  <2>1. PICK m \in T : \A k \in T : m <= k
    <3>1. T \subseteq Nat
      OBVIOUS
    <3> HIDE DEF T
    <3> QED
      BY <1>1, <3>1, LeastMember
  <2>2. m # 0
    <3>1. PosAt(a) \in Nat
      BY OneTick
    <3>2. P(0)
      BY <1>0, <3>1
    <3> QED
      BY <3>2
  <2>3. m - 1 \in Nat /\ a + (m - 1) \in a..sim - 1 /\ a + (m - 1) + 1 = a + m
    BY <1>0, <2>2
  <2>4. P(m - 1)
    <3>1. m - 1 \notin T
      BY <2>1, <2>3
    <3> QED
      BY <1>0, <2>3, <3>1
  <2>5. PosAt(a + m) - PosAt(a + (m - 1)) = v
    BY <2>3
  <2>6. PosAt(a + m) \in Nat /\ PosAt(a + (m - 1)) \in Nat /\ PosAt(a) \in Nat
    <3>1. a + m \in start..sim /\ a + (m - 1) \in start..sim
      BY <1>0, <2>3
    <3> QED
      BY <3>1, OneTick
  <2>7. (m - 1) * v + v = m * v
    BY <2>3
  <2>8. m * v \in Int /\ (m - 1) * v \in Int
    BY <2>3
  <2>9. P(m)
    <3> DEFINE x == m * v
               y == (m - 1) * v
    <3>1. PosAt(a + (m - 1)) = PosAt(a) + y /\ y + v = x /\ x \in Int /\ y \in Int
      BY <2>4, <2>7, <2>8
    <3> HIDE DEF x, y
    <3>2. PosAt(a + m) = PosAt(a) + x
      BY <2>5, <2>6, <3>1
    <3> QED
      BY <3>2 DEF x
  <2> QED
    BY <2>9
<1>2. sim - a \in Nat /\ a + (sim - a) = sim
  BY <1>0
<1>3. sim - a \notin T
  BY <1>1
<1> QED
  BY <1>2, <1>3

-----------------------------------------------------------------------------
(* the samples and what is cut from them                                   *)

Sighted(q) == q \in Seq(Sightings) /\ q # <<>>

\* Samples of the run the car is in, told truly, in order, none too long after
\* the one before.
Told(q) ==
  /\ Sighted(q)
  /\ \A i \in 1..Len(q) :
       q[i].run = run /\ q[i].t \in start..sim /\ q[i].x = PosAt(q[i].t)
  /\ \A i \in 1..Len(q) - 1 : q[i + 1].t - q[i].t \in 1..MaxQuiet

LEMMA SightedEnds ==
  ASSUME NEW q, Sighted(q)
  PROVE  /\ Len(q) \in Nat \ {0} /\ q \in Seq(Sightings)
         /\ \A i \in 1..Len(q) : q[i] \in Sightings
         /\ Oldest(q) = q[1] /\ Newest(q) = q[Len(q)]
         /\ Oldest(q) \in Sightings /\ Newest(q) \in Sightings
<1>1. Len(q) \in Nat \ {0} /\ \A i \in 1..Len(q) : q[i] \in Sightings
  <2> DEFINE S == Sightings
  <2> HIDE DEF S
  <2>1. q \in Seq(S) /\ q # <<>>
    BY DEF Sighted, S
  <2>2. Len(q) \in Nat \ {0} /\ \A i \in 1..Len(q) : q[i] \in S
    BY <2>1
  <2> QED
    BY <2>2 DEF S
<1> QED
  BY <1>1 DEF Sighted, Oldest, Newest

\* The buffer's ends, or what lies between two neighbours: there are two around
\* every time between the ends.
LEMMA SampleCases ==
  ASSUME NEW q, Sighted(q), NEW t \in Int
  PROVE  \/ t <= Oldest(q).t /\ Sample(q, t) = At(Oldest(q))
         \/ t >= Newest(q).t /\ Sample(q, t) = At(Newest(q))
         \/ \E hi \in 2..Len(q) :
              /\ q[hi - 1].t <= t /\ t <= q[hi].t
              /\ Sample(q, t) = Between(q[hi - 1], q[hi], t)
<1>0. /\ Len(q) \in Nat \ {0} /\ Oldest(q) = q[1] /\ Newest(q) = q[Len(q)]
      /\ \A i \in 1..Len(q) : q[i].t \in Nat
  BY SightedEnds DEF Sightings
<1>1. CASE t <= Oldest(q).t
  BY <1>1 DEF Sample
<1>2. CASE ~(t <= Oldest(q).t) /\ t >= Newest(q).t
  BY <1>2 DEF Sample
<1>3. CASE ~(t <= Oldest(q).t) /\ ~(t >= Newest(q).t)
  <2> DEFINE later == {i \in 2..Len(q) : q[i].t >= t}
             hi == CHOOSE i \in later : q[i - 1].t <= t
  <2>1. q[1].t < t /\ t < q[Len(q)].t
    BY <1>0, <1>3
  <2>2. Len(q) \in later
    BY <1>0, <2>1
  <2>3. PICK m \in later : \A k \in later : m <= k
    <3>1. later \subseteq Nat /\ later # {}
      BY <1>0, <2>2
    <3> HIDE DEF later
    <3> QED
      BY <3>1, LeastMember
  <2>4. q[m - 1].t <= t
    <3>1. CASE m = 2
      <4>1. m - 1 = 1 /\ q[1].t \in Nat
        BY <1>0, <3>1
      <4> QED
        BY <2>1, <4>1
    <3>2. CASE m # 2
      <4>1. m - 1 \in 2..Len(q) /\ m - 1 \notin later
        BY <1>0, <2>3, <3>2
      <4>2. q[m - 1].t \in Nat /\ ~(q[m - 1].t >= t)
        BY <1>0, <4>1
      <4> QED
        BY <4>2
    <3> QED
      BY <3>1, <3>2
  <2>5. hi \in later /\ q[hi - 1].t <= t
    <3> HIDE DEF later
    <3> QED
      BY <2>3, <2>4
  <2>6. Sample(q, t) = Between(q[hi - 1], q[hi], t)
    BY <1>3 DEF Sample
  <2>7. hi \in 2..Len(q) /\ t <= q[hi].t
    BY <1>0, <2>5
  <2> HIDE DEF hi
  <2> QED
    BY <2>5, <2>6, <2>7
<1> QED
  BY <1>1, <1>2, <1>3

LEMMA SampleOfRun ==
  ASSUME NEW q, Told(q), NEW t \in Int
  PROVE  Sample(q, t).runs = {run}
<1>1. Sighted(q) /\ \A i \in 1..Len(q) : q[i].run = run
  BY DEF Told
<1>2. Len(q) \in Nat \ {0} /\ Oldest(q).run = run /\ Newest(q).run = run
  BY <1>1, SightedEnds
<1>3. \A hi \in 2..Len(q) : Between(q[hi - 1], q[hi], t).runs = {run}
  <2>1. \A hi \in 2..Len(q) : q[hi - 1].run = run /\ q[hi].run = run
    BY <1>1, <1>2
  <2> QED
    BY <2>1 DEF Between
<1>4. At(Oldest(q)).runs = {run} /\ At(Newest(q)).runs = {run}
  BY <1>2 DEF At
<1>5. ASSUME NEW hi \in 2..Len(q), Sample(q, t) = Between(q[hi - 1], q[hi], t)
      PROVE  Sample(q, t).runs = {run}
  BY <1>3, <1>5
<1> QED
  BY <1>1, <1>4, <1>5, SampleCases

\* Odometry skips at most one tick, and lengths are counted in halves of a unit.
SkipsOne == MaxQuiet <= 2 /\ \A s \in Steps : s % 2 = 0

\* From its oldest sample on, the buffer tells where the car was; half a step off
\* at most.
LEMMA SampleTrue ==
  ASSUME SkipsOne, SimTyped, NEW q, Told(q),
         NEW t \in Int, t <= Newest(q).t,
         NEW s \in Steps, \A u \in Steps : u <= s
  PROVE  LET at == IF t < Oldest(q).t THEN Oldest(q).t ELSE t
         IN  at \in start..sim /\ 2 * Dist(Sample(q, t).x, PosAt(at)) <= s
<1> DEFINE at == IF t < Oldest(q).t THEN Oldest(q).t ELSE t
<1>0. /\ s \in Nat /\ Steps \subseteq Nat /\ sim \in Int /\ start \in Nat
      /\ Sighted(q) /\ Len(q) \in Nat \ {0} /\ Oldest(q) = q[1] /\ Newest(q) = q[Len(q)]
      /\ \A i \in 1..Len(q) : q[i].t \in start..sim /\ q[i].x = PosAt(q[i].t)
  <2>1. s \in Nat /\ Steps \subseteq Nat /\ sim \in Int /\ start \in Nat
    BY ReCogAssumption DEF SimTyped, sim
  <2>2. Sighted(q) /\ \A i \in 1..Len(q) : q[i].t \in start..sim /\ q[i].x = PosAt(q[i].t)
    BY DEF Told
  <2>3. Len(q) \in Nat \ {0} /\ Oldest(q) = q[1] /\ Newest(q) = q[Len(q)]
    BY <2>2, SightedEnds
  <2> QED
    BY <2>1, <2>2, <2>3
<1>i. sim \in Int /\ start \in Int /\ s \in Nat
  BY <1>0
<1>1. at \in start..sim
  <2>1. q[1].t \in start..sim /\ q[Len(q)].t \in start..sim
    BY <1>0
  <2> QED
    BY <1>0, <2>1
<1>2. PosAt(at) \in Nat
  BY <1>1, OneTick
<1>3. ASSUME Sample(q, t).x = PosAt(at)
      PROVE  2 * Dist(Sample(q, t).x, PosAt(at)) <= s
  BY <1>0, <1>2, <1>3 DEF Dist
<1>4. ASSUME t <= Oldest(q).t, Sample(q, t) = At(Oldest(q))
      PROVE  2 * Dist(Sample(q, t).x, PosAt(at)) <= s
  <2>1. at = q[1].t /\ Sample(q, t).x = q[1].x /\ q[1].x = PosAt(q[1].t)
    BY <1>0, <1>4 DEF At
  <2> QED
    BY <1>1, <1>3, <2>1
<1>5. ASSUME t >= Newest(q).t, Sample(q, t) = At(Newest(q))
      PROVE  2 * Dist(Sample(q, t).x, PosAt(at)) <= s
  <2>1. q[1].t \in Int /\ q[Len(q)].t \in Int /\ q[Len(q)].x = PosAt(q[Len(q)].t)
    BY <1>0
  <2>2. t = q[Len(q)].t /\ Sample(q, t).x = q[Len(q)].x
    BY <1>0, <1>5, <2>1 DEF At
  <2>3. CASE t < Oldest(q).t
    <3>1. Sample(q, t) = At(Oldest(q)) /\ Oldest(q).x = PosAt(at)
      BY SMTT(30), <1>0, <2>1, <2>3 DEF Sample
    <3> QED
      BY <1>1, <1>3, <3>1 DEF At
  <2>4. CASE ~(t < Oldest(q).t)
    BY <1>1, <1>3, <2>1, <2>2, <2>4
  <2> QED
    BY <2>3, <2>4
<1>6. ASSUME NEW hi \in 2..Len(q), q[hi - 1].t <= t, t <= q[hi].t,
             Sample(q, t) = Between(q[hi - 1], q[hi], t), ~(t <= Oldest(q).t)
      PROVE  2 * Dist(Sample(q, t).x, PosAt(at)) <= s
  <2> DEFINE a == q[hi - 1]
             b == q[hi]
  <2>1. /\ a.t \in start..sim /\ b.t \in start..sim /\ b.t - a.t \in 1..2
        /\ a.x = PosAt(a.t) /\ b.x = PosAt(b.t)
    <3>1. hi - 1 \in 1..Len(q) - 1 /\ hi - 1 \in 1..Len(q) /\ hi \in 1..Len(q) /\ (hi - 1) + 1 = hi
      BY <1>0
    <3>2. b.t - a.t \in 1..MaxQuiet
      BY <3>1 DEF Told
    <3>3. MaxQuiet \in {0, 1, 2}
      BY ReCogAssumption DEF SkipsOne
    <3>4. b.t - a.t \in 1..2
      BY <3>2, <3>3
    <3> QED
      BY <1>0, <3>1, <3>4
  <2>2. at = t
    <3>1. q[1].t \in Int
      BY <1>0
    <3> QED
      BY <1>0, <1>6, <3>1
  <2>3. Sample(q, t).x = a.x + ((t - a.t) * (b.x - a.x)) \div (b.t - a.t)
    BY <1>6 DEF Between
  <2>4. a.x \in Nat /\ b.x \in Nat
    BY <2>1, OneTick
  <2> DEFINE ta == a.t
             tb == b.t
             xa == a.x
             xb == b.x
  <2>5. /\ ta \in start..sim /\ tb \in start..sim /\ tb - ta \in 1..2 /\ ta <= t /\ t <= tb
        /\ xa = PosAt(ta) /\ xb = PosAt(tb) /\ xa \in Nat /\ xb \in Nat
        /\ Sample(q, t).x = xa + ((t - ta) * (xb - xa)) \div (tb - ta)
    BY <1>6, <2>1, <2>3, <2>4
  <2> HIDE DEF ta, tb, xa, xb, a, b, at
  <2>6. CASE t = ta
    <3>1. (t - ta) * (xb - xa) = 0 /\ 0 \div (tb - ta) = 0
      BY <1>0, <2>5, <2>6
    <3> QED
      BY <1>3, <2>2, <2>5, <2>6, <3>1
  <2>7. CASE t = tb
    <3>1. ((t - ta) * (xb - xa)) \div (tb - ta) = xb - xa
      <4> DEFINE d == xb - xa
      <4>1. d \in Int /\ tb - ta \in {1, 2} /\ t - ta = tb - ta
        BY <1>i, <2>5, <2>7
      <4> HIDE DEF d
      <4>2. (1 * d) \div 1 = d /\ (2 * d) \div 2 = d
        BY <4>1
      <4>3. ((t - ta) * d) \div (tb - ta) = d
        BY <4>1, <4>2
      <4> QED
        BY <4>3 DEF d
    <3>2. Sample(q, t).x = xb
      BY <2>5, <3>1
    <3> QED
      BY <1>3, <2>2, <2>5, <2>7, <3>2
  <2>8. CASE t # ta /\ t # tb
    <3>1. t = ta + 1 /\ tb = t + 1 /\ tb - ta = 2
      <4>1. ta \in Int /\ tb \in Int
        BY <1>i, <2>5
      <4>2. ta < t /\ t < tb /\ tb - ta <= 2
        BY <1>i, <2>5, <2>8, <4>1
      <4> QED
        BY <4>1, <4>2
    <3>2. t \in start..sim /\ ta < sim /\ t < sim
      BY <1>0, <2>5, <3>1
    <3>3. /\ PosAt(t) - xa \in Steps /\ xb - PosAt(t) \in Steps /\ PosAt(t) \in Nat
      BY <2>5, <3>1, <3>2, OneTick
    <3>4. PICK g \in Nat, h \in Nat : PosAt(t) - xa = 2 * g /\ xb - PosAt(t) = 2 * h
      <4>1. \A k \in Nat : k % 2 = 0 => \E h \in Nat : k = 2 * h
        <5>1. ASSUME NEW k \in Nat, k % 2 = 0
              PROVE  k = 2 * (k \div 2) /\ k \div 2 \in Nat
          BY <5>1
        <5> QED
          BY <5>1
      <4>2. Steps \subseteq Nat /\ \A u \in Steps : u % 2 = 0
        BY <1>0 DEF SkipsOne
      <4> QED
        BY ZenonT(60), <3>3, <4>1, <4>2
    <3>5. 2 * g <= s /\ 2 * h <= s
      BY <3>3, <3>4
    <3>6. Sample(q, t).x = xa + g + h
      <4> DEFINE d == xb - xa
      <4>1. ta \in Int /\ xa \in Nat /\ t - ta = 1 /\ d = 2 * (g + h)
        <5>1. ta \in Int /\ xa \in Nat /\ xb \in Nat
          BY <1>i, <2>5
        <5>2. t - ta = 1
          BY <3>1, <5>1
        <5>3. xb - xa = 2 * (g + h)
          BY <3>3, <3>4, <5>1
        <5> QED
          BY <5>1, <5>2, <5>3
      <4>2. (2 * (g + h)) \div 2 = g + h
        OBVIOUS
      <4> HIDE DEF d
      <4>3. (t - ta) * d = 2 * (g + h)
        BY <4>1
      <4>4. ((t - ta) * d) \div (tb - ta) = g + h
        BY <3>1, <4>2, <4>3
      <4> QED
        BY <2>5, <4>1, <4>4 DEF d
    <3>7. PosAt(t) = xa + 2 * g /\ xa \in Nat
      BY SMTT(30), <2>5, <3>3, <3>4
    <3> QED
      BY <1>0, <2>2, <3>5, <3>6, <3>7 DEF Dist
  <2> QED
    BY <2>6, <2>7, <2>8
<1>7. 2 * Dist(Sample(q, t).x, PosAt(at)) <= s
  <2>1. CASE t <= Oldest(q).t
    BY <1>4, <2>1 DEF Sample
  <2>2. CASE ~(t <= Oldest(q).t)
    <3> HIDE DEF at
    <3>1. \/ t >= Newest(q).t /\ Sample(q, t) = At(Newest(q))
          \/ \E hi \in 2..Len(q) :
               /\ q[hi - 1].t <= t /\ t <= q[hi].t
               /\ Sample(q, t) = Between(q[hi - 1], q[hi], t)
      BY <1>0, <2>2, SampleCases
    <3>2. CASE t >= Newest(q).t /\ Sample(q, t) = At(Newest(q))
      BY <1>5, <3>2
    <3>3. CASE \E hi \in 2..Len(q) :
                 /\ q[hi - 1].t <= t /\ t <= q[hi].t
                 /\ Sample(q, t) = Between(q[hi - 1], q[hi], t)
      <4>1. PICK hi \in 2..Len(q) :
                 /\ q[hi - 1].t <= t /\ t <= q[hi].t
                 /\ Sample(q, t) = Between(q[hi - 1], q[hi], t)
        BY <3>3
      <4> QED
        BY <1>6, <2>2, <4>1
    <3> QED
      BY <3>1, <3>2, <3>3
  <2> QED
    BY <2>1, <2>2
<1> QED
  BY <1>1, <1>7

-----------------------------------------------------------------------------
(* PoseHistory.add                                                         *)

\* The buffer begins with the first sample since it was emptied, or so long ago
\* that what was trimmed is out of reach.
ReachesTo(q, first) ==
  /\ \A i \in 1..Len(q) : first <= q[i].t
  /\ Oldest(q).t = first \/ Oldest(q).t < Newest(q).t - MaxAge + MaxQuiet

\* Trimming drops a first part of the samples, the last of which was too old.
LEMMA TrimShape ==
  ASSUME NEW q, Sighted(q), NEW t \in Nat
  PROVE  \E n \in 0..Len(q) - 1 :
           /\ Trim(q, t) = SubSeq(q, 1 + n, Len(q))
           /\ n # 0 => q[n].t < t - MaxAge
<1> DEFINE stale == Stale(q, t - MaxAge)
           last  == CHOOSE n \in stale : \A m \in stale : m <= n
<1>0. Len(q) \in Nat \ {0}
  BY SightedEnds
<1>1. CASE stale = {}
  <2>1. Trim(q, t) = SubSeq(q, 1 + 0, Len(q))
    BY <1>1 DEF Trim
  <2> QED
    BY <1>0, <2>1
<1>2. CASE stale # {}
  <2>1. \A k \in stale : k \in Int /\ k <= Len(q)
    BY <1>0 DEF Stale
  <2>2. \E n \in stale : \A m \in stale : m <= n
    <3> HIDE DEF stale
    <3> QED
      BY <1>0, <1>2, <2>1, GreatestMember
  <2>3. last \in stale
    <3> HIDE DEF stale
    <3> QED
      BY <2>2
  <2>4. last \in 1..Len(q) - 1 /\ q[last].t < t - MaxAge
    BY <2>3 DEF Stale
  <2>5. Trim(q, t) = SubSeq(q, 1 + last, Len(q))
    BY <1>2 DEF Trim
  <2>6. last \in 0..Len(q) - 1
    BY <1>0, <2>4
  <2> HIDE DEF last
  <2> QED
    BY <2>4, <2>5, <2>6
<1> QED
  BY <1>1, <1>2

LEMMA TrimTold ==
  ASSUME SimTyped, NEW q, Told(q), NEW first \in Int, ReachesTo(q, first)
  PROVE  LET r == Trim(q, Newest(q).t)
         IN  Told(r) /\ Newest(r) = Newest(q) /\ ReachesTo(r, first)
<1> DEFINE now == Newest(q).t
           len == Len(q)
<1>0. /\ Sighted(q) /\ len \in Nat \ {0} /\ q \in Seq(Sightings)
      /\ Oldest(q) = q[1] /\ Newest(q) = q[len] /\ now \in Nat
      /\ \A i \in 1..len : q[i].t \in Nat
      /\ MaxQuiet \in Nat /\ MaxAge \in Nat
  <2>1. Sighted(q)
    BY DEF Told
  <2>2. MaxQuiet \in Nat /\ MaxAge \in Nat
    BY ReCogAssumption, HistoryAssumption
  <2> QED
    BY <2>1, <2>2, SightedEnds DEF Sightings
<1>1. PICK n \in 0..len - 1 :
        /\ Trim(q, now) = SubSeq(q, 1 + n, len)
        /\ n # 0 => q[n].t < now - MaxAge
  BY <1>0, TrimShape
<1> DEFINE r == SubSeq(q, 1 + n, len)
<1>2. /\ r \in Seq(Sightings) /\ Len(r) = len - n /\ len - n \in Nat \ {0}
      /\ \A i \in 1..len - n : r[i] = q[n + i] /\ n + i \in 1..len
  <2> DEFINE S == Sightings
  <2>1. q \in Seq(S)
    BY <1>0
  <2> HIDE DEF S
  <2>2. 1 + n \in 1..len /\ len \in 1..len
    BY <1>0
  <2>3. r \in Seq(S) /\ Len(r) = len - n
    BY <1>0, <2>1, <2>2
  <2>4. \A i \in 1..len - n : r[i] = q[n + i] /\ n + i \in 1..len
    BY <1>0, <2>1, <2>2
  <2>5. len - n \in Nat \ {0}
    BY <1>0
  <2> QED
    BY <2>3, <2>4, <2>5 DEF S
<1> HIDE DEF r, len
<1>3. Sighted(r) /\ Oldest(r) = q[n + 1] /\ Newest(r) = q[len]
  <2>1. 1 \in 1..len - n /\ len - n \in 1..len - n /\ n + (len - n) = len
    BY <1>0, <1>2
  <2>2. r[1] = q[n + 1] /\ r[len - n] = q[len] /\ r # <<>>
    BY <1>2, <2>1
  <2> QED
    BY <1>2, <2>2 DEF Sighted, Oldest, Newest
<1>4. \A i \in 1..Len(r) : r[i].run = run /\ r[i].t \in start..sim /\ r[i].x = PosAt(r[i].t)
  <2>1. \A i \in 1..len : q[i].run = run /\ q[i].t \in start..sim /\ q[i].x = PosAt(q[i].t)
    BY DEF Told, len
  <2> QED
    BY <1>2, <2>1
<1>5. \A i \in 1..Len(r) - 1 : r[i + 1].t - r[i].t \in 1..MaxQuiet
  <2>1. \A i \in 1..len - 1 : q[i + 1].t - q[i].t \in 1..MaxQuiet
    BY DEF Told, len
  <2>2. ASSUME NEW i \in 1..Len(r) - 1
        PROVE  r[i + 1].t - r[i].t \in 1..MaxQuiet
    <3>1. /\ i \in 1..len - n /\ i + 1 \in 1..len - n
          /\ n + i \in 1..len - 1 /\ n + (i + 1) = (n + i) + 1
      BY <1>0, <1>2
    <3>2. r[i] = q[n + i] /\ r[i + 1] = q[(n + i) + 1]
      BY <1>2, <3>1
    <3> QED
      BY <2>1, <3>1, <3>2
  <2> QED
    BY <2>2
<1>6. ReachesTo(r, first)
  <2>1. \A i \in 1..Len(r) : first <= r[i].t
    BY <1>2 DEF ReachesTo, len
  <2>2. CASE n = 0
    <3>1. n + 1 = 1
      BY <2>2
    <3>2. Oldest(r) = Oldest(q) /\ Newest(r) = Newest(q)
      BY <1>0, <1>3, <3>1
    <3> QED
      BY <2>1, <3>2 DEF ReachesTo
  <2>3. CASE n # 0
    <3>1. n \in 1..len - 1 /\ n \in 1..len /\ n + 1 \in 1..len
      BY <1>0, <2>3
    <3>2. q[n + 1].t - q[n].t \in 1..MaxQuiet
      BY <3>1 DEF Told, len
    <3>3. q[n + 1].t \in Nat /\ q[n].t \in Nat
      BY <1>0, <3>1
    <3>4. q[n].t < now - MaxAge
      BY <1>1, <2>3
    <3>5. q[n + 1].t < now - MaxAge + MaxQuiet
      <4> DEFINE a == q[n].t
                 b == q[n + 1].t
      <4>1. a \in Nat /\ b \in Nat /\ b - a \in 1..MaxQuiet /\ a < now - MaxAge
        BY <3>2, <3>3, <3>4
      <4>2. now \in Nat /\ MaxAge \in Nat /\ MaxQuiet \in Nat
        BY <1>0
      <4> HIDE DEF a, b, now
      <4>3. b < now - MaxAge + MaxQuiet
        BY <4>1, <4>2
      <4> QED
        BY <4>3 DEF b
    <3>6. Oldest(r).t < Newest(r).t - MaxAge + MaxQuiet
      BY <1>0, <1>3, <3>5
    <3> QED
      BY <2>1, <3>6 DEF ReachesTo
  <2> QED
    BY <2>2, <2>3
<1>7. Told(r) /\ Newest(r) = Newest(q)
  BY <1>0, <1>3, <1>4, <1>5 DEF Told
<1> QED
  BY <1>1, <1>6, <1>7 DEF r, len

\* Where the car is now is added to what was told of this run.
Here == [t |-> sim, run |-> run, x |-> PosAt(sim)]

LEMMA HereIsSeen ==
  ASSUME SimTyped
  PROVE  Here \in Sightings /\ sim \in start..sim /\ sim \in Nat
<1>1. sim \in start..sim /\ sim \in Nat
  BY DEF SimTyped, sim
<1> QED
  BY <1>1, OneTick DEF SimTyped, Here, Sightings

LEMMA AddFirst ==
  ASSUME SimTyped
  PROVE  /\ Told(Add(<<>>, Here)) /\ Newest(Add(<<>>, Here)) = Here
         /\ ReachesTo(Add(<<>>, Here), sim) /\ ~Backwards(<<>>, Here)
<1>1. Here \in Sightings /\ sim \in start..sim /\ sim \in Nat
  BY HereIsSeen
<1>2. Add(<<>>, Here) = Trim(<<Here>>, sim) /\ ~Backwards(<<>>, Here)
  BY DEF Add, Backwards, Here
<1> DEFINE q == <<Here>>
<1>3. Sighted(q) /\ Len(q) = 1 /\ q[1] = Here /\ Oldest(q) = Here /\ Newest(q) = Here
  <2> DEFINE S == Sightings
  <2>1. Here \in S
    BY <1>1
  <2> HIDE DEF S
  <2>2. q \in Seq(S) /\ Len(q) = 1 /\ q[1] = Here
    BY <2>1
  <2> QED
    BY <2>2 DEF S, Sighted, Oldest, Newest
<1> HIDE DEF q
<1>4. Here.t = sim /\ Here.run = run /\ Here.x = PosAt(sim)
  BY DEF Here
<1>5. \A i \in 1..Len(q) : i = 1
  BY <1>3
<1>6. \A i \in 1..Len(q) - 1 : FALSE
  BY <1>3
<1>7. Told(q)
  <2>1. \A i \in 1..Len(q) :
          q[i].run = run /\ q[i].t \in start..sim /\ q[i].x = PosAt(q[i].t)
    BY <1>1, <1>3, <1>4, <1>5
  <2> QED
    BY <1>3, <1>6, <2>1 DEF Told
<1>8. ReachesTo(q, sim)
  BY <1>1, <1>3, <1>4, <1>5 DEF ReachesTo
<1>9. LET r == Trim(q, sim) IN Told(r) /\ Newest(r) = Here /\ ReachesTo(r, sim)
  BY <1>1, <1>3, <1>4, <1>7, <1>8, TrimTold
<1> QED
  BY <1>2, <1>9 DEF q

LEMMA AddNext ==
  ASSUME SimTyped, NEW q, Told(q), Newest(q).t + quiet = sim,
         NEW first \in Int, ReachesTo(q, first)
  PROVE  /\ Told(Add(q, Here)) /\ Newest(Add(q, Here)) = Here
         /\ ReachesTo(Add(q, Here), first) /\ ~Backwards(q, Here)
<1> DEFINE len == Len(q)
<1>0. /\ Sighted(q) /\ len \in Nat \ {0} /\ q \in Seq(Sightings) /\ q # <<>>
      /\ Oldest(q) = q[1] /\ Newest(q) = q[len] /\ q[len] \in Sightings
      /\ \A i \in 1..len : q[i].t \in Nat
  <2>1. Sighted(q) /\ q # <<>>
    BY DEF Told, Sighted
  <2> QED
    BY <2>1, SightedEnds DEF Sightings
<1>1. Here \in Sightings /\ sim \in start..sim /\ sim \in Nat
  BY HereIsSeen
<1>2. Here.t = sim /\ Here.run = run /\ Here.x = PosAt(sim)
  BY DEF Here
<1>3. q[len].run = run /\ q[len].x = PosAt(q[len].t) /\ q[len].t \in Nat /\ quiet \in 0..MaxQuiet
  <2>1. len \in 1..len
    BY <1>0
  <2> QED
    BY <1>0, <2>1 DEF Told, SimTyped
<1>4. ~Backwards(q, Here)
  BY <1>0, <1>1, <1>2, <1>3, ReCogAssumption DEF Backwards
<1>5. CASE q[len].t = sim
  <2>1. q[len] = Here
    <3>1. q[len] = [t |-> q[len].t, run |-> q[len].run, x |-> q[len].x]
      BY <1>0 DEF Sightings
    <3> QED
      BY <1>3, <1>5, <3>1 DEF Here
  <2>2. Add(q, Here) = [q EXCEPT ![len] = Here]
    BY <1>0, <1>2, <1>4, <1>5 DEF Add
  <2>3. [q EXCEPT ![len] = Here] = q
    <3>1. q = [i \in 1..len |-> q[i]]
      BY <1>0
    <3> QED
      BY <2>1, <3>1
  <2> QED
    BY <1>0, <1>4, <2>1, <2>2, <2>3
<1>6. CASE q[len].t # sim
  <2> DEFINE r == Append(q, Here)
  <2>1. Add(q, Here) = Trim(r, sim)
    BY <1>0, <1>2, <1>4, <1>6 DEF Add
  <2>2. /\ r \in Seq(Sightings) /\ r # <<>> /\ Len(r) = len + 1
        /\ \A i \in 1..len : r[i] = q[i]
        /\ r[len + 1] = Here
    <3> DEFINE S == Sightings
    <3>1. q \in Seq(S) /\ Here \in S
      BY <1>0, <1>1
    <3> HIDE DEF S
    <3>2. r \in Seq(S) /\ r # <<>> /\ Len(r) = len + 1 /\ (\A i \in 1..len : r[i] = q[i])
          /\ r[len + 1] = Here
      BY <3>1, AppendProperties
    <3> QED
      BY <3>2 DEF S
  <2> HIDE DEF r
  <2>3. Sighted(r) /\ Oldest(r) = Oldest(q) /\ Newest(r) = Here
    <3>1. 1 \in 1..len
      BY <1>0
    <3> QED
      BY <1>0, <2>2, <3>1 DEF Sighted, Oldest, Newest
  <2>4. \A i \in 1..Len(r) : r[i].run = run /\ r[i].t \in start..sim /\ r[i].x = PosAt(r[i].t)
    <3>1. \A i \in 1..len : q[i].run = run /\ q[i].t \in start..sim /\ q[i].x = PosAt(q[i].t)
      BY DEF Told
    <3>2. ASSUME NEW i \in 1..Len(r)
          PROVE  r[i].run = run /\ r[i].t \in start..sim /\ r[i].x = PosAt(r[i].t)
      <4>1. CASE i \in 1..len
        BY <2>2, <3>1, <4>1
      <4>2. CASE i = len + 1
        BY <1>1, <1>2, <2>2, <4>2
      <4> QED
        BY <1>0, <2>2, <4>1, <4>2
    <3> QED
      BY <3>2
  <2>5. \A i \in 1..Len(r) - 1 : r[i + 1].t - r[i].t \in 1..MaxQuiet
    <3>1. \A i \in 1..len - 1 : q[i + 1].t - q[i].t \in 1..MaxQuiet
      BY DEF Told
    <3>2. ASSUME NEW i \in 1..Len(r) - 1
          PROVE  r[i + 1].t - r[i].t \in 1..MaxQuiet
      <4>1. CASE i \in 1..len - 1
        <5>1. i \in 1..len /\ i + 1 \in 1..len
          BY <1>0, <4>1
        <5> QED
          BY <2>2, <3>1, <4>1, <5>1
      <4>2. CASE i = len
        <5>1. r[i + 1].t = sim /\ r[i].t = q[len].t
          BY <1>0, <1>2, <2>2, <4>2
        <5>2. sim - q[len].t = quiet /\ quiet # 0 /\ quiet \in 0..MaxQuiet /\ MaxQuiet \in Nat
          <6>1. q[len].t + quiet = sim /\ q[len].t \in Nat /\ quiet \in 0..MaxQuiet /\ sim \in Nat
            BY <1>0, <1>1, <1>3
          <6>2. MaxQuiet \in Nat
            BY ReCogAssumption
          <6> QED
            BY <1>6, <6>1, <6>2
        <5> QED
          BY <5>1, <5>2
      <4> QED
        BY <1>0, <2>2, <4>1, <4>2
    <3> QED
      BY <3>2
  <2>6. Told(r)
    BY <2>3, <2>4, <2>5 DEF Told
  <2>7. ReachesTo(r, first)
    <3>1. 1 \in 1..len /\ len \in 1..len /\ MaxQuiet \in Nat /\ MaxAge \in Nat
      BY <1>0, ReCogAssumption, HistoryAssumption
    <3>2. first <= q[1].t /\ q[1].t \in Nat /\ q[len].t <= sim
      BY <1>0, <1>1, <1>3, <3>1 DEF ReachesTo
    <3>3. \A i \in 1..Len(r) : first <= r[i].t
      <4>1. first <= q[len].t
        BY <3>1 DEF ReachesTo
      <4>2. first <= sim
        BY <1>1, <1>3, <3>2, <4>1
      <4>3. \A i \in 1..len : first <= q[i].t
        BY DEF ReachesTo
      <4>4. ASSUME NEW i \in 1..Len(r)
            PROVE  first <= r[i].t
        <5>1. i \in 1..len \/ i = len + 1
          BY <1>0, <2>2
        <5> QED
          BY <1>2, <2>2, <4>2, <4>3, <5>1
      <4> QED
        BY <4>4
    <3>4. Oldest(r).t = first \/ Oldest(r).t < Newest(r).t - MaxAge + MaxQuiet
      <4>1. Oldest(q).t = first \/ Oldest(q).t < q[len].t - MaxAge + MaxQuiet
        BY <1>0 DEF ReachesTo
      <4>2. Oldest(r).t = q[1].t /\ Newest(r).t = sim /\ Oldest(q).t = q[1].t
        BY <1>0, <1>2, <2>3
      <4> QED
        BY <1>1, <1>3, <3>1, <3>2, <4>1, <4>2
    <3> QED
      BY <3>3, <3>4 DEF ReachesTo
  <2>8. LET z == Trim(r, sim) IN Told(z) /\ Newest(z) = Here /\ ReachesTo(z, first)
    BY <1>2, <2>3, <2>6, <2>7, TrimTold
  <2> QED
    BY <1>4, <2>1, <2>8
<1> QED
  BY <1>5, <1>6

-----------------------------------------------------------------------------
(* the invariant                                                           *)

\* The node is at most one route behind the simulator.
RoutesKept == serial \in Nat \ {0} /\ run \in {serial, serial + 1}

\* Once the route is heard, what is heard is of the run it is driven in.
HistoryKept ==
  serial = run =>
    /\ "camera" \in heard => cam.run = run
    /\ "odometry" \in heard => samples # <<>>
    /\ samples # <<>> =>
         /\ Told(samples) /\ Newest(samples).t + quiet = sim
         /\ since \in start..sim /\ ReachesTo(samples, since)

InputsKept ==
  /\ cam.t \in Int
  /\ origin.run \in Nat /\ origin.run <= run
  /\ origin.run = run => origin.t \in start..sim /\ origin.x = PosAt(origin.t)

\* What the worker is given for the run the car is in is of that run and starts
\* where the car was.
JobTyped ==
  /\ job.at \in {"none", "input", "model", "store"}
  /\ job = [at |-> job.at, input |-> job.input, pose |-> job.pose, poseAt |-> job.poseAt,
            serial |-> job.serial, seen |-> job.seen]
  /\ job.at # "none" => /\ job.serial \in Nat /\ job.serial <= serial
                        /\ job.seen \in Nat /\ job.seen <= wall

JobKept ==
  /\ job.at # "none" /\ job.serial = run => job.poseAt \in start..sim
  /\ FrameOfOneRun

\* The buffer reaches back to the first pose of a window.
WindowInReach == (Frames - 1) * Interval + ClockSlack + MaxQuiet <= MaxAge + 1

PoseTrue(i) ==
  LET t  == FrameTime(job.input.tRef, i)
      at == IF t < job.input.since THEN job.input.since ELSE t
  IN  /\ at \in start..sim
      /\ \A s \in Steps :
           (\A u \in Steps : u <= s) => 2 * Dist(job.input.window[i].x, PosAt(at)) <= s

PosesTrue == SkipsOne /\ WindowInReach /\ Frame => \A i \in 1..Frames : PoseTrue(i)

PlanKept ==
  plan # NoPlan =>
    /\ plan.poses = [i \in 1..Horizon |-> i * Speed]
    /\ plan.seen \in Nat /\ plan.seen <= wall
    /\ plan.serial \in Nat /\ plan.serial <= serial
    /\ plan.serial = run => plan.at \in start..sim

SlipsKept ==
  /\ job.at = "store" /\ job.serial # serial => slipped
  /\ StraysSlipped

ReCogInvariant ==
  /\ SimTyped /\ RoutesKept /\ HistoryKept /\ InputsKept
  /\ JobTyped /\ JobKept /\ PosesTrue /\ PlanKept /\ SlipsKept

-----------------------------------------------------------------------------
(* the simulator's steps                                                   *)

\* Time goes on in the run the car is in, and what was, was.
GoesOn ==
  /\ run' = run /\ start' = start /\ sim <= sim' /\ wall \in Nat /\ wall' \in Nat /\ wall <= wall'
  /\ start \in Nat /\ sim \in Int /\ sim' \in Int
  /\ \A t \in start..sim : PosAt(t)' = PosAt(t)

LEMMA Ticks ==
  ASSUME SimTyped, Tick
  PROVE  SimTyped' /\ GoesOn /\ sim' = sim + 1 /\ quiet' = quiet + 1
<1>1. PICK s \in Steps : path' = Append(path, path[Len(path)] + s)
  BY DEF Tick
<1>2. /\ wall' = wall + 1 /\ quiet' = quiet + 1 /\ quiet < MaxQuiet
      /\ UNCHANGED <<epoch, run, start>>
  BY DEF Tick
<1>3. sim' = sim + 1 /\ sim \in Int /\ start \in Nat /\ start <= sim
  BY <1>2 DEF SimTyped, sim
<1> DEFINE len == Len(path)
<1>4. len \in Nat \ {0} /\ path \in Seq(Nat) /\ path[len] \in Nat /\ path[len] + s \in Nat /\ s \in Nat
  <2>1. len = sim - start + 1 /\ path \in Seq(Nat) /\ s \in Nat
    BY ReCogAssumption DEF SimTyped
  <2>2. len \in Nat \ {0}
    BY <1>3, <2>1
  <2> QED
    BY <2>1, <2>2
<1>5. /\ path' \in Seq(Nat) /\ Len(path') = len + 1
      /\ \A i \in 1..len : path'[i] = path[i]
      /\ path'[len + 1] = path[len] + s
  <2> DEFINE x == path[len] + s
  <2>1. x \in Nat
    BY <1>4
  <2> HIDE DEF x
  <2>2. /\ Append(path, x) \in Seq(Nat) /\ Len(Append(path, x)) = len + 1
        /\ (\A i \in 1..len : Append(path, x)[i] = path[i])
        /\ Append(path, x)[len + 1] = x
    BY <1>4, <2>1, AppendProperties
  <2> QED
    BY <1>1, <2>2 DEF x
<1>6. \A k \in 1..Len(path') - 1 : path'[k + 1] - path'[k] \in Steps
  <2>1. ASSUME NEW k \in 1..Len(path') - 1
        PROVE  path'[k + 1] - path'[k] \in Steps
    <3>1. CASE k \in 1..len - 1
      <4>1. k \in 1..len /\ k + 1 \in 1..len /\ path[k + 1] - path[k] \in Steps
        BY SMTT(30), <1>4, <3>1 DEF SimTyped
      <4> QED
        BY <1>5, <4>1
    <3>2. CASE k = len
      <4> DEFINE x == path[len]
      <4>1. path'[k + 1] = x + s /\ path'[k] = x /\ x \in Nat /\ s \in Nat
        BY <1>4, <1>5, <3>2
      <4> HIDE DEF x
      <4>2. x + s - x = s
        BY <4>1
      <4> QED
        BY <4>1, <4>2
    <3> QED
      BY <1>4, <1>5, <3>1, <3>2
  <2> QED
    BY <2>1
<1>7. SimTyped'
  <2>1. wall' \in Nat /\ epoch' + start' <= wall' /\ quiet' \in 0..MaxQuiet
    BY <1>2, ReCogAssumption DEF SimTyped
  <2>2. Len(path') = sim' - start' + 1
    BY <1>2, <1>3, <1>5 DEF SimTyped
  <2> QED
    BY <1>2, <1>5, <1>6, <2>1, <2>2 DEF SimTyped
<1>8. GoesOn
  <2>1. ASSUME NEW t \in start..sim
        PROVE  PosAt(t)' = PosAt(t)
    <3>1. t - start + 1 \in 1..len
      BY <1>3 DEF SimTyped
    <3> QED
      BY <1>2, <1>5, <3>1 DEF PosAt
  <2> QED
    BY <1>2, <1>3, <2>1 DEF GoesOn, SimTyped
<1> QED
  BY <1>2, <1>3, <1>7, <1>8

LEMMA RunBegins ==
  ASSUME SimTyped, RoutesKept, NewRun
  PROVE  /\ SimTyped' /\ run = serial /\ run' = serial + 1
         /\ UNCHANGED <<inputVars, fresh, routeVars, job, driveVars, wall>>
<1>1. /\ run = serial /\ run' = run + 1 /\ path' = <<0>> /\ quiet' = 0
      /\ UNCHANGED <<inputVars, fresh, routeVars, job, driveVars, wall>>
      /\ (epoch' = epoch /\ start' = sim) \/ (epoch' = wall /\ start' = 0)
  BY DEF NewRun
<1>2. /\ epoch' \in Nat /\ start' \in Nat /\ epoch' + start' <= wall' /\ wall' \in Nat
      /\ sim' = start'
  BY <1>1 DEF SimTyped, sim
<1>3. /\ path' \in Seq(Nat) /\ Len(path') = 1 /\ sim' - start' + 1 = 1
      /\ \A k \in 1..Len(path') - 1 : path'[k + 1] - path'[k] \in Steps
  <2>1. path' \in Seq(Nat) /\ Len(path') = 1
    BY <1>1
  <2>2. sim' - start' + 1 = 1
    <3>1. \A z \in Nat : z - z + 1 = 1
      OBVIOUS
    <3> QED
      BY <1>2, <3>1
  <2>3. \A k \in 1..Len(path') - 1 : FALSE
    BY <2>1
  <2> QED
    BY <2>1, <2>2, <2>3
<1>4. run' \in Nat \ {0} /\ quiet' \in 0..MaxQuiet
  BY <1>1, ReCogAssumption DEF RoutesKept
<1> QED
  BY <1>1, <1>2, <1>3, <1>4 DEF SimTyped

\* The node's steps leave the simulator alone.
LEMMA Stays ==
  ASSUME SimTyped, UNCHANGED <<wall, epoch, run, path, start>>, quiet' \in {quiet, 0}
  PROVE  SimTyped' /\ GoesOn /\ sim' = sim
<1>1. sim' = sim /\ sim \in Int /\ quiet' \in 0..MaxQuiet
  BY ReCogAssumption DEF SimTyped, sim
<1>2. SimTyped'
  BY <1>1 DEF SimTyped
<1>3. \A t \in start..sim : PosAt(t)' = PosAt(t)
  BY DEF PosAt
<1> QED
  BY <1>1, <1>2, <1>3 DEF GoesOn, SimTyped

-----------------------------------------------------------------------------
(* what stays true as time goes on                                         *)

LEMMA ToldStays ==
  ASSUME GoesOn, Told(samples), UNCHANGED samples
  PROVE  Told(samples)'
<1>1. \A i \in 1..Len(samples) :
        /\ samples[i].run = run /\ samples[i].t \in start..sim
        /\ samples[i].x = PosAt(samples[i].t)
  BY DEF Told
<1>2. ASSUME NEW i \in 1..Len(samples')
      PROVE  /\ samples'[i].run = run' /\ samples'[i].t \in start'..sim'
             /\ samples'[i].x = PosAt(samples[i].t)'
  <2>1. samples[i].t \in start..sim /\ samples[i].x = PosAt(samples[i].t) /\ samples[i].run = run
    BY <1>1, <1>2
  <2> DEFINE t == samples[i].t
  <2>2. t \in start..sim
    BY <2>1
  <2> HIDE DEF t
  <2>3. path'[t - start' + 1] = path[t - start + 1] /\ t \in start'..sim'
    BY <2>2 DEF GoesOn, PosAt
  <2>4. PosAt(samples[i].t)' = PosAt(samples[i].t)
    BY <2>3 DEF t, PosAt
  <2> QED
    BY <2>1, <2>3, <2>4 DEF t, GoesOn
<1>3. Sighted(samples)' /\ \A i \in 1..Len(samples') - 1 : samples'[i + 1].t - samples'[i].t \in 1..MaxQuiet
  BY DEF Told, Sighted
<1>4. \A i \in 1..Len(samples') :
        /\ samples'[i].run = run' /\ samples'[i].t \in start'..sim'
        /\ samples'[i].x = path'[samples'[i].t - start' + 1]
  BY <1>2 DEF PosAt
<1> QED
  BY <1>3, <1>4 DEF Told, PosAt

LEMMA InputsStay ==
  ASSUME InputsKept, GoesOn, UNCHANGED <<cam, origin>>
  PROVE  InputsKept'
<1>1. CASE origin.run = run
  <2>1. origin.t \in start..sim /\ origin.x = PosAt(origin.t)
    BY <1>1 DEF InputsKept
  <2> DEFINE t == origin.t
  <2>2. t \in start..sim /\ origin.x = path[t - start + 1]
    BY <2>1 DEF PosAt
  <2> HIDE DEF t
  <2>3. path'[t - start' + 1] = path[t - start + 1] /\ t \in start'..sim'
    BY <2>2 DEF GoesOn, PosAt
  <2>4. origin'.t \in start'..sim' /\ origin'.x = PosAt(origin.t)'
    BY <2>2, <2>3 DEF t, PosAt
  <2> QED
    BY <2>4 DEF InputsKept, GoesOn, PosAt
<1>2. CASE origin.run # run
  BY <1>2 DEF InputsKept, GoesOn
<1> QED
  BY <1>1, <1>2

LEMMA PosesStay ==
  ASSUME PosesTrue, GoesOn, job'.input = job.input, Frame' => Frame
  PROVE  PosesTrue'
<1>1. ASSUME SkipsOne, WindowInReach, Frame', NEW i \in 1..Frames
      PROVE  PoseTrue(i)'
  <2> DEFINE t  == FrameTime(job.input.tRef, i)
             at == IF t < job.input.since THEN job.input.since ELSE t
  <2>1. PoseTrue(i)
    BY <1>1 DEF PosesTrue
  <2>2. /\ at \in start..sim
        /\ \A s \in Steps : (\A u \in Steps : u <= s)
             => 2 * Dist(job.input.window[i].x, path[at - start + 1]) <= s
    BY <2>1 DEF PoseTrue, PosAt
  <2>3. at' = at
    BY DEF FrameTime
  <2> HIDE DEF at
  <2>4. path'[at - start' + 1] = path[at - start + 1] /\ at \in start'..sim'
    BY <2>2 DEF GoesOn, PosAt
  <2>5. /\ at' \in start'..sim'
        /\ \A s \in Steps : (\A u \in Steps : u <= s)
             => 2 * Dist(job'.input.window[i].x, path'[at' - start' + 1]) <= s
    BY <2>2, <2>3, <2>4
  <2> QED
    BY <2>5 DEF at, PoseTrue, PosAt
<1> QED
  BY <1>1 DEF PosesTrue, SkipsOne, WindowInReach

LEMMA JobStays ==
  ASSUME JobTyped, JobKept, GoesOn, UNCHANGED job, serial' \in Nat, serial \in Nat, serial <= serial'
  PROVE  JobTyped' /\ JobKept'
<1>1. JobTyped'
  BY DEF JobTyped, GoesOn
<1>2. JobKept'
  BY DEF JobKept, GoesOn, FrameOfOneRun, Frame
<1> QED
  BY <1>1, <1>2

LEMMA PlanStays ==
  ASSUME PlanKept, GoesOn, UNCHANGED plan, serial' \in Nat, serial \in Nat, serial <= serial'
  PROVE  PlanKept'
<1> QED
  BY DEF PlanKept, GoesOn, NoPlan

-----------------------------------------------------------------------------
(* the steps                                                               *)

LEMMA ReCogStarts ==
  ASSUME Init
  PROVE  ReCogInvariant
<1>1. SimTyped
  <2>1. path \in Seq(Nat) /\ Len(path) = 1 /\ sim = 0
    BY DEF Init, sim
  <2>2. \A k \in 1..Len(path) - 1 : FALSE
    BY <2>1
  <2> QED
    BY <2>1, <2>2, ReCogAssumption DEF Init, SimTyped
<1>2. RoutesKept /\ HistoryKept /\ InputsKept
  BY DEF Init, RoutesKept, HistoryKept, InputsKept, NoImage, NoOrigin, None
<1>3. JobTyped /\ JobKept /\ PosesTrue /\ PlanKept /\ SlipsKept
  BY DEF Init, JobTyped, JobKept, FrameOfOneRun, Frame, PosesTrue, PlanKept, SlipsKept,
         StraysSlipped, NoJob
<1> QED
  BY <1>1, <1>2, <1>3 DEF ReCogInvariant

LEMMA TickKeeps ==
  ASSUME ReCogInvariant, Tick
  PROVE  ReCogInvariant'
<1>1. SimTyped' /\ GoesOn /\ sim' = sim + 1 /\ quiet' = quiet + 1
  BY Ticks DEF ReCogInvariant
<1>2. UNCHANGED <<run, samples, since, origin, cam, heard, serial, slipped, job, plan, pid>>
  BY DEF Tick, inputVars, routeVars, driveVars
<1>3. RoutesKept' /\ SlipsKept'
  BY <1>2 DEF ReCogInvariant, RoutesKept, SlipsKept, StraysSlipped, NoPlan
<1>4. HistoryKept'
  <2>1. samples # <<>> /\ serial = run => Told(samples)'
    BY <1>1, <1>2, ToldStays DEF ReCogInvariant, HistoryKept
  <2>2. ASSUME samples # <<>>, serial = run
        PROVE  /\ Newest(samples').t + quiet' = sim'
               /\ since' \in start'..sim' /\ ReachesTo(samples', since')
    <3>1. /\ Newest(samples).t + quiet = sim /\ since \in start..sim
          /\ ReachesTo(samples, since) /\ Sighted(samples)
      BY <2>2 DEF ReCogInvariant, HistoryKept, Told
    <3>2. Newest(samples).t \in Nat /\ quiet \in Int
      BY <3>1, SightedEnds DEF Sightings, ReCogInvariant, SimTyped
    <3> QED
      BY <1>1, <1>2, <3>1, <3>2 DEF GoesOn
  <2> QED
    BY <1>2, <2>1, <2>2 DEF ReCogInvariant, HistoryKept
<1>5. InputsKept'
  BY <1>1, <1>2, InputsStay DEF ReCogInvariant
<1>6. JobTyped' /\ JobKept' /\ PlanKept'
  BY <1>1, <1>2, JobStays, PlanStays DEF ReCogInvariant, RoutesKept
<1>7. PosesTrue'
  BY <1>1, <1>2, PosesStay DEF ReCogInvariant, Frame
<1> QED
  BY <1>1, <1>3, <1>4, <1>5, <1>6, <1>7 DEF ReCogInvariant

\* A run has begun of which the node has not heard.
LEMMA NewRunKeeps ==
  ASSUME ReCogInvariant, NewRun
  PROVE  ReCogInvariant'
<1>1. SimTyped' /\ run = serial /\ run' = serial + 1
  BY RunBegins DEF ReCogInvariant
<1>2. UNCHANGED <<samples, since, origin, cam, heard, serial, slipped, job, plan, pid, wall>>
  BY RunBegins DEF ReCogInvariant, inputVars, routeVars, driveVars
<1>3. serial' \in Nat /\ serial' # run'
  BY <1>1, <1>2 DEF ReCogInvariant, RoutesKept
<1>4. RoutesKept' /\ SlipsKept' /\ HistoryKept'
  BY <1>1, <1>2, <1>3 DEF ReCogInvariant, RoutesKept, SlipsKept, StraysSlipped, HistoryKept, NoPlan
<1>5. InputsKept'
  BY <1>1, <1>2, <1>3 DEF ReCogInvariant, InputsKept, RoutesKept
<1>6. JobTyped' /\ JobKept' /\ PosesTrue'
  <2>1. job.at # "none" => job.serial # run'
    BY <1>1, <1>2, <1>3 DEF ReCogInvariant, JobTyped
  <2>2. JobTyped'
    BY <1>2 DEF ReCogInvariant, JobTyped
  <2>3. ~Frame'
    BY <1>2, <2>1 DEF Frame
  <2> QED
    BY <1>2, <2>1, <2>2, <2>3 DEF JobKept, FrameOfOneRun, PosesTrue
<1>7. PlanKept'
  <2>1. ASSUME plan # NoPlan
        PROVE  plan.serial # run'
    BY <1>1, <1>3, <1>2, <2>1 DEF ReCogInvariant, PlanKept
  <2> QED
    BY <1>2, <2>1 DEF ReCogInvariant, PlanKept, NoPlan
<1> QED
  BY <1>1, <1>4, <1>5, <1>6, <1>7 DEF ReCogInvariant

LEMMA CameraKeeps ==
  ASSUME ReCogInvariant, CameraCallback
  PROVE  ReCogInvariant'
<1>1. /\ UNCHANGED <<wall, epoch, run, path, start, quiet>>
      /\ UNCHANGED <<samples, since, origin, serial, slipped, job, plan, pid>>
      /\ cam' = [run |-> run, t |-> sim] /\ heard' = heard \cup {"camera"}
  BY DEF CameraCallback, simVars, routeVars, driveVars
<1>2. SimTyped' /\ GoesOn /\ sim' = sim
  BY <1>1, Stays DEF ReCogInvariant
<1>3. RoutesKept' /\ SlipsKept'
  BY <1>1 DEF ReCogInvariant, RoutesKept, SlipsKept, StraysSlipped, NoPlan
<1>4. HistoryKept'
  <2>1. samples # <<>> /\ serial = run => Told(samples)'
    BY <1>1, <1>2, ToldStays DEF ReCogInvariant, HistoryKept
  <2>2. serial = run /\ "odometry" \in heard' => samples # <<>>
    BY <1>1 DEF ReCogInvariant, HistoryKept
  <2> QED
    BY <1>1, <1>2, <2>1, <2>2 DEF ReCogInvariant, HistoryKept, ReachesTo, Oldest, Newest
<1>5. InputsKept'
  <2>1. cam'.t \in Int
    BY <1>1, <1>2 DEF GoesOn
  <2> QED
    BY <1>1, <1>2, <2>1 DEF ReCogInvariant, InputsKept, PosAt
<1>6. JobTyped' /\ JobKept' /\ PlanKept'
  BY <1>1, <1>2, JobStays, PlanStays DEF ReCogInvariant, RoutesKept
<1>7. PosesTrue'
  BY <1>1, <1>2, PosesStay DEF ReCogInvariant, Frame
<1> QED
  BY <1>2, <1>3, <1>4, <1>5, <1>6, <1>7 DEF ReCogInvariant

LEMMA OdometryKeeps ==
  ASSUME ReCogInvariant, OdometryCallback
  PROVE  ReCogInvariant'
<1>1. /\ UNCHANGED <<wall, epoch, run, path, start, cam, serial, slipped, job, plan, pid>>
      /\ samples' = Add(samples, Here) /\ origin' = Here /\ quiet' = 0
      /\ since' = IF samples = <<>> \/ Backwards(samples, Here) THEN sim ELSE since
      /\ heard' = heard \cup {"odometry"}
  BY DEF OdometryCallback, Here, routeVars, driveVars
<1>2. SimTyped' /\ GoesOn /\ sim' = sim
  BY <1>1, Stays DEF ReCogInvariant
<1>3. RoutesKept' /\ SlipsKept'
  BY <1>1 DEF ReCogInvariant, RoutesKept, SlipsKept, StraysSlipped, NoPlan
<1>4. Here \in Sightings /\ sim \in start..sim /\ sim \in Nat
  BY HereIsSeen DEF ReCogInvariant
<1>5. HistoryKept'
  <2>1. ASSUME serial = run
        PROVE  /\ Told(Add(samples, Here)) /\ Newest(Add(samples, Here)) = Here
               /\ since' \in start..sim /\ ReachesTo(Add(samples, Here), since')
    <3>1. CASE samples = <<>>
      BY <1>1, <1>4, <3>1, AddFirst DEF ReCogInvariant
    <3>2. CASE samples # <<>>
      <4>1. /\ Told(samples) /\ Newest(samples).t + quiet = sim /\ since \in start..sim
            /\ ReachesTo(samples, since)
        BY <2>1, <3>2 DEF ReCogInvariant, HistoryKept
      <4>2. since \in Int
        BY <1>4, <4>1 DEF ReCogInvariant, SimTyped
      <4>3. /\ Told(Add(samples, Here)) /\ Newest(Add(samples, Here)) = Here
            /\ ReachesTo(Add(samples, Here), since) /\ ~Backwards(samples, Here)
        BY <4>1, <4>2, AddNext DEF ReCogInvariant
      <4> QED
        BY <1>1, <3>2, <4>1, <4>3
    <3> QED
      BY <3>1, <3>2
  <2>2. ASSUME serial = run
        PROVE  Told(samples)' /\ samples' # <<>>
    <3>1. Told(Add(samples, Here)) /\ Sighted(Add(samples, Here))
      BY <2>1, <2>2 DEF Told
    <3>2. sim' = sim /\ start' = start /\ run' = run /\ path' = path /\ samples' = Add(samples, Here)
      BY <1>1, <1>2
    <3> QED
      BY <3>1, <3>2 DEF Told, Sighted, PosAt
  <2>3. Here.t = sim
    BY DEF Here
  <2>4. serial = run => Newest(samples').t + quiet' = sim'
    BY <1>1, <1>2, <1>4, <2>1, <2>3
  <2>5. serial = run => since' \in start'..sim' /\ ReachesTo(samples', since')
    BY <1>1, <1>2, <2>1
  <2>6. serial = run /\ "camera" \in heard' => cam'.run = run'
    BY <1>1 DEF ReCogInvariant, HistoryKept
  <2> QED
    BY <1>1, <2>2, <2>4, <2>5, <2>6 DEF HistoryKept, ReachesTo, Oldest, Newest
<1>6. InputsKept'
  <2>1. Here.run = run /\ Here.t = sim /\ Here.x = PosAt(sim)
    BY DEF Here
  <2>2. path'[origin'.t - start' + 1] = path[sim - start + 1] /\ origin'.x = path[sim - start + 1]
    BY <1>1, <2>1 DEF PosAt
  <2>3. origin'.run = run' /\ origin'.t = sim' /\ origin'.x = PosAt(origin.t)'
    BY <1>1, <1>2, <2>1, <2>2 DEF PosAt
  <2>4. cam'.t \in Int /\ run' \in Nat
    BY <1>1 DEF ReCogInvariant, InputsKept, SimTyped
  <2>5. sim' \in start'..sim'
    BY <1>1, <1>2, <1>4
  <2> QED
    BY <2>3, <2>4, <2>5 DEF InputsKept
<1>7. JobTyped' /\ JobKept' /\ PlanKept'
  BY <1>1, <1>2, JobStays, PlanStays DEF ReCogInvariant, RoutesKept
<1>8. PosesTrue'
  BY <1>1, <1>2, PosesStay DEF ReCogInvariant, Frame
<1> QED
  BY <1>2, <1>3, <1>5, <1>6, <1>7, <1>8 DEF ReCogInvariant

\* The route of the run the car is in is heard: a job for the one before is that.
LEMMA RouteKeeps ==
  ASSUME ReCogInvariant, RouteCallback
  PROVE  ReCogInvariant'
<1>1. /\ UNCHANGED <<wall, epoch, run, path, start, quiet, since, origin, cam, job>>
      /\ serial' = serial + 1 /\ serial < run /\ slipped' = (job.at = "store")
      /\ samples' = <<>> /\ heard' = {} /\ plan' = NoPlan /\ pid' = FALSE
  BY DEF RouteCallback, simVars
<1>2. SimTyped' /\ GoesOn /\ sim' = sim
  BY <1>1, Stays DEF ReCogInvariant
<1>3. serial \in Nat \ {0} /\ serial' = run /\ serial' \in Nat
  BY <1>1 DEF ReCogInvariant, RoutesKept
<1>4. RoutesKept' /\ HistoryKept' /\ PlanKept'
  BY <1>1, <1>3 DEF RoutesKept, HistoryKept, PlanKept, NoPlan
<1>5. InputsKept'
  BY <1>1, <1>2, InputsStay DEF ReCogInvariant
<1>6. JobTyped' /\ JobKept'
  BY <1>1, <1>2, <1>3, JobStays DEF ReCogInvariant
<1>7. PosesTrue'
  BY <1>1, <1>2, PosesStay DEF ReCogInvariant, Frame
<1>8. SlipsKept'
  <2>1. job'.at = "store" => slipped'
    BY <1>1
  <2>2. (plan # NoPlan)' <=> FALSE
    BY <1>1 DEF NoPlan
  <2> QED
    BY <1>1, <2>1, <2>2 DEF SlipsKept, StraysSlipped
<1> QED
  BY <1>2, <1>4, <1>5, <1>6, <1>7, <1>8 DEF ReCogInvariant

LEMMA ControlKeeps ==
  ASSUME ReCogInvariant, ControlCallback
  PROVE  ReCogInvariant'
<1>1. /\ UNCHANGED <<wall, epoch, run, path, start, quiet>>
      /\ UNCHANGED <<samples, since, origin, cam, heard, serial, slipped, job, plan>>
      /\ plan # NoPlan /\ pid' = (pid \/ plan.serial # serial)
  BY DEF ControlCallback, simVars, inputVars, routeVars
<1>2. SimTyped' /\ GoesOn /\ sim' = sim
  BY <1>1, Stays DEF ReCogInvariant
<1>3. RoutesKept' /\ SlipsKept'
  BY <1>1 DEF ReCogInvariant, RoutesKept, SlipsKept, StraysSlipped, NoPlan
<1>4. HistoryKept'
  <2>1. samples # <<>> /\ serial = run => Told(samples)'
    BY <1>1, <1>2, ToldStays DEF ReCogInvariant, HistoryKept
  <2> QED
    BY <1>1, <1>2, <2>1 DEF ReCogInvariant, HistoryKept, ReachesTo, Oldest, Newest
<1>5. InputsKept'
  BY <1>1, <1>2, InputsStay DEF ReCogInvariant
<1>6. JobTyped' /\ JobKept' /\ PlanKept'
  BY <1>1, <1>2, JobStays, PlanStays DEF ReCogInvariant, RoutesKept
<1>7. PosesTrue'
  BY <1>1, <1>2, PosesStay DEF ReCogInvariant, Frame
<1> QED
  BY <1>2, <1>3, <1>4, <1>5, <1>6, <1>7 DEF ReCogInvariant

\* The times of a window reach no further back than its span.
LEMMA FrameTimes ==
  ASSUME NEW tRef \in Int, NEW i \in 1..Frames
  PROVE  /\ FrameTime(tRef, i) \in Int /\ FrameTime(tRef, i) <= tRef
         /\ tRef - (Frames - 1) * Interval <= FrameTime(tRef, i)
<1>1. Frames \in Nat \ {0} /\ Interval \in Nat \ {0}
  BY HistoryAssumption
<1>2. (Frames - i) \in Nat /\ (Frames - i) * Interval \in Nat
  BY <1>1
<1>3. (Frames - 1) * Interval = (Frames - i) * Interval + (i - 1) * Interval
  BY <1>1
<1>4. (i - 1) \in Nat /\ (i - 1) * Interval \in Nat
  BY <1>1
<1> QED
  BY <1>2, <1>3, <1>4 DEF FrameTime

\* The reference time is odometry's newest, or a little before it.
LEMMA RefTimes ==
  ASSUME NEW image, image.t \in Int, Newest(samples).t \in Nat
  PROVE  /\ RefTime(image) \in Int /\ RefTime(image) <= Newest(samples).t
         /\ Newest(samples).t - ClockSlack <= RefTime(image)
<1>1. ClockSlack \in Nat
  BY ReCogAssumption
<1> QED
  BY <1>1 DEF RefTime

LEMMA TimerKeeps ==
  ASSUME ReCogInvariant, TimerCallback
  PROVE  ReCogInvariant'
<1> DEFINE tRef == RefTime(cam)
           cut  == Window(samples, tRef)
<1>1. /\ UNCHANGED <<wall, epoch, run, path, start, quiet>>
      /\ UNCHANGED <<samples, since, origin, cam, heard, serial, slipped, plan, pid>>
      /\ job.at = "none" /\ heard = {"camera", "odometry"}
      /\ job' = [NoJob EXCEPT !.at = "input", !.serial = serial, !.seen = wall,
                   !.input = [run |-> cam.run, window |-> cut, since |-> since, tRef |-> tRef],
                   !.pose = cut[Frames].x, !.poseAt = IF tRef < since THEN since ELSE tRef]
  BY DEF TimerCallback, simVars, inputVars, routeVars, driveVars
<1>2. /\ job'.at = "input" /\ job'.serial = serial /\ job'.seen = wall
      /\ job'.input = [run |-> cam.run, window |-> cut, since |-> since, tRef |-> tRef]
      /\ job'.poseAt = IF tRef < since THEN since ELSE tRef
      /\ job' = [at |-> job'.at, input |-> job'.input, pose |-> job'.pose, poseAt |-> job'.poseAt,
                 serial |-> job'.serial, seen |-> job'.seen]
  <2> HIDE DEF tRef, cut
  <2> QED
    BY <1>1 DEF NoJob
<1>3. SimTyped' /\ GoesOn /\ sim' = sim
  BY <1>1, Stays DEF ReCogInvariant
<1>4. RoutesKept' /\ SlipsKept'
  BY <1>1, <1>2 DEF ReCogInvariant, RoutesKept, SlipsKept, StraysSlipped, NoPlan
<1>5. HistoryKept'
  <2>1. samples # <<>> /\ serial = run => Told(samples)'
    BY <1>1, <1>3, ToldStays DEF ReCogInvariant, HistoryKept
  <2> QED
    BY <1>1, <1>3, <2>1 DEF ReCogInvariant, HistoryKept, ReachesTo, Oldest, Newest
<1>6. InputsKept'
  BY <1>1, <1>3, InputsStay DEF ReCogInvariant
<1>7. PlanKept'
  BY <1>1, <1>3, PlanStays DEF ReCogInvariant, RoutesKept
<1>8. JobTyped'
  <2>1. serial' \in Nat /\ serial' = serial /\ wall' = wall /\ wall \in Nat
    BY <1>1 DEF ReCogInvariant, RoutesKept, SimTyped
  <2> QED
    BY <1>2, <2>1 DEF JobTyped
<1>9. ASSUME serial = run
      PROVE  /\ cam.run = run /\ Told(samples) /\ Newest(samples).t <= sim /\ sim \in Int
             /\ Newest(samples).t \in Nat /\ since \in start..sim /\ since \in Int
             /\ ReachesTo(samples, since)
             /\ tRef \in Int /\ tRef <= Newest(samples).t /\ Newest(samples).t - ClockSlack <= tRef
  <2>1. /\ cam.run = run /\ Told(samples) /\ Newest(samples).t + quiet = sim
        /\ since \in start..sim /\ ReachesTo(samples, since)
    BY <1>1, <1>9 DEF ReCogInvariant, HistoryKept
  <2>2. Newest(samples).t \in Nat /\ quiet \in Nat /\ sim \in Int /\ start \in Nat
    BY <2>1, SightedEnds, ReCogAssumption DEF Told, Sightings, ReCogInvariant, SimTyped, sim
  <2>3. cam.t \in Int
    BY DEF ReCogInvariant, InputsKept
  <2> QED
    BY <2>1, <2>2, <2>3, RefTimes
<1>10. ASSUME serial = run
       PROVE  /\ (IF tRef < since THEN since ELSE tRef) \in start..sim
              /\ \A i \in 1..Frames : cut[i].runs = {run}
  <2>1. (IF tRef < since THEN since ELSE tRef) \in start..sim
    <3>1. start \in Int
      BY DEF ReCogInvariant, SimTyped
    <3> HIDE DEF tRef
    <3> QED
      BY <1>9, <1>10, <3>1
  <2>2. ASSUME NEW i \in 1..Frames
        PROVE  cut[i].runs = {run}
    <3>1. FrameTime(tRef, i) \in Int
      BY <1>9, <1>10, FrameTimes
    <3> QED
      BY <1>9, <1>10, <3>1, SampleOfRun DEF Window
  <2> QED
    BY <2>1, <2>2
<1>11. JobKept'
  <2>1. job'.serial = run' => job'.poseAt \in start'..sim'
    BY <1>1, <1>2, <1>3, <1>10
  <2>2. ASSUME job'.serial = run'
        PROVE  job'.input.run = run' /\ \A i \in 1..Frames : job'.input.window[i].runs = {run'}
    <3>1. serial = run
      BY <1>1, <1>2, <2>2
    <3> HIDE DEF tRef, cut
    <3> QED
      BY <1>1, <1>2, <1>9, <1>10, <3>1
  <2> QED
    BY <2>1, <2>2 DEF JobKept, FrameOfOneRun, Frame
<1>12. PosesTrue'
  <2>1. ASSUME SkipsOne, WindowInReach, serial = run, NEW i \in 1..Frames
        PROVE  LET t  == FrameTime(tRef, i)
                   at == IF t < since THEN since ELSE t
               IN  /\ at \in start..sim
                   /\ \A s \in Steps :
                        (\A u \in Steps : u <= s) => 2 * Dist(cut[i].x, PosAt(at)) <= s
    <3> DEFINE t  == FrameTime(tRef, i)
               at == IF t < since THEN since ELSE t
               now == Newest(samples).t
               old == Oldest(samples).t
               span == (Frames - 1) * Interval
    <3>1. /\ t \in Int /\ t <= tRef /\ tRef - span <= t
          /\ tRef \in Int /\ tRef <= now /\ now - ClockSlack <= tRef
          /\ now \in Nat /\ since \in Int
      BY <1>9, <2>1, FrameTimes
    <3>2. old \in Nat /\ Len(samples) \in Nat \ {0} /\ Oldest(samples) = samples[1]
      BY <1>9, <2>1, SightedEnds DEF Told, Sightings
    <3>3. since <= old /\ (old = since \/ old < now - MaxAge + MaxQuiet)
      <4>1. 1 \in 1..Len(samples)
        BY <3>2
      <4> QED
        BY <1>9, <2>1, <3>2, <4>1 DEF ReachesTo
    <3>4. /\ span + ClockSlack + MaxQuiet <= MaxAge + 1
          /\ MaxAge \in Nat /\ MaxQuiet \in Nat /\ ClockSlack \in Nat
      BY <2>1, ReCogAssumption, HistoryAssumption DEF WindowInReach
    <3>5. span \in Int
      BY HistoryAssumption
    <3>6. at = IF t < old THEN old ELSE t
      <4>1. CASE old = since
        BY <4>1
      <4>2. CASE old < now - MaxAge + MaxQuiet
        <5> HIDE DEF t, now, old, span, tRef
        <5>1. old <= t /\ since <= t
          BY <3>1, <3>2, <3>3, <3>4, <3>5, <4>2
        <5> QED
          BY <3>1, <3>2, <5>1
      <4> QED
        BY <3>3, <4>1, <4>2
    <3>7. cut[i] = Sample(samples, t)
      BY DEF Window
    <3>8. t <= Newest(samples).t
      <4> HIDE DEF t, tRef
      <4> QED
        BY <3>1
    <3>9. at \in start..sim
      <4>1. start \in Int /\ sim \in Int /\ since \in start..sim /\ Newest(samples).t <= sim
        BY <1>9, <2>1 DEF ReCogInvariant, SimTyped
      <4> HIDE DEF t, tRef
      <4> QED
        BY <3>1, <3>8, <4>1
    <3>10. ASSUME NEW s \in Steps, \A u \in Steps : u <= s
           PROVE  2 * Dist(cut[i].x, PosAt(at)) <= s
      <4>1. SimTyped /\ Told(samples) /\ t \in Int
        BY <1>9, <2>1, <3>1 DEF ReCogInvariant
      <4> HIDE DEF t
      <4>2. 2 * Dist(Sample(samples, t).x, PosAt(IF t < old THEN old ELSE t)) <= s
        BY <2>1, <3>8, <3>10, <4>1, SampleTrue
      <4> QED
        BY <3>6, <3>7, <4>2
    <3> QED
      BY <3>9, <3>10
  <2>2. ASSUME SkipsOne, WindowInReach, Frame', NEW i \in 1..Frames
        PROVE  PoseTrue(i)'
    <3>1. serial = run
      BY <1>1, <1>2, <2>2 DEF Frame
    <3> DEFINE t  == FrameTime(tRef, i)
               at == IF t < since THEN since ELSE t
    <3>2. /\ at \in start..sim
          /\ \A s \in Steps : (\A u \in Steps : u <= s)
               => 2 * Dist(cut[i].x, path[at - start + 1]) <= s
      BY <2>1, <2>2, <3>1 DEF PosAt
    <3>3. /\ job'.input.tRef = tRef /\ job'.input.since = since /\ job'.input.window[i] = cut[i]
      <4> HIDE DEF tRef, cut
      <4> QED
        BY <1>2
    <3>4. (LET tt == FrameTime(job.input.tRef, i)
           IN  IF tt < job.input.since THEN job.input.since ELSE tt)' = at
      BY <3>3 DEF FrameTime
    <3> HIDE DEF at, t, cut, tRef
    <3> QED
      BY <1>1, <1>3, <3>2, <3>3, <3>4 DEF PoseTrue, PosAt
  <2> QED
    BY <2>2 DEF PosesTrue, SkipsOne, WindowInReach
<1> QED
  BY <1>3, <1>4, <1>5, <1>6, <1>7, <1>8, <1>11, <1>12 DEF ReCogInvariant

\* The worker's steps take the input out of its hands.
LEMMA WorkerKeeps ==
  ASSUME ReCogInvariant, Worker
  PROVE  ReCogInvariant'
<1>1. /\ UNCHANGED <<wall, epoch, run, path, start, quiet>>
      /\ UNCHANGED <<samples, since, origin, cam, heard, serial, slipped, pid>>
      /\ job.at # "none"
  BY DEF Worker, Plan, Raises, PlanReady, StorePlan, simVars, inputVars, routeVars, driveVars
<1>2. SimTyped' /\ GoesOn /\ sim' = sim
  BY <1>1, Stays DEF ReCogInvariant
<1>3. RoutesKept'
  BY <1>1 DEF ReCogInvariant, RoutesKept
<1>4. HistoryKept'
  <2>1. samples # <<>> /\ serial = run => Told(samples)'
    BY <1>1, <1>2, ToldStays DEF ReCogInvariant, HistoryKept
  <2> QED
    BY <1>1, <1>2, <2>1 DEF ReCogInvariant, HistoryKept, ReachesTo, Oldest, Newest
<1>5. InputsKept'
  BY <1>1, <1>2, InputsStay DEF ReCogInvariant
<1>t. /\ job = [at |-> job.at, input |-> job.input, pose |-> job.pose, poseAt |-> job.poseAt,
                serial |-> job.serial, seen |-> job.seen]
      /\ job.serial \in Nat /\ job.serial <= serial /\ job.seen \in Nat /\ job.seen <= wall
      /\ job.serial = run => job.poseAt \in start..sim
  BY <1>1 DEF ReCogInvariant, JobTyped, JobKept
<1>6. \/ job' = NoJob
      \/ /\ job' = [at |-> job'.at, input |-> job'.input, pose |-> job.pose, poseAt |-> job.poseAt,
                    serial |-> job.serial, seen |-> job.seen]
         /\ job'.at \in {"model", "store"} /\ (job'.at = "store" => job.serial = serial)
  <2>1. CASE Plan
    BY <1>t, <2>1 DEF Plan
  <2>2. CASE Raises \/ StorePlan
    BY <2>2 DEF Raises, StorePlan
  <2>3. CASE PlanReady
    <3>1. CASE Accepted
      BY <1>t, <2>3, <3>1 DEF PlanReady, Accepted
    <3>2. CASE ~Accepted
      BY <2>3, <3>2 DEF PlanReady
    <3> QED
      BY <3>1, <3>2
  <2> QED
    BY <2>1, <2>2, <2>3 DEF Worker
<1>7. JobTyped' /\ JobKept' /\ PosesTrue'
  <2>1. CASE job' = NoJob
    <3>1. job'.at = "none" /\ ~Frame'
      BY <2>1 DEF NoJob, Frame
    <3>2. JobTyped'
      BY <2>1 DEF NoJob, JobTyped
    <3> QED
      BY <3>1, <3>2 DEF JobKept, FrameOfOneRun, PosesTrue
  <2>2. CASE job' # NoJob
    <3>1. /\ job'.at \in {"model", "store"} /\ job'.serial = job.serial /\ job'.seen = job.seen
          /\ job'.poseAt = job.poseAt
          /\ job' = [at |-> job'.at, input |-> job'.input, pose |-> job'.pose,
                     poseAt |-> job'.poseAt, serial |-> job'.serial, seen |-> job'.seen]
      BY <1>6, <2>2
    <3>2. ~Frame'
      BY <3>1 DEF Frame
    <3>3. JobTyped'
      BY <1>1, <1>t, <3>1 DEF JobTyped
    <3>4. job'.serial = run' => job'.poseAt \in start'..sim'
      BY <1>1, <1>2, <1>t, <3>1
    <3> QED
      BY <3>2, <3>3, <3>4 DEF JobKept, FrameOfOneRun, PosesTrue
  <2> QED
    BY <2>1, <2>2
<1>8. CASE StorePlan
  <2>1. /\ job.at = "store" /\ job' = NoJob
        /\ plan' = [poses |-> [i \in 1..Horizon |-> i * Speed], frame |-> job.pose,
                    seen |-> job.seen, arrived |-> wall, serial |-> job.serial,
                    at |-> job.poseAt]
    BY <1>8 DEF StorePlan
  <2>2. /\ plan'.poses = [i \in 1..Horizon |-> i * Speed] /\ plan'.seen = job.seen
        /\ plan'.serial = job.serial /\ plan'.at = job.poseAt
    BY <2>1
  <2>3. PlanKept'
    BY <1>1, <1>2, <1>t, <2>2 DEF PlanKept
  <2>4. SlipsKept'
    <3>1. job.serial # serial => slipped
      BY <2>1 DEF ReCogInvariant, SlipsKept
    <3>2. job'.at # "store"
      BY <2>1 DEF NoJob
    <3> QED
      BY <1>1, <2>2, <3>1, <3>2 DEF ReCogInvariant, SlipsKept, StraysSlipped
  <2> QED
    BY <1>2, <1>3, <1>4, <1>5, <1>7, <2>3, <2>4 DEF ReCogInvariant
<1>9. CASE ~StorePlan
  <2>1. UNCHANGED plan
    BY <1>9 DEF Worker, Plan, Raises, PlanReady, driveVars
  <2>2. PlanKept'
    BY <1>1, <1>2, <2>1, PlanStays DEF ReCogInvariant, RoutesKept
  <2>3. SlipsKept'
    <3>1. job'.at = "store" => job'.serial = serial
      BY <1>6 DEF NoJob
    <3> QED
      BY <1>1, <2>1, <3>1 DEF ReCogInvariant, SlipsKept, StraysSlipped, NoPlan
  <2> QED
    BY <1>2, <1>3, <1>4, <1>5, <1>7, <2>2, <2>3 DEF ReCogInvariant
<1> QED
  BY <1>8, <1>9

LEMMA ReCogStutters ==
  ASSUME ReCogInvariant, UNCHANGED vars
  PROVE  ReCogInvariant'
<1>1. /\ UNCHANGED <<wall, epoch, run, path, start, quiet>>
      /\ UNCHANGED <<samples, since, origin, cam, heard, serial, slipped, job, plan, pid>>
  BY DEF vars, simVars, inputVars, routeVars, driveVars
<1>2. SimTyped' /\ GoesOn /\ sim' = sim
  BY <1>1, Stays DEF ReCogInvariant
<1>3. RoutesKept' /\ SlipsKept'
  BY <1>1 DEF ReCogInvariant, RoutesKept, SlipsKept, StraysSlipped, NoPlan
<1>4. HistoryKept'
  <2>1. samples # <<>> /\ serial = run => Told(samples)'
    BY <1>1, <1>2, ToldStays DEF ReCogInvariant, HistoryKept
  <2> QED
    BY <1>1, <1>2, <2>1 DEF ReCogInvariant, HistoryKept, ReachesTo, Oldest, Newest
<1>5. InputsKept'
  BY <1>1, <1>2, InputsStay DEF ReCogInvariant
<1>6. JobTyped' /\ JobKept' /\ PlanKept'
  BY <1>1, <1>2, JobStays, PlanStays DEF ReCogInvariant, RoutesKept
<1>7. PosesTrue'
  BY <1>1, <1>2, PosesStay DEF ReCogInvariant, Frame
<1> QED
  BY <1>2, <1>3, <1>4, <1>5, <1>6, <1>7 DEF ReCogInvariant

LEMMA ReCogInductive == Spec => []ReCogInvariant
<1>1. Init => ReCogInvariant
  BY ReCogStarts
<1>2. ReCogInvariant /\ [Next]_vars => ReCogInvariant'
  BY TickKeeps, NewRunKeeps, CameraKeeps, OdometryKeeps, RouteKeeps, TimerKeeps, ControlKeeps,
     WorkerKeeps, ReCogStutters DEF Next, Simulator, Main
<1> QED
  BY <1>1, <1>2, PTL DEF Spec

\* The image and every pose of a frame are of the run the car is in, once its
\* route has been heard (recogdrive_node.py, _take_snapshot; the reset of
\* _route_callback), for any number of runs, with or without a new clock.
THEOREM OneRunPerFrame == Spec => []FrameOfOneRun
<1>1. ReCogInvariant => FrameOfOneRun
  BY DEF ReCogInvariant, JobKept
<1> QED
  BY <1>1, ReCogInductive, PTL

\* A plan of another route is tracked, and the controller stepped on it, only if
\* the route came between the test of _run_inference and the store.
THEOREM OnlySlipsStray == Spec => []StraysSlipped
<1>1. ReCogInvariant => StraysSlipped
  BY DEF ReCogInvariant, SlipsKept
<1> QED
  BY <1>1, ReCogInductive, PTL

\* Each pose of the window is where the car was, half a step off at most where
\* odometry skipped a tick, or where it was first seen (agent_inputs.py, sample),
\* if the buffer reaches back to the window: in the code it keeps 6 s for a window
\* of 1.5 s.
THEOREM HistoryIsTrue ==
  ASSUME SkipsOne, WindowInReach
  PROVE  Spec => []HistoryTrue
<1>1. ReCogInvariant => HistoryTrue
  <2> SUFFICES ASSUME ReCogInvariant, Frame
               PROVE  \A i \in 1..Frames :
                        LET t  == FrameTime(job.input.tRef, i)
                            at == IF t < job.input.since THEN job.input.since ELSE t
                        IN  \A s \in Steps : (\A u \in Steps : u <= s)
                              => 2 * Dist(job.input.window[i].x, PosAt(at)) <= s
    BY DEF HistoryTrue
  <2> QED
    BY DEF ReCogInvariant, PosesTrue, PoseTrue
<1> QED
  BY <1>1, ReCogInductive, PTL

-----------------------------------------------------------------------------
(* the plan that is driven on                                              *)

\* Where the plan has the car after t steps, within the horizon and beyond it.
LEMMA PlansAhead ==
  ASSUME NEW t \in Nat \ {0}
  PROVE  LET poses == [i \in 1..Horizon |-> i * Speed]
         IN  Len(poses) = Horizon /\ poses[1] = Speed /\ PlannedAt(poses, t) = t * Speed
<1> DEFINE poses == [i \in 1..Horizon |-> i * Speed]
<1>0. Horizon \in Nat \ {0} /\ Speed \in Nat
  BY ReCogAssumption
<1>1. Len(poses) = Horizon /\ \A i \in 1..Horizon : poses[i] = i * Speed
  BY <1>0
<1>2. poses[1] = Speed
  BY <1>0, <1>1
<1>3. CASE t < Horizon
  <2>1. t \in 1..Horizon /\ ~(t >= Horizon) /\ t # 0
    BY <1>0, <1>3
  <2>2. PlannedAt(poses, t) = poses[t]
    <3> HIDE DEF poses
    <3> QED
      BY <1>1, <2>1 DEF PlannedAt, Knot
  <2> HIDE DEF poses
  <2> QED
    BY <1>1, <1>2, <2>1, <2>2 DEF poses
<1>4. CASE t >= Horizon
  <2> DEFINE n == Horizon
             last == poses[n] - Knot(poses, n - 1)
  <2>1. poses[n] = n * Speed
    BY <1>0, <1>1
  <2>2. last = Speed
    <3>1. CASE n = 1
      BY <1>0, <1>2, <3>1 DEF Knot
    <3>2. CASE n # 1
      <4>1. n - 1 \in 1..Horizon /\ n - 1 # 0
        BY <1>0, <3>2
      <4>2. Knot(poses, n - 1) = (n - 1) * Speed
        <5> HIDE DEF poses
        <5> QED
          BY <1>1, <4>1 DEF Knot
      <4>3. n * Speed - (n - 1) * Speed = Speed
        BY <1>0
      <4> QED
        BY <2>1, <4>2, <4>3
    <3> QED
      BY <3>1, <3>2
  <2>3. PlannedAt(poses, t) = poses[n] + (t - n) * last
    <3> HIDE DEF poses
    <3> QED
      BY <1>1, <1>4 DEF PlannedAt
  <2>4. n * Speed + (t - n) * Speed = t * Speed
    BY <1>0
  <2> QED
    BY <1>1, <1>2, <2>1, <2>2, <2>3, <2>4
<1> QED
  BY <1>0, <1>3, <1>4

LEMMA RebasedAhead ==
  ASSUME ReCogInvariant, plan # NoPlan, OnPlan
  PROVE  FirstWaypoint = plan.poses[1] * (1 - (plan.seen - epoch - plan.at))
<1> DEFINE v    == Speed
           seen == plan.seen
           age  == wall - seen
           a    == plan.at
<1>1. /\ plan.poses = [i \in 1..Horizon |-> i * v] /\ seen \in Nat /\ seen <= wall
      /\ a \in start..sim
  BY DEF ReCogInvariant, PlanKept, OnPlan
<1>2. /\ wall \in Nat /\ epoch \in Nat /\ sim = wall - epoch /\ start \in Nat /\ v \in Nat
      /\ Horizon \in Nat \ {0} /\ SimTyped
  BY ReCogAssumption DEF ReCogInvariant, SimTyped, sim
<1>3. /\ age \in Nat /\ age + 1 \in Nat \ {0} /\ a \in Nat /\ sim \in Int /\ v \in Int
      /\ age + 1 - (sim - a) = 1 - (seen - epoch - a)
  <2>1. seen \in Nat /\ seen <= wall /\ a \in start..sim
    BY <1>1
  <2>2. wall \in Nat /\ epoch \in Nat /\ sim = wall - epoch /\ start \in Nat /\ v \in Nat
    BY <1>2
  <2> HIDE DEF seen, a, v
  <2>3. sim \in Int /\ a \in Nat
    BY <2>1, <2>2
  <2>4. age \in Nat
    BY <2>1, <2>2
  <2> QED
    BY <2>1, <2>2, <2>3, <2>4
<1>4. /\ Len(plan.poses) = Horizon /\ plan.poses[1] = v
      /\ PlannedAt(plan.poses, age + 1) = (age + 1) * v
  <2> HIDE DEF age
  <2> QED
    BY <1>1, <1>3, PlansAhead
<1>5. PosAt(sim) = PosAt(a) + (sim - a) * v
  <2>1. \A t \in a..sim - 1 : PosAt(t + 1) - PosAt(t) = v
    BY <1>4 DEF OnPlan
  <2> QED
    BY <1>1, <1>2, <2>1, EvenWay
<1>6. plan.frame = PosAt(a) /\ origin.x = PosAt(sim)
  BY DEF ReCogInvariant, InputsKept, OnPlan
<1>7. FirstWaypoint = plan.frame + PlannedAt(plan.poses, age + 1) - origin.x
  <2>1. 1 \in 1..Len(plan.poses)
    BY <1>2, <1>4
  <2> QED
    BY <2>1 DEF FirstWaypoint, Rebased
<1>8. FirstWaypoint = PosAt(a) + (age + 1) * v - (PosAt(a) + (sim - a) * v)
  BY <1>4, <1>5, <1>6, <1>7
<1>9. PosAt(a) \in Nat /\ (age + 1) * v \in Int /\ (sim - a) * v \in Int
  <2>1. PosAt(a) \in Nat
    BY <1>1, <1>2, OneTick
  <2> HIDE DEF age, a, v
  <2>2. (age + 1) * v \in Int /\ (sim - a) * v \in Int
    BY <1>3
  <2> QED
    BY <2>1, <2>2
<1>10. (age + 1) * v - (sim - a) * v = v * (1 - (seen - epoch - a))
  <2>1. age + 1 - (sim - a) = 1 - (seen - epoch - a)
    BY <1>3
  <2>2. (age + 1) * v - (sim - a) * v = v * (age + 1 - (sim - a))
    <3> HIDE DEF age, a, v
    <3> QED
      BY <1>3
  <2> QED
    BY <2>1, <2>2
<1>11. \A x, y, z \in Int : x + y - (x + z) = y - z
  OBVIOUS
<1>12. FirstWaypoint = (age + 1) * v - (sim - a) * v
  <2> DEFINE y == (age + 1) * v
             z == (sim - a) * v
             x == PosAt(a)
  <2>1. x \in Int /\ y \in Int /\ z \in Int /\ FirstWaypoint = x + y - (x + z)
    BY <1>8, <1>9
  <2> HIDE DEF x, y, z
  <2>2. FirstWaypoint = y - z
    BY <1>11, <2>1
  <2> QED
    BY <2>2 DEF y, z
<1> QED
  BY <1>4, <1>10, <1>12

\* For a car that does what is planned the first waypoint is one step ahead of it,
\* short of that by the delay between image and dispatch (pid_control.py,
\* rebase_plan), within the horizon and beyond it.
THEOREM WaypointsAhead == Spec => []RebasedToTheCar
<1>1. ReCogInvariant => RebasedToTheCar
  BY RebasedAhead DEF RebasedToTheCar
<1> QED
  BY <1>1, ReCogInductive, PTL

-----------------------------------------------------------------------------
(* The fast path: its context                                              *)

Rows == Int \X Int

\* The fast path is past its test of the frame.
Covered == pc \in {"vit", "llm", "planner"}

ContextTyped ==
  /\ frame \in Nat /\ tail \in Tails /\ tiles \in BOOLEAN
  /\ ctx \in [1..CtxSize -> Rows] /\ open \in Int /\ layout \in Int \X Int
  /\ Covered => tail <= TailCapacity

\* Padding and prefix stand where the layout says.
LaidOut(rows, pads) ==
  \A i \in 1..pads + NPrefix : rows[i] = IF i <= pads THEN Pad ELSE <<0, i - pads>>

\* From here on they hold the first rows of frame f.
Filled(rows, from, f, n) == \A i \in 1..n : rows[from + i] = <<f, i>>

LayoutKept ==
  \/ layout = <<-1, -1>>
  \/ /\ layout[1] \in Nat /\ layout[1] + NPrefix <= CtxSize
     /\ LaidOut(ctx, layout[1])
     /\ open = layout[1] + layout[2]

\* The window and the context hold the frame the worker is on, from the stage
\* that writes them on.
FrameIn ==
  /\ pc = "vit" => pixels = frame
  /\ pc = "llm" => \A i \in 1..NImg + tail : win[i] = <<frame, i>>
  /\ pc = "planner" =>
       LET real == NPrefix + NImg + tail
           pads == PadsFor(real) IN
       /\ layout = <<pads, real>>
       /\ Filled(ctx, pads + NPrefix, frame, NImg + tail)
       /\ status = frame

\* Only verify seeds, and it ends before the first frame of the road.
SeedPlace ==
  /\ pc \in {"build", "seed"} => frame = 0
  /\ rng \in {"own", "seeded"}
  /\ rng = "seeded" => frame = 0 /\ pc \in {"tail", "vit", "llm", "planner", "compare"}

FrameServed == LayoutKept /\ FrameIn /\ SeedPlace /\ ContextOfThisFrame /\ DrawnUnseeded

-----------------------------------------------------------------------------
(* The layout                                                              *)

LEMMA Sizes ==
  /\ Source \in Nat /\ NPrefix \in Nat /\ NImg \in Nat /\ TailCapacity \in Nat
  /\ 0 < NPrefix /\ 0 < NImg
  /\ \A n \in Tails : n \in Nat /\ 0 < n
  /\ WinSize = NImg + TailCapacity /\ CtxSize \in Nat
  /\ NPrefix + WinSize <= CtxSize /\ Source <= CtxSize
  BY ContextAssumption DEF ContextAssumption, WinSize, CtxSize

\* The context of a frame the fast path covers fits into the static one.
LEMMA Fits ==
  ASSUME NEW length \in Nat, length <= TailCapacity, NEW real, real = NPrefix + NImg + length
  PROVE  /\ real \in Nat /\ PadsFor(real) \in Nat
         /\ PadsFor(real) + real <= CtxSize
  BY Sizes DEF PadsFor

\* However the layout changes, padding and prefix then stand where it says.
LEMMA LaysOut ==
  ASSUME ContextTyped, LayoutKept, NEW real \in Int, PadsFor(real) + NPrefix <= CtxSize
  PROVE  LET laid == SetContextLayout(real, ctx, layout) IN
         /\ laid.rows \in [1..CtxSize -> Rows]
         /\ laid.layout = <<PadsFor(real), real>> /\ laid.open = PadsFor(real) + real
         /\ LaidOut(laid.rows, PadsFor(real))
<1> DEFINE pads == PadsFor(real)
           laid == SetContextLayout(real, ctx, layout)
           rewritten == [i \in 1..CtxSize |->
                           IF i <= pads THEN Pad
                           ELSE IF i <= pads + NPrefix THEN <<0, i - pads>> ELSE ctx[i]]
<1>1. pads \in Nat
  BY Sizes DEF PadsFor
<1>2. rewritten \in [1..CtxSize -> Rows] /\ LaidOut(rewritten, pads)
  <2>1. Pad \in Rows /\ \A i \in 1..CtxSize : <<0, i - pads>> \in Rows
    BY <1>1, Sizes DEF Pad, Rows
  <2>2. rewritten \in [1..CtxSize -> Rows]
    BY <2>1 DEF ContextTyped
  <2>3. LaidOut(rewritten, pads)
    BY <1>1, Sizes DEF LaidOut
  <2> QED BY <2>2, <2>3
<1>3. CASE layout = <<pads, real>>
  <2>1. laid = [rows |-> ctx, open |-> open, layout |-> layout]
    BY <1>3 DEF SetContextLayout
  <2>2. LaidOut(ctx, pads) /\ open = pads + real
    BY <1>1, <1>3 DEF LayoutKept
  <2> QED BY <1>3, <2>1, <2>2 DEF ContextTyped
<1>4. CASE layout # <<pads, real>> /\ pads = layout[1]
  <2>1. laid = [rows |-> ctx, open |-> pads + real, layout |-> <<pads, real>>]
    BY <1>4 DEF SetContextLayout
  <2>2. LaidOut(ctx, pads)
    BY <1>1, <1>4 DEF LayoutKept
  <2> QED BY <2>1, <2>2 DEF ContextTyped
<1>5. CASE layout # <<pads, real>> /\ pads # layout[1]
  <2>1. laid = [rows |-> rewritten, open |-> pads + real, layout |-> <<pads, real>>]
    BY <1>5 DEF SetContextLayout
  <2> QED BY <1>2, <2>1
<1> QED BY <1>3, <1>4, <1>5

\* What the bias leaves of a context laid out and filled is the reference's.
LEMMA IsReference ==
  ASSUME NEW rows \in [1..CtxSize -> Rows], NEW f \in Nat,
         NEW length \in Nat, length <= TailCapacity,
         NEW pads, pads = PadsFor(NPrefix + NImg + length),
         LaidOut(rows, pads), Filled(rows, pads + NPrefix, f, NImg + length)
  PROVE  SubSeq(rows, 1, pads + (NPrefix + NImg + length)) = Reference(f, length)
<1> DEFINE real == NPrefix + NImg + length
<1>1. real \in Nat /\ pads \in Nat /\ pads + real <= CtxSize
  BY Fits
<1>2. rows \in Seq(Rows) /\ Len(rows) = CtxSize
  BY Sizes
<1>3. SubSeq(rows, 1, pads + real) = [i \in 1..pads + real |-> rows[i]]
  BY <1>1, <1>2
<1>4. ASSUME NEW i \in 1..pads + real
      PROVE  rows[i] = IF i <= pads THEN Pad
                       ELSE IF i <= pads + NPrefix THEN <<0, i - pads>>
                       ELSE <<f, i - pads - NPrefix>>
  <2>1. CASE i <= pads + NPrefix
    BY <1>1, <2>1, Sizes DEF LaidOut
  <2>2. CASE pads + NPrefix < i
    <3>1. PICK k \in 1..NImg + length : k = i - pads - NPrefix /\ pads + NPrefix + k = i
      <4>1. i - pads - NPrefix \in 1..NImg + length /\ pads + NPrefix + (i - pads - NPrefix) = i
        BY SMTT(30), <1>1, <2>2, Sizes
      <4> QED BY <4>1
    <3>2. rows[pads + NPrefix + k] = <<f, k>>
      BY DEF Filled
    <3>3. ~(i <= pads) /\ ~(i <= pads + NPrefix)
      BY <1>1, <2>2, Sizes
    <3> QED BY <3>1, <3>2, <3>3
  <2> QED BY <1>1, <2>1, <2>2, Sizes
<1>5. [i \in 1..pads + real |-> rows[i]] = Reference(f, length)
  BY <1>4 DEF Reference
<1> QED BY <1>3, <1>5

-----------------------------------------------------------------------------
(* Frame after frame                                                       *)

LEMMA InitServed == ContextInit => ContextTyped /\ FrameServed
<1> SUFFICES ASSUME ContextInit PROVE ContextTyped /\ FrameServed
  OBVIOUS
<1>1. ContextTyped
  BY Sizes DEF ContextInit, ContextTyped, Covered, Rows, Zero
<1>2. FrameServed
  BY DEF ContextInit, FrameServed, LayoutKept, FrameIn, SeedPlace, ContextOfThisFrame, DrawnUnseeded,
         NothingPlanned, NotYet
<1> QED BY <1>1, <1>2

LEMMA BuildServes ==
  ASSUME ContextTyped, FrameServed, Build
  PROVE  ContextTyped' /\ FrameServed'
<1>1. PadsFor(Source - 1) = 1 /\ Source - 1 \in Int /\ 1 + NPrefix <= CtxSize
  BY Sizes DEF PadsFor
<1> DEFINE laid == SetContextLayout(Source - 1, ctx, layout)
<1>2. /\ laid.rows \in [1..CtxSize -> Rows]
      /\ laid.layout = <<1, Source - 1>> /\ laid.open = 1 + (Source - 1)
      /\ LaidOut(laid.rows, 1)
  BY <1>1, LaysOut DEF FrameServed
<1>3. /\ pc = "build" /\ pc' \in {"seed", "idle"}
      /\ \/ ctx' = laid.rows /\ open' = laid.open /\ layout' = laid.layout
         \/ UNCHANGED <<ctx, open, layout>>
      /\ UNCHANGED <<frame, tail, tiles, pixels, win, status, rng, planned>>
  BY DEF Build, input, window
<1>4. ContextTyped'
  BY SMTT(30), <1>1, <1>2, <1>3, Sizes DEF ContextTyped, Covered
<1>5. LayoutKept'
  <2>1. CASE ctx' = laid.rows /\ open' = laid.open /\ layout' = laid.layout
    <3>1. layout'[1] = 1 /\ open' = layout'[1] + layout'[2] /\ LaidOut(ctx', 1)
      BY <1>2, <2>1
    <3> QED BY <1>1, <3>1 DEF LayoutKept
  <2>2. CASE UNCHANGED <<ctx, open, layout>>
    BY <2>2 DEF FrameServed, LayoutKept, LaidOut
  <2> QED BY <1>3, <2>1, <2>2
<1>6. FrameIn' /\ SeedPlace' /\ ContextOfThisFrame' /\ DrawnUnseeded'
  BY <1>3 DEF FrameServed, FrameIn, SeedPlace, ContextOfThisFrame, DrawnUnseeded
<1> QED BY <1>4, <1>5, <1>6 DEF FrameServed

\* The steps that leave the context and the plan alone.
LEMMA OthersServe ==
  ASSUME ContextTyped, FrameServed,
         VerifyReference \/ VerifyRaises \/ Verified \/ NewFrame \/ Uncovered \/ SetPixels
         \/ FillWindow \/ FrameRaises
  PROVE  ContextTyped' /\ FrameServed'
<1> USE DEF input, window, context
<1>1. UNCHANGED <<ctx, open, layout, status, planned>> /\ pc' # "planner"
  BY DEF VerifyReference, VerifyRaises, Verified, NewFrame, Uncovered, SetPixels, FillWindow,
         FrameRaises
<1>2. ContextTyped'
  <2>1. frame' \in Nat /\ tail' \in Tails /\ tiles' \in BOOLEAN
    BY DEF ContextTyped, VerifyReference, VerifyRaises, Verified, NewFrame, Uncovered, SetPixels,
           FillWindow, FrameRaises
  <2>2. Covered' => tail' <= TailCapacity
    BY DEF ContextTyped, Covered, VerifyReference, VerifyRaises, Verified, NewFrame, Uncovered,
           SetPixels, FillWindow, FrameRaises
  <2> QED BY <1>1, <2>1, <2>2 DEF ContextTyped
<1>3. LayoutKept' /\ ContextOfThisFrame' /\ DrawnUnseeded'
  BY <1>1 DEF FrameServed, LayoutKept, LaidOut, ContextOfThisFrame, DrawnUnseeded
<1>4. FrameIn'
  <2>1. pc' = "vit" => pixels' = frame'
    BY DEF VerifyReference, VerifyRaises, Verified, NewFrame, Uncovered, SetPixels, FillWindow,
           FrameRaises
  <2>2. ASSUME pc' = "llm", NEW i \in 1..NImg + tail'
        PROVE  win'[i] = <<frame', i>>
    <3>1. FillWindow
      BY <2>2 DEF VerifyReference, VerifyRaises, Verified, NewFrame, Uncovered, SetPixels,
                  FrameRaises
    <3>2. pixels = frame /\ UNCHANGED <<frame, tail>> /\ tail \in Nat /\ tail <= TailCapacity
      BY <3>1, Sizes DEF FillWindow, FrameServed, FrameIn, ContextTyped, Covered
    <3>3. i \in 1..WinSize /\ i <= NImg + tail
      BY <2>2, <3>2, Sizes
    <3> QED BY <3>1, <3>2, <3>3 DEF FillWindow
  <2> QED BY <1>1, <2>1, <2>2 DEF FrameIn
<1>5. SeedPlace'
  <2>1. CASE VerifyReference
    BY <2>1 DEF VerifyReference, FrameServed, SeedPlace, ContextTyped
  <2>2. CASE VerifyRaises \/ Verified
    BY <2>2 DEF VerifyRaises, Verified, SeedPlace
  <2>3. CASE NewFrame \/ FrameRaises
    BY <2>3 DEF NewFrame, FrameRaises, FrameServed, SeedPlace
  <2>4. CASE Uncovered
    BY <2>4 DEF Uncovered, FrameServed, SeedPlace
  <2>5. CASE SetPixels \/ FillWindow
    BY <2>5 DEF SetPixels, FillWindow, FrameServed, SeedPlace
  <2> QED BY <2>1, <2>2, <2>3, <2>4, <2>5
<1> QED BY <1>2, <1>3, <1>4, <1>5 DEF FrameServed

LEMMA FillServes ==
  ASSUME ContextTyped, FrameServed, FillContext
  PROVE  ContextTyped' /\ FrameServed'
<1> DEFINE real  == NPrefix + NImg + tail
           pads  == PadsFor(real)
           laid  == SetContextLayout(real, ctx, layout)
           first == pads + NPrefix
<1>1. /\ pc = "llm" /\ pc' = "planner" /\ status' = frame
      /\ UNCHANGED <<frame, tail, tiles, pixels, win, rng, planned>>
      /\ tail \in Nat /\ 0 < tail /\ tail <= TailCapacity /\ frame \in Nat
  BY Sizes DEF FillContext, ContextTyped, Covered, input
<1>2. real \in Nat /\ pads \in Nat /\ pads + real <= CtxSize /\ first = pads + NPrefix
  BY <1>1, Fits
<1>3. /\ laid.rows \in [1..CtxSize -> Rows]
      /\ laid.layout = <<pads, real>> /\ laid.open = pads + real
      /\ LaidOut(laid.rows, pads)
  <2>1. real \in Int /\ pads + NPrefix <= CtxSize
    BY <1>1, <1>2, Sizes
  <2> QED BY <2>1, LaysOut DEF FrameServed
<1>4. /\ open' = pads + real /\ layout' = <<pads, real>>
      /\ ctx' = [i \in 1..CtxSize |->
                   IF i \in first + 1..first + NImg + tail THEN hidden'[i - first] ELSE laid.rows[i]]
      /\ hidden' = [i \in 1..WinSize |-> HiddenRow(i)]
  BY <1>3 DEF FillContext
<1>5. \A i \in 1..NImg + tail : hidden'[i] = <<frame, i>>
  <2>1. \A i \in 1..NImg + tail : i \in 1..WinSize
    BY <1>1, Sizes
  <2>2. \A i \in 1..NImg + tail : HiddenRow(i) = <<frame, i>>
    <3>1. ASSUME NEW i \in 1..NImg + tail, NEW j \in 1..i
          PROVE  win[j] = <<frame, j>>
      <4>1. j \in 1..NImg + tail
        BY <1>1, Sizes
      <4> QED BY <1>1, <4>1 DEF FrameServed, FrameIn
    <3> QED BY <3>1 DEF HiddenRow
  <2> QED BY <1>4, <2>1, <2>2
<1>6. \A i \in 1..NImg + tail : first + i \in 1..CtxSize /\ ctx'[first + i] = <<frame, i>>
  <2>1. ASSUME NEW i \in 1..NImg + tail
        PROVE  first + i \in 1..CtxSize /\ ctx'[first + i] = <<frame, i>>
    <3>1. first + i \in 1..CtxSize /\ first + i \in first + 1..first + NImg + tail
          /\ (first + i) - first = i
      BY <1>1, <1>2, Sizes
    <3> HIDE DEF first
    <3> QED BY <1>4, <1>5, <3>1
  <2> QED BY <2>1
<1>7. ctx' \in [1..CtxSize -> Rows]
  <2>1. ASSUME NEW i \in first + 1..first + NImg + tail
        PROVE  hidden'[i - first] \in Rows
    <3>1. i - first \in 1..NImg + tail
      BY <1>1, <1>2, Sizes
    <3>2. <<frame, i - first>> \in Rows
      BY <1>1, <1>2, Sizes DEF Rows
    <3> QED BY <1>5, <3>1, <3>2
  <2> HIDE DEF first, laid
  <2> QED BY <1>3, <1>4, <2>1
<1>8. LaidOut(ctx', pads)
  <2>1. ASSUME NEW i \in 1..pads + NPrefix
        PROVE  i \in 1..CtxSize /\ i \notin first + 1..first + NImg + tail
    BY <1>1, <1>2, Sizes
  <2>2. \A i \in 1..pads + NPrefix : ctx'[i] = laid.rows[i]
    <3> HIDE DEF first, laid
    <3> QED BY <1>4, <2>1
  <2> QED BY <1>3, <2>2 DEF LaidOut
<1>9. ContextTyped'
  <2>1. open' \in Int /\ layout' \in Int \X Int
    BY <1>2, <1>4
  <2> HIDE DEF real, pads, laid, first
  <2> QED BY <1>1, <1>7, <2>1 DEF ContextTyped
<1>10. LayoutKept'
  <2>1. layout'[1] = pads /\ layout'[2] = real /\ pads + NPrefix <= CtxSize
    BY <1>1, <1>2, <1>4, Sizes
  <2> QED BY <1>2, <1>4, <1>8, <2>1 DEF LayoutKept
<1>11. FrameIn'
  BY <1>1, <1>4, <1>6 DEF FrameIn, Filled
<1>12. SeedPlace' /\ ContextOfThisFrame' /\ DrawnUnseeded'
  BY <1>1 DEF FrameServed, SeedPlace, ContextOfThisFrame, DrawnUnseeded
<1> QED BY <1>9, <1>10, <1>11, <1>12 DEF FrameServed

LEMMA PlannerServes ==
  ASSUME ContextTyped, FrameServed, Planner
  PROVE  ContextTyped' /\ FrameServed'
<1> DEFINE real == NPrefix + NImg + tail
           pads == PadsFor(real)
<1>1. /\ pc = "planner" /\ pc' \in {"compare", "idle"} /\ (frame = 0 <=> pc' = "compare")
      /\ UNCHANGED <<frame, tail, tiles, pixels, win, ctx, open, layout, status, rng>>
      /\ planned' = [by |-> "fast", frame |-> frame, tail |-> tail,
                     rows |-> SubSeq(ctx, 1, open), status |-> status, noise |-> rng]
      /\ tail \in Nat /\ tail <= TailCapacity /\ frame \in Nat
  BY Sizes DEF Planner, Done, ContextTyped, Covered, input, window, context
<1>2. /\ real \in Nat /\ pads \in Nat
      /\ layout = <<pads, real>> /\ status = frame
      /\ Filled(ctx, pads + NPrefix, frame, NImg + tail)
  BY <1>1, Fits DEF FrameServed, FrameIn
<1>3. LaidOut(ctx, pads) /\ open = pads + real
  BY <1>2 DEF FrameServed, LayoutKept
<1>4. SubSeq(ctx, 1, pads + real) = Reference(frame, tail)
  <2>1. ctx \in [1..CtxSize -> Rows]
    BY DEF ContextTyped
  <2> QED BY <1>1, <1>2, <1>3, <2>1, IsReference
<1>5. ContextTyped' /\ LayoutKept' /\ FrameIn' /\ SeedPlace'
  BY <1>1 DEF ContextTyped, Covered, FrameServed, LayoutKept, LaidOut, FrameIn, SeedPlace
<1>6. ContextOfThisFrame'
  BY <1>1, <1>2, <1>3, <1>4 DEF ContextOfThisFrame
<1>7. DrawnUnseeded'
  BY <1>1 DEF FrameServed, SeedPlace, DrawnUnseeded
<1> QED BY <1>5, <1>6, <1>7 DEF FrameServed

LEMMA AgentServes ==
  ASSUME ContextTyped, FrameServed, AgentPlans
  PROVE  ContextTyped' /\ FrameServed'
<1>1. /\ pc = "agent" /\ pc' = "idle"
      /\ UNCHANGED <<frame, tail, tiles, pixels, win, ctx, open, layout, status, rng>>
      /\ planned'.rows = Reference(planned'.frame, planned'.tail)
      /\ planned'.status = planned'.frame /\ planned'.noise = rng
  BY DEF AgentPlans, input, window, context
<1>2. ContextTyped' /\ LayoutKept' /\ FrameIn' /\ SeedPlace'
  BY <1>1 DEF ContextTyped, Covered, FrameServed, LayoutKept, LaidOut, FrameIn, SeedPlace
<1>3. ContextOfThisFrame' /\ DrawnUnseeded'
  BY <1>1 DEF FrameServed, SeedPlace, ContextOfThisFrame, DrawnUnseeded
<1> QED BY <1>2, <1>3 DEF FrameServed

LEMMA FramesInductive == ContextSpec => [](ContextTyped /\ FrameServed)
<1>1. ASSUME ContextTyped, FrameServed, UNCHANGED contextVars
      PROVE  ContextTyped' /\ FrameServed'
  BY <1>1 DEF contextVars, input, window, context, ContextTyped, Covered, FrameServed, LayoutKept,
              LaidOut, FrameIn, SeedPlace, ContextOfThisFrame, DrawnUnseeded
<1>2. ContextTyped /\ FrameServed /\ [ContextNext]_contextVars => (ContextTyped /\ FrameServed)'
  BY <1>1, BuildServes, OthersServe, FillServes, PlannerServes, AgentServes
  DEF ContextNext, Setup, PlanFrame
<1> QED BY <1>2, InitServed, PTL DEF ContextSpec

\* For prompts of any lengths in any order, and wherever frames or the
\* verification broke off: the rows the planner attends to are those of the
\* reference's left-padded context for its own frame, and no others.
THEOREM ReferenceContext == ContextSpec => []ContextOfThisFrame
  BY FramesInductive, PTL DEF FrameServed

\* However verify ends, its seed is gone before a frame of the road is planned.
THEOREM OwnNoise == ContextSpec => []DrawnUnseeded
  BY FramesInductive, PTL DEF FrameServed
=============================================================================
