-------------------------- MODULE OrionDriveProofs ---------------------------
(***************************************************************************)
(* What the orion node owes the car, for any durations, any timeouts, and  *)
(* routes of any length: the waypoint it steers by, the gap it reports,    *)
(* the brake, and the navigation command.                                  *)
(***************************************************************************)
EXTENDS MCOrionDrive, WellFoundedInduction, NaturalsInduction, TLAPS

Deque  == [lo : Int, hi : Int]
Stages == {"none", "build", "popping", "built", "model"}

Typed ==
  /\ mode \in {"sensor", "agent"} /\ now \in Nat /\ serial \in Nat
  /\ odom # NoOdom => odom.at \in Nat
  /\ pending \in BOOLEAN /\ skipped \in BOOLEAN /\ testFlag \in BOOLEAN
  /\ prevTs \in Nat \cup {None} /\ ran \in Nat \cup {None} /\ plan \in Nat \cup {NoPlan}
  /\ memory = [token |-> memory.token, time |-> memory.time]
  /\ job = [odom |-> job.odom, deque |-> job.deque, pops |-> job.pops, token |-> job.token,
            gap |-> job.gap, kept |-> job.kept, at |-> job.at]
  /\ job.at \in Stages /\ job.gap \in BOOLEAN /\ job.kept \in BOOLEAN
  /\ job.at # "none" => job.odom.at \in Nat
  /\ ctrl \in {"idle", "noNode", "first", "second"}
  /\ deques \in Seq(Deque)

LEMMA InitTyped == Init => Typed
<1> SUFFICES ASSUME Init PROVE Typed
  OBVIOUS
<1>1. mode \in {"sensor", "agent"}
  BY DriveAssumption DEF DriveAssumption, Init
<1>2. deques \in Seq(Deque)
  BY DEF Init
<1>3. job = NoFrame /\ memory = [token |-> 0, time |-> None]
  BY DEF Init
<1>4. job = [odom |-> job.odom, deque |-> job.deque, pops |-> job.pops, token |-> job.token,
             gap |-> job.gap, kept |-> job.kept, at |-> job.at]
      /\ job.at = "none" /\ job.gap = FALSE /\ job.kept = FALSE
      /\ memory = [token |-> memory.token, time |-> memory.time]
  BY <1>3 DEF NoFrame
<1> QED BY <1>1, <1>2, <1>4 DEF Init, Typed, Stages, NoPlan

LEMMA PopleftTyped ==
  ASSUME NEW d \in Deque
  PROVE  /\ Popleft(d) \in Deque
         /\ Remaining(d) > 1 => Remaining(Popleft(d)) > 1
<1> USE DEF Deque
<1>1. CASE Remaining(d) > 2
  <2>1. Popleft(d) = [lo |-> d.lo + 1, hi |-> d.hi]
    BY <1>1 DEF Popleft
  <2> QED BY <1>1, <2>1 DEF Remaining
<1>2. CASE ~(Remaining(d) > 2)
  BY <1>2 DEF Popleft
<1> QED BY <1>1, <1>2

\* Popping changes one deque in its place.
LEMMA PopsOne ==
  ASSUME NEW ds \in Seq(Deque), NEW i
  PROVE  LET popped == [ds EXCEPT ![i] = Popleft(@)] IN
         /\ popped \in Seq(Deque)
         /\ Len(popped) = Len(ds)
         /\ \A j \in 1..Len(ds) : popped[j] \in {ds[j], Popleft(ds[j])}
<1> DEFINE popped == [ds EXCEPT ![i] = Popleft(@)]
<1>1. \A j \in 1..Len(ds) : ds[j] \in Deque /\ Popleft(ds[j]) \in Deque
  BY PopleftTyped
<1>2. popped \in [1..Len(ds) -> Deque]
      /\ \A j \in 1..Len(ds) : popped[j] \in {ds[j], Popleft(ds[j])}
  <2>1. DOMAIN popped = 1..Len(ds)
    OBVIOUS
  <2>2. \A j \in 1..Len(ds) : popped[j] = IF j = i THEN Popleft(ds[j]) ELSE ds[j]
    OBVIOUS
  <2>3. popped = [j \in 1..Len(ds) |-> popped[j]]
    BY <2>1
  <2> HIDE DEF popped
  <2>4. \A j \in 1..Len(ds) : popped[j] \in Deque
    BY <1>1, <2>2
  <2> QED BY <2>2, <2>3, <2>4
<1>3. Len(ds) \in Nat
  OBVIOUS
<1> HIDE DEF popped
<1>4. popped \in Seq(Deque) /\ Len(popped) = Len(ds)
  BY <1>2, <1>3
<1> QED BY <1>2, <1>4 DEF popped

LEMMA NextTyped ==
  ASSUME Typed, [Next]_vars
  PROVE  Typed'
<1> USE DEF Typed, Stages, worldVars, routeVars, contextVars, modelVars, driveVars
<1>1. CASE Tick
  BY <1>1 DEF Tick
<1>2. CASE RouteCallback
  <2>1. Append(deques, Whole) \in Seq(Deque)
    BY PlannerAssumption DEF PlannerAssumption, Whole, Deque
  <2>2. deques' \in Seq(Deque)
    BY <1>2, <2>1 DEF RouteCallback
  <2>3. /\ serial' = serial \/ serial' = serial + 1
        /\ pending' = pending \/ pending' = TRUE
    BY <1>2 DEF RouteCallback
  <2>4. UNCHANGED <<mode, now, odom, skipped, testFlag, prevTs, ran, plan, memory, job, ctrl>>
    BY <1>2 DEF RouteCallback
  <2>5. serial' \in Nat
    BY <2>3
  <2>6. pending' \in BOOLEAN
    BY <2>3
  <2>7. odom' # NoOdom => odom'.at \in Nat
    BY <2>4
  <2> QED BY <2>2, <2>4, <2>5, <2>6, <2>7
<1>3. CASE TimerCallback
  BY <1>3 DEF TimerCallback, NoFrame
<1>4. CASE BuildBatch
  BY ZenonT(60), <1>4 DEF BuildBatch
<1>5. CASE PopWaypoint
  <2>1. deques' \in Seq(Deque)
    BY <1>5, PopsOne DEF PopWaypoint
  <2> QED BY <1>5, <2>1 DEF PopWaypoint
<1>6. CASE BuildDone
  BY <1>6 DEF BuildDone
<1>7. CASE ResetForNewRoute
  BY <1>7 DEF ResetForNewRoute, NoFrame
<1>8. CASE Forward
  BY <1>8 DEF Forward, MemoryKept
<1>9. CASE ForwardDone
  BY <1>9 DEF ForwardDone, NoFrame
<1>10. CASE Raises
  BY <1>10 DEF Raises, NoFrame
<1>11. CASE Control
  BY <1>11 DEF Control, ControlIdle, ControlStalled, ControlTest, ControlPublish, ControlNoNode, Command
<1>12. CASE UNCHANGED vars
  BY <1>12 DEF vars
<1> QED
  BY <1>1, <1>2, <1>3, <1>4, <1>5, <1>6, <1>7, <1>8, <1>9, <1>10, <1>11, <1>12
  DEF Next, World, Worker

-----------------------------------------------------------------------------
(* The waypoint main is about to read                                      *)

Route == deques[Len(deques)]
RouteThere == ctrl \in {"first", "second"} => deques # <<>>

\* Popping one waypoint leaves the number of deques, and two of a route.
LEMMA Popped ==
  ASSUME Typed, deques # <<>>, PopWaypoint
  PROVE  /\ deques' # <<>>
         /\ Remaining(Route) > 1 => Remaining(Route') > 1
<1>1. /\ deques' \in Seq(Deque) /\ Len(deques') = Len(deques)
      /\ \A j \in 1..Len(deques) : deques'[j] \in {deques[j], Popleft(deques[j])}
  BY PopsOne DEF Typed, PopWaypoint
<1>2. Len(deques) \in 1..Len(deques) /\ Route \in Deque
  BY DEF Typed, Route
<1>3. Route' \in {Route, Popleft(Route)}
  BY <1>1, <1>2 DEF Route
<1> QED BY <1>1, <1>2, <1>3, PopleftTyped

LEMMA NextNodeThere ==
  ASSUME Typed, RouteThere, NodeThere, [Next]_vars
  PROVE  RouteThere' /\ NodeThere'
<1> USE DEF RouteThere, NodeThere, worldVars, routeVars, contextVars, modelVars, driveVars
<1>1. CASE Tick \/ TimerCallback \/ BuildBatch \/ BuildDone \/ ResetForNewRoute \/ Forward
           \/ ForwardDone \/ Raises \/ UNCHANGED vars
  BY <1>1 DEF Tick, TimerCallback, BuildBatch, BuildDone, ResetForNewRoute, Forward,
     ForwardDone, Raises, vars
<1>2. CASE RouteCallback
  BY <1>2 DEF RouteCallback
<1>3. CASE PopWaypoint
  BY <1>3, Popped DEF PopWaypoint, Route
<1>4. CASE ControlTest
  BY <1>4 DEF ControlTest
<1>5. CASE ControlIdle \/ ControlStalled \/ ControlPublish \/ ControlNoNode
  BY <1>5 DEF ControlIdle, ControlStalled, ControlPublish, ControlNoNode, Command
<1> QED BY <1>1, <1>2, <1>3, <1>4, <1>5 DEF Next, World, Control, Worker

-----------------------------------------------------------------------------
(* The brake                                                               *)

\* A control tick that is under way has found the plan young enough, and the
\* clock does not move before it is over.
PlanYoung == ctrl # "idle" /\ plan # NoPlan => now - plan <= StallTimeout

LEMMA NextBraked ==
  ASSUME Typed, PlanYoung, StallBraked, [Next]_vars
  PROVE  PlanYoung' /\ StallBraked'
<1> USE DEF PlanYoung, StallBraked, worldVars, routeVars, contextVars, modelVars, driveVars
<1>1. CASE Tick
  BY <1>1 DEF Tick
<1>2. CASE RouteCallback \/ TimerCallback \/ BuildBatch \/ PopWaypoint \/ BuildDone \/ Forward
           \/ Raises \/ UNCHANGED vars
  BY <1>2 DEF RouteCallback, TimerCallback, BuildBatch, PopWaypoint, BuildDone, Forward, Raises, vars
<1>3. CASE ResetForNewRoute
  BY <1>3 DEF ResetForNewRoute
<1>4. CASE ForwardDone
  BY <1>4, DriveAssumption DEF ForwardDone, DriveAssumption, Typed
<1>5. CASE ControlIdle \/ ControlStalled
  BY <1>5 DEF ControlIdle, ControlStalled, Command
<1>6. CASE ControlTest
  BY <1>6, DriveAssumption DEF ControlTest, Stalled, DriveAssumption, Typed, NoPlan, None
<1>7. CASE ControlPublish \/ ControlNoNode
  BY <1>7 DEF ControlPublish, ControlNoNode, Command
<1> QED BY <1>1, <1>2, <1>3, <1>4, <1>5, <1>6, <1>7 DEF Next, World, Control, Worker

-----------------------------------------------------------------------------
(* The gap                                                                 *)

\* From its build on a frame's stamp is the one remembered, and its token that
\* of the route unless a reset is due; in the model it is all the memory there is.
FrameBuilt ==
  /\ job.at \in {"popping", "built", "model"} =>
       prevTs = job.odom.at /\ (~pending => job.token = serial)
  /\ job.at = "model" => testFlag /\ memory.token = job.token /\ memory.time = job.odom.at

GapTo(f) == ran # None /\ f.odom.at - ran >= MemoryMaxDt

\* As long as no frame was built in vain the memory is that of the last one run,
\* and its stamp the one remembered until the next is built.
SinceRun ==
  ~skipped =>
    /\ job.at \in {"none", "build"} => prevTs = ran
    /\ job.at \in {"popping", "built", "model"} => (job.gap <=> GapTo(job))
    /\ job.at # "model" => (testFlag <=> ran # None) /\ (testFlag => memory.time = ran)
    /\ testFlag /\ ~pending => memory.token = serial
    /\ job.at = "model" /\ mode = "sensor" => (job.kept <=> ran # None /\ ~job.gap)

LEMMA NextFrameBuilt ==
  ASSUME Typed, FrameBuilt, [Next]_vars
  PROVE  FrameBuilt'
<1> USE DEF FrameBuilt, Typed, Stages, worldVars, routeVars, contextVars, modelVars, driveVars
<1>1. CASE Tick \/ RouteCallback
  BY <1>1 DEF Tick, RouteCallback
<1>2. CASE TimerCallback
  BY <1>2 DEF TimerCallback, NoFrame
<1>3. CASE BuildBatch
  BY <1>3 DEF BuildBatch
<1>4. CASE PopWaypoint
  BY <1>4 DEF PopWaypoint
<1>5. CASE BuildDone
  BY <1>5 DEF BuildDone
<1>6. CASE ResetForNewRoute
  BY <1>6 DEF ResetForNewRoute, NoFrame
<1>7. CASE Forward
  BY <1>7 DEF Forward
<1>8. CASE ForwardDone \/ Raises
  BY <1>8 DEF ForwardDone, Raises, NoFrame
<1>9. CASE Control
  BY <1>9 DEF Control, ControlIdle, ControlStalled, ControlTest, ControlPublish, ControlNoNode, Command
<1>10. CASE UNCHANGED vars
  BY <1>10 DEF vars
<1> QED
  BY <1>1, <1>2, <1>3, <1>4, <1>5, <1>6, <1>7, <1>8, <1>9, <1>10 DEF Next, World, Worker

LEMMA NextSinceRun ==
  ASSUME Typed, FrameBuilt, SinceRun, [Next]_vars
  PROVE  SinceRun'
<1> USE DEF SinceRun, GapTo, Typed, Stages, worldVars, routeVars, contextVars, modelVars, driveVars
<1>1. CASE Tick \/ RouteCallback
  BY <1>1 DEF Tick, RouteCallback
<1>2. CASE TimerCallback
  BY <1>2 DEF TimerCallback, NoFrame
<1>3. CASE BuildBatch
  BY <1>3 DEF BuildBatch
<1>4. CASE PopWaypoint
  BY <1>4 DEF PopWaypoint
<1>5. CASE BuildDone
  BY <1>5 DEF BuildDone
<1>6. CASE ResetForNewRoute
  BY <1>6 DEF ResetForNewRoute, NoFrame
<1>7. CASE Forward
  <2>1. /\ job.at = "built" /\ ~pending /\ testFlag'
        /\ job' = [job EXCEPT !.at = "model", !.kept = MemoryKept]
        /\ memory' = [token |-> job.token, time |-> job.odom.at]
        /\ UNCHANGED <<mode, skipped, prevTs, ran, pending, serial>>
    BY <1>7 DEF Forward
  <2>2. /\ job'.at = "model" /\ job'.odom = job.odom /\ job'.gap = job.gap
        /\ job'.kept = MemoryKept
    BY <2>1
  <2>3. ASSUME ~skipped, mode = "sensor"
        PROVE  MemoryKept <=> ran # None /\ ~job.gap
    <3>1. /\ job.gap <=> GapTo(job)
          /\ testFlag <=> ran # None
          /\ testFlag => memory.time = ran /\ memory.token = serial
          /\ job.token = serial
      BY <2>1, <2>3 DEF FrameBuilt
    <3>2. ran # None => job.odom.at \in Nat /\ ran \in Nat /\ MemoryMaxDt \in Nat
      BY <2>1, DriveAssumption DEF DriveAssumption
    <3> QED BY <2>3, <3>1, <3>2 DEF MemoryKept
  <2>4. memory'.token = job.token /\ job.token = serial
    BY <2>1 DEF FrameBuilt
  <2> HIDE DEF MemoryKept
  <2> QED BY <2>1, <2>2, <2>3, <2>4
<1>8. CASE ForwardDone
  BY <1>8 DEF ForwardDone, NoFrame, FrameBuilt, None
<1>9. CASE Raises
  BY <1>9 DEF Raises
<1>10. CASE Control
  BY <1>10 DEF Control, ControlIdle, ControlStalled, ControlTest, ControlPublish, ControlNoNode, Command
<1>11. CASE UNCHANGED vars
  BY <1>11 DEF vars
<1> QED
  BY <1>1, <1>2, <1>3, <1>4, <1>5, <1>6, <1>7, <1>8, <1>9, <1>10, <1>11 DEF Next, World, Worker

-----------------------------------------------------------------------------
DriveInvariant ==
  /\ Typed /\ RouteThere /\ NodeThere /\ PlanYoung /\ StallBraked
  /\ FrameBuilt /\ SinceRun

LEMMA Inductive == Spec => []DriveInvariant
<1>1. Init => DriveInvariant
  <2> SUFFICES ASSUME Init PROVE DriveInvariant
    OBVIOUS
  <2>1. RouteThere /\ NodeThere /\ PlanYoung /\ StallBraked
    BY DEF Init, RouteThere, NodeThere, PlanYoung, StallBraked
  <2>2. FrameBuilt /\ SinceRun
    BY DEF Init, FrameBuilt, SinceRun, NoFrame
  <2> QED BY <2>1, <2>2, InitTyped DEF DriveInvariant
<1>2. DriveInvariant /\ [Next]_vars => DriveInvariant'
  BY NextTyped, NextNodeThere, NextBraked, NextFrameBuilt, NextSinceRun DEF DriveInvariant
<1> QED BY <1>1, <1>2, PTL DEF Spec

\* The waypoint that a control tick is about to read is still in the deque,
\* however many of them the worker pops in between.
THEOREM WaypointStays == Spec => []NodeThere
  BY Inductive, PTL DEF DriveInvariant

\* However long a forward takes, the car is not driven on after its plan has
\* become too old.
THEOREM CarIsBraked == Spec => []StallBraked
  BY Inductive, PTL DEF DriveInvariant

\* A frame is reported as run without memory exactly if the one run before it
\* is too long ago; and where the stamps are those of the sensors, it is.
THEOREM GapIsReal == Spec => []GapReported
<1>1. DriveInvariant => GapReported
  BY DEF DriveInvariant, SinceRun, GapTo, GapReported
<1> QED BY <1>1, Inductive, PTL
-----------------------------------------------------------------------------
(* The navigation command                                                  *)

\* The car is driven no farther on one plan than the planner searches its route,
\* and a waypoint counts as reached a unit before the car is at it.
PlannerKeepsUp == MinDist >= 1 /\ (StallTimeout + 1) * MaxStep <= MaxDist + 1

LEMMA LeastMember ==
  ASSUME NEW T, T \subseteq Nat, T # {}
  PROVE  \E m \in T : \A k \in T : m <= k
<1> DEFINE R == OpToRel(<, Nat)
<1>1. \A x, y \in Nat : x < y => <<x, y>> \in R
  BY DEF OpToRel
<1>2. IsWellFoundedOn(R, Nat)
  BY NatLessThanWellFounded
<1>3. PICK m \in T : \A k \in T : ~ (<<k, m>> \in R)
  <2> HIDE DEF R
  <2> QED BY <1>2, WFMin
<1>4. ASSUME NEW k \in T
      PROVE  m <= k
  <2>1. ~ (k < m)
    BY <1>1, <1>3
  <2> QED BY <2>1
<1> QED BY <1>4

\* What the planner pops is in its reach, if anything is.
LEMMA PopsInReach ==
  ASSUME NEW d \in Deque, NEW x \in Int, InReach(d, x) # {}
  PROVE  ToPop(d, x) \in InReach(d, x)
<1> DEFINE reach == InReach(d, x)
           gaps  == {MinDist - Away(d, i, x) : i \in reach}
           farthest == {i \in reach : \A j \in reach : Away(d, j, x) <= Away(d, i, x)}
<1>1. /\ reach \subseteq Nat
      /\ \A i \in reach : Away(d, i, x) \in Int /\ MinDist - Away(d, i, x) \in Nat
  BY PlannerAssumption DEF PlannerAssumption, InReach, Away, Remaining, Deque
<1>2. PICK g \in gaps : \A k \in gaps : g <= k
  <2>1. gaps \subseteq Nat /\ gaps # {}
    <3> HIDE DEF reach
    <3> QED BY <1>1 DEF reach
  <2> HIDE DEF gaps
  <2> QED BY <2>1, LeastMember
<1>3. PICK i \in reach : g = MinDist - Away(d, i, x)
  OBVIOUS
<1>4. i \in farthest
  <2>1. ASSUME NEW j \in reach
        PROVE  Away(d, j, x) <= Away(d, i, x)
    <3>1. MinDist - Away(d, j, x) \in gaps
      OBVIOUS
    <3>2. MinDist - Away(d, i, x) <= MinDist - Away(d, j, x)
      BY <1>2, <1>3, <3>1
    <3> HIDE DEF reach
    <3> QED BY <1>1, <1>3, <3>2, PlannerAssumption DEF PlannerAssumption
  <2> QED BY <2>1
<1>5. PICK n \in farthest : \A k \in farthest : n <= k
  <2>1. farthest \subseteq Nat /\ farthest # {}
    BY <1>1, <1>4
  <2> HIDE DEF farthest
  <2> QED BY <2>1, LeastMember
<1>6. ToPop(d, x) \in farthest
  BY <1>5 DEF ToPop
<1> QED BY <1>6

\* The scan leaves a waypoint at the front that the car is at, if the car was no
\* farther ahead than the planner searches.
LEMMA ScanFinds ==
  ASSUME PlannerKeepsUp, NEW d \in Deque, NEW x \in Int, d.lo <= x + MinDist,
         x - d.lo - MinDist <= MaxDist + 1, x <= d.hi
  PROVE  /\ ToPop(d, x) \in Nat
         /\ ToPop(d, x) = 0 => d.lo - x \in -MinDist..MinDist
         /\ ToPop(d, x) > 0 => /\ d.lo + ToPop(d, x) <= d.hi
                               /\ d.lo + ToPop(d, x) - x \in -MinDist..MinDist
<1> USE PlannerAssumption DEF PlannerAssumption, Deque
<1>1. CASE InReach(d, x) = {}
  <2>1. ToPop(d, x) = 0
    BY <1>1 DEF ToPop
  <2>2. ASSUME d.lo - x < -MinDist
        PROVE  FALSE
    <3> DEFINE i == x - MinDist - d.lo
    <3>1. i \in 1..Remaining(d) - 1 /\ i - 1 <= MaxDist /\ d.lo + i = x - MinDist
      BY <2>2 DEF Remaining, PlannerKeepsUp
    <3> HIDE DEF i
    <3>2. Away(d, i, x) <= MinDist
      BY <3>1 DEF Away
    <3> QED BY <1>1, <3>1, <3>2 DEF InReach
  <2> QED BY <2>1, <2>2
<1>2. CASE InReach(d, x) # {}
  <2> DEFINE n == ToPop(d, x)
  <2>1. n \in InReach(d, x)
    BY <1>2, PopsInReach
  <2> HIDE DEF n
  <2>2. n \in 1..Remaining(d) - 1 /\ Away(d, n, x) <= MinDist
    BY <2>1 DEF InReach
  <2>3. n \in Nat /\ n > 0 /\ d.lo + n <= d.hi /\ d.lo + n - x \in -MinDist..MinDist
    BY <2>2 DEF Away, Remaining
  <2> QED BY <2>3 DEF n
<1> QED BY <1>1, <1>2

\* Where the car is on the present route, and where a frame was taken.
Located ==
  /\ car \in 0..RouteLen - 1
  /\ odom.route \in 0..serial
  /\ IF odom.route = serial THEN odom.pos = car ELSE car = 0
  /\ job.at \in {"build", "popping", "built"} => job.odom = odom
  /\ job.pops \in Nat
  /\ plan # NoPlan => plan <= now

\* The deque of a frame that was built for the present route is the present one,
\* unless that route has been delivered again.
Delivered ==
  /\ serial = 0 <=> deques = <<>>
  /\ deques # <<>> => Route.hi = RouteLen - 1 /\ Route.lo \in 0..RouteLen - 1
  /\ job.deque \in Nat /\ job.deque <= Len(deques)
  /\ job.at \in {"popping", "built"} =>
       job.token \in 0..serial /\ (job.token = serial /\ astray = {} => job.deque = Len(deques))

Within  == -MinDist..MinDist
Behind  == car - Route.lo - MinDist
Popping == job.at = "popping" /\ job.deque = Len(deques) /\ job.pops > 0

\* Ticks in which the car may have been driven while the frame is in the model.
Driven == IF plan # NoPlan /\ now - plan <= StallTimeout THEN now - plan ELSE StallTimeout + 1

\* The front of the deque is at the car after each scan, and until the next the
\* car gets ahead of it by no more than one plan lets it.
Followed ==
  astray = {} /\ serial # 0 =>
    /\ Route.lo <= car + MinDist
    /\ Popping => Route.lo + job.pops <= Route.hi /\ Route.lo + job.pops - car \in Within
    /\ (job.at = "popping" /\ ~Popping) => Route.lo - car \in Within
    /\ job.at = "built" => Route.lo - car \in Within
    /\ job.at \in {"none", "model"} /\ ~fresh => Behind <= 0
    /\ job.at = "model" => Behind <= Driven * MaxStep
    /\ job.at \in {"none", "build"} => Behind <= (StallTimeout + 1) * MaxStep

WayKept == Located /\ Delivered /\ Followed

LEMMA DriveBounds ==
  /\ RouteLen \in Nat \ {0} /\ MinDist \in Nat /\ MaxDist \in Nat
  /\ MaxStep \in Nat /\ StallTimeout \in Nat
  /\ None = -1 /\ NoPlan = -1
  BY PlannerAssumption, DriveAssumption DEF PlannerAssumption, DriveAssumption, None, NoPlan

LEMMA PlainTypes ==
  ASSUME Typed
  PROVE  /\ now \in Nat /\ serial \in Nat /\ (plan # NoPlan => plan \in Nat)
         /\ deques \in Seq(Deque) /\ Len(deques) \in Nat
  BY DEF Typed

\* A part of the way is no longer than the whole.
LEMMA PartOfTheWay ==
  ASSUME NEW i \in Nat, NEW k \in Nat, i <= k
  PROVE  /\ i * MaxStep \in Nat /\ k * MaxStep \in Nat /\ i * MaxStep <= k * MaxStep
         /\ (i + 1) * MaxStep = i * MaxStep + MaxStep
<1>1. MaxStep \in Nat
  BY DriveBounds
<1>2. PICK n \in Nat : k = i + n
  <2>1. k - i \in Nat /\ k = i + (k - i)
    OBVIOUS
  <2> QED BY <2>1
<1>3. k * MaxStep = i * MaxStep + n * MaxStep
  BY <1>1, <1>2
<1>4. i * MaxStep \in Nat /\ n * MaxStep \in Nat
  BY <1>1
<1>5. (i + 1) * MaxStep = i * MaxStep + MaxStep
  BY <1>1
<1> DEFINE a == i * MaxStep
           b == n * MaxStep
           c == k * MaxStep
<1>6. a \in Nat /\ b \in Nat /\ c = a + b => a <= c /\ c \in Nat
  <2> HIDE DEF a, b, c
  <2> QED OBVIOUS
<1> QED BY <1>3, <1>4, <1>5, <1>6

LEMMA SomeWay ==
  ASSUME NEW i \in Nat
  PROVE  i * MaxStep \in Nat
  BY DriveBounds

\* The car moves on by a tick, away from the front of the deque.
LEMMA MoveOn ==
  ASSUME NEW x \in Int, NEW y \in Int, NEW lo \in Int, x <= y, y <= x + MaxStep
  PROVE  /\ lo <= x + MinDist => lo <= y + MinDist
         /\ x - lo - MinDist \in Int /\ y - lo - MinDist \in Int
         /\ y - lo - MinDist <= (x - lo - MinDist) + MaxStep
  BY DriveBounds

LEMMA TickKeepsWay ==
  ASSUME PlannerKeepsUp, Typed, StallBraked, WayKept, Tick
  PROVE  WayKept'
<1> USE DriveBounds
<1>1. /\ ~due /\ now' = now + 1 /\ fresh' = TRUE
      /\ job.at = "model" \/ (job.at = "none" /\ ~fresh)
      /\ odom' = [route |-> serial, pos |-> car', at |-> now']
      /\ astray' = astray \cup (IF applied = "drive" /\ plan = NoPlan THEN {"coasted"} ELSE {})
      /\ UNCHANGED <<deques, serial, pending, job, plan>>
  BY DEF Tick, driveVars
<1>2. car' = car \/ (applied = "drive" /\ car' \in car..car + MaxStep /\ car' <= RouteLen - 1)
  BY DEF Tick, WayKept, Located
<1>3. Located'
  BY <1>1, <1>2, PlainTypes DEF WayKept, Located
<1>4. Delivered'
  BY <1>1 DEF WayKept, Delivered, Route
<1>5. Followed'
  <2> SUFFICES ASSUME astray' = {}, serial' # 0
               PROVE  /\ Route.lo <= car' + MinDist
                      /\ job.at = "model" => (Behind <= Driven * MaxStep)'
                      /\ job.at = "none" => Behind' <= (StallTimeout + 1) * MaxStep
    BY <1>1 DEF Followed, Route, Popping
  <2>1. /\ astray = {} /\ serial # 0 /\ Route.lo \in Int /\ Route' = Route
        /\ car \in Int /\ car' \in Int /\ car <= car' /\ car' <= car + MaxStep
    BY <1>1, <1>2 DEF WayKept, Located, Delivered, Route
  <2>2. car \in Int /\ car' \in Int /\ car <= car' /\ car' <= car + MaxStep
    BY <2>1
  <2>3. Route.lo <= car' + MinDist
    <3>1. Route.lo <= car + MinDist
      BY <2>1 DEF WayKept, Followed
    <3> QED BY <2>1, <2>2, <3>1, MoveOn
  <2>4. Behind' <= Behind + MaxStep /\ Behind \in Int /\ Behind' \in Int
    <3>1. Behind = car - Route.lo - MinDist /\ Behind' = car' - Route.lo - MinDist
      BY <2>1 DEF Behind
    <3> QED BY <2>1, <2>2, <3>1, MoveOn
  <2>5. ASSUME job.at = "model"
        PROVE  (Behind <= Driven * MaxStep)'
    <3>1. Behind <= Driven * MaxStep
      BY <2>1, <2>5 DEF WayKept, Followed
    <3>2. plan # NoPlan => plan \in Nat /\ now - plan \in Nat
      BY PlainTypes DEF WayKept, Located
    <3>3. Driven \in Nat /\ Driven' \in Nat /\ Driven <= Driven'
      BY <1>1, <3>2, PlainTypes DEF Driven
    <3>4. CASE car' = car
      <4>1. Behind' = Behind
        BY <1>1, <3>4 DEF Behind, Route
      <4>2. Driven * MaxStep <= Driven' * MaxStep /\ Driven * MaxStep \in Nat /\ Driven' * MaxStep \in Nat
        BY <3>3, PartOfTheWay
      <4>3. Behind \in Int
        BY <2>1 DEF Behind
      <4> QED BY <3>1, <4>1, <4>2, <4>3
    <3>5. CASE car' # car
      <4>1. plan # NoPlan /\ now - plan <= StallTimeout
        BY <1>1, <1>2, <2>1, <3>5 DEF StallBraked
      <4>2. Driven' = Driven + 1
        BY <1>1, <3>2, <4>1, PlainTypes DEF Driven
      <4>3. Driven' * MaxStep = Driven * MaxStep + MaxStep /\ Driven * MaxStep \in Nat
        BY <3>3, <4>2, PartOfTheWay
      <4> DEFINE b == Driven * MaxStep
                 c == Driven' * MaxStep
      <4>4. c = b + MaxStep /\ b \in Nat /\ Behind <= b
        BY <3>1, <4>3
      <4> HIDE DEF b, c
      <4>5. Behind' <= c
        BY <2>4, <4>4
      <4> QED BY <4>5 DEF c
    <3> QED BY <3>4, <3>5
  <2>6. ASSUME job.at = "none"
        PROVE  Behind' <= (StallTimeout + 1) * MaxStep
    <3>1. Behind <= 0
      BY <1>1, <2>1, <2>6 DEF WayKept, Followed
    <3>3. (StallTimeout + 1) * MaxStep = StallTimeout * MaxStep + MaxStep /\ StallTimeout * MaxStep \in Nat
      BY PartOfTheWay
    <3> DEFINE b == StallTimeout * MaxStep
               c == (StallTimeout + 1) * MaxStep
    <3>4. c = b + MaxStep /\ b \in Nat
      BY <3>3
    <3> HIDE DEF b, c
    <3>5. Behind' <= c
      BY <2>4, <3>1, <3>4
    <3> QED BY <3>5 DEF c
  <2> QED BY <2>3, <2>5, <2>6
<1> QED BY <1>3, <1>4, <1>5 DEF WayKept

LEMMA RouteKeepsWay ==
  ASSUME PlannerKeepsUp, Typed, WayKept, RouteCallback
  PROVE  WayKept'
<1> USE DriveBounds
<1>1. /\ deques' = Append(deques, Whole)
      /\ UNCHANGED <<now, odom, fresh, job, plan>>
      /\ \/ serial' = serial + 1 /\ car' = 0 /\ astray' = {}
         \/ serial # 0 /\ "replayed" \in astray' /\ UNCHANGED <<serial, car>>
  BY DEF RouteCallback, driveVars
<1>2. /\ deques' # <<>> /\ Len(deques') = Len(deques) + 1 /\ Len(deques) \in Nat
      /\ Route' = Whole
  BY <1>1, PlainTypes DEF Route
<1>3. /\ Whole.hi = RouteLen - 1 /\ Whole.lo = 0
  BY DEF Whole
<1>4. serial \in Nat /\ odom.route \in 0..serial
  BY PlainTypes DEF WayKept, Located
<1>5. Located'
  BY <1>1, <1>4 DEF WayKept, Located
<1>6. Delivered'
  <2>1. serial' # 0 /\ 0 \in 0..RouteLen - 1
    BY <1>1, <1>4
  <2>2. ASSUME job.at \in {"popping", "built"}
        PROVE  job.token \in 0..serial' /\ ~(job.token = serial' /\ astray' = {})
    BY <1>1, <1>4, <2>2 DEF WayKept, Delivered
  <2>3. job.deque \in Nat /\ job.deque <= Len(deques')
    BY <1>2 DEF WayKept, Delivered
  <2> QED BY <1>1, <1>2, <1>3, <2>1, <2>2, <2>3 DEF Delivered
<1>7. Followed'
  <2> SUFFICES ASSUME astray' = {}
               PROVE  Followed'
    BY DEF Followed
  <2>1. car' = 0 /\ Route'.lo = 0 /\ job' = job
    BY <1>1, <1>2, <1>3
  <2>2. ~Popping'
    BY <1>1, <1>2 DEF WayKept, Delivered, Popping
  <2>3. Behind' <= 0 /\ Behind' \in Int
    BY <2>1 DEF Behind
  <2>4. Driven' \in Nat
    BY <1>1, PlainTypes DEF Driven, WayKept, Located
  <2>5. Driven' * MaxStep \in Nat /\ (StallTimeout + 1) * MaxStep \in Nat
    <3>1. StallTimeout + 1 \in Nat
      OBVIOUS
    <3> HIDE DEF Driven
    <3> QED BY <2>4, <3>1, SomeWay
  <2>6. (Driven * MaxStep)' \in Nat
    BY <2>5
  <2> QED BY <2>1, <2>2, <2>3, <2>5, <2>6 DEF Followed, Within
<1> QED BY <1>5, <1>6, <1>7 DEF WayKept

\* Steps in which nothing moves and nothing is popped.
LEMMA StillKeepsWay ==
  ASSUME PlannerKeepsUp, Typed, WayKept,
         TimerCallback \/ BuildDone \/ Forward \/ ForwardDone \/ Raises \/ Control \/ UNCHANGED vars
  PROVE  WayKept'
<1> USE DriveBounds DEF NoFrame, worldVars, routeVars, contextVars, modelVars, driveVars
<1>1. /\ UNCHANGED <<now, car, odom, serial, astray, deques>>
      /\ plan' \in {plan, now}
  BY DEF TimerCallback, BuildDone, Forward, ForwardDone, Raises, vars,
         Control, ControlIdle, ControlStalled, ControlTest, ControlPublish, ControlNoNode, Command
<1>2. Route' = Route /\ Behind' = Behind
  BY <1>1 DEF Route, Behind
<1>3. \/ job' = job /\ fresh' = fresh /\ plan' = plan
      \/ /\ job.at = "none" /\ job'.at = "build" /\ job'.odom = odom /\ job'.pops = 0 /\ job'.deque = 0
      \/ /\ job.at = "popping" /\ job.pops = 0 /\ job'.at = "built" /\ fresh' = fresh
         /\ job'.pops = 0 /\ job'.odom = job.odom
         /\ job'.deque = job.deque /\ job'.token = job.token
      \/ /\ job.at = "built" /\ job'.at = "model" /\ fresh' = fresh /\ plan' = plan
         /\ job'.pops = job.pops /\ job'.deque = job.deque
      \/ /\ job'.at = "none" /\ fresh' = fresh /\ job'.pops = 0 /\ job'.deque = 0
         /\ \/ job.at = "popping" /\ job.pops = 0
            \/ job.at \in {"built", "model"}
  <2>1. CASE TimerCallback
    BY <2>1 DEF TimerCallback
  <2>2. CASE BuildDone
    BY <2>2 DEF BuildDone, Typed
  <2>3. CASE Forward
    BY <2>3 DEF Forward, Typed
  <2>4. CASE ForwardDone \/ Raises
    BY <2>4 DEF ForwardDone, Raises
  <2>5. CASE Control \/ UNCHANGED vars
    BY <2>5 DEF Control, ControlIdle, ControlStalled, ControlTest, ControlPublish, ControlNoNode,
                Command, vars
  <2> QED BY <2>1, <2>2, <2>3, <2>4, <2>5
<1>4. Located'
  BY SMTT(30), <1>1, <1>3, PlainTypes DEF WayKept, Located
<1>5. Delivered'
  <2>1. job'.deque \in Nat /\ job'.deque <= Len(deques')
    BY <1>1, <1>3, PlainTypes DEF WayKept, Delivered
  <2>2. ASSUME job'.at \in {"popping", "built"}
        PROVE  /\ job.at \in {"popping", "built"}
               /\ job'.token = job.token /\ job'.deque = job.deque
    BY <1>3, <2>2
  <2> QED BY <1>1, <1>2, <2>1, <2>2 DEF WayKept, Delivered
<1>6. Followed'
  <2> SUFFICES ASSUME astray = {}, serial # 0
               PROVE  Followed'
    BY <1>1 DEF Followed
  <2>1. car \in Int /\ Route.lo \in Int /\ Behind \in Int
    BY DEF WayKept, Located, Delivered, Behind
  <2>2. Driven \in Nat /\ Driven' \in Nat /\ Driven <= StallTimeout + 1
    BY <1>1, PlainTypes DEF Driven, WayKept, Located
  <2>3. /\ Driven * MaxStep \in Nat /\ Driven' * MaxStep \in Nat
        /\ (StallTimeout + 1) * MaxStep \in Nat
        /\ Driven * MaxStep <= (StallTimeout + 1) * MaxStep
    <3>1. StallTimeout + 1 \in Nat
      OBVIOUS
    <3>2. Driven * MaxStep \in Nat /\ Driven' * MaxStep \in Nat
      BY <2>2, SomeWay
    <3>3. /\ (StallTimeout + 1) * MaxStep \in Nat
          /\ Driven * MaxStep <= (StallTimeout + 1) * MaxStep
      BY <2>2, <3>1, PartOfTheWay
    <3> QED BY <3>2, <3>3
  <2>4. Route.lo <= car + MinDist
    BY DEF WayKept, Followed
  <2>5. job.at \in {"popping", "built"} /\ (job.at = "popping" => job.pops = 0) => Behind <= 0
    BY <2>1 DEF WayKept, Followed, Popping, Behind, Within
  <2>6. job.at = "model" => Behind <= (StallTimeout + 1) * MaxStep
    <3> DEFINE b == Driven * MaxStep
               c == (StallTimeout + 1) * MaxStep
    <3>1. job.at = "model" => Behind <= b
      BY DEF WayKept, Followed
    <3>2. b \in Nat /\ c \in Nat /\ b <= c
      BY <2>3
    <3> HIDE DEF b, c
    <3>3. job.at = "model" => Behind <= c
      BY <2>1, <3>1, <3>2
    <3> QED BY <3>3 DEF c
  <2>7. CASE job' = job /\ fresh' = fresh /\ plan' = plan
    <3>1. Driven' = Driven /\ Popping' = Popping
      BY <1>1, <2>7 DEF Driven, Popping
    <3> QED BY <1>1, <1>2, <2>7, <3>1 DEF WayKept, Followed
  <2>8. CASE job.at = "none" /\ job'.at = "build"
    BY <1>1, <1>2, <2>4, <2>8 DEF WayKept, Followed, Popping
  <2>9. CASE job.at = "popping" /\ job.pops = 0 /\ job'.at = "built"
    BY <1>1, <1>2, <2>4, <2>9 DEF WayKept, Followed, Popping
  <2>10. CASE job.at = "built" /\ job'.at = "model"
    <3>1. Behind' <= 0 /\ (Driven * MaxStep)' \in Nat
      BY <1>1, <1>2, <2>3, <2>5, <2>10
    <3> QED BY <1>1, <1>2, <2>1, <2>4, <2>10, <3>1 DEF Followed, Popping
  <2>11. CASE /\ job'.at = "none" /\ fresh' = fresh
              /\ \/ job.at = "popping" /\ job.pops = 0
                 \/ job.at \in {"built", "model"}
    <3>1. ~fresh => Behind <= 0
      BY <2>5, <2>11 DEF WayKept, Followed
    <3>2. Behind <= (StallTimeout + 1) * MaxStep
      <4> DEFINE c == (StallTimeout + 1) * MaxStep
      <4>1. c \in Nat /\ (job.at = "model" => Behind <= c)
        BY <2>3, <2>6
      <4> HIDE DEF c
      <4>2. Behind <= c
        BY <2>1, <2>5, <2>11, <4>1
      <4> QED BY <4>2 DEF c
    <3> QED BY <1>1, <1>2, <2>4, <2>11, <3>1, <3>2 DEF Followed, Popping
  <2> QED BY <1>3, <2>7, <2>8, <2>9, <2>10, <2>11
<1> QED BY <1>4, <1>5, <1>6 DEF WayKept

LEMMA BuildKeepsWay ==
  ASSUME PlannerKeepsUp, Typed, WayKept, BuildBatch
  PROVE  WayKept'
<1> USE DriveBounds
<1> DEFINE scanned == deques # <<>> /\ job.odom.route = serial
           n == IF scanned THEN ToPop(Route, job.odom.pos) ELSE 0
<1>1. /\ job.at = "build" /\ job'.at = "popping" /\ job'.token = serial /\ job'.deque = Len(deques)
      /\ job'.odom = job.odom /\ job'.pops = n
      /\ UNCHANGED <<now, car, odom, serial, astray, deques, plan>>
  BY DEF BuildBatch, Typed, worldVars, routeVars, driveVars, Route
<1>2. Route' = Route /\ serial \in Nat /\ Len(deques) \in Nat
  BY <1>1, PlainTypes DEF Route
<1>3. scanned => job.odom.pos = car
  BY <1>1 DEF WayKept, Located
<1>4. ASSUME deques # <<>>
      PROVE  Route \in Deque /\ car <= Route.hi /\ car \in Int /\ Route.lo \in Nat
  BY <1>4, PlainTypes DEF WayKept, Located, Delivered, Route
<1>5. scanned => InReach(Route, car) \subseteq Nat
  BY <1>4 DEF InReach
<1>6. n \in Nat
  <2>1. CASE scanned /\ InReach(Route, car) # {}
    BY <1>3, <1>4, <1>5, <2>1, PopsInReach
  <2>2. CASE scanned /\ InReach(Route, car) = {}
    BY <1>3, <2>2 DEF ToPop
  <2>3. CASE ~scanned
    BY <2>3
  <2> QED BY <2>1, <2>2, <2>3
<1>7. ASSUME astray = {}, serial # 0
      PROVE  /\ Route.lo <= car + MinDist
             /\ n > 0 => Route.lo + n <= Route.hi /\ Route.lo + n - car \in Within
             /\ n = 0 => Route.lo - car \in Within
  <2>1. deques # <<>>
    BY <1>7 DEF WayKept, Delivered
  <2>2. Route.lo <= car + MinDist
    BY <1>7 DEF WayKept, Followed
  <2>3. CASE scanned
    <3>1. car - Route.lo - MinDist <= MaxDist + 1
      <4> DEFINE c == (StallTimeout + 1) * MaxStep
      <4>1. Behind <= c /\ c <= MaxDist + 1
        BY <1>1, <1>7 DEF WayKept, Followed, PlannerKeepsUp
      <4>2. c \in Nat
        BY SomeWay
      <4> HIDE DEF c
      <4> QED BY <1>4, <2>1, <4>1, <4>2 DEF Behind
    <3> QED BY <1>3, <1>4, <2>1, <2>2, <2>3, <3>1, ScanFinds DEF Within
  <2>4. CASE ~scanned
    <3>1. car = 0 /\ n = 0
      BY <1>1, <2>1, <2>4 DEF WayKept, Located
    <3> QED BY <1>4, <2>1, <2>2, <3>1 DEF Within
  <2> QED BY <2>2, <2>3, <2>4
<1> HIDE DEF n, scanned
<1>8. Located'
  BY <1>1, <1>6 DEF WayKept, Located
<1>9. Delivered'
  BY <1>1, <1>2 DEF WayKept, Delivered
<1>10. Followed'
  BY <1>1, <1>2, <1>6, <1>7 DEF Followed, Popping
<1> QED BY <1>8, <1>9, <1>10 DEF WayKept

LEMMA ResetKeepsWay ==
  ASSUME PlannerKeepsUp, Typed, WayKept, ResetForNewRoute
  PROVE  WayKept'
<1> USE DriveBounds
<1>1. /\ job.at = "built" /\ job'.at = "build" /\ job'.odom = job.odom
      /\ job'.pops = 0 /\ job'.deque = 0
      /\ UNCHANGED <<now, car, odom, serial, astray, deques>> /\ plan' = NoPlan
  BY DEF ResetForNewRoute, NoFrame
<1>2. Route' = Route /\ Behind' = Behind /\ Len(deques) \in Nat
  BY <1>1, PlainTypes DEF Route, Behind
<1>3. Located'
  BY <1>1 DEF WayKept, Located
<1>4. Delivered'
  BY <1>1, <1>2 DEF WayKept, Delivered
<1>5. Followed'
  <2> SUFFICES ASSUME astray = {}, serial # 0
               PROVE  Followed'
    BY <1>1 DEF Followed
  <2>1. Route.lo <= car + MinDist /\ Behind <= 0
    BY <1>1 DEF WayKept, Followed, Delivered, Located, Behind, Within
  <2>2. (StallTimeout + 1) * MaxStep \in Nat /\ Behind \in Int
    BY SomeWay DEF WayKept, Delivered, Located, Behind
  <2>3. Behind <= (StallTimeout + 1) * MaxStep
    <3> DEFINE c == (StallTimeout + 1) * MaxStep
    <3>1. c \in Nat
      BY <2>2
    <3> HIDE DEF c
    <3>2. Behind <= c
      BY <2>1, <2>2, <3>1
    <3> QED BY <3>2 DEF c
  <2> QED BY <1>1, <1>2, <2>1, <2>3 DEF Followed, Popping
<1> QED BY <1>3, <1>4, <1>5 DEF WayKept

LEMMA PopKeepsWay ==
  ASSUME PlannerKeepsUp, Typed, WayKept, PopWaypoint
  PROVE  WayKept'
<1> USE DriveBounds
<1>1. /\ job.at = "popping" /\ job.pops > 0 /\ job.pops \in Nat
      /\ job'.at = "popping" /\ job'.pops = job.pops - 1
      /\ job'.odom = job.odom /\ job'.deque = job.deque /\ job'.token = job.token
      /\ deques' = [deques EXCEPT ![job.deque] = Popleft(@)]
      /\ UNCHANGED <<now, car, odom, serial, astray, plan, fresh>>
  BY DEF PopWaypoint, Typed, worldVars, driveVars, WayKept, Located
<1>2. /\ deques \in Seq(Deque) /\ deques' \in Seq(Deque) /\ Len(deques') = Len(deques)
      /\ Len(deques) \in Nat
  BY <1>1, PopsOne, PlainTypes
<1>3. deques' = <<>> <=> deques = <<>>
  BY <1>2
<1>4. ASSUME deques # <<>>
      PROVE  /\ Route \in Deque
             /\ Route' = IF job.deque = Len(deques) THEN Popleft(Route) ELSE Route
  <2>1. Len(deques) \in 1..Len(deques)
    BY <1>2, <1>4
  <2> QED BY <1>1, <1>2, <2>1 DEF Route
<1>5. ASSUME deques # <<>>
      PROVE  /\ Popleft(Route).hi = Route.hi
             /\ Route.lo + 1 < Route.hi => Popleft(Route).lo = Route.lo + 1
             /\ ~(Route.lo + 1 < Route.hi) => Popleft(Route).lo = Route.lo
  BY <1>4, <1>5 DEF Popleft, Remaining, Deque
<1>6. Located'
  BY <1>1 DEF WayKept, Located
<1>7. Delivered'
  <2>1. ASSUME deques # <<>>
        PROVE  Route'.hi = RouteLen - 1 /\ Route'.lo \in 0..RouteLen - 1
    <3>1. Route.hi = RouteLen - 1 /\ Route.lo \in 0..RouteLen - 1
      BY <2>1 DEF WayKept, Delivered
    <3> QED BY <1>4, <1>5, <2>1, <3>1
  <2> QED BY <1>1, <1>2, <1>3, <2>1 DEF WayKept, Delivered
<1>8. Followed'
  <2> SUFFICES ASSUME astray = {}, serial # 0
               PROVE  Followed'
    BY <1>1 DEF Followed
  <2>1. /\ deques # <<>> /\ Route.hi = RouteLen - 1 /\ Route.lo \in 0..RouteLen - 1
        /\ car \in 0..RouteLen - 1
    BY DEF WayKept, Delivered, Located
  <2>2. Route.lo <= car + MinDist
    BY DEF WayKept, Followed
  <2>3. CASE job.deque # Len(deques)
    <3>1. Route' = Route
      BY <1>4, <2>1, <2>3
    <3>2. Route.lo - car \in Within
      BY <1>1, <2>3 DEF WayKept, Followed, Popping
    <3> QED BY <1>1, <1>2, <2>2, <2>3, <3>1, <3>2 DEF Followed, Popping
  <2>4. CASE job.deque = Len(deques)
    <3>1. Route.lo + job.pops <= Route.hi /\ Route.lo + job.pops - car \in Within
      BY <1>1, <2>4 DEF WayKept, Followed, Popping
    <3>2. Route' = Popleft(Route)
      BY <1>4, <2>1, <2>4
    <3>3. CASE Route.lo + 1 < Route.hi
      <4>1. Route'.lo = Route.lo + 1 /\ Route'.hi = Route.hi
        BY <1>5, <2>1, <3>2, <3>3
      <4> DEFINE lo == Route.lo
                 n  == job.pops
                 m  == job'.pops
      <4>2. /\ lo \in Int /\ n \in Nat /\ n > 0 /\ m = n - 1 /\ car \in Int
            /\ lo + n - car \in Within /\ lo + n <= Route.hi
        BY <1>1, <2>1, <3>1
      <4> HIDE DEF lo, n, m
      <4>3. /\ m \in Nat /\ (lo + 1) + m = lo + n /\ lo + 1 <= car + MinDist
            /\ m = 0 => (lo + 1) - car \in Within
        BY <4>2 DEF Within
      <4>4. /\ job'.pops \in Nat /\ Route'.lo <= car + MinDist
            /\ job'.pops = 0 => Route'.lo - car \in Within
            /\ Route'.lo + job'.pops <= Route'.hi /\ Route'.lo + job'.pops - car \in Within
        BY <4>1, <4>2, <4>3 DEF lo, m
      <4>5. Popping' => /\ Route'.lo + job'.pops <= Route'.hi
                        /\ Route'.lo + job'.pops - car \in Within
        BY <4>4
      <4>6. ~Popping' => job'.pops = 0
        BY <1>1, <1>2, <2>4, <4>4 DEF Popping
      <4> QED BY <1>1, <4>4, <4>5, <4>6 DEF Followed, Within
    <3>4. CASE ~(Route.lo + 1 < Route.hi)
      <4>1. Route'.lo = Route.lo /\ job.pops = 1 /\ Route.lo = Route.hi - 1
        BY <1>1, <1>5, <2>1, <3>1, <3>2, <3>4
      <4>2. job'.pops = 0 /\ Route'.lo - car \in Within
        BY <1>1, <2>1, <3>1, <4>1 DEF Within, PlannerKeepsUp
      <4> QED BY <1>1, <2>2, <4>1, <4>2 DEF Followed, Popping
    <3> QED BY <3>3, <3>4
  <2> QED BY <2>3, <2>4
<1> QED BY <1>6, <1>7, <1>8 DEF WayKept

LEMMA WayInductive == ASSUME PlannerKeepsUp PROVE Spec => []WayKept
<1>1. Init => WayKept
  <2> SUFFICES ASSUME Init PROVE WayKept
    OBVIOUS
  <2> QED
    BY DriveBounds DEF Init, NoFrame, NoOdom, WayKept, Located, Delivered, Followed
<1>2. DriveInvariant /\ WayKept /\ [Next]_vars => WayKept'
  BY TickKeepsWay, RouteKeepsWay, StillKeepsWay, BuildKeepsWay, ResetKeepsWay, PopKeepsWay
  DEF Next, World, Worker, DriveInvariant
<1> QED BY <1>1, <1>2, Inductive, PTL DEF Spec

\* The navigation command is that of a waypoint the car is at, for any route and
\* wherever forwards begin and end, if the car covers no more on one plan than
\* the planner searches: in the code 5 m/s (ORION_SPEED_CAP_MPS) for 6 s
\* (plan_stall_timeout_sec) against 50 m (ROUTE_MAX_DIST).
THEOREM CommandAtTheCar ==
  ASSUME PlannerKeepsUp
  PROVE  Spec => []WayAhead
<1>1. WayKept => WayAhead
  BY DEF WayKept, Located, Delivered, Followed, Route, Within, WayAhead, Commanded, AtTheCar
<1> QED BY <1>1, WayInductive, PTL
=============================================================================
