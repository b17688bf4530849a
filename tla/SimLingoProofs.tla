--------------------------- MODULE SimLingoProofs ----------------------------
(***************************************************************************)
(* What a reset of the SimLingo node leaves behind, for any number of      *)
(* routes, plans and waypoints and wherever the reset of one callback      *)
(* group falls into the control tick of the other; and that its inference  *)
(* client answers each image with what was computed from that image, lets  *)
(* a car that is stuck creep, and aims along the route at what the planner *)
(* that it transcribes aims at.                                            *)
(***************************************************************************)
EXTENDS MCSimLingo, SequenceTheorems, WellFoundedInduction, NaturalsInduction, TLAPS

Plans == [seq : Nat, route : Nat, made : Nat]
Resetting == {"dropPlan", "zeroProgress", "forgetSeq", "unbegin", "disarm"}
Following == {"advance", "look", "since", "sinceRead", "step", "first", "firstRead"}

Groups == {"main", "ctrl"}
Labels == Resetting \cup Following
            \cup {"idle", "track", "publish", "stamp", "watch", "raised"}

Typed ==
  /\ route \in Nat /\ planSeq \in Nat /\ controller \in Nat /\ job \in Nat
  /\ progress \in Nat /\ progressSeq \in Int
  /\ plan \in Plans
  /\ tick \in [plan : Plans, controller : Nat, at : Nat, cmd : Commands]
  /\ furthest \in [plan : Plans, at : Nat]
  /\ pc \in [Groups -> Labels]

\* Plans are told apart by their number, and it is never given out again.
OnePlanPerSeq ==
  /\ plan.seq <= planSeq /\ tick.plan.seq <= planSeq /\ furthest.plan.seq <= planSeq
  /\ plan.seq = 0 => plan = NoPlan
  /\ tick.plan.seq = 0 => tick.plan = NoPlan
  /\ furthest.plan.seq = 0 => furthest.plan = NoPlan
  /\ plan.seq = tick.plan.seq => plan = tick.plan
  /\ plan.seq = furthest.plan.seq => plan = furthest.plan
  /\ tick.plan.seq = furthest.plan.seq => tick.plan = furthest.plan

\* Nothing is there for a route before the reset for it is over.
After(p) == p # NoPlan => p.route <= route /\ (p.route = route => pc.main = "idle")
ResetFirst ==
  /\ job <= route /\ (job # NoJob /\ job = route => pc.main = "idle")
  /\ After(plan) /\ After(tick.plan) /\ After(furthest.plan)

\* A plan and the controller it met are dropped together and read together.
MadeFor ==
  /\ plan # NoPlan => plan.made = controller
  /\ tick.plan.made = tick.controller

\* The unlocked fields of the control loop are those of the plan tracked last,
\* unless that was for a route that has ended.
OwnProgress ==
  /\ progressSeq # -1 /\ furthest.plan # NoPlan => progressSeq = furthest.plan.seq
  /\ furthest.plan = NoPlan => progressSeq = -1
  /\ furthest.plan # NoPlan /\ furthest.plan.route = route =>
       progressSeq = furthest.plan.seq /\ progress = furthest.at

Tracked ==
  /\ pc.ctrl \in Following \cup {"track"} => tick.plan # NoPlan
  /\ pc.ctrl \in Following => furthest.plan = tick.plan
  /\ Steering /\ tick.plan.route = route => tick.at = furthest.at

Scoped == OnePlanPerSeq /\ ResetFirst /\ MadeFor /\ OwnProgress /\ Tracked /\ CleanController

\* One group moves, the other stays where it is.
LEMMA Moves ==
  ASSUME Typed, NEW from, NEW to \in Labels
  PROVE  /\ Goto("main", from, to) =>
              /\ pc.main = from /\ pc'.main = to /\ pc'.ctrl = pc.ctrl
              /\ pc' \in [Groups -> Labels]
         /\ Goto("ctrl", from, to) =>
              /\ pc.ctrl = from /\ pc'.ctrl = to /\ pc'.main = pc.main
              /\ pc' \in [Groups -> Labels]
  BY DEF Typed, Goto, Groups

LEMMA NextTyped ==
  ASSUME Typed, [Next]_vars
  PROVE  Typed'
<1> USE SimLingoAssumption DEF SimLingoAssumption, Typed, Groups, Labels, Resetting, Following, Plans, planVars, controlVars, inputs, work, counts
<1>1. CASE ImageCallback \/ OdometryCallback
  BY <1>1 DEF Goto, ImageCallback, OdometryCallback
<1>2. CASE RouteCallback
  BY <1>2 DEF Goto, RouteCallback
<1>3. CASE DropPlan
  BY <1>3 DEF Goto, DropPlan, NoPlan, MakeController
<1>4. CASE ZeroProgress \/ ForgetSeq \/ Unbegin \/ Disarm
  BY <1>4 DEF Goto, ZeroProgress, ForgetSeq, Unbegin, Disarm
<1>5. CASE TimerCallback
  BY <1>5 DEF Goto, TimerCallback, Submit
<1>6. CASE StorePlan
  BY <1>6 DEF StorePlan
<1>7. CASE NoPrediction \/ ModelRaises \/ PublishTrajectory \/ PlanAges \/ TimeoutPasses
  BY <1>7 DEF NoPrediction, ModelRaises, PublishTrajectory, PlanAges, TimeoutPasses, NoJob
<1>8. CASE ControlRead
  BY <1>8 DEF Goto, ControlRead, Commands
<1>9. CASE TrackSeq
  BY <1>9 DEF Goto, TrackSeq
<1>10. CASE Advance
  BY <1>10 DEF Goto, Advance, Further
<1>11. CASE Look
  BY <1>11 DEF Goto, Look
<1>12. CASE Since \/ SinceRead \/ First \/ FirstRead
  BY <1>12 DEF Goto, Since, SinceRead, First, FirstRead
<1>13. CASE Step
  BY <1>13 DEF Goto, Step
<1>14. CASE Publish \/ Stamp \/ WatchdogCheck \/ WatchdogRead
  BY <1>14 DEF Goto, Publish, Stamp, WatchdogCheck, WatchdogRead
<1>15. CASE UNCHANGED vars
  BY <1>15 DEF vars
<1> QED
  BY <1>1, <1>2, <1>3, <1>4, <1>5, <1>6, <1>7, <1>8, <1>9, <1>10, <1>11, <1>12,
     <1>13, <1>14, <1>15
  DEF Next, Sensors, ResetSteps, Worker, Clocks, TickSteps

LEMMA InitScoped == Init => Typed /\ Scoped
<1> SUFFICES ASSUME Init PROVE Typed /\ Scoped
  OBVIOUS
<1>1. Typed
  BY DEF Init, Typed, Plans, NoPlan, NoJob, Commands, Groups, Labels
<1>2. Scoped
  <2>1. /\ route = 0 /\ job = NoJob /\ plan = NoPlan /\ planSeq = 0 /\ controller = 0
        /\ tick.plan = NoPlan /\ tick.controller = 0 /\ furthest.plan = NoPlan
        /\ progressSeq = -1 /\ pc.ctrl = "idle" /\ fed = {}
    BY DEF Init
  <2>2. NoPlan.seq = 0 /\ NoPlan.made = 0
    BY DEF NoPlan
  <2>3. OnePlanPerSeq /\ ResetFirst /\ MadeFor
    BY <2>1, <2>2 DEF OnePlanPerSeq, ResetFirst, After, MadeFor, NoJob
  <2>4. OwnProgress /\ Tracked /\ CleanController
    BY <2>1 DEF OwnProgress, Tracked, Steering, Following, CleanController
  <2> QED BY <2>3, <2>4 DEF Scoped
<1> QED BY <1>1, <1>2

LEMMA NextPlans ==
  ASSUME Typed, OnePlanPerSeq, ResetFirst, MadeFor, [Next]_vars
  PROVE  OnePlanPerSeq' /\ ResetFirst' /\ MadeFor'
<1> USE DEF Typed, OnePlanPerSeq, ResetFirst, After, MadeFor, Plans,
            planVars, controlVars, inputs, work, counts
<1>1. CASE ImageCallback \/ OdometryCallback
  BY <1>1 DEF ImageCallback, OdometryCallback, Goto, Groups
<1>2. CASE RouteCallback
  BY <1>2 DEF RouteCallback, NoJob
<1>3. CASE DropPlan
  <2>1. /\ plan' = NoPlan /\ controller' = controller + 1
        /\ UNCHANGED <<route, planSeq, tick, furthest, job>>
        /\ pc.main = "dropPlan" /\ pc'.main # "idle"
    BY <1>3 DEF DropPlan, MakeController, Goto, Groups
  <2>2. NoPlan.seq = 0
    BY DEF NoPlan
  <2> QED BY <2>1, <2>2
<1>4. CASE ZeroProgress \/ ForgetSeq \/ Unbegin \/ Disarm
  BY <1>4 DEF ZeroProgress, ForgetSeq, Unbegin, Disarm, Goto, Groups
<1>5. CASE TimerCallback
  BY <1>5 DEF TimerCallback, Submit, Goto, Groups
<1>6. CASE StorePlan
  BY <1>6 DEF StorePlan, NoPlan, NoJob
<1>7. CASE NoPrediction \/ ModelRaises \/ PublishTrajectory \/ PlanAges \/ TimeoutPasses
  BY <1>7 DEF NoPrediction, ModelRaises, PublishTrajectory, PlanAges, TimeoutPasses, NoJob
<1>8. CASE ControlRead
  BY <1>8 DEF ControlRead, Goto, Groups
<1>9. CASE TrackSeq
  BY <1>9 DEF TrackSeq, Goto, Groups
<1>10. CASE Advance
  BY <1>10 DEF Advance, Goto, Groups
<1>11. CASE Look
  BY <1>11 DEF Look, Goto, Groups
<1>12. CASE Since \/ SinceRead \/ First \/ FirstRead
  BY <1>12 DEF Since, SinceRead, First, FirstRead, Goto, Groups
<1>13. CASE Step
  BY <1>13 DEF Step, Goto, Groups
<1>14. CASE Publish \/ Stamp \/ WatchdogCheck \/ WatchdogRead
  BY <1>14 DEF Publish, Stamp, WatchdogCheck, WatchdogRead, Goto, Groups
<1>15. CASE UNCHANGED vars
  BY <1>15 DEF vars
<1> QED
  BY <1>1, <1>2, <1>3, <1>4, <1>5, <1>6, <1>7, <1>8, <1>9, <1>10, <1>11, <1>12,
     <1>13, <1>14, <1>15
  DEF Next, Sensors, ResetSteps, Worker, Clocks, TickSteps

LEMMA NextProgress ==
  ASSUME Typed, OnePlanPerSeq, ResetFirst, OwnProgress, Tracked, [Next]_vars
  PROVE  OwnProgress'
<1> USE DEF Typed, OwnProgress, After, ResetFirst, OnePlanPerSeq, Plans,
            planVars, controlVars, inputs, work, counts
<1>1. CASE ImageCallback \/ OdometryCallback
  BY <1>1 DEF ImageCallback, OdometryCallback
<1>2. CASE RouteCallback
  <2>1. UNCHANGED <<progress, progressSeq, furthest>> /\ route' = route + 1
    BY <1>2 DEF RouteCallback
  <2>2. furthest.plan # NoPlan => furthest.plan.route < route'
    BY <2>1
  <2> QED BY <2>1, <2>2
<1>3. CASE ZeroProgress \/ ForgetSeq
  BY <1>3 DEF ZeroProgress, ForgetSeq, Goto
<1>4. CASE DropPlan \/ Unbegin \/ Disarm
  BY <1>4 DEF DropPlan, Unbegin, Disarm
<1>5. CASE TimerCallback
  BY <1>5 DEF TimerCallback, Submit
<1>6. CASE StorePlan
  BY <1>6 DEF StorePlan
<1>7. CASE NoPrediction \/ ModelRaises \/ PublishTrajectory \/ PlanAges \/ TimeoutPasses
  BY <1>7 DEF NoPrediction, ModelRaises, PublishTrajectory, PlanAges, TimeoutPasses
<1>8. CASE ControlRead \/ Look \/ Since \/ SinceRead \/ Step \/ First \/ FirstRead
  BY <1>8 DEF ControlRead, Look, Since, SinceRead, Step, First, FirstRead
<1>9. CASE TrackSeq
  <2>1. tick.plan # NoPlan
    BY <1>9 DEF TrackSeq, Goto, Tracked
  <2>2. CASE furthest.plan = tick.plan
    BY <1>9, <2>1, <2>2 DEF TrackSeq
  <2>3. CASE furthest.plan # tick.plan
    <3>1. progressSeq # tick.plan.seq
      BY <2>1, <2>3
    <3>2. furthest'.plan = tick.plan /\ furthest'.at = 0 /\ progressSeq' = tick.plan.seq /\ progress' = 0
      BY <1>9, <2>3, <3>1 DEF TrackSeq
    <3> QED BY <2>1, <3>2
  <2> QED BY <2>2, <2>3
<1>10. CASE Advance
  <2>1. PICK nearest \in 0..Waypoints - 1 :
          /\ progress' = Further(nearest, progress)
          /\ furthest' = [furthest EXCEPT !.at = Further(nearest, furthest.at)]
    BY <1>10 DEF Advance
  <2>2. progressSeq' = progressSeq /\ route' = route
    BY <1>10 DEF Advance
  <2> QED BY <2>1, <2>2
<1>11. CASE Publish \/ Stamp \/ WatchdogCheck \/ WatchdogRead
  BY <1>11 DEF Publish, Stamp, WatchdogCheck, WatchdogRead
<1>12. CASE UNCHANGED vars
  BY <1>12 DEF vars
<1> QED
  BY <1>1, <1>2, <1>3, <1>4, <1>5, <1>6, <1>7, <1>8, <1>9, <1>10, <1>11, <1>12
  DEF Next, Sensors, ResetSteps, Worker, Clocks, TickSteps

LEMMA NextTracked ==
  ASSUME Typed, OnePlanPerSeq, ResetFirst, OwnProgress, Tracked, [Next]_vars
  PROVE  Tracked'
<1> USE DEF Typed, Tracked, Steering, Following, Plans, planVars, controlVars, inputs, work, counts
<1>1. CASE ImageCallback \/ OdometryCallback
  BY <1>1 DEF ImageCallback, OdometryCallback, Goto, Groups
<1>2. CASE RouteCallback
  BY <1>2 DEF RouteCallback, Goto, Groups, ResetFirst, After
<1>3. CASE DropPlan \/ ZeroProgress \/ ForgetSeq \/ Unbegin \/ Disarm
  BY <1>3 DEF DropPlan, ZeroProgress, ForgetSeq, Unbegin, Disarm, Goto, Groups
<1>4. CASE TimerCallback
  BY <1>4 DEF TimerCallback, Submit, Goto, Groups
<1>5. CASE StorePlan \/ NoPrediction \/ ModelRaises \/ PublishTrajectory \/ PlanAges \/ TimeoutPasses
  BY <1>5 DEF StorePlan, NoPrediction, ModelRaises, PublishTrajectory, PlanAges, TimeoutPasses
<1>6. CASE ControlRead
  BY <1>6 DEF ControlRead, Goto, Groups
<1>7. CASE TrackSeq
  BY <1>7 DEF TrackSeq, Goto, Groups
<1>8. CASE Advance
  BY <1>8 DEF Advance, Goto, Groups
<1>9. CASE Look
  BY <1>9 DEF Look, Goto, Groups, OwnProgress
<1>10. CASE Since \/ SinceRead \/ First \/ FirstRead
  BY <1>10 DEF Since, SinceRead, First, FirstRead, Goto, Groups
<1>11. CASE Step
  BY <1>11 DEF Step, Goto, Groups
<1>12. CASE Publish \/ Stamp \/ WatchdogCheck \/ WatchdogRead
  BY <1>12 DEF Publish, Stamp, WatchdogCheck, WatchdogRead, Goto, Groups
<1>13. CASE UNCHANGED vars
  BY <1>13 DEF vars
<1> QED
  BY <1>1, <1>2, <1>3, <1>4, <1>5, <1>6, <1>7, <1>8, <1>9, <1>10, <1>11, <1>12, <1>13
  DEF Next, Sensors, ResetSteps, Worker, Clocks, TickSteps

LEMMA NextClean ==
  ASSUME Typed, MadeFor, CleanController, [Next]_vars
  PROVE  CleanController'
<1> USE DEF CleanController, planVars, controlVars, inputs, work, counts
<1>1. CASE DropPlan
  BY <1>1 DEF DropPlan
<1>2. CASE Step
  BY <1>2 DEF Step, MadeFor
<1>3. CASE Sensors \/ RouteCallback \/ ZeroProgress \/ ForgetSeq \/ Unbegin \/ Disarm \/ TimerCallback
  BY <1>3 DEF Sensors, ImageCallback, OdometryCallback, RouteCallback, ZeroProgress, ForgetSeq,
              Unbegin, Disarm, TimerCallback, Submit
<1>4. CASE Worker \/ Clocks
  BY <1>4 DEF Worker, StorePlan, NoPrediction, ModelRaises, PublishTrajectory,
              Clocks, PlanAges, TimeoutPasses
<1>5. CASE ControlRead \/ TrackSeq \/ Advance \/ Look \/ Since \/ SinceRead
  BY <1>5 DEF ControlRead, TrackSeq, Advance, Look, Since, SinceRead
<1>6. CASE First \/ FirstRead \/ Publish \/ Stamp \/ WatchdogCheck \/ WatchdogRead
  BY <1>6 DEF First, FirstRead, Publish, Stamp, WatchdogCheck, WatchdogRead
<1>7. CASE UNCHANGED vars
  BY <1>7 DEF vars
<1> QED
  BY <1>1, <1>2, <1>3, <1>4, <1>5, <1>6, <1>7 DEF Next, ResetSteps, TickSteps

LEMMA Inductive == Spec => [](Typed /\ Scoped)
<1>1. Typed /\ Scoped /\ [Next]_vars => (Typed /\ Scoped)'
  BY NextTyped, NextPlans, NextProgress, NextTracked, NextClean DEF Scoped
<1> QED BY <1>1, InitScoped, PTL DEF Spec

\* Wherever a reset falls into a control tick, the controller it makes is never
\* stepped with a plan that was stored for the one before it.
THEOREM ControllerStaysClean == Spec => []CleanController
  BY Inductive, PTL DEF Scoped

\* Whatever a reset clears between the lines of a control tick, a tick on a plan
\* for the present route steers from the furthest point reached on that plan.
THEOREM ProgressIsOwn == Spec => []SteersFromFurthest
<1>1. Typed /\ Scoped => SteersFromFurthest
  BY DEF Scoped, Tracked, Steering, Following, SteersFromFurthest
<1> QED BY <1>1, Inductive, PTL

\* The one plan of an ended route that may still be stored is that of the worker;
\* and while a plan of the present route is there, the worker has no other.
StrayCounted ==
  /\ stored \in Nat /\ strays \in Nat
  /\ strays <= 1
  /\ job # NoJob /\ job # route /\ stage = "model" => strays = 0 /\ stored = 0
  /\ stored > 0 => plan.route = route /\ pc.main = "idle"

LEMMA NextStray ==
  ASSUME Typed, ResetFirst, StrayCounted, [Next]_vars
  PROVE  StrayCounted'
<1> USE DEF StrayCounted, planVars, controlVars, inputs, work, counts
<1>1. CASE Sensors
  BY <1>1 DEF Sensors, ImageCallback, OdometryCallback, Goto, Typed, Groups
<1>2. CASE RouteCallback
  BY <1>2 DEF RouteCallback
<1>3. CASE DropPlan
  BY <1>3 DEF DropPlan, Goto
<1>4. CASE ZeroProgress \/ ForgetSeq \/ Unbegin \/ Disarm
  BY <1>4 DEF ZeroProgress, ForgetSeq, Unbegin, Disarm, Goto
<1>5. CASE TimerCallback
  BY <1>5 DEF TimerCallback, Submit, Goto, Typed, Groups
<1>6. CASE StorePlan
  <2>1. /\ job # NoJob /\ stage = "model" /\ stage' = "publish" /\ plan'.route = job
        /\ IF job = route THEN stored' = stored + 1 /\ strays' = strays
                          ELSE strays' = strays + 1 /\ stored' = stored
        /\ UNCHANGED <<route, job, pc>>
    BY <1>6 DEF StorePlan
  <2>2. job = route => pc.main = "idle"
    BY <2>1 DEF ResetFirst
  <2> QED BY <2>1, <2>2
<1>7. CASE NoPrediction \/ ModelRaises \/ PublishTrajectory
  BY <1>7 DEF NoPrediction, ModelRaises, PublishTrajectory
<1>8. CASE Clocks
  BY <1>8 DEF Clocks, PlanAges, TimeoutPasses
<1>9. CASE ControlRead \/ TrackSeq \/ Advance \/ Look \/ Since \/ SinceRead \/ Step
  BY <1>9 DEF ControlRead, TrackSeq, Advance, Look, Since, SinceRead, Step, Goto, Typed, Groups
<1>10. CASE First \/ FirstRead \/ Publish \/ Stamp \/ WatchdogCheck \/ WatchdogRead
  BY <1>10 DEF First, FirstRead, Publish, Stamp, WatchdogCheck, WatchdogRead, Goto, Typed, Groups
<1>11. CASE UNCHANGED vars
  BY <1>11 DEF vars
<1> QED
  BY <1>1, <1>2, <1>3, <1>4, <1>5, <1>6, <1>7, <1>8, <1>9, <1>10, <1>11
  DEF Next, ResetSteps, Worker, TickSteps

\* However many routes come, and whatever becomes of the inferences, one plan of
\* ended routes at most is stored for each (_store_plan), and none in place of a
\* plan of the route in force.
THEOREM StraysAreFew == Spec => []OneStray
<1>1. Init => StrayCounted
  BY DEF Init, StrayCounted, NoJob
<1>2. Typed /\ Scoped /\ StrayCounted /\ [Next]_vars => StrayCounted'
  BY NextStray DEF Scoped
<1>3. StrayCounted => OneStray
  BY DEF StrayCounted, OneStray
<1> QED BY <1>1, <1>2, <1>3, Inductive, PTL DEF Spec

-----------------------------------------------------------------------------
(* the two planners                                                        *)

\* A non-empty set of natural numbers has a least member.
LEMMA LeastNumber ==
  ASSUME NEW T, T \subseteq Nat, T # {}
  PROVE  \E m \in T : \A k \in T : m <= k
<1> DEFINE R == OpToRel(<, Nat)
<1>1. \A x, y \in Nat : x < y => <<x, y>> \in R
  BY DEF OpToRel
<1>2. IsWellFoundedOn(R, Nat)
  BY NatLessThanWellFounded
<1>3. PICK m \in T : \A k \in T : ~ (<<k, m>> \in R)
  <2> HIDE DEF R
  <2> QED BY <1>2, WFMin
<1>4. ASSUME NEW k \in T PROVE m <= k
  <2>1. ~ (k < m)
    BY <1>1, <1>3
  <2> QED BY <2>1
<1> QED BY <1>4

LEMMA MinIsLeast ==
  ASSUME NEW T, T \subseteq Nat, T # {}
  PROVE  Min(T) \in T /\ \A k \in T : Min(T) <= k
BY LeastNumber DEF Min

\* What the deque holds is what the route has from the index on.
Rest(r, i) == SubSeq(r, i, Len(r))

LEMMA RestIs ==
  ASSUME NEW r \in Seq(Int), NEW i \in 1..Len(r)
  PROVE  /\ Rest(r, i) \in Seq(Int) /\ Len(Rest(r, i)) = Len(r) - i + 1
         /\ \A k \in 1..Len(r) - i + 1 : Rest(r, i)[k] = r[i + k - 1]
<1>1. Len(r) \in Nat /\ \A k \in i..Len(r) : r[k] \in Int
  BY LenProperties, ElementOfSeq
<1>2. i \in Int /\ Len(r) \in Int /\ i <= Len(r)
  BY <1>1
<1>3. /\ SubSeq(r, i, Len(r)) \in Seq(Int)
      /\ Len(SubSeq(r, i, Len(r))) = IF i <= Len(r) THEN Len(r) - i + 1 ELSE 0
      /\ \A k \in 1..Len(r) - i + 1 : SubSeq(r, i, Len(r))[k] = r[i + k - 1]
  BY <1>1, <1>2, SubSeqProperties
<1> QED BY <1>2, <1>3 DEF Rest

LEMMA RestOfRest ==
  ASSUME NEW r \in Seq(Int), NEW i \in 1..Len(r), NEW k \in 1..Len(Rest(r, i))
  PROVE  /\ i + k - 1 \in 1..Len(r)
         /\ Rest(Rest(r, i), k) = Rest(r, i + k - 1)
<1> DEFINE d == Rest(r, i)
<1>0. /\ Len(r) \in Nat /\ d \in Seq(Int) /\ Len(d) = Len(r) - i + 1
      /\ \A j \in 1..Len(r) - i + 1 : d[j] = r[i + j - 1]
  BY RestIs, LenProperties
<1> HIDE DEF d
<1>1. k \in 1..Len(r) - i + 1 /\ k \in 1..Len(d) /\ i + k - 1 \in 1..Len(r)
  BY <1>0 DEF d
<1> DEFINE a == Rest(d, k)
           b == Rest(r, i + k - 1)
<1>2. /\ a \in Seq(Int) /\ Len(a) = Len(d) - k + 1
      /\ \A j \in 1..Len(d) - k + 1 : a[j] = d[k + j - 1]
  BY <1>0, <1>1, RestIs
<1>3. /\ b \in Seq(Int) /\ Len(b) = Len(r) - (i + k - 1) + 1
      /\ \A j \in 1..Len(r) - (i + k - 1) + 1 : b[j] = r[i + k - 1 + j - 1]
  BY <1>0, <1>1, RestIs
<1> HIDE DEF a, b
<1>4. Len(a) = Len(b)
  BY <1>0, <1>1, <1>2, <1>3
<1>5. ASSUME NEW j \in 1..Len(a)
      PROVE  a[j] = b[j]
  <2>1. j \in 1..Len(d) - k + 1 /\ j \in 1..Len(r) - (i + k - 1) + 1 /\ k + j - 1 \in 1..Len(r) - i + 1
    BY <1>0, <1>1, <1>2
  <2>2. a[j] = d[k + j - 1] /\ b[j] = r[i + k - 1 + j - 1]
    BY <2>1, <1>2, <1>3
  <2>3. d[k + j - 1] = r[i + (k + j - 1) - 1]
    BY <2>1, <1>0
  <2>4. i + (k + j - 1) - 1 = i + k - 1 + j - 1
    BY <1>1, <2>1
  <2> QED BY <2>2, <2>3, <2>4
<1>6. a = b
  BY <1>2, <1>3, <1>4, <1>5, SeqEqual
<1> QED BY <1>1, <1>6 DEF a, b, d

\* The way between two waypoints is the same, counted in the deque or in the route.
LEMMA SameWay ==
  ASSUME NEW r \in Seq(Int), NEW i \in 1..Len(r), NEW j \in 1..Len(Rest(r, i))
  PROVE  Along(Rest(r, i), 1, j) = Along(r, i, j + i - 1)
<1> DEFINE d == Rest(r, i)
           f == [k \in 1..j - 1 |-> Apart(d[1 + k - 1], d[1 + k])]
           g == [k \in 1..(j + i - 1) - i |-> Apart(r[i + k - 1], r[i + k])]
<1>0. /\ Len(r) \in Nat /\ Len(d) = Len(r) - i + 1
      /\ \A k \in 1..Len(r) - i + 1 : d[k] = r[i + k - 1]
  BY RestIs, LenProperties
<1>1. j \in 1..Len(r) - i + 1 /\ (j + i - 1) - i = j - 1
  BY <1>0
<1> HIDE DEF d
<1>2. ASSUME NEW k \in 1..j - 1
      PROVE  d[1 + k - 1] = r[i + k - 1] /\ d[1 + k] = r[i + k]
  <2>1. k \in 1..Len(r) - i + 1 /\ 1 + k \in 1..Len(r) - i + 1 /\ 1 + k - 1 = k /\ i + (1 + k) - 1 = i + k
    BY <1>0, <1>1
  <2>2. d[k] = r[i + k - 1] /\ d[1 + k] = r[i + (1 + k) - 1]
    BY <1>0, <2>1
  <2> QED BY <2>1, <2>2
<1>3. f = g
  BY <1>1, <1>2
<1> HIDE DEF f, g
<1>4. SumFunction(f) = SumFunction(g)
  BY <1>3
<1> QED BY <1>4 DEF Along, f, g, d

\* So the waypoints in reach are the same ...
LEMMA SameReached ==
  ASSUME NEW r \in Seq(Int), NEW i \in 1..Len(r), NEW x \in Int
  PROVE  /\ Reached(Rest(r, i), 1, x) \subseteq 2..Len(Rest(r, i))
         /\ Reached(r, i, x) \subseteq i + 1..Len(r)
         /\ \A j \in 2..Len(Rest(r, i)) :
              /\ j + i - 1 \in i + 1..Len(r)
              /\ j \in Reached(Rest(r, i), 1, x) <=> j + i - 1 \in Reached(r, i, x)
              /\ Rest(r, i)[j] = r[j + i - 1]
<1> DEFINE d == Rest(r, i)
<1>0. /\ Len(r) \in Nat /\ Len(d) = Len(r) - i + 1
      /\ \A k \in 1..Len(r) - i + 1 : d[k] = r[i + k - 1]
  BY RestIs, LenProperties
<1>1. \A j \in 1..Len(d) : Along(d, 1, j) = Along(r, i, j + i - 1)
  BY SameWay
<1> HIDE DEF d
<1>2. Reached(d, 1, x) \subseteq 2..Len(d) /\ Reached(r, i, x) \subseteq i + 1..Len(r)
  BY DEF Reached, Scanned
<1>3. ASSUME NEW j \in 2..Len(d)
      PROVE  /\ j + i - 1 \in i + 1..Len(r)
             /\ j \in Reached(d, 1, x) <=> j + i - 1 \in Reached(r, i, x)
             /\ d[j] = r[j + i - 1]
  <2>1. /\ j + i - 1 \in i + 1..Len(r) /\ j \in 1 + 1..Len(d) /\ j \in 1..Len(r) - i + 1
        /\ i + j - 1 = j + i - 1 /\ j - 1 \in 1..Len(d) /\ (j - 1) + i - 1 = (j + i - 1) - 1
    <3>1. Len(r) \in Nat /\ Len(d) = Len(r) - i + 1
      BY <1>0
    <3> QED BY <3>1
  <2>2. d[j] = r[j + i - 1]
    BY <1>0, <2>1
  <2>3. Along(d, 1, j - 1) = Along(r, i, (j + i - 1) - 1)
    BY <1>1, <2>1
  <2>4. j \in Reached(d, 1, x) <=> j + i - 1 \in Reached(r, i, x)
    BY <2>1, <2>2, <2>3 DEF Reached, Scanned
  <2> QED BY <2>1, <2>2, <2>4
<1> QED BY <1>2, <1>3 DEF d

\* ... and among them there is a first of the farthest.
LEMMA FarthestIs ==
  ASSUME NEW r \in Seq(Int), NEW i \in 1..Len(r), NEW x \in Int
  PROVE  LET reached == Reached(r, i, x)
             far == {j \in reached : \A k \in reached : Apart(r[k], x) <= Apart(r[j], x)}
         IN  /\ reached \subseteq i + 1..Len(r)
             /\ reached = {} => Farthest(r, i, x) = i
             /\ reached # {} => /\ Farthest(r, i, x) \in far
                                /\ \A j \in far : Farthest(r, i, x) <= j
<1> DEFINE reached == Reached(r, i, x)
           far == {j \in reached : \A k \in reached : Apart(r[k], x) <= Apart(r[j], x)}
<1>0. Len(r) \in Nat /\ reached \subseteq i + 1..Len(r)
      /\ \A j \in reached : Apart(r[j], x) \in Nat /\ Apart(r[j], x) <= MinDist
  <2>1. Len(r) \in Nat /\ reached \subseteq i + 1..Len(r)
        /\ \A j \in reached : Apart(r[j], x) <= MinDist
    BY LenProperties DEF Reached, Scanned
  <2>2. \A j \in reached : r[j] \in Int
    <3>1. \A j \in reached : j \in 1..Len(r)
      BY <2>1
    <3> QED BY <3>1, ElementOfSeq
  <2>3. \A y \in Int : Apart(y, x) \in Nat
    BY DEF Apart
  <2> QED BY <2>1, <2>2, <2>3
<1> HIDE DEF reached
<1>1. ASSUME reached # {}
      PROVE  far # {}
  <2> DEFINE T == {MinDist - Apart(r[j], x) : j \in reached}
  <2>1. MinDist \in Nat
    BY TargetAssumption DEF TargetAssumption
  <2>2. T \subseteq Nat /\ T # {}
    <3>1. \A j \in reached : MinDist - Apart(r[j], x) \in Nat
      BY <1>0, <2>1
    <3> QED BY <1>1, <3>1
  <2>3. PICK m \in T : \A k \in T : m <= k
    <3> HIDE DEF T
    <3> QED BY <2>2, LeastNumber
  <2>4. PICK j \in reached : m = MinDist - Apart(r[j], x)
    OBVIOUS
  <2>5. ASSUME NEW k \in reached
        PROVE  Apart(r[k], x) <= Apart(r[j], x)
    <3>1. MinDist - Apart(r[k], x) \in T
      OBVIOUS
    <3>2. MinDist - Apart(r[j], x) <= MinDist - Apart(r[k], x)
      BY <2>3, <2>4, <3>1
    <3> QED BY <1>0, <2>1, <3>2
  <2> QED BY <2>4, <2>5
<1>2. far \subseteq Nat
  <2>1. \A j \in reached : j \in Nat
    BY <1>0
  <2> QED BY <2>1
<1>3. ASSUME reached # {}
      PROVE  Min(far) \in far /\ \A j \in far : Min(far) <= j
  <2> HIDE DEF far
  <2> QED BY <1>1, <1>2, <1>3, MinIsLeast
<1>4. Farthest(r, i, x) = IF reached = {} THEN i ELSE Min(far)
  BY DEF Farthest, reached
<1> QED BY <1>0, <1>3, <1>4 DEF reached

LEMMA SameFarthest ==
  ASSUME NEW r \in Seq(Int), NEW i \in 1..Len(r), NEW x \in Int
  PROVE  /\ Farthest(Rest(r, i), 1, x) \in 1..Len(Rest(r, i))
         /\ Farthest(r, i, x) = Farthest(Rest(r, i), 1, x) + i - 1
<1> DEFINE d  == Rest(r, i)
           rd == Reached(d, 1, x)
           rr == Reached(r, i, x)
           fd == {j \in rd : \A k \in rd : Apart(d[k], x) <= Apart(d[j], x)}
           fr == {j \in rr : \A k \in rr : Apart(r[k], x) <= Apart(r[j], x)}
           a  == Farthest(d, 1, x)
           b  == Farthest(r, i, x)
<1>0. Len(r) \in Nat /\ d \in Seq(Int) /\ Len(d) = Len(r) - i + 1
  BY RestIs, LenProperties
<1>00. 1 \in 1..Len(d) /\ Len(d) \in Nat
  BY <1>0
<1>1. /\ rd \subseteq 2..Len(d) /\ rr \subseteq i + 1..Len(r)
      /\ \A j \in 2..Len(d) : /\ j + i - 1 \in i + 1..Len(r)
                              /\ j \in rd <=> j + i - 1 \in rr
                              /\ d[j] = r[j + i - 1]
  BY SameReached
<1> HIDE DEF d
<1>2. /\ rd = {} => a = 1
      /\ rd # {} => a \in fd /\ \A j \in fd : a <= j
  BY <1>0, <1>00, FarthestIs
<1>3. /\ rr = {} => b = i
      /\ rr # {} => b \in fr /\ \A j \in fr : b <= j
  BY FarthestIs
<1> HIDE DEF rd, rr, a, b
<1>4. ASSUME NEW j \in rr
      PROVE  j - i + 1 \in rd /\ j - i + 1 \in 2..Len(d) /\ d[j - i + 1] = r[j]
  <2>0. j \in i + 1..Len(r)
    BY <1>1
  <2>1. j - i + 1 \in 2..Len(d) /\ (j - i + 1) + i - 1 = j
    BY <1>0, <2>0
  <2> QED BY SMTT(30), <1>1, <2>1
<1>5. \A j \in rd : j \in 2..Len(d) /\ j + i - 1 \in rr /\ d[j] = r[j + i - 1]
  BY <1>1
<1>6. ASSUME NEW j \in fd
      PROVE  j + i - 1 \in fr
  <2>1. \A k \in rr : Apart(r[k], x) <= Apart(r[j + i - 1], x)
    BY <1>4, <1>5
  <2> QED BY <1>5, <2>1
<1>7. ASSUME NEW j \in fr
      PROVE  j - i + 1 \in fd
  <2>1. \A k \in rd : Apart(d[k], x) <= Apart(d[j - i + 1], x)
    BY <1>4, <1>5
  <2> QED BY <1>4, <2>1
<1>8. CASE rd = {}
  <2>1. rr = {}
    BY <1>4, <1>8
  <2> QED BY <1>0, <1>00, <1>2, <1>3, <1>8, <2>1 DEF a, b, d
<1>9. CASE rd # {}
  <2>1. rr # {}
    BY <1>5, <1>9
  <2>2. a \in fd /\ b \in fr /\ a + i - 1 \in fr /\ b - i + 1 \in fd
    BY <1>2, <1>3, <1>6, <1>7, <1>9, <2>1
  <2>3. a <= b - i + 1 /\ b <= a + i - 1
    BY <1>2, <1>3, <1>9, <2>1, <2>2
  <2>4. a \in 2..Len(d) /\ b \in i + 1..Len(r)
    BY <1>1, <2>2
  <2>5. b = a + i - 1 /\ a \in 1..Len(d)
    BY <1>0, <2>3, <2>4
  <2> QED BY <2>5 DEF a, b, d
<1> QED BY <1>8, <1>9

\* Popping leaves two waypoints, and so does the index.
LEMMA SameKept ==
  ASSUME NEW n \in Nat, NEW i \in 1..n, NEW m, m = n - i + 1, ~(m <= 2), NEW f \in 1..m
  PROVE  LET keep == IF m - (f - 1) >= 2 THEN f - 1 ELSE m - 2
         IN  keep + 1 \in 1..m /\ Lower(f + i - 1, n - 1) = i + (keep + 1) - 1
<1>1. CASE m - (f - 1) >= 2
  BY <1>1 DEF Lower
<1>2. CASE ~(m - (f - 1) >= 2)
  BY <1>2 DEF Lower
<1> QED BY <1>1, <1>2

\* "With route progress tracked by an index instead of popleft()ing a deque": what
\* the deque has left is what follows the index.
LEMMA SameStep ==
  ASSUME NEW r \in Seq(Int), NEW i \in 1..Len(r), NEW x \in Int
  PROVE  /\ AdvanceIndex(r, i, x) \in 1..Len(r)
         /\ RunStep(Rest(r, i), x) = Rest(r, AdvanceIndex(r, i, x))
<1> DEFINE d == Rest(r, i)
           f == Farthest(d, 1, x)
           keep == IF Len(d) - (f - 1) >= 2 THEN f - 1 ELSE Len(d) - 2
           a == AdvanceIndex(r, i, x)
<1>0. Len(r) \in Nat /\ d \in Seq(Int) /\ Len(d) = Len(r) - i + 1
  BY RestIs, LenProperties
<1>1. f \in 1..Len(d) /\ Farthest(r, i, x) = f + i - 1
  BY SameFarthest
<1>2. CASE Len(d) <= 2
  <2>1. a = i
    BY <1>0, <1>2 DEF AdvanceIndex
  <2>2. RunStep(d, x) = d
    BY <1>2 DEF RunStep
  <2> QED BY <2>1, <2>2
<1>3. CASE ~(Len(d) <= 2)
  <2>1. RunStep(d, x) = SubSeq(d, keep + 1, Len(d))
    BY <1>3 DEF RunStep
  <2>2. a = Lower(f + i - 1, Len(r) - 1)
    BY <1>0, <1>1, <1>3 DEF AdvanceIndex
  <2> HIDE DEF d, f, a
  <2>3. keep + 1 \in 1..Len(d) /\ a = i + (keep + 1) - 1
    BY <1>0, <1>1, <1>3, <2>2, SameKept
  <2> DEFINE k == keep + 1
  <2>4. k \in 1..Len(d) /\ a = i + k - 1 /\ RunStep(d, x) = Rest(d, k)
    BY <2>1, <2>3 DEF Rest
  <2> HIDE DEF k
  <2>5. i + k - 1 \in 1..Len(r) /\ Rest(d, k) = Rest(r, i + k - 1)
    BY <2>4, RestOfRest DEF d
  <2> QED BY <2>4, <2>5 DEF a, d
<1> QED BY <1>2, <1>3

\* And then the two next waypoints are the same.
LEMMA NextTwo ==
  ASSUME NEW n \in Nat, NEW i \in 1..n, NEW m \in Nat, m = n - i + 1,
         NEW r, Len(r) = n, NEW d, Len(d) = m,
         d[1] = r[i], m >= 2 => d[2] = r[i + 1], m >= 3 => d[3] = r[i + 2]
  PROVE  Targets(d) = IndexTargets(r, i)
<1>1. CASE m > 2
  <2>1. Targets(d) = <<d[2], d[3]>>
    BY <1>1 DEF Targets
  <2>2. n - i + 1 > 2
    BY <1>1
  <2>3. IndexTargets(r, i) = <<r[i + 1], r[i + 2]>>
    BY <2>2 DEF IndexTargets
  <2> QED BY <1>1, <2>1, <2>3
<1>2. CASE m = 2
  <2>1. Targets(d) = <<d[2], d[2]>>
    BY <1>2 DEF Targets
  <2>2. IndexTargets(r, i) = <<r[i + 1], r[i + 1]>>
    BY <1>2 DEF IndexTargets
  <2> QED BY <1>2, <2>1, <2>2
<1>3. CASE m = 1
  <2>1. Targets(d) = <<d[1], d[1]>>
    BY <1>3 DEF Targets
  <2>2. IndexTargets(r, i) = <<r[i], r[i]>>
    BY <1>3 DEF IndexTargets
  <2> QED BY <2>1, <2>2
<1> QED BY <1>1, <1>2, <1>3

LEMMA SameNextTwo ==
  ASSUME NEW r \in Seq(Int), NEW i \in 1..Len(r)
  PROVE  Targets(Rest(r, i)) = IndexTargets(r, i)
<1> DEFINE d == Rest(r, i)
<1>1. /\ Len(r) \in Nat /\ Len(d) = Len(r) - i + 1
      /\ \A k \in 1..Len(r) - i + 1 : d[k] = r[i + k - 1]
  BY RestIs, LenProperties
<1> HIDE DEF d
<1>2. Len(d) \in Nat
  BY <1>1
<1>3. /\ d[1] = r[i]
      /\ Len(d) >= 2 => d[2] = r[i + 1]
      /\ Len(d) >= 3 => d[3] = r[i + 2]
  <2>1. \A k \in 1..Len(d) : d[k] = r[i + k - 1]
    BY <1>1
  <2>2. i + 1 - 1 = i /\ i + 2 - 1 = i + 1 /\ i + 3 - 1 = i + 2 /\ 1 \in 1..Len(d)
    BY <1>1
  <2>3. (Len(d) >= 2 => 2 \in 1..Len(d)) /\ (Len(d) >= 3 => 3 \in 1..Len(d))
    BY <1>2
  <2> QED BY <2>1, <2>2, <2>3
<1>4. Len(r) \in Nat /\ i \in 1..Len(r) /\ Len(d) = Len(r) - i + 1
  BY <1>1
<1>5. Targets(d) = IndexTargets(r, i)
  BY <1>2, <1>3, <1>4, NextTwo
<1> QED BY <1>5 DEF d

-----------------------------------------------------------------------------
(* the counters of the client                                              *)

LEMMA ClientLimits ==
  /\ MaxImages \in Nat /\ Delay \in Nat /\ StuckThreshold \in Nat /\ CreepDuration \in Nat
  /\ \A r \in Routes : r \in Seq(Int) /\ Len(r) \in Nat \ {0}
  /\ \A x \in Places : x \in Int
<1>1. ASSUME NEW r \in Routes
      PROVE  r \in Seq(Int) /\ Len(r) \in Nat \ {0}
  <2>1. r \in Seq(Places) /\ r # <<>> /\ Places \subseteq Int
    BY ClientAssumption DEF ClientAssumption
  <2>2. r \in Seq(Int)
    BY <2>1, SeqMonotonic
  <2>3. Len(r) \in Nat /\ Len(r) # 0
    BY <2>1, LenProperties, EmptySeq
  <2> QED BY <2>2, <2>3
<1> QED BY <1>1, ClientAssumption DEF ClientAssumption

\* The last frames, when one more has been driven: at most n are kept.
OneMore(s, b, n) ==
  LET all == Append(s, b)
  IN  IF Len(all) > n THEN SubSeq(all, Len(all) - n + 1, Len(all)) ELSE all

\* Counted from the end, what was kept has moved by one.
LEMMA OneMoreIs ==
  ASSUME NEW s \in Seq(BOOLEAN), NEW b \in BOOLEAN, NEW n \in Nat \ {0}, Len(s) <= n
  PROVE  LET t == OneMore(s, b, n) IN
         /\ t \in Seq(BOOLEAN) /\ Len(t) = (IF Len(s) < n THEN Len(s) + 1 ELSE n)
         /\ t[Len(t)] = b
         /\ \A k \in 0..Len(t) - 2 : t[Len(t) - (k + 1)] = s[Len(s) - k]
<1> DEFINE all == Append(s, b)
           t == OneMore(s, b, n)
<1>1. /\ Len(s) \in Nat /\ all \in Seq(BOOLEAN) /\ Len(all) = Len(s) + 1
      /\ all[Len(s) + 1] = b /\ \A k \in 1..Len(s) : all[k] = s[k]
  BY AppendProperties, LenProperties
<1> HIDE DEF all
<1>2. CASE Len(s) < n
  <2>1. t = all
    BY <1>1, <1>2 DEF OneMore, all
  <2>2. ASSUME NEW k \in 0..Len(t) - 2
        PROVE  t[Len(t) - (k + 1)] = s[Len(s) - k]
    <3>1. Len(t) - (k + 1) = Len(s) - k /\ Len(s) - k \in 1..Len(s)
      BY <1>1, <2>1
    <3> QED BY <1>1, <2>1, <3>1
  <2> QED BY <1>1, <1>2, <2>1, <2>2
<1>3. CASE ~(Len(s) < n)
  <2>0. Len(s) = n
    BY <1>1, <1>3
  <2>1. t = SubSeq(all, 2, n + 1)
    <3>1. Len(all) > n /\ Len(all) - n + 1 = 2 /\ Len(all) = n + 1
      BY <1>1, <2>0
    <3> QED BY <3>1 DEF OneMore, all
  <2>2. \A i \in 2..n + 1 : all[i] \in BOOLEAN
    <3>1. \A i \in 2..n + 1 : i \in 1..Len(all)
      BY <1>1, <2>0
    <3> QED BY <1>1, <3>1, ElementOfSeq
  <2>3. /\ SubSeq(all, 2, n + 1) \in Seq(BOOLEAN)
        /\ Len(SubSeq(all, 2, n + 1)) = IF 2 <= n + 1 THEN n + 1 - 2 + 1 ELSE 0
        /\ \A i \in 1..n + 1 - 2 + 1 : SubSeq(all, 2, n + 1)[i] = all[2 + i - 1]
    <3>1. 2 \in Int /\ n + 1 \in Int
      OBVIOUS
    <3> QED BY <2>2, <3>1, SubSeqProperties
  <2> HIDE DEF t
  <2>4. t \in Seq(BOOLEAN) /\ Len(t) = n /\ \A i \in 1..n : t[i] = all[i + 1]
    <3>1. n + 1 - 2 + 1 = n /\ 2 <= n + 1 /\ \A i \in 1..n : 2 + i - 1 = i + 1
      OBVIOUS
    <3> QED BY <2>1, <2>3, <3>1
  <2>5. t[Len(t)] = b
    BY <1>1, <2>0, <2>4
  <2>6. ASSUME NEW k \in 0..Len(t) - 2
        PROVE  t[Len(t) - (k + 1)] = s[Len(s) - k]
    <3>1. n - (k + 1) \in 1..n /\ (n - (k + 1)) + 1 = n - k /\ n - k \in 1..Len(s)
      BY <2>0, <2>4
    <3>2. t[n - (k + 1)] = all[n - k] /\ all[n - k] = s[n - k]
      BY <1>1, <2>4, <3>1
    <3> QED BY <2>0, <2>4, <3>2
  <2> QED BY <1>3, <2>4, <2>5, <2>6 DEF t
<1> QED BY <1>2, <1>3 DEF t

\* The car stood still in the frames from the k-th of the last on.
Still(s, k) == Len(s) - k > StuckThreshold /\ \A m \in k..k + StuckThreshold : s[Len(s) - m]

LEMMA StillIs ==
  ASSUME slow \in Seq(BOOLEAN), NEW k \in Nat
  PROVE  StoodStill(k) <=> Still(slow, k)
<1>1. Len(slow) \in Nat /\ StuckThreshold \in Nat
  BY ClientLimits, LenProperties
<1>2. ASSUME StoodStill(k), NEW m \in k..k + StuckThreshold
      PROVE  slow[Len(slow) - m]
  <2>1. Len(slow) - m \in Len(slow) - k - StuckThreshold..Len(slow) - k
    BY <1>1
  <2> QED BY <1>2, <2>1 DEF StoodStill
<1>3. ASSUME Still(slow, k), NEW i \in Len(slow) - k - StuckThreshold..Len(slow) - k
      PROVE  slow[i]
  <2>1. Len(slow) - i \in k..k + StuckThreshold /\ Len(slow) - (Len(slow) - i) = i
    BY <1>1
  <2>2. slow[Len(slow) - (Len(slow) - i)]
    BY <1>3, <2>1 DEF Still
  <2> QED BY <2>1, <2>2
<1> QED BY <1>2, <1>3 DEF StoodStill, Still

\* Of the last frames, u in a row are slow, counted to one more than the threshold.
InARow(s, u) ==
  /\ u \in 0..StuckThreshold + 1 /\ u <= Len(s)
  /\ \A k \in 0..u - 1 : s[Len(s) - k]
  /\ u <= StuckThreshold /\ u < Len(s) => ~s[Len(s) - u]

Count(b, u) == IF b THEN u + 1 ELSE 0

LEMMA InARowOn ==
  ASSUME NEW s \in Seq(BOOLEAN), NEW b \in BOOLEAN, CreepDuration > 0,
         Len(s) <= StuckThreshold + CreepDuration, NEW u, InARow(s, u)
  PROVE  LET t == OneMore(s, b, StuckThreshold + CreepDuration) IN
         /\ InARow(t, Lower(Count(b, u), StuckThreshold + 1))
         /\ Still(t, 0) <=> Count(b, u) > StuckThreshold
<1> DEFINE n == StuckThreshold + CreepDuration
           t == OneMore(s, b, n)
           v == Lower(Count(b, u), StuckThreshold + 1)
<1>0. /\ StuckThreshold \in Nat /\ CreepDuration \in Nat \ {0} /\ Len(s) \in Nat
      /\ u \in 0..StuckThreshold + 1 /\ u <= Len(s)
  BY ClientLimits, LenProperties DEF InARow
<1>1. n \in Nat \ {0} /\ n >= StuckThreshold + 1 /\ Len(s) <= n
  BY <1>0
<1> HIDE DEF n
<1>2. /\ t \in Seq(BOOLEAN) /\ Len(t) = (IF Len(s) < n THEN Len(s) + 1 ELSE n)
      /\ t[Len(t)] = b
      /\ \A k \in 0..Len(t) - 2 : t[Len(t) - (k + 1)] = s[Len(s) - k]
  BY <1>1, OneMoreIs
<1> HIDE DEF t
<1>3. Len(t) \in Nat \ {0} /\ Len(t) - 1 <= Len(s) /\ (Len(t) = Len(s) + 1 \/ Len(t) >= StuckThreshold + 1)
  BY <1>0, <1>1, <1>2
<1>4. v \in 0..StuckThreshold + 1 /\ v <= Len(t) /\ (b => v <= u + 1) /\ (~b => v = 0)
      /\ (b /\ v <= StuckThreshold => v = u + 1)
  BY <1>0, <1>3 DEF Lower, Count
<1> HIDE DEF v
<1>5. ASSUME NEW k \in 0..v - 1
      PROVE  t[Len(t) - k]
  <2>0. b
    BY <1>4, <1>5
  <2>1. CASE k = 0
    <3>1. Len(t) - k = Len(t)
      BY <1>3, <2>1
    <3>2. t[Len(t)]
      BY <1>2, <2>0
    <3> QED BY <3>1, <3>2
  <2>2. CASE k # 0
    <3>1. k - 1 \in 0..u - 1 /\ k - 1 \in 0..Len(t) - 2 /\ (k - 1) + 1 = k
      BY <1>0, <1>3, <1>4, <2>0, <2>2
    <3>2. s[Len(s) - (k - 1)]
      BY <3>1 DEF InARow
    <3> QED BY <1>2, <3>1, <3>2
  <2> QED BY <2>1, <2>2
<1>6. ASSUME v <= StuckThreshold, v < Len(t)
      PROVE  ~t[Len(t) - v]
  <2>1. CASE b
    <3>1. v = u + 1 /\ u \in 0..Len(t) - 2 /\ u < Len(s) /\ u <= StuckThreshold
      BY <1>0, <1>3, <1>4, <1>6, <2>1
    <3>2. ~s[Len(s) - u]
      BY <3>1 DEF InARow
    <3> QED BY <1>2, <3>1, <3>2
  <2>2. CASE ~b
    <3>1. v = 0 /\ Len(t) - v = Len(t)
      BY <1>3, <1>4, <2>2
    <3> QED BY <1>2, <2>2, <3>1
  <2> QED BY <2>1, <2>2
<1>7. ASSUME Count(b, u) > StuckThreshold
      PROVE  Still(t, 0)
  <2>1. b /\ u >= StuckThreshold
    BY <1>0, <1>7 DEF Count
  <2>2. v = StuckThreshold + 1
    BY <1>0, <2>1 DEF v, Count, Lower
  <2>3. \A k \in 0..0 + StuckThreshold : t[Len(t) - k]
    BY <1>0, <1>5, <2>2
  <2>4. Len(t) - 0 > StuckThreshold
    BY <1>0, <1>3, <1>4, <2>2
  <2> QED BY <2>3, <2>4 DEF Still
<1>8. ASSUME Still(t, 0)
      PROVE  Count(b, u) > StuckThreshold
  <2>1. Len(t) > StuckThreshold /\ \A m \in 0..StuckThreshold : t[Len(t) - m]
    <3>1. Len(t) - 0 = Len(t) /\ 0 + StuckThreshold = StuckThreshold
      BY <1>0, <1>3
    <3>2. Len(t) - 0 > StuckThreshold /\ \A m \in 0..0 + StuckThreshold : t[Len(t) - m]
      BY <1>8 DEF Still
    <3> QED BY <3>1, <3>2
  <2>2. b
    <3>1. 0 \in 0..StuckThreshold /\ Len(t) - 0 = Len(t)
      BY <1>0, <1>3
    <3>2. t[Len(t) - 0]
      BY <2>1, <3>1
    <3> QED BY <1>2, <3>1, <3>2
  <2>3. u >= StuckThreshold
    <3> SUFFICES ASSUME u < StuckThreshold PROVE FALSE
      BY <1>0
    <3>1. u + 1 \in 0..StuckThreshold /\ u \in 0..Len(t) - 2 /\ u < Len(s) /\ u <= StuckThreshold
      BY <1>0, <1>3, <2>1
    <3>2. t[Len(t) - (u + 1)] = s[Len(s) - u] /\ t[Len(t) - (u + 1)]
      BY <1>2, <2>1, <3>1
    <3>3. ~s[Len(s) - u]
      BY <3>1 DEF InARow
    <3> QED BY <3>2, <3>3
  <2> QED BY <1>0, <2>2, <2>3 DEF Count
<1>9. InARow(t, v)
  BY <1>4, <1>5, <1>6 DEF InARow
<1>10. Still(t, 0) <=> Count(b, u) > StuckThreshold
  BY <1>7, <1>8
<1> QED BY <1>9, <1>10 DEF t, v, n

\* Where the car stood still moves back by one with every frame.
LEMMA StillOn ==
  ASSUME NEW s \in Seq(BOOLEAN), NEW b \in BOOLEAN, CreepDuration > 0,
         Len(s) <= StuckThreshold + CreepDuration, NEW k \in 0..CreepDuration - 2
  PROVE  Still(OneMore(s, b, StuckThreshold + CreepDuration), k + 1) <=> Still(s, k)
<1> DEFINE n == StuckThreshold + CreepDuration
           t == OneMore(s, b, n)
<1>0. StuckThreshold \in Nat /\ CreepDuration \in Nat \ {0} /\ Len(s) \in Nat
  BY ClientLimits, LenProperties
<1>1. n \in Nat \ {0} /\ n = StuckThreshold + CreepDuration /\ Len(s) <= n
  BY <1>0
<1> HIDE DEF n
<1>2. /\ Len(t) = (IF Len(s) < n THEN Len(s) + 1 ELSE n)
      /\ \A m \in 0..Len(t) - 2 : t[Len(t) - (m + 1)] = s[Len(s) - m]
  BY <1>1, OneMoreIs
<1> HIDE DEF t
<1>3. Len(t) \in Nat /\ (Len(t) - (k + 1) > StuckThreshold <=> Len(s) - k > StuckThreshold)
  BY <1>0, <1>1, <1>2
<1>4. ASSUME Len(t) - (k + 1) > StuckThreshold, NEW m \in k..k + StuckThreshold
      PROVE  m \in 0..Len(t) - 2 /\ t[Len(t) - (m + 1)] = s[Len(s) - m]
  <2>1. m \in 0..Len(t) - 2
    BY <1>0, <1>3, <1>4
  <2> QED BY <1>2, <2>1
<1>5. ASSUME Still(t, k + 1)
      PROVE  Still(s, k)
  <2>1. Len(t) - (k + 1) > StuckThreshold
    BY <1>5 DEF Still
  <2>2. ASSUME NEW m \in k..k + StuckThreshold
        PROVE  s[Len(s) - m]
    <3>1. m + 1 \in k + 1..k + 1 + StuckThreshold
      BY <1>0
    <3>2. t[Len(t) - (m + 1)]
      BY <1>5, <3>1 DEF Still
    <3> QED BY <1>4, <2>1, <3>2
  <2> QED BY <1>3, <2>1, <2>2 DEF Still
<1>6. ASSUME Still(s, k)
      PROVE  Still(t, k + 1)
  <2>1. Len(t) - (k + 1) > StuckThreshold
    BY <1>3, <1>6 DEF Still
  <2>2. ASSUME NEW m \in k + 1..k + 1 + StuckThreshold
        PROVE  t[Len(t) - m]
    <3>1. m - 1 \in k..k + StuckThreshold /\ (m - 1) + 1 = m
      BY <1>0
    <3>2. s[Len(s) - (m - 1)]
      BY <1>6, <3>1 DEF Still
    <3>3. t[Len(t) - ((m - 1) + 1)] = s[Len(s) - (m - 1)]
      BY <1>4, <2>1, <3>1
    <3> QED BY <3>1, <3>2, <3>3
  <2> QED BY <2>1, <2>2 DEF Still
<1> QED BY <1>5, <1>6 DEF t, n

-----------------------------------------------------------------------------
(* the inductive invariant of the client                                   *)

Messages == [image : Nat, stamp : Nat, at : Int, moving : BOOLEAN, heard : BOOLEAN]

ClientTyped ==
  /\ latest \in Messages /\ frame \in Messages
  /\ globalPlan \in Routes
  /\ routeSet \in BOOLEAN /\ setting \in BOOLEAN
  /\ main \in {"idle", "check", "model", "ended"}
  /\ control \in [stamp : Nat, image : Nat, does : {"nothing", "drive", "brake", "creep"}]

\* The stamp of an image is used up when it is taken, and numbers only grow.
Fresh ==
  /\ latest.stamp # None =>
       latest.stamp = latest.image /\ latest.stamp > frame.stamp /\ latest.stamp > control.stamp
  /\ frame.stamp # None => frame.stamp = frame.image /\ frame.stamp > control.stamp
  /\ frame.image <= latest.image /\ control.stamp <= latest.image
  /\ main = "model" => frame.stamp # None

\* The planner is there before anything is asked of it, and is the rest of the route.
Followed ==
  /\ planner = <<>> => index = 1
  /\ planner # <<>> => index \in 1..Len(globalPlan) /\ planner = Rest(globalPlan, index)
  /\ (routeSet \/ setting) <=> planner # <<>>
  /\ main = "model" => routeSet

\* The counters say of the last frames what the history says.
Counted ==
  /\ step \in Nat /\ (slow # <<>> \/ main = "model" => step = Delay)
  /\ stuck \in Nat /\ force \in 0..CreepDuration
  /\ CreepDuration > 0 =>
       /\ slow \in Seq(BOOLEAN) /\ Len(slow) <= StuckThreshold + CreepDuration
       /\ InARow(slow, stuck)
       /\ force > 0 => force < CreepDuration /\ Still(slow, CreepDuration - 1 - force)
       /\ \A k \in 0..CreepDuration - 1 : Still(slow, k) => force >= CreepDuration - 1 - k
  /\ slow # <<>> => (control.does = "creep" <=> \E k \in 0..CreepDuration - 1 : Still(slow, k))

ClientInvariant == ClientTyped /\ Fresh /\ Followed /\ Counted

LEMMA ClientStarts == ClientInit => ClientInvariant
<1> SUFFICES ASSUME ClientInit PROVE ClientInvariant
  OBVIOUS
<1>1. ClientTyped
  <2>1. NoFrame \in Messages
    BY DEF NoFrame, None, Messages
  <2>2. control \in [stamp : Nat, image : Nat, does : {"nothing", "drive", "brake", "creep"}]
    BY DEF ClientInit, None
  <2> QED BY <2>1, <2>2 DEF ClientInit, ClientTyped
<1>2. Fresh
  BY DEF ClientInit, Fresh, NoFrame, None
<1>3. Followed
  BY DEF ClientInit, Followed
<1>4. Counted
  <2>1. slow = <<>> /\ slow \in Seq(BOOLEAN) /\ Len(slow) = 0 /\ stuck = 0 /\ force = 0 /\ step = 0
        /\ main = "idle"
    BY DEF ClientInit
  <2>2. \A k \in Nat : ~Still(slow, k)
    BY <2>1, ClientLimits DEF Still
  <2>3. InARow(slow, stuck)
    BY <2>1, ClientLimits DEF InARow
  <2> QED BY <2>1, <2>2, <2>3, ClientLimits DEF Counted
<1> QED BY <1>1, <1>2, <1>3, <1>4 DEF ClientInvariant

\* Another waypoint, and the deque and the index are still at the same place.
LEMMA TickFollows ==
  ASSUME ClientTyped, Followed, Tick
  PROVE  Followed'
<1>1. /\ main = "check" /\ Complete /\ main' = "model"
      /\ planner' = RunStep(planner, frame.at)
      /\ index' = AdvanceIndex(globalPlan, index, frame.at)
      /\ UNCHANGED <<globalPlan, routeSet, setting>>
  BY DEF Tick
<1>2. routeSet /\ planner # <<>> /\ index \in 1..Len(globalPlan) /\ planner = Rest(globalPlan, index)
  BY <1>1 DEF Complete, Followed
<1>3. globalPlan \in Seq(Int) /\ frame.at \in Int
  BY ClientLimits DEF ClientTyped, Messages
<1>4. index' \in 1..Len(globalPlan) /\ planner' = Rest(globalPlan, index')
  BY <1>1, <1>2, <1>3, SameStep
<1>5. planner' # <<>>
  <2>1. Len(planner') = Len(globalPlan) - index' + 1 /\ Len(globalPlan) \in Nat
    BY <1>3, <1>4, RestIs, LenProperties
  <2>2. Len(planner') # 0
    BY <1>4, <2>1
  <2> QED BY <2>2
<1> QED BY <1>1, <1>2, <1>4, <1>5 DEF Followed

LEMMA NextFollowed ==
  ASSUME ClientTyped, Followed, [ClientNext]_clientVars
  PROVE  Followed'
<1>1. CASE OnRoute
  <2>1. planner' = globalPlan /\ setting' /\ ~routeSet /\ routeSet' = routeSet /\ ~setting
        /\ UNCHANGED <<globalPlan, index, main>>
    BY <1>1 DEF OnRoute, Reactor
  <2>2. index = 1
    BY <2>1 DEF Followed
  <2>3. globalPlan = Rest(globalPlan, 1) /\ 1 \in 1..Len(globalPlan) /\ globalPlan # <<>>
    <3>1. globalPlan \in Seq(Int) /\ Len(globalPlan) \in Nat \ {0}
      BY ClientLimits DEF ClientTyped
    <3> QED BY <3>1, SubSeqFull DEF Rest
  <2> QED BY <2>1, <2>2, <2>3 DEF Followed
<1>2. CASE RouteSet
  BY <1>2 DEF RouteSet, Followed
<1>3. CASE Tick
  BY <1>3, TickFollows
<1>4. CASE OnImage \/ OnSensors \/ TakeLatest \/ Incomplete \/ InitialBrake \/ ModelFails \/ Drive
           \/ Disconnected \/ UNCHANGED clientVars
  <2>1. UNCHANGED <<planner, index, globalPlan, routeSet, setting>>
    BY <1>4 DEF OnImage, OnSensors, TakeLatest, Incomplete, InitialBrake, ModelFails, Drive,
                Disconnected, clientVars, messages
  <2>2. main' = "model" => main = "model"
    BY <1>4 DEF OnImage, OnSensors, TakeLatest, Incomplete, InitialBrake, ModelFails, Drive,
                Disconnected, clientVars
  <2> QED BY <2>1, <2>2 DEF Followed
<1> QED BY <1>1, <1>2, <1>3, <1>4 DEF ClientNext, Callbacks, RunOnce

LEMMA NextClientTyped ==
  ASSUME ClientTyped, [ClientNext]_clientVars
  PROVE  ClientTyped'
<1> DEFINE Controls == [stamp : Nat, image : Nat, does : {"nothing", "drive", "brake", "creep"}]
<1>0. NoFrame \in Messages
  BY DEF NoFrame, None, Messages
<1>1. CASE OnImage
  <2>1. latest' = [latest EXCEPT !.image = @ + 1, !.stamp = latest.image + 1]
    BY <1>1 DEF OnImage
  <2>2. latest.image + 1 \in Nat
    BY DEF ClientTyped, Messages
  <2> DEFINE n == latest.image + 1
  <2>3. n \in Nat /\ latest' = [latest EXCEPT !.image = n, !.stamp = n]
    BY <2>1, <2>2
  <2> HIDE DEF n
  <2>4. latest' \in Messages
    BY <2>3 DEF ClientTyped, Messages
  <2> QED BY <1>1, <2>4 DEF OnImage, ClientTyped, driving
<1>2. CASE OnSensors
  <2>1. PICK x \in Places, moving \in BOOLEAN :
          latest' = [latest EXCEPT !.at = x, !.moving = moving, !.heard = TRUE]
    BY <1>2 DEF OnSensors
  <2>2. x \in Int
    BY ClientLimits
  <2>3. latest' \in Messages
    BY <2>1, <2>2 DEF ClientTyped, Messages
  <2> QED BY <1>2, <2>3 DEF OnSensors, ClientTyped, driving
<1>3. CASE OnRoute \/ RouteSet
  BY <1>3 DEF OnRoute, RouteSet, ClientTyped, driving
<1>4. CASE TakeLatest
  <2>1. latest' = [latest EXCEPT !.stamp = None] /\ frame' = latest
    BY <1>4 DEF TakeLatest
  <2>2. latest' \in Messages /\ frame' \in Messages
    BY <2>1 DEF ClientTyped, Messages, None
  <2> QED BY <1>4, <2>2 DEF TakeLatest, ClientTyped, driving
<1>5. CASE Incomplete \/ ModelFails \/ Disconnected \/ UNCHANGED clientVars
  BY <1>0, <1>5 DEF Incomplete, ModelFails, Disconnected, clientVars, messages, driving, ClientTyped
<1>6. ASSUME NEW does \in {"drive", "brake", "creep"}
      PROVE  Sent(does) \in Controls
  BY DEF Sent, ClientTyped, Messages
<1>7. CASE InitialBrake
  <2>1. control' \in Controls
    BY <1>6, <1>7 DEF InitialBrake
  <2> QED BY <1>0, <1>7, <2>1 DEF InitialBrake, messages, ClientTyped
<1>8. CASE Tick
  BY <1>8 DEF Tick, ClientTyped
<1>9. CASE Drive
  <2>1. \E does \in {"drive", "brake", "creep"} : control' = Sent(does)
    BY <1>9 DEF Drive
  <2>2. control' \in Controls
    BY <1>6, <2>1
  <2> QED BY <1>0, <1>9, <2>2 DEF Drive, messages, ClientTyped
<1> QED BY <1>1, <1>2, <1>3, <1>4, <1>5, <1>7, <1>8, <1>9 DEF ClientNext, Callbacks, RunOnce

\* Numbers only grow, and a stamp is answered once.
LEMMA NextFresh ==
  ASSUME ClientTyped, Fresh, [ClientNext]_clientVars
  PROVE  /\ Fresh'
         /\ control' # control => control'.stamp = control'.image /\ control'.stamp > control.stamp
<1>0. /\ latest.image \in Nat /\ latest.stamp \in Nat /\ frame.image \in Nat /\ frame.stamp \in Nat
      /\ control.stamp \in Nat /\ latest \in Messages
  BY DEF ClientTyped, Messages
<1>1. CASE OnImage
  <2>1. latest' = [latest EXCEPT !.image = @ + 1, !.stamp = latest.image + 1]
        /\ UNCHANGED <<frame, control, main>>
    BY <1>1 DEF OnImage, driving
  <2>2. latest'.image = latest.image + 1 /\ latest'.stamp = latest.image + 1
    BY <1>0, <2>1 DEF Messages
  <2> QED BY <1>0, <2>1, <2>2 DEF Fresh, None
<1>2. CASE OnSensors
  <2>1. /\ \E x \in Places, moving \in BOOLEAN :
              latest' = [latest EXCEPT !.at = x, !.moving = moving, !.heard = TRUE]
        /\ UNCHANGED <<frame, control, main>>
    BY <1>2 DEF OnSensors, driving
  <2>2. latest'.image = latest.image /\ latest'.stamp = latest.stamp
    BY <1>0, <2>1 DEF Messages
  <2> QED BY <2>1, <2>2 DEF Fresh
<1>3. CASE TakeLatest
  <2>1. /\ latest' = [latest EXCEPT !.stamp = None] /\ frame' = latest
        /\ main' = "check" /\ UNCHANGED control
    BY <1>3 DEF TakeLatest, driving
  <2>2. latest'.image = latest.image /\ latest'.stamp = None
    BY <1>0, <2>1 DEF Messages
  <2> QED BY <1>0, <2>1, <2>2 DEF Fresh, None
<1>4. CASE OnRoute \/ RouteSet \/ ModelFails \/ Disconnected \/ UNCHANGED clientVars
  <2>1. UNCHANGED <<latest, frame, control>> /\ (main' = "model" => main = "model")
    BY <1>4 DEF OnRoute, RouteSet, ModelFails, Disconnected, clientVars, messages, driving
  <2> QED BY <2>1 DEF Fresh
<1>5. CASE Tick
  <2>1. UNCHANGED <<latest, frame, control>> /\ frame.stamp # None
    BY <1>5 DEF Tick, Complete
  <2> QED BY <2>1 DEF Fresh
<1>6. CASE Incomplete
  <2>1. UNCHANGED <<latest, control>> /\ frame' = NoFrame /\ main' = "idle"
    BY <1>6 DEF Incomplete, messages, driving
  <2> QED BY <1>0, <2>1 DEF Fresh, NoFrame, None
<1>7. CASE InitialBrake \/ Drive
  <2>1. /\ UNCHANGED latest /\ frame' = NoFrame /\ main' = "idle" /\ frame.stamp # None
        /\ \E does \in {"drive", "brake", "creep"} : control' = Sent(does)
    BY <1>7 DEF InitialBrake, Drive, Complete, Fresh, messages
  <2>2. control'.stamp = frame.stamp /\ control'.image = frame.image
    BY <2>1 DEF Sent
  <2> QED BY <1>0, <2>1, <2>2 DEF Fresh, NoFrame, None
<1> QED BY <1>1, <1>2, <1>3, <1>4, <1>5, <1>6, <1>7 DEF ClientNext, Callbacks, RunOnce

\* One more frame is driven: what the counters say of the history, they say of it
\* with that frame, and the command is to creep exactly if it ought to be.
LEMMA DriveCounts ==
  ASSUME ClientTyped, Counted, Drive
  PROVE  Counted'
<1> DEFINE n == StuckThreshold + CreepDuration
           b == ~frame.moving
           counted == Count(b, stuck)
           forced == IF counted > StuckThreshold THEN CreepDuration ELSE force
<1>0. /\ StuckThreshold \in Nat /\ CreepDuration \in Nat /\ n \in Nat
      /\ b \in BOOLEAN
      /\ stuck \in Nat /\ force \in 0..CreepDuration /\ step \in Nat /\ step = Delay
  BY ClientLimits, LenProperties DEF Counted, Drive
<1>1. counted = Stuck
  BY DEF Stuck, Count
<1>2. /\ stuck' = Lower(counted, StuckThreshold + 1)
      /\ force' = IF forced > 0 THEN forced - 1 ELSE 0
      /\ \E does \in IF forced > 0 THEN {"creep"} ELSE {"drive", "brake"} : control' = Sent(does)
      /\ step' = step /\ main' = "idle"
  BY <1>1 DEF Drive
<1>3. slow' = OneMore(slow, b, n)
  BY DEF Drive, OneMore
<1>4. control'.does = "creep" <=> forced > 0
  BY <1>2 DEF Sent
<1>5. counted \in Nat /\ forced \in 0..CreepDuration
  BY <1>0 DEF Count
<1> HIDE DEF n, b, counted, forced
<1>6. stuck' \in Nat /\ force' \in 0..CreepDuration
  BY <1>0, <1>2, <1>5 DEF Lower
<1>7. CASE CreepDuration = 0
  <2>1. control'.does # "creep"
    BY <1>0, <1>4, <1>5, <1>7
  <2>2. 0..CreepDuration - 1 = {} /\ ~(CreepDuration > 0)
    BY <1>7
  <2> QED BY <1>0, <1>2, <1>6, <2>1, <2>2 DEF Counted
<1>8. CASE CreepDuration > 0
  <2>0. /\ n \in Nat \ {0} /\ n = StuckThreshold + CreepDuration
        /\ slow \in Seq(BOOLEAN) /\ Len(slow) \in Nat /\ Len(slow) <= n /\ InARow(slow, stuck)
    BY <1>0, <1>8, LenProperties DEF Counted, n
  <2>1. /\ slow' \in Seq(BOOLEAN) /\ Len(slow') = (IF Len(slow) < n THEN Len(slow) + 1 ELSE n)
    BY <1>0, <1>3, <2>0, OneMoreIs
  <2>2. InARow(slow', stuck') /\ (Still(slow', 0) <=> counted > StuckThreshold)
    BY <1>0, <1>2, <1>3, <1>8, <2>0, InARowOn DEF counted
  <2>3. \A k \in 0..CreepDuration - 2 : Still(slow', k + 1) <=> Still(slow, k)
    BY <1>0, <1>3, <1>8, <2>0, StillOn
  <2>4. /\ force > 0 => force < CreepDuration /\ Still(slow, CreepDuration - 1 - force)
        /\ \A k \in 0..CreepDuration - 1 : Still(slow, k) => force >= CreepDuration - 1 - k
    BY <1>8 DEF Counted
  <2>5. CASE counted > StuckThreshold
    <3>1. forced = CreepDuration /\ force' = CreepDuration - 1
      BY <1>0, <1>2, <1>8, <2>5 DEF forced
    <3>2. Still(slow', 0) /\ CreepDuration - 1 - force' = 0 /\ force' < CreepDuration
      BY <1>0, <2>2, <2>5, <3>1
    <3>3. \A k \in 0..CreepDuration - 1 : force' >= CreepDuration - 1 - k
      BY <1>0, <3>1
    <3>4. control'.does = "creep" /\ 0 \in 0..CreepDuration - 1
      BY <1>0, <1>4, <1>8, <3>1
    <3> HIDE DEF Still
    <3>5. Still(slow', CreepDuration - 1 - force')
      BY <3>2
    <3>6. Len(slow') <= StuckThreshold + CreepDuration
      BY <1>0, <2>0, <2>1
    <3> QED BY <1>0, <1>2, <1>6, <2>1, <2>2, <3>2, <3>3, <3>4, <3>5, <3>6 DEF Counted
  <2>6. CASE ~(counted > StuckThreshold)
    <3>1. forced = force
      BY <2>6 DEF forced
    <3>2. force' = (IF force > 0 THEN force - 1 ELSE 0)
      BY <1>2, <3>1
    <3>3. ASSUME force' > 0
          PROVE  force' < CreepDuration /\ Still(slow', CreepDuration - 1 - force')
      <4>1. force > 0 /\ force' = force - 1
        BY <1>0, <3>2, <3>3
      <4>2. CreepDuration - 1 - force \in 0..CreepDuration - 2
            /\ (CreepDuration - 1 - force) + 1 = CreepDuration - 1 - force' /\ force' < CreepDuration
        BY <1>0, <2>4, <4>1
      <4>3. Still(slow', (CreepDuration - 1 - force) + 1)
        BY <2>3, <2>4, <4>1, <4>2
      <4> QED BY <4>2, <4>3
    <3>4. ASSUME NEW k \in 0..CreepDuration - 1, Still(slow', k)
          PROVE  force >= CreepDuration - k /\ force' >= CreepDuration - 1 - k /\ force > 0
      <4>1. k # 0
        BY <2>2, <2>6, <3>4
      <4>2. k - 1 \in 0..CreepDuration - 2 /\ k - 1 \in 0..CreepDuration - 1 /\ (k - 1) + 1 = k
        BY <1>0, <4>1
      <4>3. Still(slow, k - 1)
        BY <2>3, <3>4, <4>2
      <4>4. force >= CreepDuration - 1 - (k - 1)
        BY <2>4, <4>2, <4>3
      <4> QED BY <1>0, <3>2, <4>2, <4>4
    <3>5. control'.does = "creep" <=> \E k \in 0..CreepDuration - 1 : Still(slow', k)
      <4>1. ASSUME force > 0
            PROVE  \E k \in 0..CreepDuration - 1 : Still(slow', k)
        <5>1. /\ CreepDuration - 1 - force \in 0..CreepDuration - 2
              /\ (CreepDuration - 1 - force) + 1 \in 0..CreepDuration - 1
          BY <1>0, <2>4, <4>1
        <5>2. Still(slow', (CreepDuration - 1 - force) + 1)
          BY <2>3, <2>4, <4>1, <5>1
        <5> QED BY <5>1, <5>2
      <4> QED BY <1>4, <3>1, <3>4, <4>1
    <3>6. Len(slow') <= StuckThreshold + CreepDuration
      BY <1>0, <2>0, <2>1
    <3> QED BY <1>0, <1>2, <1>6, <2>1, <2>2, <3>3, <3>4, <3>5, <3>6 DEF Counted
  <2> QED BY <2>5, <2>6
<1> QED BY <1>0, <1>7, <1>8

LEMMA NextCounted ==
  ASSUME ClientTyped, Counted, [ClientNext]_clientVars
  PROVE  Counted'
<1>1. CASE OnImage \/ OnSensors \/ OnRoute \/ RouteSet \/ TakeLatest \/ Incomplete \/ ModelFails
           \/ Disconnected \/ UNCHANGED clientVars
  <2>1. UNCHANGED <<step, slow, stuck, force, control>> /\ (main' = "model" => main = "model")
    BY <1>1 DEF OnImage, OnSensors, OnRoute, RouteSet, TakeLatest, Incomplete, ModelFails,
                Disconnected, clientVars, driving
  <2> QED BY <2>1 DEF Counted, InARow, Still
<1>2. CASE InitialBrake
  <2>1. UNCHANGED <<slow, stuck, force>> /\ main' = "idle" /\ step < Delay /\ step' = step + 1
    BY <1>2 DEF InitialBrake
  <2>2. slow = <<>> /\ step' \in Nat
    BY <2>1, ClientLimits DEF Counted
  <2> QED BY <2>1, <2>2 DEF Counted, InARow, Still
<1>3. CASE Tick
  <2>1. UNCHANGED <<step, slow, stuck, force, control>> /\ step = Delay
    BY <1>3 DEF Tick
  <2> QED BY <2>1 DEF Counted, InARow, Still
<1>4. CASE Drive
  BY <1>4, DriveCounts
<1> QED BY <1>1, <1>2, <1>3, <1>4 DEF ClientNext, Callbacks, RunOnce

LEMMA ClientInductive == ClientSpec => []ClientInvariant
<1>1. ClientInvariant /\ [ClientNext]_clientVars => ClientInvariant'
  BY NextClientTyped, NextFresh, NextFollowed, NextCounted DEF ClientInvariant
<1> QED BY <1>1, ClientStarts, PTL DEF ClientSpec

\* Every control answers an image that was not answered before and bears its
\* stamp: whenever images come, whichever of them is taken, and also if run_once
\* finds it incomplete.
THEOREM OneAnswerPerImage == ClientSpec => AnswersItsImage
<1>1. ClientInvariant /\ [ClientNext]_clientVars =>
        [control' # control =>
           control'.stamp = control'.image /\ control'.stamp > control.stamp]_clientVars
  BY NextFresh DEF ClientInvariant
<1> QED BY <1>1, ClientInductive, PTL DEF ClientSpec, AnswersItsImage

\* The car is made to creep, past the brake the model asked for, exactly if it has
\* stood still for more than the threshold of frames in a row, and no longer ago
\* than the creeping lasts: for any threshold and any duration.
THEOREM StuckCarCreeps == ClientSpec => []CreepsWhenStuck
<1>1. ClientInvariant => CreepsWhenStuck
  <2> SUFFICES ASSUME ClientInvariant, slow # <<>>
               PROVE  control.does = "creep" <=> \E k \in 0..CreepDuration - 1 : StoodStill(k)
    BY DEF CreepsWhenStuck
  <2>1. control.does = "creep" <=> \E k \in 0..CreepDuration - 1 : Still(slow, k)
    BY DEF ClientInvariant, Counted
  <2>2. ASSUME NEW k \in 0..CreepDuration - 1
        PROVE  StoodStill(k) <=> Still(slow, k)
    <3>1. CreepDuration > 0 /\ k \in Nat
      BY <2>2, ClientLimits
    <3>2. slow \in Seq(BOOLEAN)
      BY <3>1 DEF ClientInvariant, Counted
    <3> QED BY <3>1, <3>2, StillIs
  <2> QED BY <2>1, <2>2
<1> QED BY <1>1, ClientInductive, PTL

\* The index of simlingo_node is "a transcription" of the deque of the client: on
\* any route over any places, and wherever the car is, the two give the model the
\* same two target points.
THEOREM IndexTranscribesDeque == ClientSpec => []SameTargets
<1>1. ClientInvariant => SameTargets
  <2> SUFFICES ASSUME ClientInvariant, main = "model"
               PROVE  Targets(planner) = IndexTargets(globalPlan, index)
    BY DEF SameTargets
  <2>1. index \in 1..Len(globalPlan) /\ planner = Rest(globalPlan, index)
    BY DEF ClientInvariant, Followed
  <2>2. globalPlan \in Seq(Int)
    BY ClientLimits DEF ClientInvariant, ClientTyped
  <2> QED BY <2>1, <2>2, SameNextTwo
<1> QED BY <1>1, ClientInductive, PTL
=============================================================================
