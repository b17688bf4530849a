----------------------------- MODULE MCSimLingo ------------------------------
(***************************************************************************)
(* What a new route must leave behind in the SimLingo node, and what the   *)
(* control loop may rely on while one arrives.                             *)
(***************************************************************************)
EXTENDS SimLingo, MCClient

VARIABLE driver \* what drives: the "node" or the "client"

driverVars == <<driver, vars, clientVars>>

DriverInit ==
  /\ driver \in {"node", "client"}
  /\ Init /\ ClientInit
  /\ driver = "node" => globalPlan = CHOOSE way \in Routes : TRUE

DriverNext ==
  /\ UNCHANGED driver
  /\ \/ driver = "node" /\ Next /\ UNCHANGED clientVars
     \/ driver = "client" /\ ClientNext /\ UNCHANGED vars

\* Where it is the node that drives, its threads are fair.
DriverSpec ==
  DriverInit /\ [][DriverNext]_driverVars /\ (driver = "node" => Fairness)

-----------------------------------------------------------------------------

\* A reset clears "PID history and stuck timer" for good: whenever it strikes,
\* the new controller is never stepped with a plan that was stored before it.
CleanController == fed \subseteq {controller}

Steering == pc.ctrl \in {"since", "sinceRead", "step", "first", "firstRead"}

\* A control tick on a plan for the present route steers from the furthest point
\* the car has reached on it: never behind, and never from where an earlier plan
\* had got to.  (One that runs into a reset may, on the plan that is dropped.)
SteersFromFurthest ==
  Steering /\ tick.plan.route = route =>
    tick.at = furthest.at /\ furthest.plan = tick.plan

\* _store_plan does not ask which route its payload was for.  All the same no more
\* than one plan of an ended route is ever stored for the new one, that of the
\* inference then under way; and it never replaces a plan of the new route.
OneStray == strays <= 1 /\ (stored > 0 => plan.route = route)

-----------------------------------------------------------------------------
\* The model is asked for a plan for each route in its turn, however often it
\* failed before, unless the next route comes first or the node went down.
RouteAsked ==
  \A r \in 1..MaxRoutes :
    route = r ~> job = r \/ plan.route = r \/ route > r \/ ~Spinning
=============================================================================
