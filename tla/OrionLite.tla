------------------------------ MODULE OrionLite ------------------------------
(***************************************************************************)
(* orion_lite_rosnode, from its sensors to the place it gives a frame on   *)
(* the map.  The sensor callbacks are in a reentrant group, so that the    *)
(* threads of the executor run them side by side; the camera callback is   *)
(* alone in its own and stays in it for the whole inference.  A message is *)
(* known by its number; of images, IMU and route counts only whether there *)
(* is one.                                                                 *)
(***************************************************************************)
EXTENDS Integers

CONSTANTS
  Workers,    \* executor threads that serve the sensors
  MaxMessages \* bound: messages of each sensor

ASSUME LiteAssumption == MaxMessages \in Nat

Default == [gnss |-> 0, odom |-> 0]
NoPair  == [gnss |-> -1, odom |-> -1]
NoRun   == [stage |-> "idle", lat |-> NoPair]

VARIABLES
  image,       \* an image waits for _camera_cb, whose queue keeps one
  imu,         \* latest_imu is there
  latestGnss,  \* latest_gnss
  latestOdom,  \* latest_odom
  planner,     \* route_planner is there
  latRef,      \* lat_ref, by the pair of messages it was solved from
  lonRef,      \* lon_ref, likewise
  initialized, \* _latlon_initialized
  solver,      \* what each thread does in _try_init_latlon_ref
  run,         \* how far _run_inference is with its frame
  maps         \* history: the references frames were located with

stateVars == <<imu, latestGnss, latestOdom, planner>>
refVars   == <<latRef, lonRef, initialized, solver>>
runVars   == <<run, maps>>
liteVars  == <<image, stateVars, refVars, runVars>>

NoWork == [at |-> "idle", pair |-> NoPair]

LiteInit ==
  /\ image = FALSE /\ imu = FALSE /\ latestGnss = 0 /\ latestOdom = 0 /\ planner = FALSE
  /\ latRef = NoPair /\ lonRef = NoPair /\ initialized = FALSE
  /\ solver = [w \in Workers |-> NoWork]
  /\ run = NoRun
  /\ maps = {}

-----------------------------------------------------------------------------
(* the sensors and the reference of the map                                *)

Camera ==
  /\ ~image /\ image' = TRUE
  /\ UNCHANGED <<stateVars, refVars, runVars>>

ImuCb ==
  /\ ~imu /\ imu' = TRUE
  /\ UNCHANGED <<image, latestGnss, latestOdom, planner, refVars, runVars>>

\* _route_cb replaces the planner, and nothing else.
RouteCb ==
  /\ ~planner /\ planner' = TRUE
  /\ UNCHANGED <<image, imu, latestGnss, latestOdom, refVars, runVars>>

\* Both callbacks store the message and go on to _try_init_latlon_ref.
Try(w) == solver[w] = NoWork /\ solver' = [solver EXCEPT ![w].at = "try"]

GnssCb(w) ==
  /\ latestGnss < MaxMessages
  /\ latestGnss' = latestGnss + 1
  /\ Try(w)
  /\ UNCHANGED <<image, imu, latestOdom, planner, latRef, lonRef, initialized, runVars>>

OdomCb(w) ==
  /\ latestOdom < MaxMessages
  /\ latestOdom' = latestOdom + 1
  /\ Try(w)
  /\ UNCHANGED <<image, imu, latestGnss, planner, latRef, lonRef, initialized, runVars>>

NewestPair == [gnss |-> latestGnss, odom |-> latestOdom]

\* The early return; or the pair of messages is read.
TryInit(w) ==
  /\ solver[w].at = "try"
  /\ solver' = [solver EXCEPT ![w] =
       IF initialized \/ latestGnss = 0 \/ latestOdom = 0 THEN NoWork
       ELSE [at |-> "solve", pair |-> NewestPair]]
  /\ UNCHANGED <<image, stateVars, latRef, lonRef, initialized, runVars>>

\* Mutant: the flag is set before the numbers are there.
StoreLatFlagged(w) ==
  /\ solver[w].at = "solve"
  /\ \E pair \in {solver[w].pair, Default} :
       /\ latRef' = pair
       /\ solver' = [solver EXCEPT ![w] = [at |-> "lon", pair |-> pair]]
  /\ initialized' = TRUE
  /\ UNCHANGED <<image, stateVars, lonRef, runVars>>

\* fsolve finds the reference, or raises and leaves the defaults; the two
\* numbers are assigned one after the other ...
StoreLat(w) ==
  /\ solver[w].at = "solve"
  /\ \E pair \in {solver[w].pair, Default} :
       /\ latRef' = pair
       /\ solver' = [solver EXCEPT ![w] = [at |-> "lon", pair |-> pair]]
  /\ UNCHANGED <<image, stateVars, lonRef, initialized, runVars>>

StoreLon(w) ==
  /\ solver[w].at = "lon"
  /\ lonRef' = solver[w].pair
  /\ solver' = [solver EXCEPT ![w].at = "flag"]
  /\ UNCHANGED <<image, stateVars, latRef, initialized, runVars>>

\* ... and then the flag.
StoreFlag(w) ==
  /\ solver[w].at = "flag"
  /\ initialized' = TRUE
  /\ solver' = [solver EXCEPT ![w] = NoWork]
  /\ UNCHANGED <<image, stateVars, latRef, lonRef, runVars>>

-----------------------------------------------------------------------------
(* the camera callback                                                     *)

Ready == imu /\ latestGnss # 0 /\ initialized /\ planner

\* "Waiting for ...": the image is dropped.
CameraWaits ==
  /\ image /\ run = NoRun /\ ~Ready
  /\ image' = FALSE
  /\ UNCHANGED <<stateVars, refVars, runVars>>

CameraCb ==
  /\ image /\ run = NoRun /\ Ready
  /\ image' = FALSE
  /\ run' = [NoRun EXCEPT !.stage = "locate"]
  /\ UNCHANGED <<stateVars, refVars, maps>>

\* gps_to_location reads lat_ref, and then lon_ref.
LocateLat ==
  /\ run.stage = "locate"
  /\ run' = [stage |-> "located", lat |-> latRef]
  /\ UNCHANGED <<image, stateVars, refVars, maps>>

LocateLon ==
  /\ run.stage = "located"
  /\ run' = [run EXCEPT !.stage = "model"]
  /\ maps' = maps \cup {[lat |-> run.lat, lon |-> lonRef]}
  /\ UNCHANGED <<image, stateVars, refVars>>

\* The control is published; or what is raised is logged instead, be it by the
\* model or, whenever the command is CHANGERIGHT, by command2hot.
Infer ==
  /\ run.stage = "model"
  /\ run' = NoRun
  /\ UNCHANGED <<image, stateVars, refVars, maps>>

-----------------------------------------------------------------------------
SolverAction(w) ==
  GnssCb(w) \/ OdomCb(w) \/ TryInit(w) \/ StoreLat(w) \/ StoreLon(w) \/ StoreFlag(w)

Sensors  == Camera \/ ImuCb \/ RouteCb \/ \E w \in Workers : SolverAction(w)
Frames   == CameraWaits \/ CameraCb \/ LocateLat \/ LocateLon \/ Infer
LiteNext == Sensors \/ Frames
=============================================================================
