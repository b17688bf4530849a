# vla-accel: models, checks and proofs

The repository drives a simulated car with four vision-language-action models
on an edge device. Around each model stands a ROS 2 node of Python threads:
callbacks that receive sensors and routes, workers that prepare frames and run
the model for one to two seconds, and a 20 Hz control loop that tracks the
latest plan meanwhile. Between node and model stand the speedups: caches,
CUDA graphs and replaced forwards that outlive the frame they were made for.
The tensors are not the subject here. The subject is what the threads do to
each other, what a new route or an earlier frame leaves behind, and what the
car does when an answer is late or missing.

Paths below are relative to `src/ros2_ws/src/` unless they begin with `src/`.

## Inventory

| Component | State | Operations | Meets |
|---|---|---|---|
| **orion node** `orion_ros/orion_ros/orion_withpid_node.py` | `_active_future`, `_prep_future`, two locks, duration averages; `_route_serial`, `_scene_token`, `_pending_route_reset`, `_frame_idx`, `_prev_sensor_ts`, `_route`, `_traj_state`, `_pid` | `_timer_callback`, `_maybe_pipeline_prep`, `_try_start_from_prepared`, `_prepare`, `_forward`, `_on_future_done`, `_route_callback`, `_reset_for_new_route`, `_control_callback` | two one-worker executors, their done callbacks, single-threaded `rclpy.spin` |
| **minddrive node** `minddrive_ros/.../minddrive_node.py` | the same dispatcher; a route serial carried in each snapshot | the same; reset on whichever thread prepares | the same, and the staggered views |
| **recogdrive node** `recogdrive_ros/.../recogdrive_node.py`, `agent_inputs.py`, `pid_control.py` | pose history, `_plan_state`, route serial | callbacks, `_take_snapshot`, `_run_inference`, `_control_callback` | one worker, `rclpy.spin` |
| **simlingo node** `simlingo_ros/.../simlingo_node.py` | `_plan`, `_controller` under `_plan_lock`; progress, `_last_control_sec` without it | `_route_cb`, `_timer_cb`, `_store_plan`, `_control_cb`, `_watchdog_cb` | two exclusive callback groups, one worker |
| **orion nodes without PID** `orion_node.py`, `orion_lite_rosnode.py` | one active future; map reference | timer, inference; sensor, camera, route callbacks | Stanley; a reentrant and an exclusive callback group |
| **Stanley controller** (three copies), PID controllers | trajectory on the map, arrival time | odometry, trajectory, control step | the trajectory topic |
| **route planner** in the nodes | deque of waypoints, or an index | scan, pop, command | main reads what a worker pops |
| **camera buffers** `camera_input.py` (three) | latest message per camera | callback, `missing`, `snapshot` | sensors and timer |
| **staggered views, MindDrive speedups** `minddrive_speedups.py`, `tools/bench_minddrive.py` | cached rear features; forwards, methods and weights replaced one after the other; two CUDA streams | refresh, apply, undo, run | node or bench |
| **SimLingo fast inference** `src/simlingo_patch/.../fast_inference.py`, `simlingo_accel.py` | static KV cache, mask, position, captured graph | prefill, capture, decode, head, fall back | the model |
| **ReCogDrive fast path** `recogdrive_speedups.py` | static window and context, masks, layout, generator | fill, plan, verify, fall back | worker and graphs |
| **inference client** `src/simlingo_patch/team_code/inference_client_simlingo.py` | latest messages under a lock, planner, stuck detector | callbacks, `run_once` | roslibpy reactor and main thread |
| image decoder, trajectory markers, kernels, benches, tools, launch files, containers | - | - | - |

Hard to test, and what the properties are for:

- *dispatch*: the timer, the prep-done callback and the forward-done callback
  run on three threads and all may start the same prepared frame;
- *route change*: a route may arrive while frames of the old one are being
  prepared, are queued, or are in the model, while the reset for the previous
  one runs, and in the middle of a control tick;
- *time*: plans, frames and poses are used a second or two after they were
  true, by clocks that may restart;
- *left-overs*: caches, masks, graphs and features keep what an earlier frame,
  or one that raised, put there;
- *silence and progress*: a model that stops answering, a worker or callback
  that raises; every snapshot must be run or given up, every route planned for.

`PROJECT.json` lists each hazard with its line and the property that covers it.

## Modules

Four families, each with MC modules that hold the properties, and proof modules
with the theorems about them. The modules in one row are composed by its MC
module.

| Modules | Model |
|---|---|
| `Dispatch`, `FrameServer`, `MCDispatch`, `DispatchProofs` | the frame dispatcher of the orion node; what it promises, without threads; its properties and inductive invariant; the theorems |
| `OrionRoute`, `MCOrionRoute`, `OrionRouteProofs` | `Dispatch` with the state that is scoped to a route |
| `StaggeredViews`, `MindDrive`, `MCMindDrive`, `MindDriveProofs` | `Dispatch` with the guards of the minddrive node, and its staggered backbone |
| `RoutePlanner`, `OrionDrive`, `MCOrionDrive`, `OrionDriveProofs` | the orion node over a clock: planner, memory gap, plan age, stall brake |
| `PoseHistory`, `RebasedPlan`, `ReCogDrive`, `MCReCogDrive` (with `MCFastContext`), `ReCogProofs` | the recogdrive node in mode `pid`; the theorems, those of its fast path with them |
| `SimLingo`, `MCSimLingo` (with `MCClient`), `SimLingoProofs` | plan, controller, control loop, watchdog and reset of the simlingo node; the theorems, those of its client with them |
| `Stanley`, `OrionTrajectory`, `OrionLite`, `MCTrajectory`, `TrajectoryProofs` | the two launch files without a PID |
| `TargetPoints`, `InferenceClient`, `MCClient` | the SimLingo client; its planner beside the node's transcription of it |
| `GreedySample`, `FastForward`, `MCFastForward` | a model that keeps nothing between frames; the cached, replayed one that implements it |
| `FastContext`, `MCFastContext` | ReCogDrive's plans from static tensors |
| `Speedups`, `ExpertOverlap`, `MCSpeedups` (with `MCFastForward`), `SpeedupsProofs` | which forward runs after MindDrive's transforms; the two streams; the theorems, those of `FastForward` with them |

### Dispatch

Three threads, each with a program counter and one local frame: `main` is
`rclpy.spin`, `gpu` and `prep` the workers of the two executors. A step is what
a thread does between two points where another can see or change a shared
field; one method is several actions:

| Code | Actions |
|---|---|
| `_timer_callback` | `TimerCallback`, `TimerCheckPrep`, `TimerTake`, `TimerSubmit` |
| `_maybe_pipeline_prep` | `MaybePipelinePrep`, `SubmitPrep`, `AssignPrep`, `HookPrep` |
| `_try_start_from_prepared` | `TryAcquire`, `TryCheck`, `TryClear`, `TrySubmit`, `TryRelease` |
| `_start_forward` | `SetActive`, `HookGpu` |
| `_prepare`, `_build_batch` | `BuildBatch`, `PrepareDone`, `PrepareFails` |
| `_forward` | `ForwardReprepare`, `ForwardProceed`, `ForwardDone`, `ForwardRaises` |
| an executor ends a job, done callbacks | `EndJob`, `Resolve` |
| executor workers | `GpuTake`, `PrepTake` |

A frame is its number; a future is the state of the job of a frame on an
executor. A frame that goes through the GPU worker alone has no job on the
preparation worker (`Sequential`). Durations are choices, with two exceptions
that keep the model within what time allows: `WindowMayBeOpen` (the
preparation window opens one preparation time before the expected end, so the
GPU worker's job is past its start) and, where `EagerJobs` is FALSE, that a job
outlives the few bytecodes between its submission and the attachment of its
callback. Nothing but speed says so of a job that raises at once: the safety
properties of the dispatcher are checked, and proved, with either value. An end
that comes early leaves `add_done_callback` to run the callback on the spot, in
the thread that attaches it: `_prep_future` may be gone when `HookPrep` reads
it, and `_on_future_done` waits for the lock that its own thread holds.
`ForwardReprepare` may happen whenever `NewRoutes`; when it does is decided in
`OrionRoute`.

### OrionRoute

Adds the route serial (also the scene token), the pending flag, the reset in
two steps, the frame index, the token and index each batch was built with, the
model's memory, the plan and a control tick in two steps. Each action of
`Dispatch` occurs alone or joined with what the same code does to this state
(`Build` with `BuildBatch`, `Infer` with `ForwardDone`, and so on). Main runs
one callback at a time, so a control tick in progress excludes the timer. The
memory of the heads is external: it is kept when `test_flag` is set and the
token is the same, and starts anew otherwise.

### MindDrive and StaggeredViews

The same dispatcher under other guards: a snapshot is taken only when images and
odometry have arrived since the route did, and carries the serial. Speed and IMU
have no date in the code and no part in the model: a frame may carry those of
the old route. The scene token is read where the batch is complete (`Built`),
not where its building began. The reset is done by whoever prepares the next
frame, under `_prep_lock`; the serial is tested
before the model and read again on the line that enters it, and what was read is
compared after it. Between a test and what relies on it a route may still slip
in: `gate` is that moment, and `slipped` counts the routes that used it. `late`
holds the frames that entered the model after their route had ended, `strays`
those whose plan was stored then; both are history. The views are a record that
the warm-up's black frame has already been through, and that a forward advances
even when it raises.

### OrionDrive and RoutePlanner

The control loop, the clock and the route, with one worker for both
preparation and forward. A route is a line of waypoints one unit apart, so a
deque is an interval; each delivery makes a new one. The scan is one step and
each `popleft` another, since main tests the deque's length and then reads it.
The car moves no further in a tick than its command allows, and not at all when
it is told to brake.

### ReCogDrive, PoseHistory and RebasedPlan

A tick is the 0.5 s between two poses of a plan. `PoseHistory` is the buffer
and the window cut from it, `RebasedPlan` the plan cut again from where the car
is. The simulator may restart its clock between two runs, the image may be
older or newer than the newest pose, odometry may skip ticks. The history
variable `path` says where the car really was. The worker's way is decode,
plan, test of the serial, store; the reset may come between any two.

### SimLingo

Two callback groups and one worker. A block under `_plan_lock` is one step; so
is each line that touches an unlocked field both groups use, in the order of
the lines. `tick` holds the locals of `_control_cb`. Clocks are two flags: the
plan is too old, or `control_timeout_sec` has passed since the last command.
The nearest waypoint is any waypoint; the PID's answer is to drive or to brake.
An image is known by whether it came before the last reset or since; `strays`
counts the plans that were stored after their route had ended. An
exception that leaves a callback of the control group ends the node, and the
properties are about one that spins. `MCSimLingo` sets the client beside it, as
the other program that may drive (`driver`).

### OrionTrajectory, OrionLite and Stanley

`orion.launch.py` starts `orion_node` and the Stanley controller, composed over
the trajectory topic (of depth 2, which drops its oldest message), each with
its own odometry. Of what `orion_lite.launch.py` starts the lite node is
modelled, and of that node its sensors, the map reference, and the frames that
are located on it: an answer and its publication change nothing that is kept.
The sensor callbacks are in a reentrant group, so each step of
`_try_init_latlon_ref`, which sets two numbers and then the flag, may interleave
with another thread's and with the reads of a frame. `MCTrajectory` has one
variable, `launch`, that chooses.

### InferenceClient and TargetPoints

`run_once` is taken apart where the reactor thread may act: after the copy of
the messages and before the publication. `TargetPoints` has both planners, the
popped deque of the client and the node's index, as functions; the client
carries the index along as a history variable. What the popping loop adds up
waypoint by waypoint is the sum of a function over the waypoints passed, so
that both planners can be reasoned about.

### FastForward and GreedySample

A row of the cache holds what the token in it has seen: the text so far, or
nothing if it attended to a row that was not of that text. `GreedySample` says
that each token follows from the prompt and the tokens before it. `Uncached`
refines the one to the other with a phase mapped from the program counter. The
capture runs the step three times and may fail; any call may raise anywhere.
`fast_inference.py` and `simlingo_accel.py` share the forward and differ in
the setup (`OptimizeRaises` and `Install`, `Accelerate`).

### FastContext

A row is a pair: the frame it comes from and its number, or a row of the
prefix, or padding. Padding and prefix are rewritten only when the layout has
moved and the masks only when the length has changed. `Reference` lays the
context out for each frame anew. `verify` runs a black frame on both paths with
seeded generators and may break off anywhere.

### Speedups and ExpertOverlap

A forward or a method is a closure: the module it is bound to and the wrappers
around it, inside out. A transform is a function on the model object, and
deep-copying an expert rebinds methods but not functions. The node applies the
transforms its parameters ask for in `NodeOrder`. The bench applies the list it
is given as it is given, and takes a failed compilation or graph back: `Variants`
are the lists it may be given, and any of their entries may be left out. A list
is in order (`WellOrdered`) if what replaces the experts comes after the merge
and what changes the backbone before its capture. The default list is; nothing
in the bench asks it of another. `ExpertOverlap` is the host that
queues work on two CUDA streams, and the streams that do it later, with the
event of `inference_waypoints` that `inference_action_distribution` waits for.

## Runs

| Run | Bounds | Shows |
|---|---|---|
| `eager_jobs` | 4 frames, every fault, `EagerJobs` | a frame server, no frame twice, none lost; the node stops only on a job that ended early |
| `early_end` | 3 frames, faults, `EagerJobs` | violated: after such an end the timer does not come back |
| `pipelined` | 4 frames, every fault, no `EagerJobs` | no frame is left behind |
| `route_sequential` | 3 frames, 2 routes, every fault, `EagerJobs` | without pipelining nothing crosses a route boundary, and a pending reset precedes the next forward |
| `route_crossing` | 4 frames, 1 route, no fault | violated: pipelined, it does cross |
| `minddrive` | 3 frames, 2 routes, 2 warm-ups, refresh every 2nd call | pipelined, the serial tests leave one gap, and only that |
| `orion_drive` | 6 ticks, 6 waypoints, 2 routes in 3 deliveries, both timestamp modes | gap, command, near node and stall brake, however long a forward takes |
| `recogdrive` | 4 ticks, 2 runs, window of 2 poses, buffer of 3 ticks; 4 frames, 5 lengths of the tail | poses of one run and true, plans cut where the car is; context and noise of each plan are its own |
| `simlingo` | node: 2 routes, 1 plan each, 4 waypoints; client: 5 images, 5 routes | controller and progress survive any timing of the reset, one plan at most strays, each route is asked about; each control answers its image, creep is as specified, index and deque agree |
| `trajectory` | 3 ticks and 2 routes; or 2 threads and 2 messages of each sensor | frame, memory, anchor and silence with Stanley; frames are located on a reference that is there |
| `speedups` | up to 5 speedups, the default list and one more in order, 3 frames; 5 prompts, 3 tokens, a cache of 8 rows | what is logged as applied is in the path, of the right expert, and reads what is there; the cached decode implements the uncached one |
| `any_order` | the ViT captured before its weights are transposed | violated: the graph replays the old backbone |

Where a run has several parts (`trajectory`, `simlingo`, `recogdrive`,
`speedups`), a variable of the MC module chooses one at the start and the others
stand still.

Why the bounds are enough, for the runs; what is proved holds without them. The
first frame of a dispatcher is run sequentially to measure the forward, the
second may be joined by a preparation, and a frame in the slot that another
would overwrite takes two more: four frames (with three, the mutant that
overwrites the slot is not found). Two routes let one arrive during the reset
of another and a plan of the first outlive it. (The exception of
`FirstFramePath` takes four frames: `MCMindDrive` was also checked with four
and one route, and with four, two routes and no failure, in more time; the
theorem is for all.) Six waypoints and a search distance of two let a car
outrun its planner; three deliveries are one route, the same again and another.
A buffer of three ticks with a window of two poses lets a stamp lag, be trimmed
and be held; the restart is at tick 1, so that three ticks of the second run
follow. Four waypoints of a plan are the fewest with which it is tracked from
two of them and then outrun. The prompts begin alike or not and one is too long
for the cache; with its 8 rows an answer of three tokens and two queries meets
the end exactly. The tails are shorter, equal and longer than each other and
than what fits. Five speedups are the most of one kind that depend on one
another (merge, slice, overlap, compile, graph).

Runs with `CHECK_DEADLOCK FALSE` have a bound that ends them (a clock, the
number of frames or images), or a node that may end or wait for itself.
`pipelined` and the route runs check for deadlock: between frames the dispatcher
waits for one.

### Where the code differs from what it says

Three are kept as runs.

- `route_crossing`: the reset repairs the frame that finds the flag and not the
  one queued behind it. `MemoryOneRoute` and `OneStaleTick` also hold only
  without pipelining, for the same reason.
- `early_end`: `_start_forward` attaches `_on_future_done`
  (`orion_withpid_node.py:779`) under `_dispatch_lock`, which that callback takes
  again if it is run on the spot; and a worker that finds the preparation ended
  empties `_prep_future` between its assignment and line 796, which then raises
  out of the timer. `StopsOnEarlyEnd` says that nothing else does either.
- `any_order`: `bench_minddrive.py` applies `--variants` in the order given
  (lines 83, 100 and 216), so the deltas it reports for `graph_vit,vit_t` are of
  the graph of the old backbone, and `compile_llm,merge_lora` compiles an expert
  whose weights the merge then replaces.

Others that modelling brought up, each at its line:

- *minddrive*: nothing calls `StaggeredViews.reset` (`minddrive_speedups.py:864`);
  with `rear_view_refresh_every` 2 the first forward of a route may get the rear
  features of the route before, or of the black warm-up frame.
  `orion_withpid_node.py:657` resets its own. In the model `views` shows it.
- *minddrive, undated inputs*: the snapshot waits for images and odometry of the
  new route (`minddrive_node.py:608-614`), speed and IMU are taken as they are
  (`:628`, `:630`) and may be of the old one. `src/MINDDRIVE_ROS_NODE.md:61-64`
  speaks of cameras and odometry only.
- *minddrive, late frames*: a route that arrives while a frame is between the
  test of its serial and the model may be reset for by the preparation worker
  before that frame is in. The forward of the late frame then sets the
  `test_flag` the reset has cleared (`minddrive_node.py:772-778`), and the first
  frame of the new route attends to the memory of the old one. The attempt to
  prove `FirstFramePath` without this exception found it; it takes four frames.
- *redelivered routes*: `src/MINDDRIVE_ROS_NODE.md:55-56` calls the redelivery
  "ignored". `_route_callback` replaces `_route` before it looks at the
  fingerprint (`minddrive_node.py:475`, `orion_withpid_node.py:605`), so popped
  waypoints are back; a car farther along than `ROUTE_MAX_DIST` finds none in
  reach and keeps the command of the first. `WayAhead` therefore leaves out
  routes that were delivered again.
- *simlingo*: the plan of an inference in flight is stored after the reset for
  its route's successor (`_store_plan` asks for no route); the reset disarms
  the watchdog while CARLA applies the last throttle; unlocked fields that the
  reset clears make the other group's reads raise (`pc.ctrl = "raised"`);
  `_trajectory_to_markers` does not flip y where `_model_to_map` does.
- *stall brake*: it needs a plan to look at; between a reset and the next plan
  the command before the reset stays applied.
- *orion_lite*: the map reference is computed "once from the first GNSS +
  odometry pair" (`orion_lite_rosnode.py:379`), says a flag that is tested first
  and set last by callbacks that may run side by side: two may store a reference
  each, the second after frames were located with the first, or between the two
  numbers of one. The reference is solved from ROS odometry with the agent's
  equations (y is mirrored); no watchdog, no reset on a route.
- *client*: on a road whose waypoints share a coordinate the command never
  advances (`(target != prev).all()`); an exception in `run_once` ends the
  client with its last control in force.
- *SimLingo fast inference*: the fall-back "to the stock model" leaves LoRA
  merged and SDPA swapped in.
- *ReCogDrive*: a plan's age counts from the dispatch while its frame is that
  of the image, so its first waypoint is short by what the car moved in
  between (`RebasedToTheCar` states by how much); a fast path whose
  verification raised stays in use.
- *MindDrive speedups*: without the reordered rounds `overlap_experts` does not
  fall back to the sequential order, it waits for the event of the frame before
  (the mutant `KeepRounds`); a merge that breaks off leaves a half-merged
  model; in the bench, a timer put on before the merge hides later wrappers,
  one put on twice counts twice, `uncompile` then `ungraph` leaves the ViT
  compiled, and a ViT size that raises leaves the pipeline resized.

## Fairness

`Dispatch` and `OrionRoute`: weak fairness of each thread, because the operating
system runs every thread that can run, the timer is periodic and a forward that
started returns or raises. A worker that waits for the dispatch lock gets it
(strong fairness of `TryAcquire`): Python's lock is not fair, but the timer
holds it for microseconds every 50 ms. In `OrionRoute` the executor serves the
inference timer however often the control timer is due (strong fairness of
`MainElsewhere`). In `SimLingo` the same holds of the timers within their
groups; of the worker only that it ends its job. Nothing is assumed of cameras,
routes or faults. `FramesSettle` is stated as what holds from some point on of
all snapshots together, which for finitely many and a stable end is the same as
that each leads to its own; it lets four frames be checked. It is said of jobs
that outlive the attachment of their callback: after an early end nothing need
move any more, as `early_end` shows.

The other modules state safety only, some of it about time (`StallBraked`,
`SilentCarStops`): the control timer runs once between two ticks of their
clock, as a 20 Hz timer does between ticks of half a second.

## Proofs

Eight modules of theorems, each for every value of the constants that the named
assumptions of the models allow: any number of frames, routes, runs, threads,
prompts, and any timeout or distance.

| Module | Theorems | State |
|---|---|---|
| `DispatchProofs` | `TypeCorrect`, `NoFrameTwice`, `NoPreparedFrameLost` | `TypeOK`, `ModelOnce`, `PreparedKept` |
| | `StopsExplained` | `StopsOnEarlyEnd` |
| | `DispatchImplementsServer` | `ServesFrames`: it refines `FrameServer` |
| `OrionRouteProofs` | `RouteKeepsDispatcher` | `RouteSpec => Spec` |
| | `SequentialRoutes`, `SequentialMemory`, `SequentialControl` (need `~Pipelined`) | `NoRouteCrossing`, `MemoryOneRoute`, `OneStaleTick` |
| `MindDriveProofs` | `OneRoutePerFrame`, `SlipsAreCounted`, `ControllerOfThisRoute` | `FrameOfOneRoute`, `StraysSlipped`, `CleanPid` |
| | `MemoryOfThisRoute` | the action property `FirstFramePath` |
| `SimLingoProofs` | `ControllerStaysClean`, `ProgressIsOwn`, `StraysAreFew` | `CleanController`, `SteersFromFurthest`, `OneStray` |
| | `OneAnswerPerImage` | the action property `AnswersItsImage` |
| | `StuckCarCreeps`, `IndexTranscribesDeque` | `CreepsWhenStuck`, `SameTargets` |
| `OrionDriveProofs` | `WaypointStays`, `CarIsBraked`, `GapIsReal` | `NodeThere`, `StallBraked`, `GapReported` |
| | `CommandAtTheCar` (needs `PlannerKeepsUp`) | `WayAhead` |
| `TrajectoryProofs` | `EachFrameOnce`, `MemoryRunsForward`, `TrajectoryIsAnchored`, `SilenceStopsCar` | `FrameOnce`, `MemoryMovesOn`, `Anchored`, `SilentCarStops` |
| | `FramesAreLocated` | `LocatedOnAMap` |
| `ReCogProofs` | `OneRunPerFrame`, `OnlySlipsStray`, `WaypointsAhead` | `FrameOfOneRun`, `StraysSlipped`, `RebasedToTheCar` |
| | `HistoryIsTrue` (needs `SkipsOne`, `WindowInReach`) | `HistoryTrue` |
| | `ReferenceContext`, `OwnNoise` | `ContextOfThisFrame`, `DrawnUnseeded` |
| `SpeedupsProofs` | `StaysInCache` | `InCache` |
| | `CacheIsTransparent` | `Uncached`: it refines `GreedySample` |
| | `StreamsReadWhenThere` | the action property `ReadWhenThere` |
| | `ExpertsKeepTheirModel` (needs `WellOrdered` lists) | `SameModel` |
| | `LoggedIsInEffect` | `AppliedInEffect` |

Hypotheses. The models' own assumptions give the constants their types;
`FastAssumption` adds that prompts and queries are not empty and that the check
of a prompt's length leaves room for the queries (the code leaves 64).
`~Pipelined` is a parameter of the node, and `route_crossing` shows that the
three theorems are false without it. `WellOrdered` is asked of the lists the
bench is given, not of the node, whose order is its own: the default list
satisfies it (`DefaultInOrder`), and `any_order` shows what happens without it.
`PlannerKeepsUp` says that the car covers no more on one plan, until the stall
brake, than the planner searches of its route, and that a waypoint counts as
reached a unit before the car is at it: the code caps the speed at 5 m/s and
plans at 6 s, searches 50 m and reaches 4 m (`orion_withpid_node.py:93-100`,
`:251`).
`SkipsOne` says that odometry skips no more than one tick, so that a missing
pose lies between two neighbours, and that lengths are counted in halves of a
unit, so that the division in between is exact. `WindowInReach` says that the
buffer is longer than the window and what may lag: the code keeps 6 s for a
window of 1.5 s (`agent_inputs.py`). The configurations of the runs satisfy them.

The arguments, a module at a time; each invariant is stronger than what it is
for, and why is the point of each.

*Dispatcher.* `ModelOnce` is not inductive: that the model is given a new frame
depends on who may hold it. `OneOwner` says so for every stage: a snapshot is
new to both workers until main submits it (`SnapshotNew`); a frame in
`_prep_future` has not been given to the GPU (`SlotOwned`); a thread that
dispatches took it out of the slot under the lock and is alone with it
(`DispatchHeld`, `HandOwned`); a queued frame is pending and a worker's frame
runs (`WorkerOwned`); what the model was given has ended (`LoggedEnded`).
`Alone` adds that without pipelining only main dispatches and only when nothing
is in flight, which is what makes the server exclusive. Each part has a lemma
with one step per action. For
`StopsOnEarlyEnd`, `Handing` follows a thread from the submission of a job to
the attachment of its callback, alone with both: what main finds gone or a
thread finds locked by itself, only the end of that job can have left so.

*Routes.* `RouteSpec => Spec` brings `OneOwner` along. Without pipelining all of
a frame's life is on the GPU worker, between two of whose labels nothing else
builds; `BatchCurrent`, `MemoryCurrent` and `PlanCurrent` say what the batch, the
heads and the plan are of at each label of the reset, the flag cleared by a
route that came too early included.

*MindDrive.* `OneOwner` again, and over it six parts. `Places` and `Ages` say
where the workers are and that what was built is no older than its snapshot.
`Passed` is the point of the tests: the frame that passed is of one route, and
of one that has ended if a reset is due. `Slips` keeps a slip in reserve while
a frame stands at a gate whose route has ended, because `late` and `strays`
count it only later. `Remembered` says whose memory the heads hold.

*SimLingo.* A plan is known by its number alone (`OnePlanPerSeq`); the reset
ends before anything of the new route can be there (`ResetFirst`), so the
unlocked fields, cleared one line at a time, can be wrong only of a plan that
has been dropped (`OwnProgress`, `Tracked`). There is one worker, so at the end
of a route one inference is under way and can stray; what is asked for later is
of the later route.

*Client.* `Fresh` orders the stamps: of the latest image, of the one in hand and
of the last control, each used up when it is taken. For the two planners no step
is compared with a step, for the deque and the index find their waypoint by
different loops: the scan of what is left of a route is shown to be the scan of
the route from the index on, way by way and waypoint by waypoint (`SameWay`,
`SameFarthest`), so that the deque is always the rest of the route (`Followed`), the
popping that leaves two waypoints included. For the creeping, `Counted` says
what the two counters know of the last frames: how many in a row were slow, and
that the countdown stands where the most recent of the standstills has put it,
from which what happens while the car creeps and stands follows.

*Drive.* `NodeThere` rests on popping that keeps the last two waypoints, in
every deque there was. For the gap, `SinceRun` relates the last stamp, the
memory and the last frame that ran, in both timestamp modes. For the command,
`ScanFinds` says that the scan leaves a waypoint in front that the car is at, if
the car was no farther ahead than the search; `Followed` bounds how far ahead it
gets until the next scan by the ticks it may be driven on the plan it has
(`Driven`), while waypoints are popped, frames raise and routes arrive.

*Without the PID.* Three invariants share nothing but the steps: `FramesCounted`
(a frame is owed a run, or has been forgiven by a reset, `Owed` and `Forgiven`)
with `MemoryBehind`; `AgeIsSilence` and `YoungIsTracked` for the controller,
where a history variable is shown to be the age the controller keeps; and for
the map reference that the flag goes up, and a frame is located, only after
both numbers are there (`MapFirst`).

*ReCogDrive.* The buffer is `Told`: of one run, true and in order; the window is
cut from it between neighbours or at its ends, and `ReachesTo` says how far back
it goes. `GoesOn` carries what was true at a stamp to every later step of the
same run. That the plan is cut where the car is needs the way over several ticks
at one speed (`EvenWay`). For the context, `LayoutKept` is what frames leave to
one another: padding and prefix stand where the last layout put them, the masks
fit the last length. What else is left there no conjunct speaks of.

*Cache.* `Places` ties the position to the lengths of prompt
and answer, so that what was let in fits. `Rows` says that the mask leaves
exactly the rows up to the position, that all of them but the one in hand have
seen the text up to themselves, and that `hidden` is the last of them.
What is left behind the position by an earlier, longer frame is true of another
text, and no conjunct speaks of it: that it never matters is what the theorem
shows. `StepMaps` then takes the actions one by one: prefill, capture and decode
stutter, the others are their counterparts.

*Speedups.* A stream does its work in order, so it is enough that whatever a
piece of work needs is done or queued before it in its own stream (`InOrder`),
and that an event that has happened stands for work that was done (`Backed`): a
wait for it then carries what is done on one stream over to the other. The rest
is about the order of the transforms. `Coming` are those of the bench's list
still to come; on the node, `Left` counts them and `Turn` says how many are left
when one is next. A transform changes a part of the model
object and keeps the others (a lemma for each part), so that each finds its part
as the ones before it have left it. `SameModel` alone is not inductive: a forward
that was saved may be put back, and the graph taken off again, so `OwnExperts`
and `GraphSound` speak of what is saved too; and the merge copies an expert, so
none that replaces them may have been applied while it is to come (`Mergeable`),
and none that changes the backbone may be to come once it is captured
(`GraphCurrent`). For the node,
`LoggedInTurn` says that nothing is in the log before its turn, and one conjunct
for each part of the model that its wrappers are those in the log
(`VitOnNode`, `HeadsOnNode`, `LlmOnNode`, `CallsOnNode`), a compilation that broke
off after saving the forward included.

The prover cannot instantiate the induction theorems with a formula. Where
`ReCogProofs` and `SimLingoProofs` need induction they take the least member of
the set of counterexamples instead (`LeastMember`, `LeastNumber`, from the
well-foundedness of `<`).

The proofs corrected a model three times. `FirstFramePath` was false for four
frames and more, which the run with three could not show (see `late` above); the
serial that `_forward` reads again needed a step of its own, `ReadSerial`; and
the copy of an expert without a saved forward had been given one (`Copied`).

Checked only: the three violations, and liveness (`FramesSettle`, `RouteAsked`, `ResetBeforeNext`), for
which, as for everything that rests on fairness, the prover has no rules that it
could use here. Every other property of the passing runs is the subject of a
theorem. That the sum in `Along`, a fold of the community modules, is the length
of the way is not proved: the planners are compared without it, since both add
up the same function.

## Plan

Done: the dispatcher, its routes, the three other nodes, the nodes without the
PID, the client, and the caches and transforms between node and model.

Proved: all safety properties that the passing runs check, and the refinements
of `FrameServer`, of `Dispatch` by `OrionRoute`, and of `GreedySample`.

Left, in this order:

1. The reset of the staggered views in the orion node, composed with
   `OrionRoute`.
2. A camera buffer of its own: cameras in any order, reference stamp, skew.
3. Mode `stanley` of the recogdrive node, composed with `Stanley`.

## Not modelled

Tensor kernels, quantisation, compiled graphs as numerics and TensorRT engines:
floating-point work without control flow to check. The control laws and the
geometry, real arithmetic that TLC does not have: the PID gains, the steering
of Stanley, rotations, the Kalman filter, camera projection. Model loading and
checkpoints. Benchmarks (but for what `bench_minddrive.py` does to the model),
tools, launch files, container builds, logging. The image decoder and the
markers of the lite launch, which keep no state another part reads. `PROJECT.json` has the status of each component.
