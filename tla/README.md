# Verification of the PX4 ROS 2 interface library

TLA+ modules, TLC configurations and TLAPS proofs for `px4_ros2_cpp`, the C++
library with which a ROS 2 node adds flight modes, mode executors and missions
to a PX4 flight controller (FMU).  Paths below are relative to
`src/px4_ros2_cpp/` unless they start with `src/`.

## 1. The system

A node of the library runs in **one ROS executor thread**.  The thread takes a
message, a timer or a service event, runs its callback to the end and takes the
next.  The FMU is another machine behind a best-effort link: it owns the flight
mode (`nav_state`), the arming state and the choice of the executor in charge,
and tells them in `VehicleStatus`.  The library asks for changes with
`VehicleCommand`, for which it *blocks inside a callback* until an ACK or a
timeout.  So there are two kinds of interleaving: the FMU moves between any two
callbacks and inside every blocking send, and library code and user code
interleave within one callback, because user callbacks call the library again.

### Inventory

| Component (code) | State | Operations and interactions | What makes it correct |
|---|---|---|---|
| `ModeExecutorBase` (`src/components/mode_executor.cpp`) | charge, armed, previous mode, one scheduled mode, one wait condition | `scheduleMode`, `takeoff`, `land`, `rtl`, `arm`, `disarm`, waits; `VehicleStatus` and `ModeCompleted` handlers; calls the user's hooks and callbacks, the owned mode and the command sender | every request is answered, once, in time; nothing pending outlives the charge; it follows the FMU |
| `ModeBase` (`src/components/mode.cpp`) | active, completed, active setpoint type, requirements | activation from `VehicleStatus`, `completed()`, setpoint timer, registration | active only when selected; one active setpoint type |
| `MissionExecutor` (`src/mission/mission_executor.cpp`) | mission, index, item state, believed mode, continuous actions, abort level, persistent file | `setMission`, `resetMission`, `abort`, activation and deactivation by its mode executor, actions, modes and trajectories with completion callbacks | it neither stalls nor forks; an abort ends it; it resumes where and how it was interrupted |
| Default actions (`src/mission/actions/`) | a timer (hold), a state keeper (changeSettings) | run by the mission executor through an `ActionHandler` that an abort invalidates | takeoff before flight after a landing; settings survive an interruption |
| Waypoint trajectory executor (`src/mission/trajectory/`) | trajectory, current index | `updateSetpoint`, `on_index_reached`, `on_failure` | progress is stored before the callback |
| `VehicleCommandSender` (`src/utils/vehicle_command_sender.cpp`) | none between calls | publish, wait 300 ms for an ACK, three tries; used by mode executors and `HomePositionSetter` | an answer belongs to its command; a call comes back |
| `Registration` (`src/components/registration.cpp`) | registered, ids | request/reply with retries, unregister | a slot of its own; registered wholly or not at all |
| `HealthAndArmingChecks` (`src/components/health_and_arming_checks.cpp`) | check triggered, first request | answers the FMU's requests, 4 s watchdog | a lost FMU ends the process, a live one never does |
| `ConfigOverrides` (`src/components/overrides.cpp`) | current overrides, registered | publishes them | the FMU gets what was set last |
| `SharedSubscription` (`include/px4_ros2/components/shared_subscription.hpp`) | a static map of instances, callbacks | register, unregister, cleanup, delivery | one instance per node and topic; every callback called, in order |
| Message compatibility check, `waitForFMU` | the result, kept for the process | request/reply before registration | only compatible FMUs pass; it ends |
| Mission file and `MissionFileMonitor` (`src/mission/mission.cpp`) | a thread, the path | parses, reloads on change | the last version is loaded |
| VTOL (`src/control/vtol.cpp`) | last state, times of commands, integrator | transition commands, setpoints | a transition asked for happens |
| Setpoint types (`src/control/setpoint_types/`, `include/px4_ros2/common/setpoint_base.hpp`) | the active type | `update()` makes a type active and publishes its setpoint | the configuration fits the setpoint; the mode has required what it controls |
| Navigation interfaces (`src/navigation/`) | frames, reset counter | `update()` checks a measurement and publishes it or throws | what is published is usable |
| Frame conversion (`include/px4_ros2/utils/frame_conversion.hpp`) | none | NED/ENU, FRD/FLU | the conversions agree |
| Odometry, vehicle state, geodesic utilities | last messages | accessors, conversions | numeric |

### Hard behaviours

* **Re-entrancy.**  A completion callback may schedule, arm or abort while the
  library is in the middle of replacing the request it belonged to.
* **Stale information.**  `VehicleStatus` and `ModeCompleted` are queues of
  depth 1 that are not served during a blocking send; statuses are overwritten,
  completions arrive late.
* **Split brain.**  The FMU and the library disagree on mode and charge for a
  while; the executor suppresses the activation of its mode to hide it.
* **Late callbacks.**  Timers, trajectories and modes of an aborted or
  deactivated mission still call back; an invalidated handler must stop them.
* **Restart.**  The mission's position and the states of continuous actions are
  written on deactivation and read when the same mission is set.
* **Lost and late replies** for commands and registrations.

`PROJECT.json` lists each of these at its line under `hazards`, with the
properties that cover it, or the reason why none does yet.

## 2. Modules

| Module | Models |
|---|---|
| `ModeExecutor` | `ModeExecutorBase` and the activation of the `ModeBase` it owns, with the FMU and the user |
| `Executor` | what a mode executor promises to the code that makes requests of it: the abstract specification that `ModeExecutor` implements |
| `MissionExecutor` | `MissionExecutor`, its default actions, the waypoint trajectory executor and the persistent file |
| `Mission` | what a mission executor promises about its place in a mission: the abstract specification that `MissionExecutor` implements |
| `VehicleCommandSender` | `sendCommandSync()` of several objects over a lossy link |
| `Command` | what `sendCommandSync()` promises: the abstract specification that `VehicleCommandSender` implements |
| `Registration` | the constructor of a node: `waitForFMU`, message compatibility check, `Registration`, `ConfigOverrides`, for all its parts, and the way back |
| `HealthAndArmingChecks` | arming check requests and the watchdog, with time |
| `Mode`, `Setpoints` | `ModeBase` with its setpoint types, requirements and update timer |
| `SharedSubscription` | the static map of instances and the delivery to their callbacks |
| `MissionFile` | parsing and writing of missions, `MissionFileMonitor` |
| `Vtol` | the transition commands of `VTOL` |
| `NavigationInterfaces` | `update()` of the two measurement interfaces |
| `FrameConversion` | `frame_conversion.hpp` and `wrapPi()` |
| `NodeParts` | the parts of a node that do not interact, as one state machine: watchdog, `Mode`, `SharedSubscription`, `MissionFile`, `Vtol`, `NavigationInterfaces`, `FrameConversion` |
| `MC...` | instances for TLC: `MCModeExecutor`, `MCMissionExecutor`, `MCVehicleCommandSender`, `MCRegistration`, `MCNodeParts` |
| `...Proofs` | theorems: `ModeExecutorProofs`, `MissionExecutorProofs`, `MissionExecutorStatesProofs` and `MissionProofs`, `VehicleCommandSenderProofs`, `RegistrationProofs`, `HealthAndArmingChecksProofs`, `NodePartsProofs` |

How they compose: `ModeExecutor` takes from the sender what `Command` says of a
call: it may return `Success` or `Rejected` for an action on an earlier command
(`LooseAcks`), and `Timeout` although the FMU acts.  `MissionExecutor` takes from
the mode executor that `scheduleMode()` replaces, fails at once or calls back
later.  `Registration` ends where the others begin: a node that spins.  `Mode`
uses the data of `Setpoints`.  The remaining parts share nothing but the ROS thread.

Definitions whose comment begins with `Mutant:` or `Wrong variant` are the erroneous
variants with which each property is shown to be able to fail; the specifications do not use
them.

### ModeExecutor

*Requests.*  Each API call is a request `r` with parameters `req[r]`; `issued`
counts them.  `scheduled` and `waiting` are the requests whose callbacks the two
slots hold (`_current_scheduled_mode`, `_current_wait_vehicle_status`), and
`answers[r]` is the history of results that callback `r` was called with.

*Control.*  A call into the library that blocks or calls user code is a frame
`pc[r]`: `send`, `accepted` and `rejected` while `sendCommandSync()` runs, `ret`
when it returns to user code.  The frames nest in the order of the request
numbers.  `turn` says whether library or user code runs, and `hpc` how far the
node callback below all frames has come: `vehicleStatusUpdated()` is cut into the
parts between two calls of user code, since each of them may come back with
requests.  `StatusDelivered`, `CancelScheduled`, `CancelWait`, `Deactivated`,
`CheckReactivate`, `ActivateAgain`, `FailsafeDeferred`, `UpdateMode`,
`UpdateWait` and `CallbackEnds` follow that function from top to bottom.

*User.*  User code may make a call of `Calls` in every hook or callback that
`IssueFrom` names and return: those of the executor, the methods of the owned mode that
a `VehicleStatus` calls (`ownedMode`), and callbacks of its own (`timer`).  `OneWait` says
whether it keeps to one pending wait, `CompletesAnytime` whether its mode calls
`completed()` when it is not active as well.

*FMU.*  `fmu` is what its `VehicleStatus` says; `status` and `completedMsg` are
the queues of depth 1.  The FMU moves between callbacks and during a blocking
send.  A command is executed or refused, its ACK may be lost (`SendReturns` with
`Timeout` after `FmuAccepts`), and with `LooseAcks` an ACK of an earlier command
may be taken for this one, since the sender compares the command and component only.

*Abstraction.*  `Executor` knows requests only: `unmade`, `open`, or the result
their callback was called with; whether the vehicle is armed; and whether the
executor is in charge or about to give the charge up.  `ImplementsExecutor` maps
`issued` and `answers` to the outcome of each request and the three steps of
`callOnDeactivate()` to `leaving`; `armed` and `inCharge` are the executor's own.
A disciplined user cannot see more: where a callback is stored, that a command is on
its way, and which call is nested in which are gone in `Executor`, and the steps of
the FMU and of the mode are stutters.  What it says that the invariants do not: a
new scheduling ends the open one in the step that makes it, a wait is never refused,
a refused command never reports `Success` later, a reported arming or disarming is
true at that moment, and from the loss of charge to `onDeactivate()` the only thing
a user sees is that every open request is cancelled.

### MissionExecutor

One ROS callback is a run of nested calls, and the stack `todo` is what is left
of it: calls still to be made (`mode`, `action`, `item`, `stored`, `abort`,
`call`) and the rests of functions behind a call (`begin`, `hold`, `flying`,
`aborted`).  A library step takes the first frame and puts the calls it makes in
its place, so the order of calls and of assignments around them is the code's.
When `todo` is empty the callback is over and a mode may complete, a timer
expire, a waypoint be reached, the FMU take the charge away or the process die.

A completion callback is a *closure*: what it does (`next`, `segment`,
`resumed`, `navigate`), whether the `ActionHandler` it captured is still valid,
and the index it remembers.  An abort or a deactivation makes every live closure
invalid, as they share the handler that `invalidateActionHandler()` marks.

`stored`, `keeper` and `nextId` are `_state.continuous_actions`, the
`ActionStateKeeper` of each continuous action and `_next_continuous_action_id`;
`file` is the persistent file.  Waypoints are indices, settings a flag
(`options`: differ from the mission's defaults).  The mode executor below appears
through what `ModeExecutor` says of it: `scheduleMode()` replaces the mode
scheduled before, fails at once or calls back later, and a deactivation ends it.
Two history variables are not in the code: `aborted` (aborted since activation)
and `asked` (the settings in effect by the mission's own items).

Custom actions of the user are external: `CustomRuns` completes at once, later,
after setting another index, or runs into an abort and completes nevertheless;
`CameraRuns` is a continuous action that stores its state.

*Abstraction.*  `Mission` knows the mission, the index, a phase and what is saved.
`ImplementsMission` reads the phase off the closures: a mission is `resuming` while
one that precedes the items (`begin`, `resumed`, `navigate`) is live on the stack or
in anything it waits for, and `running` after that; it is `aborted` from the call of
`abort()` on, also while the abort is still on the stack.  Modes, timers, answers,
stored states and most steps of the stack are gone: they are stutters.  What it says
that the invariants do not: an item is left for the one after it, one at a time and
only while running, not while resuming, after an abort or after a deactivation; only
a custom action goes elsewhere; a landing is skipped only while resuming; an abort
leaves the index where it is and for good; only the last item ends the mission; and
a process that sets a mission goes on at an index that was saved for this mission, or
at its start.

### VehicleCommandSender

A call `k` of `sendCommandSync()` has a signature (command and source component),
a number of tries and an outcome; `running` and `phase` say what each object does.
Senders of one `Thread` exclude each other, senders of two do not.  `link` holds
commands on their way, `acks` the ACK topic in order: the oldest ACK reaches any
subset of the subscribed calls and overwrites their queue of depth 1, so it may be
lost, late, or meet the wrong call.  `Expire` may happen with an ACK in the queue,
since the loop looks at the time first.  `effects` and `fate` are the history of
what the FMU did, `rivals` of the calls of the same signature whose ACK may have
come while a call ran.  `ImplementsCommand` refines `Command` by the identity on
`sig`, `outcome`, `effects` and `fate`.

### Registration

`stage` is where the blocking constructor is; `part` is the executor or mode that
it registers, `tries` the iterations of the running loop.  The static result of
the compatibility check is `compatible`.  Each subscription has a queue of depth 1
that replies to *another process of the same name* reach as well.  The FMU grants
a request a new slot or the one an earlier try of it got; requests and replies are
lost or late.  Overrides are one value per part.

What may differ between the node and the FMU, and what the node checks of it, is
`system`, chosen once: the definition of each topic, the version of the message format
protocol and the API version, each on its own; the parts that skip the compatibility
check (`setSkipMessageCompatibilityCheck()`); and the middleware.  Under Zenoh the
check asks nobody but compares what the ROS graph shows (`CompareGraph`), which may
be of another process, and on ROS 2 Humble (`"untyped"`) it compares nothing.

A node ends in one of two ways.  `Shutdown` comes at any time, also while the
constructor waits: the parts' callbacks before the shutdown unregister them, if rclcpp has
such callbacks (`PreShutdown`), and the context is invalid after it, so that
`DoUnregister` forgets that a part is registered and publishes nothing.  `Leave` and
`Destroy` are the destructors, which unregister only in a valid context; `Die` is an
exception of the constructor that nobody catches, which runs no destructor.  `alive` are
the parts not destroyed, and the history variable `asking` is the part that was
registering in the shutdown.

Names are assumed to fit the messages and `px4_msgs` to be installed, for which the code
returns early; the callbacks and the invalidation of the context are one step; and
there is only the default context.

### HealthAndArmingChecks

Time passes in units of half a second in the runs.  `due` is the time until the
watchdog timer, negative when it is late; `NextCall` is rcl's rule for a late
timer, which keeps its phase.  The thread is in the constructor (up to `MaxStart`),
in another callback (up to `MaxAway`) or spins, and then runs what is ready before
time passes.  `RequestArrives` is a request with or without the bit of this
registration: the FMU may send one flagged request after the registration, and a
rebooted one flags all until it gives the id to somebody else (`IdReused`).

### Mode, Setpoints

`Setpoints` is a table: what a setpoint type configures, its rate, and the sets of
fields its updates give a value.  `Mode` adds types and requirements in the
constructor, registers, and is then activated and deactivated while user code, in
the virtual methods (`frame`) or in callbacks of its own, updates setpoints, changes the
rate and completes.

### SharedSubscription

Nodes and topics are numbers.  `Less` is the code's `Key::operator<`; where it
orders two keys both ways, `std::map` is undefined and a lookup may miss an entry
(`Missed`).  `Used` are the keys of all instances a process has made.  Callbacks are tokens, handles the objects that keep them registered.

### MissionFile

A JSON object is a function from its keys; the level `"mission"` of the file and the
checksum are left out.  `DegToRad` and `RadToDeg` round, as the products of floats in the
code do (coarser, to tenths of a radian), so that neither undoes the other.  A writer truncates the file and completes it later; an inotify event
follows each completed write.  The thread and the ROS thread interleave between
the calls that matter to the other: adding the watch, the first look, events,
the timer's reset, its callback, which cancels and then reads, and the destructor.

### Vtol, NavigationInterfaces, FrameConversion

`Vtol` has clocks that stop above the times they are compared with.  In
`NavigationInterfaces` a number is only missing, NaN or a number, and for a
variance positive or not.  `FrameConversion` works over the integers: a quaternion
stands for its direction, so that a factor 1/sqrt(2) is left out, and angles are degrees.

## 3. Runs

| Run | Question | Bounds |
|---|---|---|
| `exec_requests` | the executor keeps its promise (`ImplementsExecutor`); no callback is lost or dropped (`NoLostRequest`); arming asked for by the executor does not start its mode (`ArmingKeepsModeOff`); requests are answered when it is replaced (`AnsweredWhenReplaced`); executor and mode follow the FMU (`FollowsFmu`) | all calls, two requests, `ActivateImmediately`, two uncommanded FMU changes, no deferred failsafe and no calls from the owned mode (further hooks for the user: `exec_any_user` has them, and section 5 has every user), fairness |
| `exec_any_user` | one answer per request (`AtMostOneAnswer`), mode only when selected (`ModeOnlyWhenSelected`) for a user who calls from everywhere and overwrites waits | all calls, two requests, `ActivateOnlyWhenArmed`, misattributed ACKs, deferred failsafes, calls from the owned mode, completions of a mode that is not active, one uncommanded FMU change |
| `mission_flow` | the mission does what `Mission` promises of its place (`ImplementsMission`); it waits for exactly one thing (`OneContinuation`), for nothing after an abort (`AbortEndsMission`), flies in its own mode (`FliesInOwnMode`); nested aborts are bounded and unwind (`AbortsNested`) | missions of 5 and 4 items and an invalid one, two stops, every mode may fail, saves may fail, an `onFailure` that may fail again, aborts nested up to a bound of 5 |
| `mission_live` | keepers remove their own state only (`KeepersOwnState`), settings survive (`SettingsKept`), takeoff comes first (`NoFlightFromGround`), a mission left alone ends (`MissionEnds`) | three missions of 5 to 8 items, three stops, restarts, restored actions and users that abort, fairness |
| `command_sender` | an answer belongs to its command (`AnswerBelongs`), the sender does what `Command` promises (`ImplementsCommand`), a call comes back (`CallReturns`) | two senders in two threads, two commands, two calls, two tries, fairness |
| `node_start` | a slot of its own (`OwnSlot`), only what passed the checks that apply to it (`CompatibleOnly`), a node that runs has all its parts and what is destroyed was given back (`AllOrNothing`), the constructor ends (`StartupEnds`) | two parts, two topics, two tries, three slots, another process of the same name, nine systems in which either version, a definition, the skipping parts or the middleware differ, a shutdown at any time, fairness |
| `node_parts` | the parts below, one per behaviour (`chosen`) | see the table below |
| `exec_reschedule` | *violation* of `StoredCallbackIsCalled`: a callback that is told `Deactivated` schedules again, and is overwritten | three requests |
| `exec_switch_back` | *violation* of `AnsweredWhenSwitchedBack`: a quick switch back to the owned mode goes unnoticed | one request, fairness |
| `mission_abort_stored` | *violation* of `AbortEndsMission`: an abort by a restored action does not stop the mission | two stops |
| `mission_settings_restart` | *violation* of `SettingsKept`: ids of stored states collide after a restart | three stops |
| `watchdog_start` | *violation* of `LiveFmuKeepsProcess`: a constructor longer than the watchdog's period | 7.5 s in the constructor |

`NodeParts` puts parts that do not interact into one state machine: the initial
state chooses a part, and only that one moves.  `MCNodeParts` gives its constants
values, and TLC checks there that they satisfy what the theorems assume
(`PartsAssumption`).

| Part | Properties | Bounds |
|---|---|---|
| checks | `LiveFmuKeepsProcess`, `LostFmuEndsProcess` | a period of 8 units, requests every unit, callbacks of up to 2, a constructor of up to 7 |
| shared | `OneInstance`, `InOrderOfRegistration` | two nodes, two topics, so that keys in every order occur; three instances with three callbacks each, five in all |
| mode | `ConfigurationFitsSetpoint`, `ControlsOnlyWhatItRequires`, `TimerFollowsRate` | modes of up to two of five setpoint types, which cover every level of control, two rates |
| mission file | `LatestLoaded`, `RoundTrip` | three writes of five documents, three of them invalid or empty |
| vtol | `TransitionHappens` | two changes of mind, one fallback |
| navigation | `PublishedUsable` | three fields of the local interface, one of them the attitude, two of the global one, all frames and values |
| frames | `ConversionsAgree` | 81 quaternions, two points, seven yaws, three rates; section 5 has every value |

**Why the bounds are enough.**  The executor has two slots and compares only the
last status with the one before, so two requests fill or replace every slot and a
third is needed for a request in the callback of a replaced one.  Two FMU changes
cover a take-over and its return.  (For the number of requests and of FMU changes
the main results about requests are proved in general, see section 5.)  For missions, a *stop* is a deactivation, a crash, a reset, a
jump or a lost position: two give an interrupted resume, three an interruption,
a restart and an interrupted resume.  The missions have each kind of item before
and after a waypoint segment, a segment of two waypoints, a last item that is a
waypoint and one that is an action.  The code bounds nested aborts by 10; a bound of
5 is reached and exceeded in the same way, and section 5 has every bound.

For commands, one late ACK and one call it may meet are two calls, and two tries
have one repetition.  For a node, a part that fails after one that is registered
takes two parts; a late response takes two topics; the safety of both holds for
all numbers (section 5).  A shared subscription needs three callbacks for one that
is destroyed in the middle of a delivery, and two nodes and two topics for keys that
`Key::operator<` does not order.  Two setpoint types are one to switch from
and one to switch to.  Three writes are one before the watch, one between event
and read, and one after.  For the watchdog, 8, 1 and 2 units satisfy `Timely`: two requests
and two callbacks fit in a period.

Deadlock is not checked: with the bounds on requests, FMU changes and stops used
up the system may rest, as the program does when nobody sends anything.

**Fairness.**  `ModeExecutor`: weak fairness of the library's steps and of user
code returning (the ROS executor serves every ready callback, `sendCommandSync`
has a timeout) and of `FmuPublishes` (`VehicleStatus` is periodic).  No fairness of
FMU changes, user calls, ACKs or `ModeCompleted`, which may be lost.
`MissionExecutor`: weak fairness of the steps of the running callback, of timers,
of the own mode's activation, and of modes, custom actions and waypoints coming to
their end: `MissionEnds` is about a vehicle that flies.  Nothing that stops a
mission is fair.  `VehicleCommandSender` and `Registration`: weak fairness of the
steps of the blocking loops and of their timeouts, of nothing else; no message has
to arrive.  `Vtol`: the mode is updated, the FMU publishes its state and ends a
transition (weak), and of commands sent again and again it takes one (strong
fairness, since each single one may be lost).

## 4. Findings

Each violation run states what a comment, a document or a test says and shows a
behaviour of the code that does otherwise.

1. *`exec_reschedule`*: `scheduleMode()` cancels the mode scheduled before; its
   callback schedules again; the outer call stores its callback over that one
   (an assertion fails in a debug build, a callback is lost otherwise).
2. *`exec_switch_back`*: the switch back into the owned mode is only noticed if a
   status with the scheduled mode was handled in between.
3. *`mission_abort_stored`*: `onActivate()` runs the current item after
   `runStoredActions()` although a restored action has aborted; a few lines above
   the same situation is checked for the user's callback.
4. *`mission_settings_restart`*: restored states are numbered from 0 while the id
   counter starts at 0 as well; `onResume`'s state replaces another's.
5. *`watchdog_start`*: the watchdog timer runs from the constructor on, in which the
   registration may block for longer than its period of 4 s (it waits up to 15 s
   for the FMU).  When the thread spins at last, the late timer fires with the
   component registered and clears the flag; it keeps its phase, so it fires again
   after the rest of the period, which may be shorter than the time to the next
   request, and ends the process.

Seen in the models and not stated as violations of their own:

* `SharedSubscription`'s `Key::operator<` is no strict weak order: of (node 1, topic
  2) and (node 2, topic 1) each is less than the other.  In a process that uses both, a
  lookup may miss an entry and a second instance be made, against "Maintain a single
  instance per node and topic name" (`shared_subscription.hpp:97`).  So the comment's
  claim, `SingleInstance`, does not hold of the instance in `node_parts`: subscribe to
  (1, 2), to (2, 1) and to (1, 2) again.  What `node_parts` checks and section 5
  proves, `OneInstance`, is the claim under the condition it needs: that the keys the
  process has used are ordered, which they are for one node or one topic.
* `isFrameValid()` does not look at the attitude, which is in the pose frame, so that an
  attitude is published in an unknown frame: `local_position_measurement_interface.hpp:78`
  says that the frame of every value given is known.  The attitude is among the fields of
  `node_parts`, and `PublishedUsable` excepts it from the known frame and from nothing else.
* A part whose request is on its way when the context is shut down, and one that is
  registered when an uncaught "Registration failed" ends the process, keep their slot at the
  FMU.  `AllOrNothing` names the first as its exception and speaks of parts that are
  destroyed, so that the second is outside of it.
* A mission that is written and read again may get another checksum, since a heading rate
  goes through two products of floats that do not undo each other; its progress is then
  taken for that of another mission.  `RoundTrip` says what is kept.
* A callback that destroys its own `SharedSubscription` handle erases the element
  `onUpdate()` is at.
* Once the FMU has rebooted and given the registration id to another component,
  the watchdog of the first one is satisfied again.

For these the documentation does not say what is intended:

* A `ModeCompleted` of an earlier run of a mode that is still queued completes a
  new scheduling of the mode; the message names the mode only.
* When the mode change in `runTrajectory()` fails, it aborts inside the call, and
  the item state is set to `Trajectory` afterwards.
* `abort()` deactivates the actions while the mission is active, which erases the
  states of continuous actions; a mission resumed later flies without its settings.
* `resetMission()` leaves the persistent file, and a file of an earlier
  interruption survives until the next deactivation.
* When `onResume`'s state is stored twice without a resume in between, the older
  one is used.
* A landed state that is not recent counts as being in the air, so that a mission
  resumed on the ground does not take off first (`LandedKnown` is `{TRUE}` in
  `mission_live`).

## 5. Proofs

`ModeExecutorProofs` proves, for every set of modes, every set of calls and
callbacks of the user, and every bound (from `ExecutorAssumption` only):

* `TypeCorrect`: `Spec => []TypeOK`.
* `AnsweredAtMostOnce`: `Spec => []AtMostOneAnswer`.  *Invariant*: `Inv1` adds
  `OneHolder`: a request is in at most one of the slots, in none while its command
  is being sent or before it is issued, and what is in a slot or being sent has not
  been answered.  Without it nothing rules out that a callback is called from a
  slot after it was called at once by a failed send.
* `RequestsAreNotLost`: for a *disciplined* user (`OneWait`, and no request from a
  callback that is told `Deactivated`), `[]NoLostRequest`.  *Invariant*: `Inv2`
  adds `FreeSlot`: only the innermost frame can be sending, and the slot in which it
  will store its callback is free.  This is where discipline is needed: the slot is
  emptied before the send, and the callback called for that must not fill it.  Run
  `exec_reschedule` shows that the discipline cannot be dropped.
* `SlotsAreEmptiedByCalling`: for the same user, a stored callback leaves its slot
  only by being called, which is what the assertions in `activate()` require.
* `ExecutorKeepsPromise`: for the same user, `ImplementsExecutor`.  *Invariant*: `Inv3`
  adds that each slot holds requests of its kind (`KindInv`) and that while
  `callOnDeactivate()` runs no other code does and the slots are emptied one after the
  other (`LeaveInv`).  With `NoLostRequest`, what is open is then exactly what the slots
  hold whenever nothing is being sent (`OpenIsHeld`): a scheduling cancels what is
  open because it cancels its slot, and nothing is open when the charge is given up.
  Each step that calls a callback is an `Answer` (`AnswerPromised`) or a `Cancel`
  (`CancelPromised`), each API call a `Schedule` or `Wait` (`ApiCallPromised`), and
  whatever leaves requests, charge and arming alone a stutter (`UnseenStep`).
* `NothingPendingOutOfCharge`: for a user who makes requests only while the
  executor is in charge (`RequestsInCharge`), `[]PendingOnlyInCharge`: for other users,
  that a charge is given up with nothing open follows from `ImplementsExecutor`.
* `ModeRunsOnlySelected`: `[]ModeOnlyWhenSelected`, for every user.
* `ArmingDoesNotStartMode`: `ArmingKeepsModeOff`, an action property, for an executor
  whose mode runs only while armed (`~ActivateWhileDisarmed`).

Each inductive step is split by the disjuncts of `Next`.  Steps that leave requests
and slots alone (`Quiet`, `OtherSteps`) are settled by one lemma; the work is in
`ApiCall`, `SendReturns` and the steps that empty a slot (`EmptiedInv`).

`MissionExecutorProofs`, `MissionExecutorStatesProofs` and `MissionProofs` prove, from
`MissionAssumption` only, for every set of missions, every number of stops, every
outcome of the user's actions and callbacks and every depth of nested aborts:

| Theorem | Property | Invariant | Under |
|---|---|---|---|
| `TypeCorrect` | `TypeOK` | `CoreInv` | |
| `AbortLevelCounts` | `AbortsNested` | `CoreInv` | |
| `WaitsForOne` | `OneContinuation` | `CalmInv` | |
| `AbortsForGood` | `AbortEndsMission` | `AbortInv` | no restored action aborts (`"abort" \notin StoredOutcomes`) |
| `FliesOnlyInOwnMode` | `FliesInOwnMode` | `FlightInv` | |
| `KeepersOwnTheirStates` | `KeepersOwnState` | `KeepInv` | |
| `SettingsAreKept` | `SettingsKept` | `SettingsInv` | the user's `onResume` stores no state (`OnResume # "storing"`) |
| `MissionKeepsPromise` | `ImplementsMission` | `PlaceInv` | no restored action aborts (`"abort" \notin StoredOutcomes`) |
| `TakesOffBeforeFlight` | `NoFlightFromGround` | `GroundInv` | missions and a user as in `TakesOffFirst` (below) |

The conditions on restored aborts and on `onResume` cannot be dropped:
`mission_abort_stored` and `mission_settings_restart` are the runs that show the
code failing without them.  Those of `TakesOffFirst` are explained below.

*The argument.*  The difficulty is that a property about the moments between
callbacks depends on what is left to do within one.  So the invariants speak of the
stack `todo`:

* `CoreInv`: a *token* is what carries the mission on: a frame that will run the
  current item, or a closure whose handler is still valid.  On the stack only the last
  frame can hold it (`Shape`), and if one does, nothing the mission waits for does;
  of the four things it can wait for (mode, timer, action, trajectory) at most
  one does (`OneToken`).  The level is the number of rests of aborts on the stack.
  An inactive mission has no token, which is why every deactivation has to
  invalidate the handler.
* `CalmInv`: as long as the mission was not aborted there *is* a token, and while it
  waits for something the stack holds only calls that cannot take the wait away.
  `CoreInv` and `CalmInv` give `OneContinuation`: at most one and at least one.
* `AbortInv`: an aborted mission has no token.  It needs that no item lies below a
  call that may abort, which a restored action breaks.
* `FlightInv`: `activeMode` is the mode of the FMU or none; a trajectory is only
  below the call that makes the own mode active, or after it.
* `KeepInv`: a mission that resumes (closures `begin`, `resumed`) has empty keepers,
  and one that has resumed (`next`, `segment`) has its keepers in one-to-one
  correspondence with what is stored.  The restored actions in between stand in the
  stack above the item, so the phase can be read off the token.
* `SettingsInv`: the settings asked for differ from the default exactly if they are
  stored or about to be restored, in the process and in the file
  (`SettingsAsked`, `SettingsSaved`), and every item runs with them (`Applied`).
* `PlaceInv` (`PlaceHolds`): what runs is the item at the index.  An action whose closure is
  `next` is that item, and a trajectory that is flown for a segment is at the index, which a completion
  relies on when it moves on from `index` and not from what it was started with.  Beside it, a
  mission is valid exactly if `Mission` may run it, and only a configured file is written.
* `GroundInv`: an item may be run in the air, or where a takeoff precedes the next
  waypoint (`Ready`).  So the closure of a takeoff is always good to call, since the vehicle
  is in the air when the mode completes, and the closure of any other mode is called only
  after an item, with the next one ready: a mission that was not aborted lands for an
  item only.  The closures of timers, actions and trajectories wait in the air or with the
  next item ready, and each frame of the stack is run where its item may be (`Clear`).
  `landed` changes only between callbacks, and with it what may be run; the steps
  that land are the completions of landing modes and what a pilot does while the mission
  is interrupted, from which `onResume` brings it back with a takeoff or past the landing.

`NoFlightFromGround` speaks of trajectories flown in the own mode: when the mode cannot be
scheduled for a trajectory, the abort within `runTrajectory()` schedules RTL, after
which `runTrajectory()` sets the state to Trajectory all the same; the
vehicle then lands with that state left behind, and no waypoint is flown.

`TakesOffFirst` names what the code leaves to its users, and `NoFlightFromGround` fails
without any one of these:

* a takeoff stands before the first waypoint and between a landing and the next
  waypoint (`TakesOff`): the code does not add one to `<<"waypoint">>`;
* `onResume` is one of the two kinds that call `resumeFromUnexpectedLanding()`
  (`OnResume # "none"`), it has a recent landed state (`LandedKnown = {TRUE}`: an
  old one counts as in the air, see section 4) and no action claims to resume
  on its own after a landing (`Resumable = {}`);
* no custom action sets the index (`"jump"`): after a landing it could step over the
  takeoff that follows;
* no restored action aborts: as in `AbortEndsMission`, the mission goes on below the abort's
  landing.

That it holds for every such mission, depth of aborts, failing mode and number of
interruptions is what the run `mission_live` cannot show.

Every step is either one whose first frame has no token (`QuietSteps`), one that passes
the token on (`TokenSteps`), an abort (`AbortResult`), `StoredRun`, or something
that comes between callbacks.  The first two lemmas say of all such steps
what the later invariants need, so that `CalmInv`, `AbortInv` and `FlightInv` are
proved from them without looking at the actions again.  In the refinement, a step
without the token stutters or aborts (`QuietStages`), one that passes it on leaves the phase
or lets the mission go on (`StageMoves`), and the index changes in three ways only
(`IndexMoves`).  That a live closure is the only one (`OneToken`) is what makes
the phase a function of the state: without it one closure could resume while another runs.
A restored action that aborts breaks the refinement as it breaks `AbortEndsMission`.  `InOrderLists` shows that
the list of stored states, whose order is defined by counting smaller ids, lists
each state once.

`VehicleCommandSenderProofs`, from `SenderAssumption`, for any number of senders,
threads, commands, calls and tries:

* `TypeCorrect`, `AnswersBelong`: `[]TypeOK`, `[]AnswerBelongs`.  *Invariant*: a
  running call has a signature and is open, and runs in one sender (`RunInv`); calls
  not issued have left no trace (`IssuedInv`); a command on its way was published by
  its call and its try has had no effect (`LinkInv`); every ACK, on its way or in a
  queue, was preceded by an action of its fate (`AckInv`); and an ACK on its way or in a
  queue that matches a running call is of the call itself or of one of its `rivals`
  (`RivalInv`).
  The last is the point: a fresh subscription per call is what keeps older ACKs out.
* `SenderImplementsCommand`: `ImplementsCommand`, step by step, with the same invariant:
  `Publish` and the network's own steps stutter, `FmuActs` is `Act` since the try is
  new, `TakeAck` is `Answer` since the ACK is backed.

`RegistrationProofs`, from `RegistrationAssumption`, for any number of parts, topics,
tries and slots: `TypeCorrect`, `SlotsAreOwn` (`OwnSlot`), `OnlyCompatible`
(`CompatibleOnly`), `RegisteredWholeOrNot` (`AllOrNothing`).  *Invariant*: `SlotInv` says
that a successful reply, on its way or in a queue, names a slot granted to its
request, that a slot granted is held by the request, and hence by no other;
`CompatInv` that the topics before the current one compared equal unless a
mismatch is noted, that a comparison with the FMU that succeeds found what it looked for,
and that the stages after the check are reached by a part that skips it or with
`compatible` only.  A part that skips the check leaves `compatible` as it is, which is why
the next one still checks.  `DoneInv` says that the parts before the current one have an id and
are set up, and that an override not yet published is pending.  The rest is about the way back:
after a shutdown nothing that concerns a part is in the air but for the one that asked
(`AskInv`: requests, replies, and what its subscription holds), and what has an id is
registered or was unregistered, while the context is valid; after it, with callbacks
before the shutdown, it was unregistered or asked in it (`BackInv`).  `AllOrNothing`
follows from `DoneInv` and `BackInv`, and the exceptions it states are those of the code.

`HealthAndArmingChecksProofs`, from `TimeAssumption`: `TypeCorrect`, for all times;
`WatchdogSound`, which says `LiveFmuKeepsProcess` under `Timely` (two requests and
two callbacks fit in a period, and the constructor is over when the timer is due); and
`WatchdogEndsProcess`, which says `LostFmuEndsProcess` for callbacks no longer than a
period, whatever the length of the constructor.
*Invariant of the first*: `TimerInTime` bounds how late the timer is by where the thread is, and
`TakenInTime` says that while the flag is cleared the next valid request, at most two
intervals away, is taken before the timer is due.  `watchdog_start` shows that the second half of `Timely` cannot be dropped.
*Invariant of the second*: `LossCounted`, the time since the loss, the rest of the period and
the reprieves are three periods at most.  A set flag is a reprieve of one period, a
request that counts as valid and is not yet taken another.

`NodePartsProofs` proves of the conversions, without assumptions, over all integers:
`AttitudesAgree`, `YawsAgree`, `RatesAgree`, `BackAndForth`, `VariancesAgree`.  It
proves of each other part alone, and then, since a step of `NodeParts` is one
of the part or changes nothing of it (`PartsAreTheirs`), of the part in a node:

| Theorem | Property | Part alone | Invariant |
|---|---|---|---|
| `PartsTypeCorrect` | `PartsTypeOK` | `ModeTypeCorrect`, `SharedTypeCorrect`, `FileTypeCorrect`, `VtolTypeCorrect`, `NavigationTypeCorrect` | the type invariant |
| `TimerHasRate` | `TimerFollowsRate` | `ModeTimerHasRate` | `TimerKept` |
| `ConfigurationFits`, `ControlsRequired` | `ConfigurationFitsSetpoint`, `ControlsOnlyWhatItRequires` | `ModeConfigurationFits`, `ModeControlsRequired` | `ConfigurationKept` |
| `InstancesAreShared` | `OneInstance` | `SharedInstances` | `HandlesKept`, `DeliveryKept` |
| `DeliveredInOrder` | `InOrderOfRegistration` | `SharedDelivery` | the same |
| `FileIsLoaded` | `LatestLoaded` | `FileLoaded` | `MonitorKept` |
| `MissionsRoundTrip` | `RoundTrip` | `FileRoundTrip` | the type invariant |
| `MeasurementsUsable` | `PublishedUsable` | `NavigationUsable` | `PublishedGiven` |
| `ConversionsAreConsistent` | `ConversionsAgree` | the five above | `Sampled` |

They assume what `PartsAssumption` says of the constants: setpoint types are among the
fourteen of the library; a document that parses has items that are objects and is
written as something that is neither an absent nor a partial file; the measurement interfaces have fields; yaws are multiples of 90
degrees; `None` is none of the values it stands beside.

* *Mode.*  `TypesConfigured` goes through the fourteen setpoint types: each has one of
  four rates, and no update gives a field its configuration does not enable.
  `ConfigurationKept`: exactly one type of a registered mode is active, the one
  configured last; the last setpoint was of this type, and what any type of the mode
  needs has been required.  `TimerKept`: the timer is off or has the mode's rate, also
  within a callback; only in `onActivate()`, its first update and `onDeactivate()`
  may it not fit `_is_active`, and these know which way that has changed.
* *Shared subscriptions.*  `HandlesKept`: a handle is held for exactly the callbacks of
  an instance, and the next token is larger than all of them.  `DeliveryKept`: tokens
  called are in order, and a callback that is due was called or waits with a token
  larger than those called.  `OneInstance` looks at the keys used so far only, and since these are never
  fewer later (`UsedGrows`) it is inductive: while they are ordered, no lookup misses.
  `SingleOfOneNode` is the claim without that condition for the processes that have one node
  or use one topic, whose keys are always ordered (`KeysOrdered`); for others see section 4.
* *Mission file.*  `MonitorKept`: `LatestLoaded`, which is nearly inductive, and that
  the directory is watched as soon as the thread looks for the file, and that the
  timer is armed while its callback begins.  The round trip is proved item by item
  (`ActionRoundTrip`, `WaypointRoundTrip`, `OptionsRoundTrip`): what is read again has the
  same items, the same options and the same velocities.  Of a heading rate only that it
  is there again is claimed, since its value is rounded.
* *Navigation.*  `PublishedGiven`: what is published was given by the last update.  The
  frame is known for the position and the velocity given, not for an attitude.
* *VTOL.*  Its type invariant says that the integrator of the back transition stays
  within its limit, however late an update comes (`IntegratorLimited`).

Model-checked only:

* all liveness (`AnsweredWhenReplaced`, `FollowsFmu`, `MissionEnds`, `CallReturns`, `StartupEnds`,
  `TransitionHappens`): fairness and `ENABLED` are beyond the prover;
* what a recursive definition computes: induction theorems take an operator as
  parameter, which the provers cannot instantiate.  Where a proof needs the least
  element of a set of numbers it takes it from `WFMin` (lemma `Least`).

## 6. Not modelled

`PROJECT.json` has the reason for each component.  In the modelled ones these are
left out:

* `deferFailsafesSync()`, whose inner wait takes statuses from the executor.
* Of the mission executor: progress and readiness reports and activity info, actions
  that are not ready, and custom trajectories other than `onResume`'s.
* The numbers: distances and headings, values of setpoints, the control law of back
  transitions, geodesics and Euler angles are floating-point computations.  Data
  of messages is abstracted to what the conditions look at.
* Object lifetimes: the destruction of an executor with requests pending, of a
  callback by itself.
* Of the end of a node: a process that is killed while it runs, and contexts other than
  the default one.
* What a restored action asks for: `SettingsKept` counts it as asked for by the mission, so
  it finds settings that are lost, not settings added by a restore.
* Subscriptions that keep the last message (odometry, vehicle state), the Python
  bindings, examples, scripts and the JSON library.

## 7. Plan

What is left: `deferFailsafesSync()` as a further blocking call of `ModeExecutor`.
