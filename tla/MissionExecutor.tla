--------------------------- MODULE MissionExecutor ---------------------------
(***************************************************************************)
(* MissionExecutor (mission/mission_executor.cpp) with its default actions *)
(* (mission/actions/default_actions.cpp) and the waypoint trajectory       *)
(* executor.  The mode executor below it appears through what it promises: *)
(* scheduleMode() replaces the scheduling before, fails at once or calls   *)
(* its callback later, and onActivate() and onDeactivate() bracket the     *)
(* time in charge (see ModeExecutor).                                      *)
(*                                                                         *)
(* One ROS callback is a run of nested calls.  "todo" is what is left of   *)
(* it: a stack of frames, each a call still to be made or the rest of a    *)
(* function behind a call.  A step of the library runs the first frame and *)
(* puts the calls it makes in its place.  When todo is empty the callback  *)
(* is over and the next one may come.                                      *)
(*                                                                         *)
(* A completion callback is a closure [k, valid, prev, fail]: what it does *)
(* (k), whether the ActionHandler it holds is still valid, the index it    *)
(* remembers, and what follows when the mode fails.                        *)
(***************************************************************************)
EXTENDS Integers, Sequences, FiniteSets

CONSTANTS
  Missions,        \* the missions the user may set
  OnResume,        \* the onResume action: "none", "default" or "storing"
  OnFailure,       \* the onFailure action: "none", "default" or "custom"
  FailingModes,    \* modes whose command or execution may fail
  CustomOutcomes,  \* what the custom action does when it runs
  StoredOutcomes,  \* what the continuous action does when it is restored
  Resumable,       \* actions with supportsResumeFromLanded()
  LandedKnown,     \* whether the landed state is recent enough to be used
  Persistence,     \* a persistence file is configured
  SaveResults,     \* how writing the file ends
  UserAborts,      \* the user may call abort()
  PositionLost,    \* the global position may become invalid
  MaxLevel,        \* the bound on nested aborts (10 in the code)
  MaxStops         \* bound: deactivations, crashes, resets and jumps

Modes   == {"own", "Loiter", "Rtl", "Land", "Takeoff", "Descend"}
NoMode  == "unknown"
NoIndex == -1
NoId    == -1
Actions == {"takeoff", "rtl", "land", "hold", "settings", "reset", "custom", "camera"}
Items   == Actions \cup {"waypoint", "undefined"}
Restorable == {"settings", "camera"}
Continuous == Restorable \cup {"onResume"}

ASSUME MissionAssumption ==
  /\ Missions \subseteq Seq(Items)
  /\ OnResume \in {"none", "default", "storing"}
  /\ OnFailure \in {"none", "default", "custom"}
  /\ FailingModes \subseteq Modes
  /\ CustomOutcomes \subseteq {"done", "later", "abort", "jump"}
  /\ StoredOutcomes \subseteq {"done", "abort"}
  /\ Resumable \subseteq Actions
  /\ LandedKnown \subseteq BOOLEAN
  /\ Persistence \in BOOLEAN
  /\ SaveResults \subseteq {"saved", "unopened", "unwritten"}
  /\ UserAborts \in BOOLEAN /\ PositionLost \in BOOLEAN
  /\ MaxLevel \in Nat /\ MaxStops \in Nat

VARIABLES
  mission, valid,      \* _mission and _has_valid_mission
  active,              \* _is_active
  itemState,           \* _mission_item_state
  activeMode,          \* _active_mode
  index,               \* _state.current_index
  stored,              \* _state.continuous_actions: names by id
  nextId,              \* _next_continuous_action_id
  keeper,              \* the ActionStateKeeper each continuous action holds
  options,             \* _trajectory_options differ from the mission's defaults
  traj,                \* WaypointTrajectoryExecutor
  sched,               \* the mode scheduled with the mode executor
  timer,               \* the Hold action's timer
  later,               \* the callback the custom action will call
  level,               \* _abort_recursion_level
  todo,                \* the rest of the running callback
  file,                \* the persistence file
  nav, ownActive,      \* the FMU's mode, and whether the own mode is active
  landed,              \* what the FMU reports
  aborted, asked,      \* history: aborted since activation, what the settings
                       \* should be: "default", "changed", or "given up" by an abort
  stops                \* deactivations, crashes, resets and jumps so far

missionVars == <<mission, valid>>
stateVars   == <<index, stored, nextId, keeper>>
runVars     == <<active, itemState, activeMode, options, level>>
pendingVars == <<traj, sched, timer, later>>
worldVars   == <<nav, ownActive, landed>>
historyVars == <<aborted, asked>>
vars == <<missionVars, stateVars, runVars, pendingVars, worldVars, historyVars,
          file, stops, todo>>

-----------------------------------------------------------------------------
(* Closures, frames and the stack.                                         *)

Nothing == [k |-> "nothing", valid |-> TRUE, prev |-> NoIndex, fail |-> "abort"]
Closure(k) == [Nothing EXCEPT !.k = k]

NoTraj  == [at |-> NoIndex, end |-> NoIndex, options |-> FALSE, done |-> Nothing]
NoSched == [mode |-> NoMode, done |-> Nothing]

Frame(op, arg, done) == [op |-> op, arg |-> arg, done |-> done]
Call(done)      == Frame("call", "", done)
RunMode(m, done) == Frame("mode", m, done)
RunAction(name, done) == Frame("action", name, done)
RunItem         == Frame("item", "", Nothing)
RunStored       == Frame("stored", "", Nothing)
Abort           == Frame("abort", "", Nothing)

Idle    == todo = <<>>
Top(op) == ~Idle /\ Head(todo).op = op /\ active
Arg     == Head(todo).arg
Done    == Head(todo).done
Then(frames) == todo' = frames \o Tail(todo)

Len0      == Len(mission)
Item(i)   == mission[i + 1]
IndexValid(i) == i >= 0 /\ i < Len0
Waypoints == {i \in 0 .. Len0 - 1 : Item(i) = "waypoint"}

\* What the callback of runMode() does with a failure.
ModeFailed(done) ==
  CASE done.fail = "abort"   -> <<Abort>>
    [] done.fail = "descend" -> IF done.valid
                                THEN <<RunMode("Descend", [done EXCEPT !.fail = "ignore"])>>
                                ELSE <<>>
    [] OTHER -> <<>>

-----------------------------------------------------------------------------
(* Continuous actions and the persistent state.                            *)

With(id, name)  == [i \in DOMAIN stored \cup {id} |-> IF i = id THEN name ELSE stored[i]]
Without(f, ids) == [i \in DOMAIN f \ ids |-> f[i]]

\* handler->storeState(), and the assignment to the action's ActionStateKeeper,
\* whose old value removes its state (only while the mission is active).
StoreState(name) ==
  /\ nextId' = nextId + 1
  /\ keeper' = [keeper EXCEPT ![name] = nextId]
  /\ stored' = Without(With(nextId, name),
                       IF active THEN {keeper[name]} \ {nextId} ELSE {})

\* Mutant: actions that hold on to their keepers.
KeepersHeld == keeper

\* deactivate() of the actions, which drop their keepers.
Dropped == [n \in Continuous |-> IF n = "onResume" THEN keeper[n] ELSE NoId]

\* Names in the order of their ids.
InOrder(f) ==
  LET rank(i) == Cardinality({j \in DOMAIN f : j <= i})
  IN  [n \in 1 .. Cardinality(DOMAIN f) |-> f[CHOOSE i \in DOMAIN f : rank(i) = n]]

NoFile  == [mission |-> <<>>, index |-> NoIndex, actions |-> <<>>, asked |-> "default"]
Garbage == [NoFile EXCEPT !.index = 0]

\* Mutant: toJson() without the actions.
SavedWithoutActions(st) == [mission |-> mission, index |-> index, actions |-> <<>>, asked |-> asked]

Saved(st) == [mission |-> mission, index |-> index, actions |-> InOrder(st), asked |-> asked]

Completions ==
  [k : {"nothing", "next", "resumed", "navigate"}, valid : BOOLEAN, prev : Int,
   fail : {"abort"}]
Closures ==
  Completions
  \cup [k : {"failure"}, valid : BOOLEAN, prev : Int, fail : {"abort", "descend", "ignore"}]
Segments == [k : {"segment"}, valid : BOOLEAN, prev : Int, fail : {"abort"}]
Begins   == [k : {"begin"}, valid : BOOLEAN, prev : Int, fail : {"abort"}]

Frames ==
  [op : {"mode"}, arg : Modes \ {"own"}, done : Closures]
  \cup [op : {"mode"}, arg : {"own"}, done : {Nothing}]
  \cup [op : {"action"}, arg : Actions \cup {"onResume", "onFailure"}, done : Completions]
  \cup [op : {"begin"}, arg : {"start", "resume"}, done : Begins]
  \cup [op : {"call"}, arg : {""}, done : Closures]
  \cup [op : {"hold"}, arg : {""}, done : Completions]
  \cup [op : {"restore"}, arg : Restorable, done : {Nothing}]
  \cup [op : {"item", "stored", "abort", "aborted", "flying"}, arg : {""}, done : {Nothing}]

Asked == {"default", "changed", "given up"}
Files == [mission : Seq(Items), index : Int, actions : Seq(Continuous), asked : Asked]

TypeOK ==
  /\ mission \in Missions \cup {<<>>} /\ valid \in BOOLEAN
  /\ active \in BOOLEAN
  /\ itemState \in {"Trajectory", "Other"}
  /\ activeMode \in Modes \cup {NoMode}
  /\ index \in NoIndex .. Len0
  /\ IsFiniteSet(DOMAIN stored) /\ DOMAIN stored \subseteq Nat
  /\ stored \in [DOMAIN stored -> Continuous]
  /\ nextId \in Nat
  /\ keeper \in [Continuous -> Nat \cup {NoId}]
  /\ options \in BOOLEAN
  /\ traj \in [at : Int, end : Int, options : BOOLEAN, done : Completions \cup Segments]
  /\ traj.at \in NoIndex .. traj.end
  /\ sched \in [mode : Modes \cup {NoMode}, done : Closures]
  /\ timer \in Completions /\ later \in Completions
  /\ level \in 0 .. MaxLevel + 1
  /\ todo \in Seq(Frames)
  /\ Idle \/ active
  /\ file \in Files
  /\ nav \in Modes /\ ownActive \in BOOLEAN /\ landed \in BOOLEAN
  /\ aborted \in BOOLEAN /\ asked \in Asked
  /\ stops \in 0 .. MaxStops

Memory ==
  /\ mission = <<>> /\ valid = FALSE
  /\ active = FALSE
  /\ itemState = "Other" /\ activeMode = NoMode
  /\ index = NoIndex /\ stored = <<>> /\ nextId = 0
  /\ keeper = [n \in Continuous |-> NoId]
  /\ options = FALSE
  /\ traj = NoTraj /\ sched = NoSched /\ timer = Nothing /\ later = Nothing
  /\ level = 0 /\ todo = <<>>
  /\ ownActive = FALSE
  /\ aborted = FALSE /\ asked = "default"

Init == Memory /\ file = NoFile /\ nav = "Loiter" /\ landed = TRUE /\ stops = 0

-----------------------------------------------------------------------------
(* The API of MissionExecutor, called between callbacks.                   *)

\* Mutant: persisted progress that is used for any mission.
SetMissionAnyFile(m) ==
  /\ Idle /\ ~active
  /\ mission' = m
  /\ valid' = (m # <<>> /\ \A i \in DOMAIN m : m[i] # "undefined")
  /\ index' = IF file.index \in 0 .. Len(m) - 1 THEN file.index ELSE NoIndex
  /\ stored' = <<>> /\ asked' = "default"
  /\ UNCHANGED <<nextId, keeper, runVars, pendingVars, worldVars, aborted, file,
                 stops, todo>>

\* setMission() with tryLoadPersistentState().
SetMission(m) ==
  /\ Idle /\ ~active
  /\ mission' = m
  /\ valid' = (m # <<>> /\ \A i \in DOMAIN m : m[i] # "undefined")
  /\ IF Persistence /\ file.mission = m /\ file.index \in 0 .. Len(m) - 1
     THEN /\ index' = file.index
          /\ stored' = [i \in 0 .. Len(file.actions) - 1 |-> file.actions[i + 1]]
          /\ asked' = file.asked
     ELSE /\ index' = NoIndex
          /\ stored' = <<>>
          /\ asked' = "default"
  /\ UNCHANGED <<nextId, keeper, runVars, pendingVars, worldVars, aborted, file,
                 stops, todo>>

\* Mutant: resetMission() that does not reset the state.
ResetKeepsState ==
  /\ Idle /\ ~active
  /\ mission # <<>>
  /\ stops < MaxStops /\ stops' = stops + 1
  /\ mission' = <<>> /\ valid' = FALSE
  /\ UNCHANGED <<index, stored, nextId, keeper, runVars, pendingVars, worldVars,
                 historyVars, file, todo>>

ResetMission ==
  /\ Idle /\ ~active
  /\ mission # <<>>
  /\ stops < MaxStops /\ stops' = stops + 1
  /\ mission' = <<>> /\ valid' = FALSE
  /\ index' = NoIndex /\ stored' = <<>>
  /\ asked' = "default"
  /\ UNCHANGED <<nextId, keeper, runVars, pendingVars, worldVars, aborted, file,
                 todo>>

\* abort()
UserAbort ==
  /\ Idle /\ active /\ UserAborts
  /\ todo' = <<Abort>>
  /\ UNCHANGED <<missionVars, stateVars, runVars, pendingVars, worldVars,
                 historyVars, file, stops>>

-----------------------------------------------------------------------------
(* onActivate() and onDeactivate().                                        *)

\* The user selects the mission mode while armed.
Activate ==
  /\ Idle /\ ~active
  /\ active' = TRUE
  /\ nav' = "own"
  /\ itemState' = "Other" /\ activeMode' = "own"
  /\ options' = FALSE
  /\ aborted' = FALSE
  /\ IF valid
     THEN /\ index' = IF index = NoIndex THEN 0 ELSE index
          /\ asked' = IF index = NoIndex THEN "default" ELSE asked
          /\ todo' \in {<<Frame("begin", IF index = NoIndex THEN "start" ELSE "resume",
                                Closure("begin"))>>}
                       \* the user's onActivated callback calls abort()
                       \cup {<<Abort, Frame("begin", "resume", Closure("begin"))>> :
                             a \in {TRUE} \cap {UserAborts}}
     ELSE todo' = <<Abort>> /\ UNCHANGED <<index, asked>>
  /\ UNCHANGED <<missionVars, stored, nextId, keeper, level, pendingVars,
                 ownActive, landed, file, stops>>

\* The rest of onActivate(), after the user's callback.
Begin ==
  /\ Top("begin")
  /\ IF ~Done.valid
     THEN Then(<<>>) /\ UNCHANGED stored
     ELSE IF OnResume = "none" \/ Arg = "start"
     THEN Then(<<RunStored, RunItem>>) /\ UNCHANGED stored
     ELSE LET kept == {i \in DOMAIN stored : stored[i] = "onResume"}
          IN  \* getOnResumeStateAndClear()
              /\ stored' = Without(stored, {i \in kept : \A j \in kept : i <= j})
              /\ Then(<<RunAction("onResume", [Closure("resumed") EXCEPT !.prev = index])>>)
  /\ UNCHANGED <<missionVars, index, nextId, keeper, runVars, pendingVars,
                 worldVars, historyVars, file, stops>>

\* Mutant: a handler that is replaced but not set invalid.
StillValid(c) == c

Invalid(c)     == IF c = Nothing THEN c ELSE [c EXCEPT !.valid = FALSE]
WithInvalid(f) == [f EXCEPT !.done = Invalid(f.done)]

\* invalidateActionHandler(): the closures that hold the handler are still
\* called, and find it invalid.
InvalidateRest ==
  /\ traj' = WithInvalid(traj)
  /\ later' = Invalid(later)

Finished(known) ==
  \/ landed /\ known /\ index = Len0 - 1
  \/ index >= Len0

\* The FMU takes the executor's charge away: onDeactivate(), after which the
\* mode follows the same VehicleStatus.
Deactivate(mode, known, result) ==
  /\ Idle /\ active
  /\ stops < MaxStops /\ stops' = stops + 1
  /\ nav' = mode /\ ownActive' = FALSE
  /\ active' = FALSE
  /\ sched' = NoSched /\ timer' = Nothing
  /\ InvalidateRest
  /\ IF Finished(known) /\ index # NoIndex
     THEN /\ index' = NoIndex /\ stored' = <<>> /\ asked' = "default"
          /\ file' = NoFile
          /\ keeper' = Dropped
          /\ UNCHANGED nextId
     ELSE LET storing == OnResume = "storing"
              st == IF storing THEN With(nextId, "onResume") ELSE stored
          IN  /\ stored' = st
              /\ nextId' = IF storing THEN nextId + 1 ELSE nextId
              /\ keeper' = IF storing THEN [Dropped EXCEPT !["onResume"] = nextId]
                                      ELSE Dropped
              /\ file' = IF ~Persistence THEN file
                         ELSE IF ~IndexValid(index) THEN NoFile
                         ELSE CASE result = "saved"     -> Saved(st)
                                [] result = "unopened"  -> file
                                [] result = "unwritten" -> Garbage
              /\ UNCHANGED <<index, asked>>
  /\ UNCHANGED <<missionVars, itemState, activeMode, options, level, landed,
                 aborted, todo>>

\* The process ends at any point between callbacks, or while it writes the
\* file, and is started again.
Crash ==
  /\ Idle
  /\ stops < MaxStops /\ stops' = stops + 1
  /\ mission' = <<>> /\ valid' = FALSE /\ active' = FALSE
  /\ itemState' = "Other" /\ activeMode' = NoMode
  /\ index' = NoIndex /\ stored' = <<>> /\ nextId' = 0
  /\ keeper' = [n \in Continuous |-> NoId]
  /\ options' = FALSE /\ level' = 0 /\ ownActive' = FALSE
  /\ traj' = NoTraj /\ sched' = NoSched /\ timer' = Nothing /\ later' = Nothing
  /\ aborted' = FALSE /\ asked' = "default"
  /\ file' \in {file} \cup {Garbage : x \in {TRUE} \cap {active /\ Persistence}}
  /\ UNCHANGED <<nav, landed, todo>>

-----------------------------------------------------------------------------
(* Running items, modes, trajectories and actions.                         *)

\* runTrajectory(): the frames that follow the assignment of "traj".
Fly(from, to, done) ==
  /\ traj' = [at |-> from, end |-> to, options |-> options, done |-> done]
  /\ Then((IF activeMode = "own" THEN <<>> ELSE <<RunMode("own", Nothing)>>)
          \o <<Frame("flying", "", Nothing)>>)

SegmentEnd(i) == CHOOSE e \in i .. Len0 - 1 :
  /\ i .. e \subseteq Waypoints
  /\ e + 1 \notin Waypoints

\* runCurrentMissionItem()
ItemRuns ==
  /\ Top("item")
  /\ \/ /\ ~IndexValid(index)
        /\ Then(IF activeMode = "own" \/ index = NoIndex
                THEN <<RunMode("Loiter", Nothing)>> ELSE <<>>)
        /\ UNCHANGED traj
     \/ /\ index \in Waypoints
        /\ Fly(index, SegmentEnd(index), Closure("segment"))
     \/ /\ IndexValid(index) /\ index \notin Waypoints
        /\ Then(<<RunAction(Item(index), Closure("next"))>>)
        /\ UNCHANGED traj
  /\ UNCHANGED <<missionVars, stateVars, runVars, sched, timer, later, worldVars,
                 historyVars, file, stops>>

\* The end of runTrajectory()
Flying ==
  /\ Top("flying")
  /\ itemState' = "Trajectory"
  /\ Then(<<>>)
  /\ UNCHANGED <<missionVars, stateVars, active, activeMode, options, level,
                 pendingVars, worldVars, historyVars, file, stops>>

\* Mutant: runMode() that does not note the active mode.
ModeNotNoted ==
  /\ Top("mode")
  /\ itemState' = "Other"
  /\ nav' = Arg
  /\ sched' = [mode |-> Arg, done |-> Done]
  /\ Then(<<>>)
  /\ UNCHANGED <<missionVars, stateVars, active, activeMode, options, level, traj,
                 timer, later, ownActive, landed, historyVars, file, stops>>

\* runMode() and runModeTakeoff(): scheduleMode() cancels the mode scheduled
\* before.  A refused or unanswered command may still have been executed.
ModeRuns ==
  /\ Top("mode")
  /\ itemState' = "Other"
  /\ \/ /\ activeMode' = Arg
        /\ nav' = Arg
        /\ sched' = [mode |-> Arg, done |-> Done]
        /\ Then(<<>>)
     \/ /\ Arg \in FailingModes
        /\ activeMode' = NoMode
        /\ nav' \in {nav, Arg}
        /\ sched' = NoSched
        /\ Then(ModeFailed(Done))
  /\ UNCHANGED <<missionVars, stateVars, active, options, level, traj, timer,
                 later, ownActive, landed, historyVars, file, stops>>

\* run() of an action, called by runAction() or, past it, by runStoredActions().
Action(name) ==
  /\ Top("action") \/ Top("restore")
  /\ Arg = name
  /\ itemState' = IF Top("action") THEN "Other" ELSE itemState

Unmoved == UNCHANGED <<missionVars, active, activeMode, level, traj, sched, timer,
                       worldVars, aborted, file>>

ModeOf == [rtl |-> "Rtl", land |-> "Land", takeoff |-> "Takeoff"]

ModeActionRuns ==
  /\ \E name \in DOMAIN ModeOf :
       Action(name) /\ Then(<<RunMode(ModeOf[name], Done)>>)
  /\ Unmoved
  /\ UNCHANGED <<stateVars, options, later, asked, stops>>

HoldRuns ==
  /\ Action("hold")
  /\ Then(<<RunMode("Loiter", Nothing), Frame("hold", "", Done)>>)
  /\ Unmoved
  /\ UNCHANGED <<stateVars, options, later, asked, stops>>

\* Mutant: a timer that does not call on_completed.
HoldForgets ==
  /\ Top("hold")
  /\ Then(<<>>)
  /\ UNCHANGED <<missionVars, stateVars, runVars, pendingVars, worldVars,
                 historyVars, file, stops>>

\* The rest of Hold::run()
HoldStarts ==
  /\ Top("hold")
  /\ timer' = Done
  /\ Then(<<>>)
  /\ UNCHANGED <<missionVars, stateVars, runVars, traj, sched, later, worldVars,
                 historyVars, file, stops>>

ChangeSettingsRuns ==
  /\ \/ /\ Action("settings")
        /\ StoreState("settings")
        /\ options' = TRUE /\ asked' = "changed"
     \/ /\ Action("reset")
        /\ stored' = Without(stored, {keeper["settings"]})
        /\ keeper' = [keeper EXCEPT !["settings"] = NoId]
        /\ options' = FALSE /\ asked' = "default"
        /\ UNCHANGED nextId
  /\ Then(<<Call(Done)>>)
  /\ Unmoved
  /\ UNCHANGED <<index, later, stops>>

\* A custom continuous action.
CameraRuns ==
  /\ Action("camera")
  /\ \/ StoreState("camera") /\ Then(<<Call(Done)>>)
     \/ /\ Top("restore") /\ "abort" \in StoredOutcomes
        /\ Then(<<Abort>>)
        /\ UNCHANGED <<stored, nextId, keeper>>
  /\ Unmoved
  /\ UNCHANGED <<index, options, later, asked, stops>>

\* A custom action: it completes at once, later, after setting another index,
\* or runs into an abort and completes nevertheless.
CustomRuns(outcome) ==
  /\ Action("custom")
  /\ outcome \in CustomOutcomes
  /\ later' = IF outcome = "later" THEN Done ELSE later
  /\ Then(CASE outcome = "later" -> <<>>
            [] outcome = "abort" -> <<Abort, Call(Done)>>
            [] OTHER             -> <<Call(Done)>>)
  /\ IF outcome = "jump"
     THEN index' \in 0 .. Len0 - 1 /\ stops < MaxStops /\ stops' = stops + 1
     ELSE UNCHANGED <<index, stops>>
  /\ Unmoved
  /\ UNCHANGED <<stored, nextId, keeper, options, asked>>

\* Mutant: an onResume action that does not look at the landed state.
OnResumeIgnoresLanding(known) ==
  /\ Action("onResume")
  /\ Then(<<Call(Done)>>)
  /\ Unmoved
  /\ UNCHANGED <<stateVars, options, later, asked, stops>>

\* OnResume::run("resume") with resumeFromUnexpectedLanding()
OnResumeRuns(known) ==
  /\ Action("onResume")
  /\ \/ /\ index = 0 \/ ~(landed /\ known) \/ Item(index) \in Resumable
        /\ Then(<<Call(Done)>>)
        /\ UNCHANGED index
     \/ /\ index # 0 /\ landed /\ known /\ Item(index) \notin Resumable
        /\ \/ /\ Item(index) \in {"rtl", "land"}
              /\ index' = (index + 1) % Len0
              /\ Then(<<Call(Done)>>)
           \/ /\ Item(index) \notin {"rtl", "land"}
              /\ Then(IF \E i \in 0 .. index - 1 : Item(i) = "takeoff"
                      THEN <<RunAction("takeoff", [Done EXCEPT !.k = "navigate"])>>
                      ELSE <<Call(Done)>>)
              /\ UNCHANGED index
  /\ Unmoved
  /\ UNCHANGED <<stored, nextId, keeper, options, later, asked, stops>>

\* OnFailure::run(); a custom one may fail again
OnFailureRuns ==
  /\ Action("onFailure")
  /\ \/ Then(<<RunMode("Rtl", [Closure("failure") EXCEPT !.fail = "descend"])>>)
     \/ OnFailure = "custom" /\ Then(<<Abort>>)
  /\ Unmoved
  /\ UNCHANGED <<stateVars, options, later, asked, stops>>

\* runStoredActions(): onResume was applied earlier.
StoredRun ==
  /\ Top("stored")
  /\ stored' = <<>>
  /\ Then(LET names == InOrder(Without(stored, {i \in DOMAIN stored : stored[i] = "onResume"}))
          IN  [i \in DOMAIN names |-> Frame("restore", names[i], Nothing)])
  /\ UNCHANGED <<missionVars, index, nextId, keeper, runVars, pendingVars,
                 worldVars, historyVars, file, stops>>

\* abort(): the handler is replaced, the actions are deactivated and onFailure
\* runs, unless aborts are nested too deeply.
Aborts ==
  /\ Top("abort")
  /\ aborted' = TRUE /\ asked' = "given up"
  /\ InvalidateRest
  /\ sched' = WithInvalid(sched)
  /\ LET rest == [i \in DOMAIN Tail(todo) |-> WithInvalid(Tail(todo)[i])]
     IN  IF level > MaxLevel
         THEN /\ todo' = rest
              /\ timer' = Invalid(timer)
              /\ UNCHANGED <<stored, keeper, level>>
         ELSE /\ timer' = Nothing
              /\ stored' = Without(stored, {keeper[n] : n \in Restorable})
              /\ keeper' = Dropped
              /\ level' = level + 1
              /\ todo' = (IF OnFailure = "none" THEN <<>> ELSE <<RunAction("onFailure", Nothing)>>)
                         \o <<Frame("aborted", "", Nothing)>> \o rest
  /\ UNCHANGED <<missionVars, index, nextId, active, itemState, activeMode, options,
                 worldVars, file, stops>>

\* Mutant: an abort that leaves its level behind.
AbortKeepsLevel ==
  /\ Top("aborted")
  /\ Then(<<>>)
  /\ UNCHANGED <<missionVars, stateVars, runVars, pendingVars, worldVars,
                 historyVars, file, stops>>

AbortReturns ==
  /\ Top("aborted")
  /\ level' = level - 1
  /\ Then(<<>>)
  /\ UNCHANGED <<missionVars, stateVars, active, itemState, activeMode, options,
                 pendingVars, worldVars, historyVars, file, stops>>

-----------------------------------------------------------------------------
(* The completion callbacks.                                               *)

\* Mutant: after a changed index nothing is run.
ResumedStalls ==
  IF Done.prev = index
  THEN /\ Then(<<RunStored, RunItem>>)
       /\ UNCHANGED <<stored, asked>>
  ELSE /\ Then(<<>>)
       /\ stored' = <<>> /\ asked' = "default"

\* The rest of resuming, when onResume has completed.
Resumed ==
  IF Done.prev = index
  THEN /\ Then(<<RunStored, RunItem>>)
       /\ UNCHANGED <<stored, asked>>
  ELSE /\ Then(<<RunItem>>)
       /\ stored' = <<>> /\ asked' = "default"

\* navigateToPreviousWaypoint(), when the takeoff has completed.
Navigates ==
  IF \E i \in Waypoints : i < Done.prev
  THEN Fly(0, 0, [Done EXCEPT !.k = "resumed"])
  ELSE /\ Then(<<Call([Done EXCEPT !.k = "resumed"])>>)
       /\ UNCHANGED traj

CallRuns ==
  /\ Top("call")
  /\ CASE Done.valid /\ Done.k = "next" ->
            /\ index' = index + 1
            /\ Then(<<RunItem>>)
            /\ UNCHANGED <<stored, asked, traj>>
       [] Done.valid /\ Done.k = "resumed" ->
            Resumed /\ UNCHANGED <<index, traj>>
       [] Done.valid /\ Done.k = "navigate" ->
            Navigates /\ UNCHANGED <<index, stored, asked>>
       [] OTHER ->
            Then(<<>>) /\ UNCHANGED <<index, stored, asked, traj>>
  /\ UNCHANGED <<missionVars, nextId, keeper, runVars, sched, timer, later,
                 worldVars, aborted, file, stops>>

\* updateSetpoint() of the own mode, when a waypoint is reached: the executor
\* moves on before it calls on_index_reached.
WaypointReached ==
  /\ Idle /\ ownActive /\ itemState = "Trajectory"
  /\ traj.at # NoIndex
  /\ LET last == traj.at = traj.end
         segment == traj.done.k = "segment"
     IN  /\ traj' = [traj EXCEPT !.at = IF last THEN NoIndex ELSE traj.at + 1]
         /\ index' = IF segment /\ traj.done.valid THEN traj.at + 1 ELSE index
         /\ todo' = CASE ~last -> <<>>
                      [] last /\ ~segment -> <<Call(traj.done)>>
                      [] last /\ segment /\ traj.done.valid -> <<RunItem>>
                      [] OTHER -> <<>>
  /\ UNCHANGED <<missionVars, stored, nextId, keeper, runVars, sched, timer,
                 later, worldVars, historyVars, file, stops>>

\* updateSetpoint() without a valid global position
PositionInvalid ==
  /\ PositionLost
  /\ Idle /\ ownActive /\ itemState = "Trajectory"
  /\ traj.at # NoIndex
  /\ stops < MaxStops /\ stops' = stops + 1
  /\ todo' = <<Abort>>
  /\ UNCHANGED <<missionVars, stateVars, runVars, pendingVars, worldVars,
                 historyVars, file>>

\* ModeCompleted for the scheduled mode.  The own mode never completes.
ModeCompletes(ok) ==
  /\ Idle /\ active
  /\ sched.mode \notin {NoMode, "own"}
  /\ sched' = NoSched
  /\ \/ /\ ok
        /\ todo' = <<Call(sched.done)>>
        /\ landed' = CASE sched.mode = "Takeoff" -> FALSE
                       [] sched.mode \in {"Rtl", "Land", "Descend"} -> TRUE
                       [] OTHER -> landed
        /\ UNCHANGED activeMode
     \/ /\ ~ok /\ sched.mode \in FailingModes
        /\ activeMode' = NoMode
        /\ todo' = ModeFailed(sched.done)
        /\ UNCHANGED landed
  /\ UNCHANGED <<missionVars, stateVars, active, itemState, options, level, traj,
                 timer, later, nav, ownActive, historyVars, file, stops>>

\* The Hold action's timer
TimerExpires ==
  /\ Idle /\ active
  /\ timer # Nothing
  /\ timer' = Nothing
  /\ todo' = <<Call(timer)>>
  /\ UNCHANGED <<missionVars, stateVars, runVars, traj, sched, later, worldVars,
                 historyVars, file, stops>>

\* The custom action calls its callback, also when the mission is no longer active.
LaterCompletes ==
  /\ Idle
  /\ later # Nothing
  /\ later' = Nothing
  /\ todo' = IF active THEN <<Call(later)>> ELSE <<>>
  /\ UNCHANGED <<missionVars, stateVars, runVars, traj, sched, timer, worldVars,
                 historyVars, file, stops>>

\* A VehicleStatus makes the own mode active or inactive; while another mode is
\* scheduled it is not activated.
StatusUpdate ==
  /\ Idle /\ active
  /\ ownActive' = (nav = "own" /\ (ownActive \/ sched.mode \in {NoMode, "own"}))
  /\ ownActive' # ownActive
  /\ UNCHANGED <<missionVars, stateVars, runVars, pendingVars, nav, landed,
                 historyVars, file, stops, todo>>

\* A pilot lands or takes off while the mission is not active.
LandedChanges ==
  /\ Idle /\ ~active
  /\ landed' = ~landed
  /\ UNCHANGED <<missionVars, stateVars, runVars, pendingVars, nav, ownActive,
                 historyVars, file, stops, todo>>

-----------------------------------------------------------------------------
(* The specification.                                                      *)

\* What the running callback does next.
Step ==
  \/ Begin
  \/ ItemRuns
  \/ Flying
  \/ ModeRuns
  \/ ModeActionRuns
  \/ HoldRuns
  \/ HoldStarts
  \/ ChangeSettingsRuns
  \/ CameraRuns
  \/ \E outcome \in CustomOutcomes : CustomRuns(outcome)
  \/ \E known \in LandedKnown : OnResumeRuns(known)
  \/ OnFailureRuns
  \/ StoredRun
  \/ Aborts
  \/ AbortReturns
  \/ CallRuns

\* What answers the mission's requests.
Answers ==
  \/ WaypointReached
  \/ ModeCompletes(TRUE)
  \/ TimerExpires
  \/ LaterCompletes
  \/ StatusUpdate

\* What the user, the pilot and bad luck do.
Interference ==
  \/ \E m \in Missions : SetMission(m)
  \/ ResetMission
  \/ UserAbort
  \/ Activate
  \/ \E mode \in {"own", "Loiter"}, known \in LandedKnown, result \in SaveResults :
       Deactivate(mode, known, result)
  \/ Crash
  \/ PositionInvalid
  \/ ModeCompletes(FALSE)
  \/ LandedChanges

Next == Step \/ Answers \/ Interference

Spec == Init /\ [][Next]_vars

\* The node's executor spins, modes complete, timers expire, waypoints are
\* reached and VehicleStatus arrives; nobody has to interfere.
Fairness ==
  /\ WF_vars(Step)
  /\ WF_vars(WaypointReached)
  /\ WF_vars(ModeCompletes(TRUE))
  /\ WF_vars(TimerExpires)
  /\ WF_vars(LaterCompletes)
  /\ WF_vars(StatusUpdate)

FairSpec == Spec /\ Fairness

-----------------------------------------------------------------------------
(* Properties.                                                             *)

\* What may still carry the mission on: the callbacks of the scheduled mode,
\* of the timer, of the custom action and of the trajectory.
Continues(c) == c.valid /\ c.k # "nothing" /\ c.k # "failure"
Continuations ==
  (IF Continues(sched.done) THEN {"mode"} ELSE {})
  \cup (IF Continues(timer) THEN {"timer"} ELSE {})
  \cup (IF Continues(later) THEN {"custom"} ELSE {})
  \cup (IF itemState = "Trajectory" /\ traj.at # NoIndex /\ Continues(traj.done)
        THEN {"trajectory"} ELSE {})

\* A running mission waits for exactly one thing: it neither stalls with
\* nothing left to call it nor runs two items at once
\* (runCurrentMissionItem() and the completion callbacks of the actions).
OneContinuation ==
  Idle /\ active /\ valid /\ ~aborted /\ IndexValid(index)
    => Cardinality(Continuations) = 1

\* After an abort nothing carries the mission on: every callback finds its
\* handler invalid (abort(), invalidateActionHandler(), isValid()).
AbortEndsMission ==
  Idle /\ active /\ aborted => Continuations = {}

\* A mission flies a trajectory in its own mode, the mode it believes to be
\* active and the one the FMU is in (runTrajectory(), _active_mode).
FliesInOwnMode ==
  Idle /\ active /\ ~aborted /\ itemState = "Trajectory"
    => activeMode = "own" /\ nav = "own"

\* A waypoint segment is flown with the settings the mission has asked for,
\* unless an abort has given them up, also after an interruption and a restart
\* (ChangeSettings, storeState(), runStoredActions()).
SettingsKept ==
  Idle /\ active /\ itemState = "Trajectory" /\ traj.done.k = "segment"
    => asked = "given up" \/ traj.options = (asked = "changed")

\* A mission that was interrupted by a landing takes off before it flies on in
\* its own mode (OnResume::resumeFromUnexpectedLanding()).
NoFlightFromGround ==
  Idle /\ active /\ nav = "own" /\ itemState = "Trajectory" /\ traj.at # NoIndex => ~landed

\* A continuous action that holds a keeper has its state stored under the
\* keeper's id, and the state of no such action is stored twice, so that a
\* keeper removes its own state and a resumed mission runs every action once
\* (addContinousAction(), removeContinousAction(), runStoredActions()).
KeepersOwnState ==
  /\ active =>
       \A n \in Restorable :
         keeper[n] # NoId => keeper[n] \in DOMAIN stored /\ stored[keeper[n]] = n
  /\ \A i, j \in DOMAIN stored :
       stored[i] = stored[j] => i = j \/ stored[i] = "onResume"

\* Aborts nest no deeper than the bound, the level counts the aborts that are
\* running, and it is back at 0 between callbacks (_abort_recursion_level).
AbortsNested ==
  /\ level = Cardinality({i \in DOMAIN todo : todo[i].op = "aborted"})
  /\ level <= MaxLevel + 1

\* The mission is resumed as long as a callback that precedes its items is due.
Precedes(c) == Continues(c) /\ c.k \in {"begin", "resumed", "navigate"}
Resuming ==
  \/ \E i \in DOMAIN todo : Precedes(todo[i].done)
  \/ Precedes(sched.done) \/ Precedes(timer) \/ Precedes(later)
  \/ traj.at # NoIndex /\ Precedes(traj.done)

Stage ==
  IF ~active THEN "idle"
  ELSE IF aborted \/ Top("abort") THEN "aborted"
  ELSE IF Resuming THEN "resuming" ELSE "running"

RunnableMissions == {m \in Missions : m # <<>> /\ \A i \in DOMAIN m : m[i] # "undefined"}

Promise == INSTANCE Mission WITH
  Runnable <- RunnableMissions,
  Landings <- {"rtl", "land"},
  Jumps    <- {"custom"},
  Unusable <- [mission |-> Garbage.mission, index |-> Garbage.index],
  phase    <- Stage,
  saved    <- [mission |-> file.mission, index |-> file.index]

\* The items come in order, none is left out but by an action that may do so,
\* whatever is aborted, interrupted, answered late or restarted: see Mission
\* (runNextMissionItem(), onActivate(), onDeactivate(), setMission(), abort()).
ImplementsMission == Promise!Spec

\* A mission that is left alone is flown to its end or aborted
\* (runNextMissionItem() to runCurrentMissionItem() past the last item).
MissionEnds ==
  active ~> (~active \/ aborted \/ index >= Len0)

=============================================================================
