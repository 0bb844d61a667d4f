--------------------------------- MODULE Mode ---------------------------------
(***************************************************************************)
(* ModeBase (components/mode.cpp) with its setpoint types                   *)
(* (common/setpoint_base.hpp): registration, activation and deactivation,   *)
(* the setpoint timer, and the setpoint type that is active.  User code runs *)
(* in onActivate(), updateSetpoint() and onDeactivate(), and in callbacks of *)
(* its own, and may call the mode at any of these points.                   *)
(***************************************************************************)
EXTENDS Setpoints, Sequences

CONSTANTS
  TypeNames,     \* the setpoint types used, of DOMAIN AllTypes
  MaxTypes,      \* bound: setpoint types of a mode
  UserRates,     \* rates the user sets
  WhileDisarmed, \* _settings.activate_even_while_disarmed
  None

VARIABLES
  stage,        \* "constructing", "registered" or "failed"
  types,        \* _new_setpoint_types, then _setpoint_types
  active,       \* the types with _active set
  requirements, \* _health_and_arming_checks.modeRequirements()
  configured,   \* the type of the last config_control_setpoints message
  sent,         \* the last setpoint: its type and the fields given
  isActive,     \* _is_active
  completed,    \* _completed
  rate,         \* _setpoint_update_rate_hz
  timer,        \* the rate _setpoint_update_timer was made with, 0 without one
  frame         \* the virtual method that runs, or None

setpointVars == <<types, active, requirements, configured, sent>>
timerVars    == <<rate, timer>>
activeVars   == <<isActive, completed>>
vars == <<stage, frame, setpointVars, timerVars, activeVars>>

Setpoint(t) == AllTypes[t]

Requirements == {"angular_velocity", "attitude", "local_alt", "local_position",
                 "local_position_relaxed", "global_position", "manual_control"}

Frames == {"onActivate", "firstUpdate", "onDeactivate", "updateSetpoint"}

\* The setpoint types are known, rates are numbers and None is not a virtual method.
ModeAssumption ==
  /\ TypeNames \subseteq DOMAIN AllTypes
  /\ UserRates \subseteq Nat
  /\ WhileDisarmed \in BOOLEAN
  /\ None \notin Frames

\* Every variable has the type the code declares.
TypeOK ==
  /\ stage \in {"constructing", "registered", "failed"}
  /\ types \in Seq(TypeNames)
  /\ active \subseteq TypeNames
  /\ requirements \subseteq Requirements
  /\ configured \in TypeNames \cup {None}
  /\ isActive \in BOOLEAN /\ completed \in BOOLEAN
  /\ rate \in Nat /\ timer \in Nat
  /\ frame \in Frames \cup {None}

Init ==
  /\ stage = "constructing"
  /\ types = <<>> /\ active = {} /\ requirements = {}
  /\ configured = None /\ sent = None
  /\ isActive = FALSE /\ completed = FALSE
  /\ rate = 0 /\ timer = 0
  /\ frame = None

Created == {types[i] : i \in 1 .. Len(types)}

-----------------------------------------------------------------------------
(* The constructor and the registration.                                   *)

\* SetpointBase() calls addSetpointType().
AddSetpointType(t) ==
  /\ stage = "constructing"
  /\ Len(types) < MaxTypes
  /\ t \notin Created
  /\ types' = Append(types, t)
  /\ UNCHANGED <<stage, frame, active, requirements, configured, sent, timerVars,
                 activeVars>>

\* A ManualControlInput needs manual control, a global goto a global position.
SetRequirement(flag) ==
  /\ stage = "constructing"
  /\ requirements' = requirements \cup {flag}
  /\ UNCHANGED <<stage, frame, types, active, configured, sent, timerVars, activeVars>>

\* What one setpoint type requires.
RequiredBy(t) ==
  LET flags == Setpoint(t).flags
  IN  (IF "rates" \in flags THEN {"angular_velocity"} ELSE {})
      \cup (IF "attitude" \in flags THEN {"attitude"} ELSE {})
      \cup (IF flags \cap {"altitude", "climb_rate"} # {} THEN {"local_alt"} ELSE {})
      \cup (IF ~Setpoint(t).localPositionOptional
                /\ flags \cap {"velocity", "position"} # {}
            THEN {"local_position"} ELSE {})

\* Mutant: the requirements of the first type only.
RequirementsOfFirst ==
  requirements \cup (IF types = <<>> THEN {} ELSE RequiredBy(types[1]))

\* updateModeRequirementsFromSetpoints(): relaxed accuracy for a manual mode
RequirementsFromSetpoints ==
  LET all == requirements \cup UNION {RequiredBy(t) : t \in Created}
  IN  IF "manual_control" \in all /\ "local_position" \in all
      THEN (all \ {"local_position"}) \cup {"local_position_relaxed"}
      ELSE all

\* setSetpointUpdateRateFromSetpointTypes(), unless the user has set a rate
RegisteredRate ==
  IF rate > 0 THEN rate
  ELSE CHOOSE r \in {Setpoint(t).rate : t \in Created} :
         \A t \in Created : Setpoint(t).rate <= r

\* doRegister(): onAboutToRegister(), and onRegistered() once the FMU has
\* accepted the mode; Registration models what comes in between.
DoRegister ==
  /\ stage = "constructing"
  /\ requirements' = RequirementsFromSetpoints
  /\ IF types = <<>>
     THEN /\ stage' = "failed"
          /\ UNCHANGED <<active, configured, rate>>
     ELSE /\ stage' = "registered"
          /\ active' = {types[1]}
          /\ configured' = types[1]
          /\ rate' = RegisteredRate
  /\ UNCHANGED <<frame, types, sent, timer, activeVars>>

-----------------------------------------------------------------------------
(* What user code calls.                                                   *)

\* Mutant: the other types stay active.
ActivateOnly(t) == active \cup {t}

\* The should-activate callback of a type: it becomes the only active one.
ActivateSetpointType(t) == {t}

\* update() of a setpoint type: onUpdate() first, then the setpoint messages
Update(t, fields) ==
  /\ stage = "registered"
  /\ t \in Created
  /\ fields \in Setpoint(t).updates
  /\ IF t \in active
     THEN UNCHANGED <<active, configured>>
     ELSE active' = ActivateSetpointType(t) /\ configured' = t
  /\ sent' = [type |-> t, fields |-> fields]
  /\ UNCHANGED <<stage, frame, types, requirements, timerVars, activeVars>>

\* updateSetpointUpdateTimer(): an existing timer is kept.
TimerUpdated(on, r, existing) ==
  IF on /\ r > 0 THEN (IF existing = 0 THEN r ELSE existing) ELSE 0

\* Mutant: a running timer keeps its period.
KeepTimer(r) == timer

\* setSetpointUpdateRate() drops the timer, to make one with the new period.
DropTimer(r) == 0

SetSetpointUpdateRate(r) ==
  /\ stage # "failed"
  /\ rate' = r
  /\ timer' = TimerUpdated(isActive, r, DropTimer(r))
  /\ UNCHANGED <<stage, frame, setpointVars, activeVars>>

\* The first call in an activation is reported, others only warn.
Completed ==
  /\ stage = "registered"
  /\ ~completed
  /\ completed' = TRUE
  /\ UNCHANGED <<stage, frame, setpointVars, timerVars, isActive>>

-----------------------------------------------------------------------------
(* What ROS calls.                                                         *)

\* vehicleStatusUpdated(): callOnActivate() or callOnDeactivate() up to the
\* virtual method
VehicleStatusUpdated(selected, armed) ==
  LET on == selected /\ (armed \/ WhileDisarmed)
  IN  /\ stage = "registered" /\ frame = None
      /\ isActive # on
      /\ isActive' = on
      /\ IF on
         THEN frame' = "onActivate" /\ completed' = FALSE
         ELSE frame' = "onDeactivate" /\ UNCHANGED completed
      /\ UNCHANGED <<stage, setpointVars, timerVars>>

\* onActivate() returns: the setpoint is updated at once, when there is a rate.
OnActivateReturns ==
  /\ frame = "onActivate"
  /\ IF rate > 0
     THEN frame' = "firstUpdate" /\ UNCHANGED timer
     ELSE frame' = None /\ timer' = TimerUpdated(isActive, rate, timer)
  /\ UNCHANGED <<stage, setpointVars, rate, activeVars>>

CallReturns ==
  /\ frame \in {"firstUpdate", "onDeactivate"}
  /\ frame' = None
  /\ timer' = TimerUpdated(isActive, rate, timer)
  /\ UNCHANGED <<stage, setpointVars, rate, activeVars>>

TimerFires ==
  /\ frame = None
  /\ timer > 0
  /\ frame' = "updateSetpoint"
  /\ UNCHANGED <<stage, setpointVars, timerVars, activeVars>>

UpdateReturns ==
  /\ frame = "updateSetpoint"
  /\ frame' = None
  /\ UNCHANGED <<stage, setpointVars, timerVars, activeVars>>

Next ==
  \/ \E t \in TypeNames : AddSetpointType(t)
  \/ \E flag \in {"manual_control", "global_position"} : SetRequirement(flag)
  \/ DoRegister
  \/ \E t \in Created : \E fields \in Setpoint(t).updates : Update(t, fields)
  \/ \E r \in UserRates : SetSetpointUpdateRate(r)
  \/ Completed
  \/ \E selected, armed \in BOOLEAN : VehicleStatusUpdated(selected, armed)
  \/ OnActivateReturns \/ CallReturns \/ TimerFires \/ UpdateReturns

Spec == Init /\ [][Next]_vars

-----------------------------------------------------------------------------
\* The configuration the FMU was given last enables all the fields of the
\* setpoint it was sent last, however the user switches between types
\* (activateSetpointType() and the callback of onAboutToRegister()).
ConfigurationFitsSetpoint ==
  sent # None => sent.fields \subseteq Setpoint(configured).flags

\* What a mode controls it has required when it registered, so that it is not
\* flown without the estimate it needs (updateModeRequirementsFromSetpoints()).
ControlsOnlyWhatItRequires ==
  sent # None =>
    /\ "attitude" \in sent.fields => "attitude" \in requirements
    /\ "rates" \in sent.fields => "angular_velocity" \in requirements
    /\ sent.fields \cap {"altitude", "climb_rate"} # {} => "local_alt" \in requirements
    /\ sent.fields \cap {"velocity", "position"} # {} =>
         \/ requirements \cap {"local_position", "local_position_relaxed"} # {}
         \/ Setpoint(sent.type).localPositionOptional

\* Between callbacks the setpoint timer runs exactly when the mode is active
\* and has a rate, and with that rate, also when onActivate(), updateSetpoint()
\* or onDeactivate() have changed it (updateSetpointUpdateTimer()).
TimerFollowsRate == frame = None => timer = (IF isActive THEN rate ELSE 0)
=============================================================================
