--------------------------------- MODULE Vtol ---------------------------------
(***************************************************************************)
(* VTOL (control/vtol.cpp): a mode asks for a transition by calling          *)
(* toFixedwing() or toMulticopter() in each updateSetpoint().  A call sends  *)
(* a command when the state it knows, which may be old, asks for one, and    *)
(* when the last command is some time ago; during a back transition an       *)
(* integrator makes the pitch setpoint.  Time passes in units; the clocks    *)
(* are ages that stop above the times they are compared with.                *)
(***************************************************************************)
EXTENDS Integers

CONSTANTS
  StatusTimeout, \* _config.status_timeout: 5 s
  Spacing,       \* 150 ms
  ResetAfter,    \* 2 s
  Limit,         \* _config.deceleration_integrator_limit
  MaxChanges,    \* bound: how often the mode wants something else
  MaxFaults,     \* bound: transitions the FMU makes on its own
  NaN, None

VtolAssumption ==
  /\ StatusTimeout \in Nat /\ Spacing \in Nat /\ ResetAfter \in Nat
  /\ Limit \in Nat /\ MaxChanges \in Nat /\ MaxFaults \in Nat

\* VTOL::State
States == {"Undefined", "TransitionToFixedWing", "TransitionToMulticopter",
           "Multicopter", "FixedWing"}

VARIABLES
  vehicle,   \* the FMU's state
  faults,
  wanted,    \* what the mode asks for: "FixedWing" or "Multicopter"
  changes,
  called,    \* updateSetpoint() has run in this unit of time
  state,     \* _current_state
  statusAge, \* now - _last_vtol_vehicle_status_received
  sentAge,   \* now - _last_command_sent
  command,   \* on its way to the FMU, or None
  pitchAge,  \* now - _last_pitch_integrator_update
  decelerationError, \* of the last local position, NaN before one came
  integral   \* _decel_error_bt_int

fmuVars   == <<vehicle, faults>>
userVars  == <<wanted, changes, called>>
pitchVars == <<pitchAge, decelerationError, integral>>
vtolVars  == <<fmuVars, userVars, state, statusAge, sentAge, command, pitchVars>>

Ages(limit) == 0 .. limit + 1

TypeOK ==
  /\ vehicle \in States /\ state \in States
  /\ faults \in 0 .. MaxFaults /\ changes \in 0 .. MaxChanges
  /\ wanted \in {"FixedWing", "Multicopter"}
  /\ command \in {"FixedWing", "Multicopter", None}
  /\ called \in BOOLEAN
  /\ statusAge \in Ages(StatusTimeout) /\ sentAge \in Ages(Spacing)
  /\ pitchAge \in Ages(ResetAfter)
  /\ decelerationError \in {-1, 1, NaN}
  /\ integral \in 0 .. Limit   \* a number, whatever local positions come

\* _last_command_sent is the time of the construction, the other times are 0.
Init ==
  /\ vehicle \in {"Undefined", "Multicopter", "FixedWing"} /\ faults = 0
  /\ wanted = "FixedWing" /\ changes = 0 /\ called = FALSE
  /\ state = "Undefined" /\ statusAge = StatusTimeout + 1
  /\ sentAge = 0 /\ command = None
  /\ pitchAge = ResetAfter + 1 /\ decelerationError = NaN /\ integral = 0

-----------------------------------------------------------------------------
(* The mode.                                                               *)

\* The states in which a transition is commanded.
Elsewhere(target) ==
  IF target = "FixedWing" THEN {"Multicopter", "TransitionToMulticopter"}
  ELSE {"FixedWing", "TransitionToFixedWing"}

MayCommand(target) ==
  /\ statusAge < StatusTimeout
  /\ state \in Elsewhere(target)
  /\ sentAge > Spacing

\* Mutant: each call starts the time to the next command again.
AgeAfterCall(sends) == 0

AgeAfter(sends) == IF sends THEN 0 ELSE sentAge

\* toFixedwing() and toMulticopter(): the returned flag tells only whether the
\* state is known.
Transition ==
  /\ called' = TRUE
  /\ command' = IF MayCommand(wanted) THEN wanted ELSE command
  /\ sentAge' = AgeAfter(MayCommand(wanted))
  /\ UNCHANGED <<fmuVars, wanted, changes, state, statusAge, pitchVars>>

Clamp(x) == IF x < 0 THEN 0 ELSE IF x > Limit THEN Limit ELSE x

Integrate(start, dt) ==
  IF decelerationError = NaN THEN start ELSE Clamp(start + decelerationError * dt)

\* computeAccelerationSetpointDuringTransition(): a new transition starts at 0.
ComputePitch ==
  /\ state = "TransitionToMulticopter"
  /\ LET new == pitchAge > ResetAfter
     IN  integral' = Integrate(IF new THEN 0 ELSE integral, IF new THEN 0 ELSE pitchAge)
  /\ pitchAge' = 0
  /\ UNCHANGED <<fmuVars, userVars, state, statusAge, sentAge, command, decelerationError>>

ChangesMind ==
  /\ changes < MaxChanges
  /\ changes' = changes + 1
  /\ wanted' \in {"FixedWing", "Multicopter"} \ {wanted}
  /\ UNCHANGED <<fmuVars, called, state, statusAge, sentAge, command, pitchVars>>

\* The callbacks of the two subscriptions
StatusArrives ==
  /\ state' = vehicle
  /\ statusAge' = 0
  /\ UNCHANGED <<fmuVars, userVars, sentAge, command, pitchVars>>

LocalPositionArrives ==
  /\ decelerationError' \in {-1, 1}
  /\ UNCHANGED <<fmuVars, userVars, state, statusAge, sentAge, command, pitchAge, integral>>

Older(age, limit) == IF age > limit THEN age ELSE age + 1

Tick ==
  /\ called
  /\ called' = FALSE
  /\ statusAge' = Older(statusAge, StatusTimeout)
  /\ sentAge' = Older(sentAge, Spacing)
  /\ pitchAge' = Older(pitchAge, ResetAfter)
  /\ UNCHANGED <<fmuVars, wanted, changes, state, command, decelerationError, integral>>

-----------------------------------------------------------------------------
(* The FMU (external): it takes a command, which may be lost or refused, and *)
(* ends a transition; it may also fall back to the multicopter by itself.    *)

Transitioning(target) ==
  IF target = "FixedWing" THEN "TransitionToFixedWing" ELSE "TransitionToMulticopter"

FmuTakesCommand ==
  /\ command # None
  /\ vehicle' = IF vehicle \in Elsewhere(command) THEN Transitioning(command) ELSE vehicle
  /\ command' = None
  /\ UNCHANGED <<faults, userVars, state, statusAge, sentAge, pitchVars>>

CommandLost ==
  /\ command # None
  /\ command' = None
  /\ UNCHANGED <<fmuVars, userVars, state, statusAge, sentAge, pitchVars>>

FmuArrives ==
  /\ vehicle' = CASE vehicle = "TransitionToFixedWing" -> "FixedWing"
                  [] vehicle = "TransitionToMulticopter" -> "Multicopter"
                  [] vehicle = "Undefined" -> "Multicopter"
                  [] OTHER -> vehicle
  /\ vehicle' # vehicle
  /\ UNCHANGED <<faults, userVars, state, statusAge, sentAge, command, pitchVars>>

FmuFallsBack ==
  /\ faults < MaxFaults
  /\ faults' = faults + 1
  /\ vehicle \in {"FixedWing", "TransitionToFixedWing"}
  /\ vehicle' = "Multicopter"
  /\ UNCHANGED <<userVars, state, statusAge, sentAge, command, pitchVars>>

Next ==
  \/ Transition \/ ComputePitch \/ ChangesMind
  \/ StatusArrives \/ LocalPositionArrives \/ Tick
  \/ FmuTakesCommand \/ CommandLost \/ FmuArrives \/ FmuFallsBack

Spec == Init /\ [][Next]_vtolVars

\* The mode is updated in each unit of time, the FMU publishes its state and
\* takes one of the commands it is sent again and again.
Fairness ==
  /\ WF_vtolVars(Transition) /\ WF_vtolVars(Tick) /\ WF_vtolVars(StatusArrives)
  /\ SF_vtolVars(FmuTakesCommand) /\ WF_vtolVars(FmuArrives)

FairSpec == Spec /\ Fairness

-----------------------------------------------------------------------------
\* A mode that goes on asking for a transition gets it, though commands are lost,
\* the state it knows is old and the FMU falls back (toFixedwing()).
TransitionHappens ==
  \A target \in {"FixedWing", "Multicopter"} :
    <>[](wanted = target) => <>[](vehicle = target)
=============================================================================
