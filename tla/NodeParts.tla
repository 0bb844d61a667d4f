------------------------------ MODULE NodeParts ------------------------------
(***************************************************************************)
(* The parts of a node that do not interact: a behaviour is one of the part  *)
(* that was chosen, and the others stay as they are at first.  The arming   *)
(* checks are extended, the others instances with variables of their own.   *)
(***************************************************************************)
EXTENDS HealthAndArmingChecks, FrameConversion

CONSTANTS
  Parts,    \* the parts that are explored
  None, Absent, Partial, NaN,
  Nodes, Topics, MaxInstances, MaxTokens, MaxCallbacks, \* SharedSubscription
  TypeNames, MaxTypes, UserRates, WhileDisarmed,    \* Mode
  Documents, RelativeName, MaxWrites,               \* MissionFile
  StatusTimeout, Spacing, ResetAfter, Limit, MaxChanges, MaxFaults, \* Vtol
  LocalFields, GlobalFields, CounterSize,           \* NavigationInterfaces
  Attitudes, Points, Yaws, YawRates                 \* what is converted

VARIABLE chosen   \* the part that runs

VARIABLES key, mapped, nextToken, callbacks, handles, message, calledTokens, dueTokens

sharedVars == <<key, mapped, nextToken, callbacks, handles, message, calledTokens, dueTokens>>

Shared == INSTANCE SharedSubscription WITH called <- calledTokens, due <- dueTokens

VARIABLES stage, types, active, requirements, configured, sent, isActive,
          completed, rate, timer, frame

modeVars == <<stage, types, active, requirements, configured, sent, isActive,
              completed, rate, timer, frame>>

Mode == INSTANCE Mode

VARIABLES file, writes, event, watched, watchThread, armed, ros, loaded

fileVars == <<file, writes, event, watched, watchThread, armed, ros, loaded>>

File == INSTANCE MissionFile WITH thread <- watchThread

VARIABLES vehicle, faults, wanted, changes, modeUpdated, state, statusAge, sentAge,
          command, pitchAge, decelerationError, integral

transitionVars == <<vehicle, faults, wanted, changes, modeUpdated, state, statusAge,
                    sentAge, command, pitchAge, decelerationError, integral>>

Vtol == INSTANCE Vtol WITH called <- modeUpdated

VARIABLES interface, poseFrame, velocityFrame, given, updated, measured, counter

measurementVars ==
  <<interface, poseFrame, velocityFrame, given, updated, measured, counter>>

Navigation == INSTANCE NavigationInterfaces WITH published <- measured

VARIABLES attitude, point, yaw, yawRate   \* what is converted

sampleVars == <<attitude, point, yaw, yawRate>>

\* Yaws are in degrees, for which sines and cosines are integers.
SampleAssumption ==
  /\ Attitudes \subseteq Quaternions /\ Points \subseteq Vectors
  /\ \A y \in Yaws : y \in Int /\ y % 90 = 0
  /\ YawRates \subseteq Int

ASSUME PartsAssumption ==
  /\ Mode!ModeAssumption
  /\ Shared!SharedAssumption
  /\ File!FileAssumption
  /\ Vtol!VtolAssumption
  /\ Navigation!NavigationAssumption
  /\ SampleAssumption

-----------------------------------------------------------------------------
\* A part that is not chosen has one initial state.
Still ==
  /\ chosen # "mission file" => file = Absent
  /\ chosen # "vtol" => vehicle = "Undefined"
  /\ chosen # "navigation" =>
       interface = "local" /\ poseFrame = "known" /\ velocityFrame = "known"

SampleInit ==
  IF chosen = "frames"
  THEN attitude \in Attitudes /\ point \in Points /\ yaw \in Yaws /\ yawRate \in YawRates
  ELSE attitude = <<1, 0, 0, 0>> /\ point = <<0, 0, 0>> /\ yaw = 0 /\ yawRate = 0

PartsInit ==
  /\ chosen \in Parts
  /\ Init
  /\ Shared!Init /\ Mode!Init /\ File!Init /\ Vtol!Init /\ Navigation!Init
  /\ SampleInit
  /\ Still

PartsNext ==
  /\ UNCHANGED <<chosen, sampleVars>>
  /\ \/ chosen = "checks" /\ Next
        /\ UNCHANGED <<sharedVars, modeVars, fileVars, transitionVars,
                       measurementVars>>
     \/ chosen = "shared" /\ Shared!Next
        /\ UNCHANGED <<vars, modeVars, fileVars, transitionVars,
                       measurementVars>>
     \/ chosen = "mode" /\ Mode!Next
        /\ UNCHANGED <<vars, sharedVars, fileVars, transitionVars,
                       measurementVars>>
     \/ chosen = "mission file" /\ File!Next
        /\ UNCHANGED <<vars, sharedVars, modeVars, transitionVars,
                       measurementVars>>
     \/ chosen = "vtol" /\ Vtol!Next
        /\ UNCHANGED <<vars, sharedVars, modeVars, fileVars,
                       measurementVars>>
     \/ chosen = "navigation" /\ Navigation!Next
        /\ UNCHANGED <<vars, sharedVars, modeVars, fileVars,
                       transitionVars>>

partsVars == <<chosen, vars, sharedVars, modeVars, fileVars,
               transitionVars, measurementVars, sampleVars>>

PartsSpec ==
  /\ PartsInit /\ [][PartsNext]_partsVars
  /\ (chosen = "vtol") => Vtol!Fairness

-----------------------------------------------------------------------------
\* The type invariants of the parts.
PartsTypeOK ==
  /\ TypeOK
  /\ Shared!TypeOK /\ Mode!TypeOK /\ File!TypeOK
  /\ Vtol!TypeOK /\ Navigation!TypeOK

\* See the modules of the parts.
OneInstance     == Shared!OneInstance
InOrderOfRegistration == Shared!InOrderOfRegistration
ConfigurationFitsSetpoint   == Mode!ConfigurationFitsSetpoint
ControlsOnlyWhatItRequires  == Mode!ControlsOnlyWhatItRequires
TimerFollowsRate == Mode!TimerFollowsRate
LatestLoaded    == File!LatestLoaded
RoundTrip       == File!RoundTrip
PublishedUsable == Navigation!PublishedUsable

TransitionHappens == chosen = "vtol" => Vtol!TransitionHappens

ConversionsAgree ==
  /\ AttitudeAgrees(attitude, point)
  /\ YawAgrees(yaw, point)
  /\ RateAgrees(yaw, yawRate)
  /\ VarianceAgrees(point)
  /\ ThereAndBack(attitude, point, yaw)
=============================================================================
