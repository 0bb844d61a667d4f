------------------------------ MODULE Setpoints ------------------------------
(***************************************************************************)
(* The setpoint types (control/setpoint_types): what each configures the    *)
(* FMU to control (getConfiguration()), the rate it wants, and what its      *)
(* updates publish.  An update gives some fields a value and leaves the      *)
(* others NaN; a field stands for the control level it needs.               *)
(***************************************************************************)
EXTENDS FiniteSets, Naturals

\* The flags of SetpointBase::Configuration
AllFlags == {"allocation", "rates", "attitude", "altitude", "acceleration",
             "velocity", "position", "climb_rate"}

\* Configuration{}: all but climb_rate_enabled
DefaultFlags == AllFlags \ {"climb_rate"}

\* The field sets an update publishes that always gives some fields, and others
\* when the caller does.
Gives(always, optional) == {always \cup given : given \in SUBSET optional}

\* The structures that with...() functions fill: each of the fields may be set.  An
\* axis stands for its vector, course and airspeed are velocities.
TrajectorySetpoint ==
  SUBSET {"position", "velocity", "acceleration", "attitude", "rates"}

FwLateralLongitudinalSetpoint ==
  SUBSET {"velocity", "acceleration", "altitude", "climb_rate", "allocation"}

\* Heading, speed limits and the heading rate are optional; the limits do not
\* switch a level of control.
MulticopterGotoSetpointType ==
  [flags |-> AllFlags, rate |-> 30, localPositionOptional |-> FALSE,
   updates |-> Gives({"position"}, {"attitude"})]

\* The three update()s: velocity with options, any fields, position
TrajectorySetpointType(optional) ==
  [flags |-> AllFlags, rate |-> 50, localPositionOptional |-> optional,
   updates |-> Gives({"velocity"}, {"acceleration", "attitude", "rates"})
               \cup TrajectorySetpoint \cup {{"position"}}]

\* update() publishes a lateral and a longitudinal setpoint, and limits for them
\* when it is given any.
FwLateralLongitudinalSetpointType ==
  [flags |-> AllFlags, rate |-> 30, localPositionOptional |-> FALSE,
   updates |-> Gives({"altitude", "velocity"}, {"acceleration"})
               \cup Gives({"climb_rate", "velocity"}, {"acceleration"})
               \cup FwLateralLongitudinalSetpoint]

DirectActuatorsSetpointType ==
  [flags |-> {}, rate |-> 200, localPositionOptional |-> FALSE, updates |-> {{}}]

RatesSetpointType ==
  [flags |-> {"allocation", "rates"}, rate |-> 200, localPositionOptional |-> FALSE,
   updates |-> {{"allocation", "rates"}}]

AttitudeSetpointType ==
  [flags |-> {"allocation", "rates", "attitude"}, rate |-> 100,
   localPositionOptional |-> FALSE,
   updates |-> {{"allocation", "attitude"}}]

\* The rover types leave altitude and acceleration enabled.
RoverPositionSetpointType ==
  [flags |-> DefaultFlags, rate |-> 30, localPositionOptional |-> FALSE,
   updates |-> Gives({"position"}, {"velocity", "attitude"})]

RoverSpeedAttitudeSetpointType ==
  [flags |-> DefaultFlags \ {"position"}, rate |-> 30, localPositionOptional |-> FALSE,
   updates |-> {{"velocity", "attitude"}}]

RoverThrottleAttitudeSetpointType ==
  [flags |-> DefaultFlags \ {"position"}, rate |-> 30, localPositionOptional |-> FALSE,
   updates |-> {{"allocation", "attitude"}}]

RoverSpeedRateSetpointType ==
  [flags |-> DefaultFlags \ {"attitude", "position"}, rate |-> 30,
   localPositionOptional |-> FALSE,
   updates |-> {{"velocity", "rates"}}]

RoverThrottleRateSetpointType ==
  [flags |-> DefaultFlags \ {"attitude", "position"}, rate |-> 30,
   localPositionOptional |-> FALSE,
   updates |-> {{"allocation", "rates"}}]

RoverSpeedSteeringSetpointType ==
  [flags |-> DefaultFlags \ {"rates", "attitude", "position"}, rate |-> 30,
   localPositionOptional |-> FALSE,
   updates |-> {{"velocity", "allocation"}}]

RoverThrottleSteeringSetpointType ==
  [flags |-> DefaultFlags \ {"rates", "attitude", "position"}, rate |-> 30,
   localPositionOptional |-> FALSE,
   updates |-> {{"allocation"}}]

AllTypes ==
  [Goto |-> MulticopterGotoSetpointType,
   Trajectory |-> TrajectorySetpointType(FALSE),
   TrajectoryNoPosition |-> TrajectorySetpointType(TRUE),
   FwLateralLongitudinal |-> FwLateralLongitudinalSetpointType,
   DirectActuators |-> DirectActuatorsSetpointType,
   Rates |-> RatesSetpointType,
   Attitude |-> AttitudeSetpointType,
   RoverPosition |-> RoverPositionSetpointType,
   RoverSpeedAttitude |-> RoverSpeedAttitudeSetpointType,
   RoverThrottleAttitude |-> RoverThrottleAttitudeSetpointType,
   RoverSpeedRate |-> RoverSpeedRateSetpointType,
   RoverThrottleRate |-> RoverThrottleRateSetpointType,
   RoverSpeedSteering |-> RoverSpeedSteeringSetpointType,
   RoverThrottleSteering |-> RoverThrottleSteeringSetpointType]
=============================================================================
