-------------------------- MODULE NavigationInterfaces --------------------------
(***************************************************************************)
(* LocalPositionMeasurementInterface and GlobalPositionMeasurementInterface *)
(* (navigation/experimental): update() checks a measurement and publishes   *)
(* it or throws.  What a number is does not matter, only whether it is NaN  *)
(* and, for a variance, positive; the fields are optional.                  *)
(***************************************************************************)
EXTENDS Naturals

CONSTANTS
  LocalFields,  \* some of position_xy, position_z, velocity_xy, velocity_z, attitude
  GlobalFields, \* lat_lon, altitude_msl
  CounterSize,  \* 256: _lat_lon_reset_counter is a uint8_t
  None

Values    == {"unset", "nan", "number"}
Variances == {"unset", "nan", "notPositive", "positive"}
Frames    == {"unknown", "known"}

\* The frame a field is in; the variance of a position is horizontal or vertical.
PositionFields == {"position_xy", "position_z"}
VelocityFields == {"velocity_xy", "velocity_z"}

LocalPositionMeasurement ==
  [value : [LocalFields -> Values], variance : [LocalFields -> Variances],
   timestamp : {"zero", "set"}]

GlobalPositionMeasurement ==
  [value : [GlobalFields -> Values], variance : [GlobalFields -> Variances],
   timestamp : {"zero", "set"}]

Measurements == LocalPositionMeasurement \cup GlobalPositionMeasurement

\* LocalPositionMeasurement{}
Empty(fields) ==
  [value |-> [f \in fields |-> "unset"], variance |-> [f \in fields |-> "unset"],
   timestamp |-> "zero"]

VARIABLES
  interface, \* "local" or "global": the object that is looked at
  poseFrame, velocityFrame, \* of a local interface
  given,     \* the measurement the user fills in
  updated,   \* update() was called with it
  published, \* what was published of it, or None when it threw
  counter    \* _lat_lon_reset_counter, which every global message carries

interfaceVars  == <<interface, poseFrame, velocityFrame>>
navigationVars == <<interfaceVars, given, updated, published, counter>>

TypeOK ==
  /\ interface \in {"local", "global"}
  /\ poseFrame \in Frames /\ velocityFrame \in Frames
  /\ given \in Measurements
  /\ updated \in BOOLEAN
  /\ counter \in 0 .. CounterSize - 1

Init ==
  /\ interface \in {"local", "global"}
  /\ poseFrame \in Frames /\ velocityFrame \in Frames
  /\ given = Empty(IF interface = "local" THEN LocalFields ELSE GlobalFields)
  /\ updated = FALSE /\ published = None
  /\ counter = 0

-----------------------------------------------------------------------------
(* The checks, for a measurement m.                                        *)

HasValue(m, f) == m.value[f] # "unset"

isMeasurementNonEmpty(m) == \E f \in DOMAIN m.value : HasValue(m, f)

\* Mutant: the check of a variance that is not given is forgotten.
isVariancePositive(m) ==
  \A f \in DOMAIN m.value : HasValue(m, f) => m.variance[f] # "notPositive"

\* NaN <= 0 is false: a variance that is NaN passes here.
isVarianceValid(m) ==
  \A f \in DOMAIN m.value : HasValue(m, f) => m.variance[f] \notin {"unset", "notPositive"}

\* The attitude is not looked at, though it is in the pose frame: it is published
\* in an unknown one.  A global position has no such field.
isFrameValid(m) ==
  /\ (\E f \in PositionFields \cap DOMAIN m.value : HasValue(m, f)) => poseFrame = "known"
  /\ (\E f \in VelocityFields \cap DOMAIN m.value : HasValue(m, f)) => velocityFrame = "known"

isValueNotNAN(m) ==
  \A f \in DOMAIN m.value : m.value[f] # "nan" /\ m.variance[f] # "nan"

\* value_or(NAN)
Message(m) ==
  [value |-> [f \in DOMAIN m.value |-> IF HasValue(m, f) THEN m.value[f] ELSE "nan"],
   variance |-> [f \in DOMAIN m.value |->
                   IF m.variance[f] = "unset" THEN "nan" ELSE m.variance[f]]]

\* eph and epv are the square roots of the variances.
Accuracies(message) ==
  [message EXCEPT !.variance =
     [f \in DOMAIN @ |-> IF @[f] = "notPositive" THEN "nan" ELSE @[f]]]

\* There are fields, and None is no message.
NavigationAssumption ==
  /\ LocalFields # {} /\ GlobalFields # {}
  /\ CounterSize \in Nat \ {0}
  /\ \A m \in Measurements : Message(m) # None /\ Accuracies(Message(m)) # None

\* What both update() check before they publish.
Accepted(m) ==
  /\ isMeasurementNonEmpty(m)
  /\ isVarianceValid(m)
  /\ isFrameValid(m)
  /\ isValueNotNAN(m)
  /\ m.timestamp # "zero"

Fill(m) ==
  /\ given' = m
  /\ updated' = FALSE
  /\ published' = None
  /\ UNCHANGED <<interfaceVars, counter>>

FillField(f, value, variance) ==
  Fill([given EXCEPT !.value[f] = value, !.variance[f] = variance])

FillTimestamp(timestamp) == Fill([given EXCEPT !.timestamp = timestamp])

LocalUpdate ==
  /\ interface = "local"
  /\ updated' = TRUE
  /\ published' = IF Accepted(given) THEN Message(given) ELSE None
  /\ UNCHANGED <<interfaceVars, given, counter>>

GlobalUpdate ==
  /\ interface = "global"
  /\ updated' = TRUE
  /\ published' = IF Accepted(given) THEN Accuracies(Message(given)) ELSE None
  /\ UNCHANGED <<interfaceVars, given, counter>>

\* reset()
Reset ==
  /\ interface = "global"
  /\ counter' = (counter + 1) % CounterSize
  /\ UNCHANGED <<interfaceVars, given, updated, published>>

Next ==
  \/ \E f \in DOMAIN given.value, value \in Values, variance \in Variances :
       FillField(f, value, variance)
  \/ \E timestamp \in {"zero", "set"} : FillTimestamp(timestamp)
  \/ LocalUpdate \/ GlobalUpdate \/ Reset

Spec == Init /\ [][Next]_navigationVars

-----------------------------------------------------------------------------
\* A value the estimator gets comes with an accuracy that is a positive number, and a
\* position or velocity is in a known frame; what is complete is not refused (the two
\* update()).  An attitude may be published in an unknown pose frame, though the header
\* has condition 4 for every value: isFrameValid() does not look at it.
PublishedUsable ==
  /\ published # None => \A f \in DOMAIN published.value :
       published.value[f] = "number" =>
         /\ published.variance[f] = "positive"
         /\ f \in PositionFields => poseFrame = "known"
         /\ f \in VelocityFields => velocityFrame = "known"
  /\ (/\ updated
      /\ given.timestamp = "set"
      /\ \A f \in DOMAIN given.value :
           given.value[f] = "number" /\ given.variance[f] = "positive"
      /\ poseFrame = "known" /\ velocityFrame = "known")
     => published # None
=============================================================================
