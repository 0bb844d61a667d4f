---------------------------- MODULE NodePartsProofs ----------------------------
(***************************************************************************)
(* What the parts of a node that do not interact do, for all values of their *)
(* constants, beside the arming checks: conversions between frames, which   *)
(* are extended, and the mode with its setpoint types, shared subscriptions, *)
(* the mission file, the navigation interfaces and VTOL transitions, which  *)
(* are instances with variables of their own.                               *)
(***************************************************************************)
EXTENDS NodeParts, HealthAndArmingChecksProofs, Sequences

-----------------------------------------------------------------------------
(* The conversions between frames.                                         *)

(***************************************************************************)
(* Quaternions and vectors, by their coordinates.                           *)
(***************************************************************************)
\* Converting an attitude exchanges its coordinates.
LEMMA AttitudeOf ==
  ASSUME NEW w \in Int, NEW x \in Int, NEW y \in Int, NEW z \in Int
  PROVE  /\ attitudeNedToEnu(<<w, x, y, z>>) = <<-(w+z), -(x+y), y-x, z-w>>
         /\ attitudeEnuToNed(<<w, x, y, z>>) = <<-(w+z), -(x+y), y-x, z-w>>
  <1>1. Product(<<0, 1, 1, 0>>, <<w, x, y, z>>) = <<-(x+y), w+z, w-z, y-x>>
    BY DEF Product
  <1>2. Product(<<-(x+y), w+z, w-z, y-x>>, <<0, 1, 0, 0>>)
          = <<-(w+z), -(x+y), y-x, z-w>>
    BY DEF Product
  <1>3. QED
    BY <1>1, <1>2 DEF attitudeNedToEnu, attitudeEnuToNed

\* The vector that a quaternion turns another into, times the square of its norm,
\* by the rows of the matrix.
Turned(w, x, y, z, a, b, c) ==
  << (w*w + x*x - y*y - z*z) * a + 2*(x*y - w*z) * b + 2*(x*z + w*y) * c,
     2*(x*y + w*z) * a + (w*w - x*x + y*y - z*z) * b + 2*(y*z - w*x) * c,
     2*(x*z - w*y) * a + 2*(y*z + w*x) * b + (w*w - x*x - y*y + z*z) * c >>

LEMMA RotatedOf ==
  ASSUME NEW w \in Int, NEW x \in Int, NEW y \in Int, NEW z \in Int,
         NEW a \in Int, NEW b \in Int, NEW c \in Int
  PROVE  Rotated(<<w, x, y, z>>, <<a, b, c>>) = Turned(w, x, y, z, a, b, c)
  <1> DEFINE p1 == -(x*a) - y*b - z*c
             p2 == w*a + y*c - z*b
             p3 == w*b - x*c + z*a
             p4 == w*c + x*b - y*a
  <1>1. /\ p1 \in Int /\ p2 \in Int /\ p3 \in Int /\ p4 \in Int
    OBVIOUS
  <1>2. Product(<<w, x, y, z>>, <<0, a, b, c>>) = <<p1, p2, p3, p4>>
    BY DEF Product
  <1>3. Product(<<p1, p2, p3, p4>>, <<w, -x, -y, -z>>) =
          << p1*w + p2*x + p3*y + p4*z,
             -(p1*x) + p2*w - p3*z + p4*y,
             -(p1*y) + p2*z + p3*w - p4*x,
             -(p1*z) - p2*y + p3*x + p4*w >>
    <2> HIDE DEF p1, p2, p3, p4
    <2> QED BY <1>1 DEF Product
  <1>4. Rotated(<<w, x, y, z>>, <<a, b, c>>) =
          << -(p1*x) + p2*w - p3*z + p4*y,
             -(p1*y) + p2*z + p3*w - p4*x,
             -(p1*z) - p2*y + p3*x + p4*w >>
    <2> DEFINE r == Product(Product(<<w, x, y, z>>, <<0, a, b, c>>), <<w, -x, -y, -z>>)
    <2>1. Rotated(<<w, x, y, z>>, <<a, b, c>>) = <<r[2], r[3], r[4]>>
      BY DEF Rotated
    <2> HIDE DEF p1, p2, p3, p4
    <2>2. r = << p1*w + p2*x + p3*y + p4*z,
                 -(p1*x) + p2*w - p3*z + p4*y,
                 -(p1*y) + p2*z + p3*w - p4*x,
                 -(p1*z) - p2*y + p3*x + p4*w >>
      BY <1>2, <1>3, Zenon
    <2> HIDE DEF r
    <2>3. QED BY <2>1, <2>2
  <1>5. QED BY <1>4 DEF Turned

\* The matrix of the converted quaternion is, row by row, twice that of the
\* quaternion with its axes exchanged.
TurnsConvert(w, x, y, z, a, b, c) ==
  \E r1 \in Int, r2 \in Int, r3 \in Int :
    /\ Turned(w, x, y, z, a, b, c) = <<r1, r2, r3>>
    /\ Turned(-(w+z), -(x+y), y-x, z-w, a, -b, -c) = <<2 * r2, 2 * r1, 2 * (-r3)>>

LEMMA ConvertedTurned ==
  ASSUME NEW w \in Int, NEW x \in Int, NEW y \in Int, NEW z \in Int,
         NEW a \in Int, NEW b \in Int, NEW c \in Int
  PROVE  TurnsConvert(w, x, y, z, a, b, c)
  <1> DEFINE e1 == -(w+z)
             e2 == -(x+y)
             e3 == y-x
             e4 == z-w
             m11 == w*w + x*x - y*y - z*z
             m12 == x*y - w*z
             m13 == x*z + w*y
             m21 == x*y + w*z
             m22 == w*w - x*x + y*y - z*z
             m23 == y*z - w*x
             m31 == x*z - w*y
             m32 == y*z + w*x
             m33 == w*w - x*x - y*y + z*z
             n11 == e1*e1 + e2*e2 - e3*e3 - e4*e4
             n12 == e2*e3 - e1*e4
             n13 == e2*e4 + e1*e3
             n21 == e2*e3 + e1*e4
             n22 == e1*e1 - e2*e2 + e3*e3 - e4*e4
             n23 == e3*e4 - e1*e2
             n31 == e2*e4 - e1*e3
             n32 == e3*e4 + e1*e2
             n33 == e1*e1 - e2*e2 - e3*e3 + e4*e4
             r1 == m11 * a + 2*m12 * b + 2*m13 * c
             r2 == 2*m21 * a + m22 * b + 2*m23 * c
             r3 == 2*m31 * a + 2*m32 * b + m33 * c
             s1 == n11 * a + 2*n12 * (-b) + 2*n13 * (-c)
             s2 == 2*n21 * a + n22 * (-b) + 2*n23 * (-c)
             s3 == 2*n31 * a + 2*n32 * (-b) + n33 * (-c)
  <1>1. /\ Turned(w, x, y, z, a, b, c) = <<r1, r2, r3>>
        /\ Turned(-(w+z), -(x+y), y-x, z-w, a, -b, -c) = <<s1, s2, s3>>
    BY Zenon DEF Turned
  <1>2. /\ m11 \in Int /\ m12 \in Int /\ m13 \in Int
        /\ m21 \in Int /\ m22 \in Int /\ m23 \in Int
        /\ m31 \in Int /\ m32 \in Int /\ m33 \in Int
    OBVIOUS
  <1>3. n11 = 4 * m21 /\ n12 = -m22 /\ n13 = -2 * m23
    OBVIOUS
  <1>4. n21 = m11 /\ n22 = -4 * m12 /\ n23 = -2 * m13
    OBVIOUS
  <1>5. n31 = -2 * m31 /\ n32 = 2 * m32 /\ n33 = 2 * m33
    OBVIOUS
  <1> HIDE DEF e1, e2, e3, e4, m11, m12, m13, m21, m22, m23, m31, m32, m33,
               n11, n12, n13, n21, n22, n23, n31, n32, n33
  <1>6. r1 \in Int /\ r2 \in Int /\ r3 \in Int
    BY <1>2
  <1>7. s1 = 2 * r2
    BY <1>2, <1>3
  <1>8. s2 = 2 * r1
    BY <1>2, <1>4
  <1>9. s3 = 2 * (-r3)
    BY <1>2, <1>5
  <1> HIDE DEF r1, r2, r3, s1, s2, s3
  <1>10. QED BY <1>1, <1>6, <1>7, <1>8, <1>9, Zenon DEF TurnsConvert

(***************************************************************************)
(* A point of the body is where it is, whether its frame and the attitude    *)
(* are converted or the point is (attitudeNedToEnu(), positionNedToEnu()).   *)
(***************************************************************************)
THEOREM AttitudesAgree ==
  \A q \in Quaternions, v \in Vectors : AttitudeAgrees(q, v)
  <1> SUFFICES ASSUME NEW w \in Int, NEW x \in Int, NEW y \in Int, NEW z \in Int,
                      NEW a \in Int, NEW b \in Int, NEW c \in Int
               PROVE  AttitudeAgrees(<<w, x, y, z>>, <<a, b, c>>)
    BY DEF Quaternions, Vectors
  <1>1. frdToFlu(<<a, b, c>>) = <<a, -b, -c>>
    BY DEF frdToFlu
  <1>2. Rotated(attitudeNedToEnu(<<w, x, y, z>>), frdToFlu(<<a, b, c>>)) =
          Rotated(<<-(w+z), -(x+y), y-x, z-w>>, <<a, -b, -c>>)
    <2>1. attitudeNedToEnu(<<w, x, y, z>>) = <<-(w+z), -(x+y), y-x, z-w>>
      BY AttitudeOf
    <2>2. QED BY <1>1, <2>1, Zenon
  <1> DEFINE e1 == -(w+z)
             e2 == -(x+y)
             e3 == y-x
             e4 == z-w
             f  == -b
             g  == -c
  <1>3. Rotated(<<e1, e2, e3, e4>>, <<a, f, g>>) = Turned(e1, e2, e3, e4, a, f, g)
    <2>1. e1 \in Int /\ e2 \in Int /\ e3 \in Int /\ e4 \in Int /\ f \in Int /\ g \in Int
      OBVIOUS
    <2> HIDE DEF e1, e2, e3, e4, f, g
    <2>2. QED BY ONLY <2>1, a \in Int, RotatedOf
  <1>4. Rotated(<<w, x, y, z>>, <<a, b, c>>) = Turned(w, x, y, z, a, b, c)
    BY RotatedOf
  <1>5. TurnsConvert(w, x, y, z, a, b, c)
    BY ConvertedTurned, Zenon
  <1>6. QED
    <2> PICK r1 \in Int, r2 \in Int, r3 \in Int :
               /\ Turned(w, x, y, z, a, b, c) = <<r1, r2, r3>>
               /\ Turned(e1, e2, e3, e4, a, f, g) = <<2 * r2, 2 * r1, 2 * (-r3)>>
      BY <1>5, Zenon DEF TurnsConvert
    <2>1. Rotated(attitudeNedToEnu(<<w, x, y, z>>), frdToFlu(<<a, b, c>>)) =
            <<2 * r2, 2 * r1, 2 * (-r3)>>
      BY <1>2, <1>3, Zenon
    <2>2. Rotated(<<w, x, y, z>>, <<a, b, c>>) = <<r1, r2, r3>>
      BY <1>4, Zenon
    <2> HIDE DEF e1, e2, e3, e4, f, g
    <2>3. positionNedToEnu(<<r1, r2, r3>>) = <<r2, r1, -r3>>
      BY DEF positionNedToEnu
    <2>4. QED BY ONLY <2>1, <2>2, <2>3, r1 \in Int, r2 \in Int, r3 \in Int DEF AttitudeAgrees

(***************************************************************************)
(* Angles.                                                                  *)
(***************************************************************************)
\* Whole turns make no difference.
LEMMA WrapTurns ==
  ASSUME NEW angle \in Int, NEW n \in Int
  PROVE  wrapPi(angle + 360 * n) = wrapPi(angle)
  BY DEF wrapPi

\* A yaw that turns is, converted, the converted yaw that turns with the converted
\* rate (yawNedToEnu(), yawRateNedToEnu()).
THEOREM RatesAgree ==
  \A psi \in Int, turn \in Int : RateAgrees(psi, turn)
  <1> SUFFICES ASSUME NEW psi \in Int, NEW turn \in Int
               PROVE  RateAgrees(psi, turn)
    OBVIOUS
  <1> DEFINE d == ((90 - psi) + 180) \div 360
             e == (90 - psi) - turn
  <1>1. d \in Int /\ e \in Int /\ wrapPi(90 - psi) + (-turn) = e + 360 * (-d)
    BY DEF wrapPi
  <1>2. wrapPi(e + 360 * (-d)) = wrapPi(e)
    <2> DEFINE m == -d
    <2>1. m \in Int /\ e \in Int
      BY <1>1
    <2> HIDE DEF d, e, m
    <2>2. wrapPi(e + 360 * m) = wrapPi(e)
      BY ONLY <2>1, WrapTurns
    <2>3. QED BY <2>2, Zenon DEF m
  <1>3. wrapPi(90 - (psi + turn)) = wrapPi(e)
    <2>1. 90 - (psi + turn) = e
      OBVIOUS
    <2>2. QED BY <2>1, Zenon
  <1>4. QED
    BY <1>1, <1>2, <1>3, Zenon DEF RateAgrees, yawNedToEnu, yawRateNedToEnu

\* A point is where it is when the attitude is given by a quarter turn
\* (yawNedToEnu(), yawBodyToWorld()).
THEOREM YawsAgree ==
  \A k \in Int, v \in Vectors : YawAgrees(90 * k, v)
  <1> SUFFICES ASSUME NEW k \in Int, NEW a \in Int, NEW b \in Int, NEW c \in Int
               PROVE  YawAgrees(90 * k, <<a, b, c>>)
    BY DEF Vectors
  <1> DEFINE y == 90 * k
             z == yawNedToEnu(y)
  <1>1. y % 360 \in {0, 90, 180, 270}
    OBVIOUS
  <1>2. z \in Int /\ (z % 360) = ((90 - y) % 360)
    BY DEF yawNedToEnu, wrapPi
  <1>3. Cos(y) = Sin(z) /\ Sin(y) = Cos(z) /\ Cos(y) \in Int /\ Sin(y) \in Int
    <2> y \in Int
      OBVIOUS
    <2> HIDE DEF y, z
    <2> QED BY <1>1, <1>2 DEF Cos, Sin
  <1>4. yawBodyToWorld(z, frdToFlu(<<a, b, c>>)) =
          <<Cos(z) * a - Sin(z) * (-b), Sin(z) * a + Cos(z) * (-b), -c>>
    BY DEF yawBodyToWorld, frdToFlu
  <1>5. positionNedToEnu(yawBodyToWorld(y, <<a, b, c>>)) =
          <<Sin(y) * a + Cos(y) * b, Cos(y) * a - Sin(y) * b, -c>>
    BY DEF yawBodyToWorld, positionNedToEnu
  <1>6. QED
    <2> SUFFICES yawBodyToWorld(z, frdToFlu(<<a, b, c>>)) =
                   positionNedToEnu(yawBodyToWorld(y, <<a, b, c>>))
      BY DEF YawAgrees
    <2> HIDE DEF y, z
    <2> DEFINE s == Sin(y)
               t == Cos(y)
    <2>1. s \in Int /\ t \in Int /\ Cos(z) = s /\ Sin(z) = t
      BY <1>3
    <2> HIDE DEF s, t
    <2>2. <<s * a - t * (-b), t * a + s * (-b), -c>> = <<s * a + t * b, t * a - s * b, -c>>
      BY <2>1
    <2>3. QED BY <1>4, <1>5, <2>1, <2>2 DEF s, t

\* Back and forth is the identity, for a yaw up to whole turns and for a quaternion
\* up to its norm (all conversions of frame_conversion.hpp).
THEOREM BackAndForth ==
  \A q \in Quaternions, v \in Vectors, psi \in Int : ThereAndBack(q, v, psi)
  <1> SUFFICES ASSUME NEW w \in Int, NEW x \in Int, NEW y \in Int, NEW z \in Int,
                      NEW a \in Int, NEW b \in Int, NEW c \in Int, NEW psi \in Int
               PROVE  ThereAndBack(<<w, x, y, z>>, <<a, b, c>>, psi)
    BY DEF Quaternions, Vectors
  <1>1. /\ positionEnuToNed(positionNedToEnu(<<a, b, c>>)) = <<a, b, c>>
        /\ fluToFrd(frdToFlu(<<a, b, c>>)) = <<a, b, c>>
        /\ varianceEnuToNed(varianceNedToEnu(<<a, b, c>>)) = <<a, b, c>>
    BY DEF positionEnuToNed, positionNedToEnu, fluToFrd, frdToFlu,
           varianceEnuToNed, varianceNedToEnu
  <1>2. attitudeEnuToNed(attitudeNedToEnu(<<w, x, y, z>>)) = <<2 * w, 2 * x, 2 * y, 2 * z>>
    <2> DEFINE e1 == -(w+z)
               e2 == -(x+y)
               e3 == y-x
               e4 == z-w
    <2>1. e1 \in Int /\ e2 \in Int /\ e3 \in Int /\ e4 \in Int
      OBVIOUS
    <2>2. attitudeEnuToNed(<<e1, e2, e3, e4>>) = <<-(e1+e4), -(e2+e3), e3-e2, e4-e1>>
      <3> HIDE DEF e1, e2, e3, e4
      <3> QED BY <2>1, AttitudeOf
    <2>3. attitudeNedToEnu(<<w, x, y, z>>) = <<e1, e2, e3, e4>>
      BY AttitudeOf
    <2>4. QED BY <2>2, <2>3
  <1>3. yawEnuToNed(yawNedToEnu(psi)) = wrapPi(psi)
    BY DEF yawEnuToNed, yawNedToEnu, wrapPi
  <1>4. QED
    BY <1>1, <1>2, <1>3 DEF ThereAndBack

\* The variances of a vector are those of its coordinates in the other frame, so
\* that none changes its sign (varianceNedToEnu()).
THEOREM VariancesAgree == \A v \in Vectors : VarianceAgrees(v)
  <1> SUFFICES ASSUME NEW a \in Int, NEW b \in Int, NEW c \in Int
               PROVE  VarianceAgrees(<<a, b, c>>)
    BY DEF Vectors
  <1> QED
    BY DEF VarianceAgrees, varianceNedToEnu, positionNedToEnu, Spread, Abs

-----------------------------------------------------------------------------
(* The setpoint types.                                                     *)

\* A setpoint type has one of four rates, and no update gives a field that its
\* configuration does not enable.
WellConfigured(s) ==
  /\ s.rate \in {30, 50, 100, 200}
  /\ s.flags \subseteq Mode!AllFlags
  /\ s.localPositionOptional \in BOOLEAN
  /\ \A fields \in s.updates : fields \subseteq s.flags

LEMMA GivesFits ==
  ASSUME NEW flags, NEW always, NEW optional,
         always \subseteq flags, optional \subseteq flags
  PROVE  \A fields \in Mode!Gives(always, optional) : fields \subseteq flags
BY DEF Mode!Gives

LEMMA GotoConfigured == WellConfigured(Mode!MulticopterGotoSetpointType)
<1>1. \A fields \in Mode!Gives({"position"}, {"attitude"}) : fields \subseteq Mode!AllFlags
  BY GivesFits DEF Mode!AllFlags
<1> QED  BY <1>1 DEF WellConfigured, Mode!MulticopterGotoSetpointType

LEMMA TrajectoryConfigured ==
  ASSUME NEW optional \in BOOLEAN
  PROVE  WellConfigured(Mode!TrajectorySetpointType(optional))
<1>1. \A fields \in Mode!Gives({"velocity"}, {"acceleration", "attitude", "rates"}) :
        fields \subseteq Mode!AllFlags
  <2>1. {"velocity"} \subseteq Mode!AllFlags
    BY DEF Mode!AllFlags
  <2>2. {"acceleration", "attitude", "rates"} \subseteq Mode!AllFlags
    BY DEF Mode!AllFlags
  <2> QED  BY <2>1, <2>2, GivesFits
<1>2. \A fields \in Mode!TrajectorySetpoint \cup {{"position"}} : fields \subseteq Mode!AllFlags
  BY DEF Mode!TrajectorySetpoint, Mode!AllFlags
<1> QED  BY <1>1, <1>2 DEF WellConfigured, Mode!TrajectorySetpointType

LEMMA FwLateralLongitudinalConfigured == WellConfigured(Mode!FwLateralLongitudinalSetpointType)
<1>1. \A fields \in Mode!Gives({"altitude", "velocity"}, {"acceleration"}) :
        fields \subseteq Mode!AllFlags
  BY GivesFits DEF Mode!AllFlags
<1>2. \A fields \in Mode!Gives({"climb_rate", "velocity"}, {"acceleration"}) :
        fields \subseteq Mode!AllFlags
  BY GivesFits DEF Mode!AllFlags
<1>3. \A fields \in Mode!FwLateralLongitudinalSetpoint : fields \subseteq Mode!AllFlags
  BY DEF Mode!FwLateralLongitudinalSetpoint, Mode!AllFlags
<1> QED  BY <1>1, <1>2, <1>3 DEF WellConfigured, Mode!FwLateralLongitudinalSetpointType

LEMMA DirectTypesConfigured ==
  /\ WellConfigured(Mode!DirectActuatorsSetpointType)
  /\ WellConfigured(Mode!RatesSetpointType)
  /\ WellConfigured(Mode!AttitudeSetpointType)
<1>1. WellConfigured(Mode!DirectActuatorsSetpointType)
  BY DEF WellConfigured, Mode!DirectActuatorsSetpointType
<1>2. WellConfigured(Mode!RatesSetpointType)
  BY DEF WellConfigured, Mode!RatesSetpointType, Mode!AllFlags
<1>3. WellConfigured(Mode!AttitudeSetpointType)
  BY DEF WellConfigured, Mode!AttitudeSetpointType, Mode!AllFlags
<1> QED  BY <1>1, <1>2, <1>3

LEMMA RoverTypesConfigured ==
  /\ WellConfigured(Mode!RoverPositionSetpointType)
  /\ WellConfigured(Mode!RoverSpeedAttitudeSetpointType)
  /\ WellConfigured(Mode!RoverThrottleAttitudeSetpointType)
  /\ WellConfigured(Mode!RoverSpeedRateSetpointType)
  /\ WellConfigured(Mode!RoverThrottleRateSetpointType)
  /\ WellConfigured(Mode!RoverSpeedSteeringSetpointType)
  /\ WellConfigured(Mode!RoverThrottleSteeringSetpointType)
<1>1. WellConfigured(Mode!RoverPositionSetpointType)
  <2>1. \A fields \in Mode!Gives({"position"}, {"velocity", "attitude"}) :
          fields \subseteq Mode!DefaultFlags
    BY GivesFits DEF Mode!DefaultFlags, Mode!AllFlags
  <2> QED  BY <2>1 DEF WellConfigured, Mode!RoverPositionSetpointType, Mode!DefaultFlags
<1>2. WellConfigured(Mode!RoverSpeedAttitudeSetpointType)
  BY DEF WellConfigured, Mode!RoverSpeedAttitudeSetpointType, Mode!DefaultFlags, Mode!AllFlags
<1>3. WellConfigured(Mode!RoverThrottleAttitudeSetpointType)
  BY DEF WellConfigured, Mode!RoverThrottleAttitudeSetpointType, Mode!DefaultFlags, Mode!AllFlags
<1>4. WellConfigured(Mode!RoverSpeedRateSetpointType)
  BY DEF WellConfigured, Mode!RoverSpeedRateSetpointType, Mode!DefaultFlags, Mode!AllFlags
<1>5. WellConfigured(Mode!RoverThrottleRateSetpointType)
  BY DEF WellConfigured, Mode!RoverThrottleRateSetpointType, Mode!DefaultFlags, Mode!AllFlags
<1>6. WellConfigured(Mode!RoverSpeedSteeringSetpointType)
  BY DEF WellConfigured, Mode!RoverSpeedSteeringSetpointType, Mode!DefaultFlags, Mode!AllFlags
<1>7. WellConfigured(Mode!RoverThrottleSteeringSetpointType)
  BY DEF WellConfigured, Mode!RoverThrottleSteeringSetpointType, Mode!DefaultFlags, Mode!AllFlags
<1> QED  BY <1>1, <1>2, <1>3, <1>4, <1>5, <1>6, <1>7

\* All fourteen setpoint types are well configured.
LEMMA TypesConfigured == \A t \in DOMAIN Mode!AllTypes : WellConfigured(Mode!AllTypes[t])
<1>1. /\ WellConfigured(Mode!TrajectorySetpointType(FALSE))
      /\ WellConfigured(Mode!TrajectorySetpointType(TRUE))
  BY TrajectoryConfigured
<1>2. /\ Mode!AllTypes.Goto = Mode!MulticopterGotoSetpointType
      /\ Mode!AllTypes.Trajectory = Mode!TrajectorySetpointType(FALSE)
      /\ Mode!AllTypes.TrajectoryNoPosition = Mode!TrajectorySetpointType(TRUE)
      /\ Mode!AllTypes.FwLateralLongitudinal = Mode!FwLateralLongitudinalSetpointType
      /\ Mode!AllTypes.DirectActuators = Mode!DirectActuatorsSetpointType
      /\ Mode!AllTypes.Rates = Mode!RatesSetpointType
      /\ Mode!AllTypes.Attitude = Mode!AttitudeSetpointType
  BY DEF Mode!AllTypes
<1>3. /\ Mode!AllTypes.RoverPosition = Mode!RoverPositionSetpointType
      /\ Mode!AllTypes.RoverSpeedAttitude = Mode!RoverSpeedAttitudeSetpointType
      /\ Mode!AllTypes.RoverThrottleAttitude = Mode!RoverThrottleAttitudeSetpointType
      /\ Mode!AllTypes.RoverSpeedRate = Mode!RoverSpeedRateSetpointType
      /\ Mode!AllTypes.RoverThrottleRate = Mode!RoverThrottleRateSetpointType
      /\ Mode!AllTypes.RoverSpeedSteering = Mode!RoverSpeedSteeringSetpointType
      /\ Mode!AllTypes.RoverThrottleSteering = Mode!RoverThrottleSteeringSetpointType
  BY DEF Mode!AllTypes
<1>4. DOMAIN Mode!AllTypes =
        {"Goto", "Trajectory", "TrajectoryNoPosition", "FwLateralLongitudinal",
         "DirectActuators", "Rates", "Attitude", "RoverPosition", "RoverSpeedAttitude",
         "RoverThrottleAttitude", "RoverSpeedRate", "RoverThrottleRate",
         "RoverSpeedSteering", "RoverThrottleSteering"}
  BY DEF Mode!AllTypes
<1> QED
  BY <1>1, <1>2, <1>3, <1>4, GotoConfigured, FwLateralLongitudinalConfigured,
     DirectTypesConfigured, RoverTypesConfigured

-----------------------------------------------------------------------------
(* The mode: its types and its timer.                                      *)

\* What a setpoint type requires are requirements of the FMU.
LEMMA RequirementsKnown ==
  ASSUME NEW t
  PROVE  Mode!RequiredBy(t) \subseteq Mode!Requirements
BY DEF Mode!RequiredBy, Mode!Requirements

LEMMA CreatedKnown ==
  ASSUME types \in Seq(TypeNames)
  PROVE  /\ Mode!Created \subseteq TypeNames
         /\ types # <<>> => types[1] \in Mode!Created
BY DEF Mode!Created

\* The largest of the rates that the setpoint types want is one of them.
LEMMA RegisteredRateKnown ==
  ASSUME Mode!ModeAssumption, types \in Seq(TypeNames), types # <<>>, rate \in Nat
  PROVE  Mode!RegisteredRate \in Nat
<1> DEFINE Rates == {Mode!Setpoint(t).rate : t \in Mode!Created}
<1>1. /\ Rates \subseteq {30, 50, 100, 200}
      /\ Rates # {}
  <2>1. \A t \in Mode!Created : Mode!Setpoint(t).rate \in {30, 50, 100, 200}
    BY CreatedKnown, TypesConfigured DEF Mode!ModeAssumption, Mode!Setpoint, WellConfigured
  <2>2. types[1] \in Mode!Created
    BY CreatedKnown
  <2> QED  BY <2>1, <2>2
<1>2. \E r \in Rates : \A s \in Rates : s <= r
  <2> HIDE DEF Rates
  <2>1. \A s \in Rates : s = 30 \/ s = 50 \/ s = 100 \/ s = 200
    BY <1>1
  <2>2. CASE 200 \in Rates
    BY <2>1, <2>2
  <2>3. CASE 200 \notin Rates /\ 100 \in Rates
    BY <2>1, <2>3
  <2>4. CASE 200 \notin Rates /\ 100 \notin Rates /\ 50 \in Rates
    BY <2>1, <2>4
  <2>5. CASE 200 \notin Rates /\ 100 \notin Rates /\ 50 \notin Rates
    <3>1. \A s \in Rates : s = 30
      BY <2>1, <2>5
    <3>2. PICK r \in Rates : TRUE
      BY <1>1
    <3> QED  BY <3>1, <3>2
  <2> QED  BY <2>2, <2>3, <2>4, <2>5
<1>3. \E r \in Rates : \A t \in Mode!Created : Mode!Setpoint(t).rate <= r
  BY <1>2
<1>4. (CHOOSE r \in Rates : \A t \in Mode!Created : Mode!Setpoint(t).rate <= r) \in Rates
  BY <1>3
<1>5. Mode!RegisteredRate =
        IF rate > 0 THEN rate
        ELSE CHOOSE r \in Rates : \A t \in Mode!Created : Mode!Setpoint(t).rate <= r
  BY DEF Mode!RegisteredRate
<1>6. Rates \subseteq Nat
  BY <1>1
<1> HIDE DEF Rates
<1> QED
  BY <1>4, <1>5, <1>6

\* An existing timer has the current rate, so that keeping it is right: setting a
\* rate drops it.  A virtual method tells whether the mode is active.
TimerKept ==
  /\ stage # "registered" => ~isActive /\ frame = None
  /\ frame \in {"onActivate", "firstUpdate"} => isActive
  /\ frame = "onDeactivate" => ~isActive
  /\ timer \in {0, rate}
  /\ frame \in {None, "updateSetpoint"} => timer = (IF isActive THEN rate ELSE 0)

LEMMA TimerUpdatedIs ==
  ASSUME NEW on \in BOOLEAN, NEW r \in Nat, NEW existing \in {0, r}
  PROVE  Mode!TimerUpdated(on, r, existing) = (IF on THEN r ELSE 0)
BY DEF Mode!TimerUpdated

LEMMA ModeInit ==
  ASSUME Mode!ModeAssumption, Mode!Init
  PROVE  Mode!TypeOK /\ TimerKept
<1>1. types \in Seq(TypeNames)
  BY DEF Mode!Init
<1>2. Mode!TypeOK
  BY <1>1 DEF Mode!Init, Mode!TypeOK
<1> QED  BY <1>2 DEF Mode!Init, TimerKept, Mode!ModeAssumption, Mode!Frames

LEMMA ModeTypeStep ==
  ASSUME Mode!ModeAssumption, Mode!TypeOK, [Mode!Next]_Mode!vars
  PROVE  Mode!TypeOK'
<1> USE DEF Mode!TypeOK, Mode!setpointVars, Mode!timerVars, Mode!activeVars
<1>1. ASSUME NEW t \in TypeNames, Mode!AddSetpointType(t)  PROVE Mode!TypeOK'
  <2>1. types' \in Seq(TypeNames)
    BY <1>1 DEF Mode!AddSetpointType
  <2> QED  BY <1>1, <2>1 DEF Mode!AddSetpointType
<1>2. ASSUME NEW flag \in {"manual_control", "global_position"}, Mode!SetRequirement(flag)
      PROVE Mode!TypeOK'
  BY <1>2 DEF Mode!SetRequirement, Mode!Requirements
<1>3. CASE Mode!DoRegister
  <2>1. requirements' \subseteq Mode!Requirements
    <3>1. UNION {Mode!RequiredBy(t) : t \in Mode!Created} \subseteq Mode!Requirements
      BY RequirementsKnown
    <3> QED  BY <1>3, <3>1 DEF Mode!DoRegister, Mode!RequirementsFromSetpoints, Mode!Requirements
  <2>2. CASE types = <<>>
    BY <1>3, <2>1, <2>2 DEF Mode!DoRegister
  <2>3. CASE types # <<>>
    <3>1. types[1] \in TypeNames
      BY <2>3, CreatedKnown
    <3>2. rate' \in Nat
      BY <1>3, <2>3, RegisteredRateKnown DEF Mode!DoRegister
    <3> QED  BY <1>3, <2>1, <2>3, <3>1, <3>2 DEF Mode!DoRegister
  <2> QED  BY <2>2, <2>3
<1>4. ASSUME NEW t \in Mode!Created, NEW fields \in Mode!Setpoint(t).updates, Mode!Update(t, fields)
      PROVE Mode!TypeOK'
  <2>1. t \in TypeNames
    BY CreatedKnown
  <2> QED  BY <1>4, <2>1 DEF Mode!Update, Mode!ActivateSetpointType
<1>5. ASSUME NEW r \in UserRates, Mode!SetSetpointUpdateRate(r)  PROVE Mode!TypeOK'
  <2>1. r \in Nat
    BY DEF Mode!ModeAssumption
  <2> QED  BY <1>5, <2>1 DEF Mode!SetSetpointUpdateRate, Mode!TimerUpdated, Mode!DropTimer
<1>6. CASE Mode!Completed
  BY <1>6 DEF Mode!Completed
<1>7. ASSUME NEW selected \in BOOLEAN, NEW isArmed \in BOOLEAN,
             Mode!VehicleStatusUpdated(selected, isArmed)
      PROVE Mode!TypeOK'
  <2>1. isActive' \in BOOLEAN
    BY <1>7 DEF Mode!VehicleStatusUpdated, Mode!ModeAssumption
  <2>2. frame' \in Mode!Frames /\ completed' \in BOOLEAN
    BY <1>7 DEF Mode!VehicleStatusUpdated, Mode!Frames
  <2> QED  BY <1>7, <2>1, <2>2 DEF Mode!VehicleStatusUpdated
<1>8. CASE Mode!OnActivateReturns
  BY <1>8 DEF Mode!OnActivateReturns, Mode!TimerUpdated, Mode!Frames
<1>9. CASE Mode!CallReturns
  BY <1>9 DEF Mode!CallReturns, Mode!TimerUpdated
<1>10. CASE Mode!TimerFires
  BY <1>10 DEF Mode!TimerFires, Mode!Frames
<1>11. CASE Mode!UpdateReturns
  BY <1>11 DEF Mode!UpdateReturns
<1>12. CASE UNCHANGED Mode!vars
  BY <1>12 DEF Mode!vars
<1> QED
  BY <1>1, <1>2, <1>3, <1>4, <1>5, <1>6, <1>7, <1>8, <1>9, <1>10, <1>11, <1>12 DEF Mode!Next

LEMMA TimerStep ==
  ASSUME Mode!ModeAssumption, Mode!TypeOK, TimerKept, [Mode!Next]_Mode!vars
  PROVE  TimerKept'
<1> USE DEF TimerKept, Mode!setpointVars, Mode!timerVars, Mode!activeVars
<1>0. /\ isActive \in BOOLEAN /\ rate \in Nat
      /\ None \notin Mode!Frames
  BY DEF Mode!TypeOK, Mode!ModeAssumption
<1>1. ASSUME NEW t \in TypeNames, Mode!AddSetpointType(t)  PROVE TimerKept'
  BY <1>1 DEF Mode!AddSetpointType
<1>2. ASSUME NEW flag \in {"manual_control", "global_position"}, Mode!SetRequirement(flag)
      PROVE TimerKept'
  BY <1>2 DEF Mode!SetRequirement
<1>3. CASE Mode!DoRegister
  <2>1. ~isActive /\ frame = None /\ timer = 0
    BY <1>3 DEF Mode!DoRegister
  <2> QED  BY <1>0, <1>3, <2>1 DEF Mode!DoRegister, Mode!Frames
<1>4. ASSUME NEW t \in Mode!Created, NEW fields \in Mode!Setpoint(t).updates, Mode!Update(t, fields)
      PROVE TimerKept'
  BY <1>4 DEF Mode!Update
<1>5. ASSUME NEW r \in UserRates, Mode!SetSetpointUpdateRate(r)  PROVE TimerKept'
  <2>1. r \in Nat
    BY DEF Mode!ModeAssumption
  <2>2. timer' = (IF isActive THEN r ELSE 0)
    BY <1>0, <1>5, <2>1, TimerUpdatedIs DEF Mode!SetSetpointUpdateRate, Mode!DropTimer
  <2> QED  BY <1>0, <1>5, <2>2 DEF Mode!SetSetpointUpdateRate
<1>6. CASE Mode!Completed
  BY <1>6 DEF Mode!Completed
<1>7. ASSUME NEW selected \in BOOLEAN, NEW isArmed \in BOOLEAN,
             Mode!VehicleStatusUpdated(selected, isArmed)
      PROVE TimerKept'
  <2>1. isActive' \in BOOLEAN
    BY <1>7 DEF Mode!VehicleStatusUpdated, Mode!ModeAssumption
  <2>2. frame' = IF isActive' THEN "onActivate" ELSE "onDeactivate"
    BY <1>7 DEF Mode!VehicleStatusUpdated
  <2>3. stage' = "registered" /\ timer' = timer /\ rate' = rate
    BY <1>7 DEF Mode!VehicleStatusUpdated
  <2>4. frame' \in Mode!Frames /\ frame' # None /\ frame' # "updateSetpoint"
    BY <1>0, <2>1, <2>2 DEF Mode!Frames
  <2> QED  BY <2>1, <2>2, <2>3, <2>4
<1>8. CASE Mode!OnActivateReturns
  <2>1. Mode!TimerUpdated(isActive, rate, timer) = (IF isActive THEN rate ELSE 0)
    BY <1>0, TimerUpdatedIs
  <2>2. stage = "registered"
    BY <1>0, <1>8 DEF Mode!OnActivateReturns, Mode!Frames
  <2> QED  BY <1>0, <1>8, <2>1, <2>2 DEF Mode!OnActivateReturns, Mode!Frames
<1>9. CASE Mode!CallReturns
  <2>1. Mode!TimerUpdated(isActive, rate, timer) = (IF isActive THEN rate ELSE 0)
    BY <1>0, TimerUpdatedIs
  <2> QED  BY <1>0, <1>9, <2>1 DEF Mode!CallReturns, Mode!Frames
<1>10. CASE Mode!TimerFires
  BY <1>0, <1>10 DEF Mode!TimerFires, Mode!Frames
<1>11. CASE Mode!UpdateReturns
  BY <1>0, <1>11 DEF Mode!UpdateReturns, Mode!Frames
<1>12. CASE UNCHANGED Mode!vars
  BY <1>12 DEF Mode!vars
<1> QED
  BY <1>1, <1>2, <1>3, <1>4, <1>5, <1>6, <1>7, <1>8, <1>9, <1>10, <1>11, <1>12 DEF Mode!Next

\* The state of a mode keeps its type, for any setpoint types, rates and calls.
THEOREM ModeTypeCorrect == Mode!ModeAssumption /\ Mode!Spec => []Mode!TypeOK
<1> SUFFICES ASSUME Mode!ModeAssumption  PROVE Mode!Spec => []Mode!TypeOK
  OBVIOUS
<1>1. Mode!Init => Mode!TypeOK
  BY ModeInit
<1>2. Mode!TypeOK /\ [Mode!Next]_Mode!vars => Mode!TypeOK'
  BY ModeTypeStep
<1> QED  BY <1>1, <1>2, PTL DEF Mode!Spec

\* Between callbacks the setpoint timer runs exactly when the mode is active and
\* has a rate, and with that rate, whatever rates user code sets and where.
THEOREM ModeTimerHasRate == Mode!ModeAssumption /\ Mode!Spec => []Mode!TimerFollowsRate
<1> SUFFICES ASSUME Mode!ModeAssumption  PROVE Mode!Spec => []Mode!TimerFollowsRate
  OBVIOUS
<1>1. Mode!Init => Mode!TypeOK /\ TimerKept
  BY ModeInit
<1>2. Mode!TypeOK /\ TimerKept /\ [Mode!Next]_Mode!vars => Mode!TypeOK' /\ TimerKept'
  BY ModeTypeStep, TimerStep
<1>3. TimerKept => Mode!TimerFollowsRate
  BY DEF TimerKept, Mode!TimerFollowsRate
<1> QED  BY <1>1, <1>2, <1>3, PTL DEF Mode!Spec

-----------------------------------------------------------------------------
(* The mode: its setpoints.                                                *)

\* What a setpoint type requires is required by the mode; the local position with
\* relaxed accuracy when there is manual control.
Required(t) ==
  /\ Mode!RequiredBy(t) \ {"local_position"} \subseteq requirements
  /\ "local_position" \in Mode!RequiredBy(t) =>
       requirements \cap {"local_position", "local_position_relaxed"} # {}

\* The type that is configured is the only active one, and that of the last
\* setpoint; what the types require stays required.
ConfigurationKept ==
  /\ stage # "registered" => sent = None
  /\ stage = "registered" =>
       /\ configured \in Mode!Created /\ active = {configured}
       /\ \A t \in Mode!Created : Required(t)
  /\ sent # None =>
       /\ sent.type = configured
       /\ sent.fields \in Mode!Setpoint(configured).updates

LEMMA RequiresAll ==
  ASSUME Mode!TypeOK, requirements' = Mode!RequirementsFromSetpoints, types' = types
  PROVE  \A t \in Mode!Created' : Required(t)'
<1> DEFINE all == requirements \cup UNION {Mode!RequiredBy(t) : t \in Mode!Created}
<1>1. requirements' = IF "manual_control" \in all /\ "local_position" \in all
                      THEN (all \ {"local_position"}) \cup {"local_position_relaxed"}
                      ELSE all
  BY DEF Mode!RequirementsFromSetpoints
<1>2. \A t \in Mode!Created : Mode!RequiredBy(t) \subseteq all
  OBVIOUS
<1>3. Mode!Created' = Mode!Created
  BY DEF Mode!Created
<1> HIDE DEF all
<1>4. ASSUME NEW t \in Mode!Created
      PROVE  Required(t)'
  <2>1. Mode!RequiredBy(t) \subseteq all
    BY <1>2
  <2>2. \A r \in all : r # "local_position" => r \in requirements'
    BY <1>1
  <2>3. "local_position" \in all =>
          "local_position" \in requirements' \/ "local_position_relaxed" \in requirements'
    BY <1>1
  <2> QED  BY <2>1, <2>2, <2>3 DEF Required, Mode!RequiredBy
<1> QED  BY <1>3, <1>4

LEMMA ConfigurationInit ==
  ASSUME Mode!Init
  PROVE  ConfigurationKept
BY DEF Mode!Init, ConfigurationKept

\* The steps that leave the setpoints alone
LEMMA ConfigurationSame ==
  ASSUME ConfigurationKept, UNCHANGED <<stage, Mode!setpointVars>>
  PROVE  ConfigurationKept'
BY DEF ConfigurationKept, Mode!Created, Required, Mode!setpointVars

LEMMA ConfigurationStep ==
  ASSUME Mode!ModeAssumption, Mode!TypeOK, ConfigurationKept, [Mode!Next]_Mode!vars
  PROVE  ConfigurationKept'
<1>1. ASSUME NEW t \in TypeNames, Mode!AddSetpointType(t)  PROVE ConfigurationKept'
  BY <1>1 DEF Mode!AddSetpointType, ConfigurationKept
<1>2. ASSUME NEW flag \in {"manual_control", "global_position"}, Mode!SetRequirement(flag)
      PROVE ConfigurationKept'
  BY <1>2 DEF Mode!SetRequirement, ConfigurationKept
<1>3. CASE Mode!DoRegister
  <2>1. sent = None /\ sent' = None /\ types' = types
    BY <1>3 DEF Mode!DoRegister, ConfigurationKept
  <2>2. CASE types = <<>>
    BY <1>3, <2>1, <2>2 DEF Mode!DoRegister, ConfigurationKept
  <2>3. CASE types # <<>>
    <3>1. types[1] \in Mode!Created'
      BY <2>1, <2>3, CreatedKnown DEF Mode!TypeOK, Mode!Created
    <3>2. configured' = types[1] /\ active' = {types[1]}
      BY <1>3, <2>3 DEF Mode!DoRegister
    <3>3. \A t \in Mode!Created' : Required(t)'
      BY <1>3, <2>1, RequiresAll DEF Mode!DoRegister
    <3> QED  BY <2>1, <3>1, <3>2, <3>3 DEF ConfigurationKept
  <2> QED  BY <2>2, <2>3
<1>4. ASSUME NEW t \in Mode!Created, NEW fields \in Mode!Setpoint(t).updates, Mode!Update(t, fields)
      PROVE ConfigurationKept'
  <2>1. /\ stage = "registered" /\ stage' = stage
        /\ UNCHANGED <<types, requirements>>
        /\ sent' = [type |-> t, fields |-> fields]
    BY <1>4 DEF Mode!Update
  <2>2. configured' = t /\ active' = {t}
    BY <1>4, <2>1 DEF Mode!Update, Mode!ActivateSetpointType, ConfigurationKept
  <2>3. t \in Mode!Created' /\ \A u \in Mode!Created' : Required(u)'
    BY <2>1 DEF ConfigurationKept, Mode!Created, Required
  <2> QED  BY <2>1, <2>2, <2>3 DEF ConfigurationKept
<1>5. ASSUME NEW r \in UserRates, Mode!SetSetpointUpdateRate(r)  PROVE ConfigurationKept'
  BY <1>5, ConfigurationSame DEF Mode!SetSetpointUpdateRate
<1>6. CASE Mode!Completed
  BY <1>6, ConfigurationSame DEF Mode!Completed
<1>7. ASSUME NEW selected \in BOOLEAN, NEW isArmed \in BOOLEAN,
             Mode!VehicleStatusUpdated(selected, isArmed)
      PROVE ConfigurationKept'
  BY <1>7, ConfigurationSame DEF Mode!VehicleStatusUpdated
<1>8. CASE Mode!OnActivateReturns
  BY <1>8, ConfigurationSame DEF Mode!OnActivateReturns
<1>9. CASE Mode!CallReturns
  BY <1>9, ConfigurationSame DEF Mode!CallReturns
<1>10. CASE Mode!TimerFires
  BY <1>10, ConfigurationSame DEF Mode!TimerFires
<1>11. CASE Mode!UpdateReturns
  BY <1>11, ConfigurationSame DEF Mode!UpdateReturns
<1>12. CASE UNCHANGED Mode!vars
  BY <1>12, ConfigurationSame DEF Mode!vars
<1> QED
  BY <1>1, <1>2, <1>3, <1>4, <1>5, <1>6, <1>7, <1>8, <1>9, <1>10, <1>11, <1>12 DEF Mode!Next

\* The configuration that was sent last enables all fields of the last setpoint,
\* for all fourteen setpoint types and however a mode switches between them.
THEOREM ModeConfigurationFits ==
  Mode!ModeAssumption /\ Mode!Spec => []Mode!ConfigurationFitsSetpoint
<1> SUFFICES ASSUME Mode!ModeAssumption  PROVE Mode!Spec => []Mode!ConfigurationFitsSetpoint
  OBVIOUS
<1>1. Mode!Init => Mode!TypeOK /\ ConfigurationKept
  BY ModeInit, ConfigurationInit
<1>2. Mode!TypeOK /\ ConfigurationKept /\ [Mode!Next]_Mode!vars
        => Mode!TypeOK' /\ ConfigurationKept'
  BY ModeTypeStep, ConfigurationStep
<1>3. Mode!TypeOK /\ ConfigurationKept => Mode!ConfigurationFitsSetpoint
  <2> SUFFICES ASSUME Mode!TypeOK, ConfigurationKept, sent # None
               PROVE  sent.fields \subseteq Mode!Setpoint(configured).flags
    BY DEF Mode!ConfigurationFitsSetpoint
  <2>1. configured \in DOMAIN Mode!AllTypes
    BY CreatedKnown DEF ConfigurationKept, Mode!TypeOK, Mode!ModeAssumption
  <2> QED
    BY <2>1, TypesConfigured DEF ConfigurationKept, WellConfigured, Mode!Setpoint
<1> QED  BY <1>1, <1>2, <1>3, PTL DEF Mode!Spec

\* A mode controls only what it has required when it registered, for all setpoint
\* types.
THEOREM ModeControlsRequired ==
  Mode!ModeAssumption /\ Mode!Spec => []Mode!ControlsOnlyWhatItRequires
<1> SUFFICES ASSUME Mode!ModeAssumption  PROVE Mode!Spec => []Mode!ControlsOnlyWhatItRequires
  OBVIOUS
<1>1. Mode!Init => Mode!TypeOK /\ ConfigurationKept
  BY ModeInit, ConfigurationInit
<1>2. Mode!TypeOK /\ ConfigurationKept /\ [Mode!Next]_Mode!vars
        => Mode!TypeOK' /\ ConfigurationKept'
  BY ModeTypeStep, ConfigurationStep
<1>3. Mode!TypeOK /\ ConfigurationKept => Mode!ControlsOnlyWhatItRequires
  <2> SUFFICES ASSUME Mode!TypeOK, ConfigurationKept, sent # None
               PROVE  Mode!ControlsOnlyWhatItRequires
    BY DEF Mode!ControlsOnlyWhatItRequires
  <2> DEFINE flags == Mode!Setpoint(configured).flags
  <2>1. configured \in Mode!Created /\ Required(configured) /\ sent.type = configured
    BY DEF ConfigurationKept
  <2>2. sent.fields \subseteq flags
    <3>1. configured \in DOMAIN Mode!AllTypes
      BY CreatedKnown DEF ConfigurationKept, Mode!TypeOK, Mode!ModeAssumption
    <3> QED
      BY <3>1, TypesConfigured DEF ConfigurationKept, WellConfigured, Mode!Setpoint
  <2>3. "attitude" \in flags => "attitude" \in requirements
    BY <2>1 DEF Required, Mode!RequiredBy
  <2>4. "rates" \in flags => "angular_velocity" \in requirements
    BY <2>1 DEF Required, Mode!RequiredBy
  <2>5. flags \cap {"altitude", "climb_rate"} # {} => "local_alt" \in requirements
    BY <2>1 DEF Required, Mode!RequiredBy
  <2>6. flags \cap {"velocity", "position"} # {} =>
          \/ requirements \cap {"local_position", "local_position_relaxed"} # {}
          \/ Mode!Setpoint(configured).localPositionOptional
    BY <2>1 DEF Required, Mode!RequiredBy
  <2> HIDE DEF flags
  <2> QED
    BY <2>1, <2>2, <2>3, <2>4, <2>5, <2>6 DEF Mode!ControlsOnlyWhatItRequires
<1> QED  BY <1>1, <1>2, <1>3, PTL DEF Mode!Spec

-----------------------------------------------------------------------------
(* Shared subscriptions.                                                   *)

\* A handle is held for each callback; an instance in the map has a key; the next
\* token is larger than those of the callbacks.
HandlesKept ==
  /\ \A i \in Shared!Instances, t \in Shared!Tokens : t \in callbacks[i] <=> <<i, t>> \in handles
  /\ \A i \in mapped : key[i] # None
  /\ \A i \in Shared!Instances : \A t \in callbacks[i] : t < nextToken[i]

\* While a message is delivered, a callback that is due was called or is to come,
\* since its token is larger than those called.
DeliveryKept ==
  /\ \A m, n \in 1 .. Len(calledTokens) : m < n => calledTokens[m] < calledTokens[n]
  /\ message = None => \A t \in dueTokens : \E n \in 1 .. Len(calledTokens) : calledTokens[n] = t
  /\ message # None =>
       /\ \A n \in 1 .. Len(calledTokens) : calledTokens[n] < nextToken[message]
       /\ \A t \in dueTokens :
            t \in Shared!Waiting(message) \/ \E n \in 1 .. Len(calledTokens) : calledTokens[n] = t

LEMMA SharedInit ==
  ASSUME Shared!SharedAssumption, Shared!Init
  PROVE  Shared!TypeOK /\ HandlesKept /\ DeliveryKept /\ Shared!OneInstance
<1> USE DEF Shared!SharedAssumption, Shared!Init, Shared!Instances, Shared!Tokens
<1>1. Shared!TypeOK
  BY DEF Shared!TypeOK
<1>2. HandlesKept
  BY DEF HandlesKept
<1>3. DeliveryKept
  BY DEF DeliveryKept
<1>4. Shared!OneInstance
  BY DEF Shared!OneInstance, Shared!SingleInstance
<1> QED  BY <1>1, <1>2, <1>3, <1>4

LEMMA SharedTypeStep ==
  ASSUME Shared!SharedAssumption, Shared!TypeOK, [Shared!Next]_Shared!vars
  PROVE  Shared!TypeOK'
<1> USE DEF Shared!TypeOK, Shared!instanceVars
<1>1. ASSUME NEW k \in Shared!Keys, Shared!Create(k)
      PROVE  Shared!TypeOK'
  <2>1. ASSUME NEW i \in Shared!Instances, Shared!Register(i)
        PROVE  /\ nextToken' \in [Shared!Instances -> 1 .. MaxTokens + 1]
               /\ callbacks' \in [Shared!Instances -> SUBSET Shared!Tokens]
               /\ handles' \subseteq Shared!Instances \X Shared!Tokens
               /\ dueTokens' \subseteq Shared!Tokens
               /\ message' = message /\ calledTokens' = calledTokens
    <3>1. nextToken[i] \in 1 .. MaxTokens
      BY <2>1 DEF Shared!Register, Shared!Tokens
    <3>2. nextToken[i] + 1 \in 1 .. MaxTokens + 1
      BY <3>1, Shared!SharedAssumption DEF Shared!SharedAssumption
    <3>3. nextToken' \in [Shared!Instances -> 1 .. MaxTokens + 1]
      BY <2>1, <3>2 DEF Shared!Register
    <3>4. callbacks' \in [Shared!Instances -> SUBSET Shared!Tokens]
      BY <2>1, <3>1 DEF Shared!Register, Shared!Tokens
    <3>5. handles' \subseteq Shared!Instances \X Shared!Tokens
      BY <2>1, <3>1 DEF Shared!Register, Shared!Tokens
    <3>6. dueTokens' \subseteq Shared!Tokens /\ message' = message /\ calledTokens' = calledTokens
      BY <2>1, <3>1 DEF Shared!Register, Shared!Tokens
    <3> QED  BY <3>3, <3>4, <3>5, <3>6
  <2>2. CASE \E i \in Shared!Found(k) : Shared!Register(i) /\ UNCHANGED <<key, mapped>>
    <3>1. PICK i \in Shared!Found(k) : Shared!Register(i) /\ UNCHANGED <<key, mapped>>
      BY <2>2
    <3>2. i \in Shared!Instances
      BY <3>1 DEF Shared!Found
    <3> QED  BY <2>1, <3>1, <3>2
  <2>3. ASSUME NEW i \in Shared!Instances,
               key' = [key EXCEPT ![i] = k],
               mapped' = mapped \cup {i} \/ mapped' = mapped,
               Shared!Register(i)
        PROVE  Shared!TypeOK'
    BY <2>1, <2>3
  <2> QED  BY <1>1, <2>2, <2>3 DEF Shared!Create
<1>2. ASSUME NEW h \in handles, Shared!Destroy(h)
      PROVE  Shared!TypeOK'
  BY <1>2 DEF Shared!Destroy, Shared!CleanupIfUnused
<1>3. ASSUME NEW i \in Shared!Instances, Shared!MessageArrives(i)
      PROVE  Shared!TypeOK'
  BY <1>3 DEF Shared!MessageArrives
<1>4. ASSUME NEW t \in Shared!Tokens, Shared!Call(t)
      PROVE  Shared!TypeOK'
  BY <1>4 DEF Shared!Call
<1>5. CASE Shared!UpdateDone
  BY <1>5 DEF Shared!UpdateDone
<1>6. CASE UNCHANGED Shared!vars
  BY <1>6 DEF Shared!vars, Shared!updateVars
<1> QED  BY <1>1, <1>2, <1>3, <1>4, <1>5, <1>6 DEF Shared!Next

\* What registering a callback with an instance adds
LEMMA RegisterAdds ==
  ASSUME Shared!SharedAssumption, Shared!TypeOK, HandlesKept, DeliveryKept,
         NEW i \in Shared!Instances, Shared!Register(i)
  PROVE  /\ \A j \in Shared!Instances, t \in Shared!Tokens :
              t \in callbacks'[j] <=> <<j, t>> \in handles'
         /\ \A j \in Shared!Instances : \A t \in callbacks'[j] : t < nextToken'[j]
         /\ \A h \in handles' : h \in handles \/ h[1] = i
         /\ DeliveryKept'
<1> DEFINE n == nextToken[i]
<1>1. n \in Shared!Tokens /\ n \in Nat
  BY DEF Shared!Register, Shared!Tokens
<1>2. /\ callbacks' = [callbacks EXCEPT ![i] = @ \cup {n}]
      /\ nextToken' = [nextToken EXCEPT ![i] = n + 1]
      /\ handles' = handles \cup {<<i, n>>}
      /\ dueTokens' = IF message = i THEN dueTokens \cup {n} ELSE dueTokens
      /\ message' = message /\ calledTokens' = calledTokens
  BY DEF Shared!Register
<1>3. /\ callbacks \in [Shared!Instances -> SUBSET Shared!Tokens]
      /\ nextToken \in [Shared!Instances -> 1 .. MaxTokens + 1]
      /\ \A j \in Shared!Instances : nextToken[j] \in Nat
  BY Shared!SharedAssumption DEF Shared!TypeOK, Shared!SharedAssumption
<1>4. \A t \in Shared!Tokens : t \in Nat
  BY DEF Shared!Tokens
<1>5. /\ \A j \in Shared!Instances :
            callbacks'[j] = IF j = i THEN callbacks[j] \cup {n} ELSE callbacks[j]
      /\ \A j \in Shared!Instances :
            nextToken'[j] = IF j = i THEN n + 1 ELSE nextToken[j]
  BY <1>2, <1>3
<1> HIDE DEF n
<1>6. \A j \in Shared!Instances, t \in Shared!Tokens :
         t \in callbacks'[j] <=> <<j, t>> \in handles'
  <2> SUFFICES ASSUME NEW j \in Shared!Instances, NEW t \in Shared!Tokens
               PROVE  t \in callbacks'[j] <=> <<j, t>> \in handles'
    OBVIOUS
  <2>1. t \in callbacks[j] <=> <<j, t>> \in handles
    BY DEF HandlesKept
  <2>2. <<j, t>> \in handles' <=> <<j, t>> \in handles \/ (j = i /\ t = n)
    BY <1>2
  <2> QED  BY <1>5, <2>1, <2>2
<1>7. \A j \in Shared!Instances : \A t \in callbacks'[j] : t < nextToken'[j]
  <2> SUFFICES ASSUME NEW j \in Shared!Instances, NEW t \in callbacks'[j]
               PROVE  t < nextToken'[j]
    OBVIOUS
  <2>1. CASE j # i
    BY <1>5, <2>1 DEF HandlesKept
  <2>2. CASE j = i
    <3>1. t \in callbacks[i] => t < n /\ t \in Nat
      BY <1>3, <1>4 DEF HandlesKept, n
    <3>2. t \in callbacks[i] \/ t = n
      BY <1>5, <2>2
    <3>3. t < n + 1
      BY <1>1, <3>1, <3>2
    <3>4. nextToken'[j] = n + 1
      BY <1>5, <2>2
    <3> QED  BY <3>3, <3>4
  <2> QED  BY <2>1, <2>2
<1>8. \A h \in handles' : h \in handles \/ h[1] = i
  BY <1>2
<1>9. DeliveryKept'
  <2>1. CASE message = None
    <3>1. i # None
      BY DEF Shared!SharedAssumption
    <3> QED  BY <1>2, <2>1, <3>1 DEF DeliveryKept
  <2>2. CASE message # None /\ message # i
    <3>1. message \in Shared!Instances
      BY <2>2 DEF Shared!TypeOK
    <3>2. Shared!Waiting(message)' = Shared!Waiting(message)
      BY <1>2, <1>5, <2>2, <3>1 DEF Shared!Waiting
    <3>3. nextToken'[message'] = nextToken[message]
      BY <1>2, <1>5, <2>2, <3>1
    <3> QED  BY <1>2, <2>2, <3>2, <3>3 DEF DeliveryKept
  <2>3. CASE message # None /\ message = i
    <3>1. \A m \in 1 .. Len(calledTokens) : calledTokens[m] < n /\ calledTokens[m] \in Nat
      BY <1>4, <2>3 DEF DeliveryKept, n, Shared!TypeOK
    <3>2. \A m \in 1 .. Len(calledTokens') : calledTokens'[m] < nextToken'[message']
      <4>1. nextToken'[message'] = n + 1
        BY <1>2, <1>5, <2>3
      <4>2. \A m \in 1 .. Len(calledTokens) : calledTokens[m] < n + 1
        BY <1>1, <3>1
      <4> QED  BY <1>2, <4>1, <4>2
    <3>3. calledTokens # <<>> => Len(calledTokens) \in 1 .. Len(calledTokens)
      BY DEF Shared!TypeOK
    <3>4. n \in Shared!Waiting(message)'
      <4>1. n \in callbacks'[message']
        BY <1>2, <1>5, <2>3
      <4>2. calledTokens' # <<>> => n > calledTokens'[Len(calledTokens')]
        BY <1>1, <1>2, <3>1, <3>3
      <4> QED  BY <4>1, <4>2 DEF Shared!Waiting
    <3>5. \A t \in Shared!Waiting(message) : t \in Shared!Waiting(message)'
      BY <1>2, <1>5, <2>3 DEF Shared!Waiting
    <3> QED  BY <1>2, <2>3, <3>2, <3>4, <3>5 DEF DeliveryKept
  <2> QED  BY <2>1, <2>2, <2>3
<1> QED  BY <1>6, <1>7, <1>8, <1>9

\* What destroying a handle takes away
LEMMA DestroyRemoves ==
  ASSUME Shared!SharedAssumption, Shared!TypeOK, HandlesKept, DeliveryKept,
         NEW h \in handles, Shared!Destroy(h)
  PROVE  HandlesKept' /\ DeliveryKept'
<1>1. PICK i \in Shared!Instances, t \in Shared!Tokens : h = <<i, t>>
  BY DEF Shared!TypeOK
<1>2. /\ callbacks' = [callbacks EXCEPT ![i] = @ \ {t}]
      /\ handles' = handles \ {<<i, t>>}
      /\ mapped' \subseteq mapped
      /\ dueTokens' = IF message = i THEN dueTokens \ {t} ELSE dueTokens
      /\ UNCHANGED <<key, nextToken, message, calledTokens>>
  BY <1>1 DEF Shared!Destroy, Shared!CleanupIfUnused
<1>3. \A j \in Shared!Instances :
         callbacks'[j] = IF j = i THEN callbacks[j] \ {t} ELSE callbacks[j]
  BY <1>2 DEF Shared!TypeOK
<1>4. HandlesKept'
  <2>1. ASSUME NEW j \in Shared!Instances, NEW u \in Shared!Tokens
        PROVE  u \in callbacks'[j] <=> <<j, u>> \in handles'
    <3>1. u \in callbacks[j] <=> <<j, u>> \in handles
      BY DEF HandlesKept
    <3>2. <<j, u>> \in handles' <=> <<j, u>> \in handles /\ ~(j = i /\ u = t)
      BY <1>2
    <3> QED  BY <1>3, <3>1, <3>2
  <2>2. \A j \in mapped' : key'[j] # None
    BY <1>2 DEF HandlesKept
  <2>3. \A j \in Shared!Instances : \A u \in callbacks'[j] : u < nextToken'[j]
    BY <1>2, <1>3 DEF HandlesKept
  <2> QED  BY <2>1, <2>2, <2>3 DEF HandlesKept
<1>5. DeliveryKept'
  <2>1. CASE message = None
    <3>1. i # None
      BY DEF Shared!SharedAssumption
    <3> QED  BY <1>2, <2>1, <3>1 DEF DeliveryKept
  <2>2. CASE message # None
    <3>1. message \in Shared!Instances
      BY <2>2 DEF Shared!TypeOK
    <3>2. \A u \in dueTokens' : u \in dueTokens
      BY <1>2
    <3>3. \A u \in dueTokens' : u \in Shared!Waiting(message) => u \in Shared!Waiting(message)'
      BY <1>2, <1>3, <3>1 DEF Shared!Waiting
    <3> QED  BY <1>2, <2>2, <3>2, <3>3 DEF DeliveryKept
  <2> QED  BY <2>1, <2>2
<1> QED  BY <1>4, <1>5

\* The next callback is the one with the smallest token of those to come.
LEMMA CallKeeps ==
  ASSUME Shared!SharedAssumption, Shared!TypeOK, HandlesKept, DeliveryKept,
         NEW t \in Shared!Tokens, Shared!Call(t)
  PROVE  DeliveryKept'
<1> DEFINE last == Len(calledTokens)
<1>1. /\ message # None /\ message' = message
      /\ t \in Shared!Waiting(message) /\ \A u \in Shared!Waiting(message) : t <= u
      /\ calledTokens' = Append(calledTokens, t)
      /\ UNCHANGED <<nextToken, callbacks, dueTokens>>
  BY DEF Shared!Call, Shared!IsNext, Shared!instanceVars
<1>2. /\ message \in Shared!Instances /\ calledTokens \in Seq(Shared!Tokens)
      /\ dueTokens \subseteq Shared!Tokens
  BY <1>1 DEF Shared!TypeOK
<1>3. /\ last \in Nat
      /\ Len(calledTokens') = last + 1
      /\ \A n \in 1 .. last : calledTokens'[n] = calledTokens[n]
      /\ calledTokens'[last + 1] = t
      /\ \A n \in 1 .. last : calledTokens[n] \in Nat
      /\ calledTokens # <<>> => last \in 1 .. last
      /\ calledTokens = <<>> => last = 0
  <2>1. last \in Nat /\ \A n \in 1 .. last : calledTokens[n] \in Shared!Tokens
    BY <1>2
  <2>2. Len(calledTokens') = last + 1 /\ calledTokens'[last + 1] = t
    BY <1>1, <1>2
  <2>3. \A n \in 1 .. last : calledTokens'[n] = calledTokens[n]
    BY <1>1, <1>2
  <2>4. calledTokens # <<>> => last \in 1 .. last
    BY <1>2
  <2>5. calledTokens = <<>> => last = 0
    OBVIOUS
  <2> QED  BY <2>1, <2>2, <2>3, <2>4, <2>5 DEF Shared!Tokens
<1>4. /\ t \in Nat /\ t < nextToken[message]
      /\ calledTokens # <<>> => t > calledTokens[last]
      /\ callbacks[message] \subseteq Shared!Tokens
  BY <1>1, <1>2 DEF Shared!Waiting, HandlesKept, Shared!Tokens, Shared!TypeOK
<1> HIDE DEF last
<1>5. \A n \in 1 .. last : calledTokens[n] < t
  <2> SUFFICES ASSUME NEW n \in 1 .. last  PROVE calledTokens[n] < t
    OBVIOUS
  <2>1. calledTokens # <<>>
    BY <1>3
  <2>2. n = last \/ calledTokens[n] < calledTokens[last]
    BY <1>3, <2>1 DEF DeliveryKept, last
  <2> QED  BY <1>3, <1>4, <2>1, <2>2
<1>6. \A m, n \in 1 .. last + 1 : m < n => calledTokens'[m] < calledTokens'[n]
  <2> SUFFICES ASSUME NEW m \in 1 .. last + 1, NEW n \in 1 .. last + 1, m < n
               PROVE  calledTokens'[m] < calledTokens'[n]
    OBVIOUS
  <2>1. m \in 1 .. last
    BY <1>3
  <2>2. CASE n = last + 1
    BY <1>3, <1>5, <2>1, <2>2
  <2>3. CASE n \in 1 .. last
    BY <1>3, <2>1, <2>3 DEF DeliveryKept, last
  <2> QED  BY <1>3, <2>2, <2>3
<1>7. \A n \in 1 .. last + 1 : calledTokens'[n] < nextToken'[message']
  <2> SUFFICES ASSUME NEW n \in 1 .. last + 1
               PROVE  calledTokens'[n] < nextToken'[message']
    OBVIOUS
  <2>1. CASE n = last + 1
    BY <1>1, <1>3, <1>4, <2>1
  <2>2. CASE n \in 1 .. last
    BY <1>1, <1>3, <2>2 DEF DeliveryKept, last
  <2> QED  BY <1>3, <2>1, <2>2
<1>8. \A u \in dueTokens' :
        u \in Shared!Waiting(message)' \/ \E n \in 1 .. last + 1 : calledTokens'[n] = u
  <2> SUFFICES ASSUME NEW u \in dueTokens
               PROVE  u \in Shared!Waiting(message)' \/ \E n \in 1 .. last + 1 : calledTokens'[n] = u
    BY <1>1
  <2>1. last + 1 \in 1 .. last + 1 /\ \A n \in 1 .. last : n \in 1 .. last + 1
    BY <1>3
  <2>2. CASE u = t
    BY <1>3, <2>1, <2>2
  <2>3. CASE u \in Shared!Waiting(message) /\ u # t
    <3>1. u \in callbacks'[message'] /\ u > t
      BY <1>1, <1>2, <1>4, <2>3 DEF Shared!Waiting, Shared!Tokens
    <3>2. calledTokens'[Len(calledTokens')] = t
      BY <1>3
    <3>3. u \in Shared!Waiting(message)'
      BY <3>1, <3>2 DEF Shared!Waiting
    <3> QED  BY <3>3
  <2>4. CASE \E n \in 1 .. last : calledTokens[n] = u
    BY <1>3, <2>1, <2>4
  <2> QED  BY <1>1, <2>2, <2>3, <2>4 DEF DeliveryKept, last
<1> QED
  BY <1>1, <1>3, <1>6, <1>7, <1>8 DEF DeliveryKept

LEMMA SharedStep ==
  ASSUME Shared!SharedAssumption, Shared!TypeOK, HandlesKept, DeliveryKept,
         [Shared!Next]_Shared!vars
  PROVE  HandlesKept' /\ DeliveryKept'
<1>1. ASSUME NEW k \in Shared!Keys, Shared!Create(k)
      PROVE  HandlesKept' /\ DeliveryKept'
  <2>1. ASSUME NEW i \in Shared!Instances, Shared!Register(i),
               \A j \in mapped' : key'[j] # None
        PROVE  HandlesKept' /\ DeliveryKept'
    BY <2>1, RegisterAdds DEF HandlesKept
  <2>2. CASE \E i \in Shared!Found(k) : Shared!Register(i) /\ UNCHANGED <<key, mapped>>
    <3>1. PICK i \in Shared!Found(k) : Shared!Register(i) /\ UNCHANGED <<key, mapped>>
      BY <2>2
    <3>2. i \in Shared!Instances
      BY <3>1 DEF Shared!Found, Shared!TypeOK
    <3>3. \A j \in mapped' : key'[j] # None
      BY <3>1 DEF HandlesKept
    <3> QED  BY <2>1, <3>1, <3>2, <3>3
  <2>3. ASSUME NEW i \in Shared!Instances,
               key' = [key EXCEPT ![i] = k],
               mapped' = mapped \cup {i} \/ mapped' = mapped,
               Shared!Register(i)
        PROVE  HandlesKept' /\ DeliveryKept'
    <3>1. k # None
      BY DEF Shared!SharedAssumption
    <3>2. \A j \in mapped' : key'[j] # None
      BY <2>3, <3>1 DEF HandlesKept, Shared!TypeOK
    <3> QED  BY <2>1, <2>3, <3>2
  <2> QED  BY <1>1, <2>2, <2>3 DEF Shared!Create
<1>2. ASSUME NEW h \in handles, Shared!Destroy(h)
      PROVE  HandlesKept' /\ DeliveryKept'
  BY <1>2, DestroyRemoves
<1>3. ASSUME NEW i \in Shared!Instances, Shared!MessageArrives(i)
      PROVE  HandlesKept' /\ DeliveryKept'
  <2>1. HandlesKept'
    BY <1>3 DEF Shared!MessageArrives, Shared!instanceVars, HandlesKept
  <2>2. message' # None /\ calledTokens' = <<>> /\ dueTokens' = callbacks'[message']
    BY <1>3 DEF Shared!MessageArrives, Shared!instanceVars, Shared!SharedAssumption
  <2>3. \A t \in dueTokens' : t \in Shared!Waiting(message)'
    BY <2>2 DEF Shared!Waiting
  <2> QED  BY <2>1, <2>2, <2>3 DEF DeliveryKept
<1>4. ASSUME NEW t \in Shared!Tokens, Shared!Call(t)
      PROVE  HandlesKept' /\ DeliveryKept'
  <2>1. HandlesKept'
    BY <1>4 DEF Shared!Call, Shared!instanceVars, HandlesKept
  <2> QED  BY <1>4, <2>1, CallKeeps
<1>5. CASE Shared!UpdateDone
  BY <1>5 DEF Shared!UpdateDone, Shared!instanceVars, HandlesKept, DeliveryKept
<1>6. CASE UNCHANGED Shared!vars
  <2>1. HandlesKept'
    BY <1>6 DEF Shared!vars, Shared!instanceVars, HandlesKept
  <2> QED
    BY <1>6, <2>1 DEF Shared!vars, Shared!instanceVars, Shared!updateVars, Shared!Waiting,
                      DeliveryKept
<1> QED  BY <1>1, <1>2, <1>3, <1>4, <1>5, <1>6 DEF Shared!Next

\* The keys of one node, and those of one topic, are in an order: for such nodes
\* and topics the condition of OneInstance holds.
LEMMA KeysOrdered ==
  ASSUME Nodes \subseteq Nat, Topics \subseteq Nat,
         (\A a, b \in Nodes : a = b) \/ (\A a, b \in Topics : a = b)
  PROVE  Shared!Ordered(Shared!Keys)
<1> SUFFICES ASSUME NEW a \in Shared!Keys, NEW b \in Shared!Keys
             PROVE  ~(Shared!Less(a, b) /\ Shared!Less(b, a))
  BY DEF Shared!Ordered
<1>1. /\ a.node \in Nodes /\ b.node \in Nodes
      /\ a.topic \in Topics /\ b.topic \in Topics
  BY DEF Shared!Keys
<1>2. /\ a.node \in Nat /\ b.node \in Nat
      /\ a.topic \in Nat /\ b.topic \in Nat
  BY <1>1
<1>3. a.node = b.node \/ a.topic = b.topic
  BY <1>1
<1> QED  BY <1>2, <1>3 DEF Shared!Less

\* A key stays used, so keys that are in an order were in one.
LEMMA UsedGrows ==
  ASSUME Shared!SharedAssumption, Shared!TypeOK, [Shared!Next]_Shared!vars
  PROVE  Shared!Used \subseteq Shared!Used'
<1>1. ASSUME NEW i \in Shared!Instances, key[i] # None
      PROVE  key'[i] = key[i]
  <2>1. CASE key' = key
    BY <2>1
  <2>2. ASSUME NEW k \in Shared!Keys, NEW j \in Shared!Instances,
               key[j] = None, key' = [key EXCEPT ![j] = k]
        PROVE  key'[i] = key[i]
    BY <1>1, <2>2 DEF Shared!TypeOK
  <2>3. key' = key \/ \E k \in Shared!Keys, j \in Shared!Instances :
                         key[j] = None /\ key' = [key EXCEPT ![j] = k]
    <3>1. ASSUME NEW k \in Shared!Keys, Shared!Create(k)
          PROVE  key' = key \/ \E j \in Shared!Instances :
                                 key[j] = None /\ key' = [key EXCEPT ![j] = k]
      BY <3>1 DEF Shared!Create
    <3> QED
      BY <3>1 DEF Shared!Next, Shared!Destroy, Shared!MessageArrives, Shared!Call,
         Shared!UpdateDone, Shared!vars, Shared!instanceVars
  <2> QED  BY <2>1, <2>2, <2>3
<1> QED  BY <1>1 DEF Shared!Used

\* With the keys used in an order, a lookup finds the instance there is.
LEMMA OneInstanceStep ==
  ASSUME Shared!SharedAssumption,
         Shared!TypeOK, HandlesKept, DeliveryKept, Shared!OneInstance,
         [Shared!Next]_Shared!vars
  PROVE  Shared!OneInstance'
<1> SUFFICES ASSUME Shared!Ordered(Shared!Used)'
             PROVE  Shared!SingleInstance'
  BY DEF Shared!OneInstance
<1>o. Shared!Ordered(Shared!Used)
  BY UsedGrows DEF Shared!Ordered
<1>h. Shared!SingleInstance
  BY <1>o DEF Shared!OneInstance
<1>1. ASSUME NEW k \in Shared!Keys, Shared!Create(k)
      PROVE  Shared!SingleInstance'
  <2>1. CASE \E i \in Shared!Found(k) : Shared!Register(i) /\ UNCHANGED <<key, mapped>>
    <3>1. PICK i \in Shared!Found(k) : Shared!Register(i) /\ UNCHANGED <<key, mapped>>
      BY <2>1
    <3>2. i \in Shared!Instances /\ i \in mapped
      BY <3>1 DEF Shared!Found, Shared!TypeOK
    <3>3. \A h \in handles' : h \in handles \/ h[1] = i
      BY <3>1, <3>2, RegisterAdds
    <3> QED  BY <1>h, <3>1, <3>2, <3>3 DEF Shared!SingleInstance
  <2>2. ASSUME NEW i \in Shared!Instances,
               Shared!Missed(k), key[i] = None,
               key' = [key EXCEPT ![i] = k],
               mapped' = mapped \cup {i} \/ (Shared!Found(k) # {} /\ mapped' = mapped),
               Shared!Register(i)
        PROVE  Shared!SingleInstance'
    <3>1. \A j \in Shared!Instances : key'[j] = IF j = i THEN k ELSE key[j]
      BY <2>2 DEF Shared!TypeOK
    <3>2. Shared!MapKeys \cup {k} \subseteq Shared!Used'
      <4>1. Shared!MapKeys \subseteq Shared!Used
        BY DEF Shared!MapKeys, Shared!Used, Shared!TypeOK, HandlesKept
      <4>2. k # None
        BY DEF Shared!SharedAssumption
      <4> QED  BY <3>1, <4>1, <4>2, UsedGrows DEF Shared!Used
    <3>3. Shared!Found(k) = {}
      BY <2>2, <3>2 DEF Shared!Missed, Shared!Ordered
    <3>4. mapped' = mapped \cup {i}
      BY <2>2, <3>3
    <3>5. \A j \in mapped : j \in Shared!Instances /\ key[j] # k
      BY <3>3 DEF Shared!Found, Shared!TypeOK
    <3>6. \A j, l \in mapped' : key'[j] = key'[l] => j = l
      BY <1>h, <3>1, <3>4, <3>5 DEF Shared!SingleInstance
    <3>7. \A h \in handles' : h \in handles \/ h[1] = i
      BY <2>2, RegisterAdds
    <3> QED  BY <1>h, <3>4, <3>6, <3>7 DEF Shared!SingleInstance
  <2> QED  BY <1>1, <2>1, <2>2 DEF Shared!Create
<1>2. ASSUME NEW h \in handles, Shared!Destroy(h)
      PROVE  Shared!SingleInstance'
  <2>1. PICK i \in Shared!Instances, t \in Shared!Tokens : h = <<i, t>>
    BY DEF Shared!TypeOK
  <2>2. /\ handles' \subseteq handles /\ key' = key
        /\ mapped' = IF callbacks'[i] = {} THEN mapped \ {i} ELSE mapped
    BY <1>2, <2>1 DEF Shared!Destroy, Shared!CleanupIfUnused
  <2>3. HandlesKept' /\ Shared!TypeOK'
    BY SharedStep, SharedTypeStep
  <2>4. ASSUME NEW g \in handles'
        PROVE  g[1] \in mapped'
    <3>1. PICK j \in Shared!Instances, u \in Shared!Tokens : g = <<j, u>>
      BY <2>3 DEF Shared!TypeOK, Shared!Instances, Shared!Tokens
    <3>2. u \in callbacks'[j]
      BY <2>3, <2>4, <3>1 DEF HandlesKept, Shared!Instances, Shared!Tokens
    <3>3. j \in mapped
      BY <1>h, <2>2, <2>4, <3>1 DEF Shared!SingleInstance
    <3> QED  BY <2>2, <3>1, <3>2, <3>3
  <2> QED  BY <1>h, <2>2, <2>4 DEF Shared!SingleInstance
<1>3. CASE UNCHANGED <<key, mapped, handles>>
  BY <1>3, <1>h DEF Shared!SingleInstance
<1> QED
  BY <1>1, <1>2, <1>3 DEF Shared!Next, Shared!MessageArrives, Shared!Call, Shared!UpdateDone,
     Shared!vars, Shared!instanceVars

\* The state of the shared subscriptions keeps its type.
THEOREM SharedTypeCorrect == Shared!SharedAssumption /\ Shared!Spec => []Shared!TypeOK
<1> SUFFICES ASSUME Shared!SharedAssumption  PROVE Shared!Spec => []Shared!TypeOK
  OBVIOUS
<1>1. Shared!Init => Shared!TypeOK
  BY SharedInit
<1>2. Shared!TypeOK /\ [Shared!Next]_Shared!vars => Shared!TypeOK'
  BY SharedTypeStep
<1> QED  BY <1>1, <1>2, PTL DEF Shared!Spec

\* As long as Key::operator< orders the keys used, as it does those of one node or one
\* topic, the map holds one instance of a key, and it is the one of every handle.
THEOREM SharedInstances ==
  Shared!SharedAssumption /\ Shared!Spec => []Shared!OneInstance
<1> SUFFICES ASSUME Shared!SharedAssumption
             PROVE  Shared!Spec => []Shared!OneInstance
  OBVIOUS
<1> DEFINE I == Shared!TypeOK /\ HandlesKept /\ DeliveryKept /\ Shared!OneInstance
<1>1. Shared!Init => I
  BY SharedInit
<1>2. I /\ [Shared!Next]_Shared!vars => I'
  BY SharedTypeStep, SharedStep, OneInstanceStep
<1>3. I => Shared!OneInstance
  OBVIOUS
<1> QED  BY <1>1, <1>2, <1>3, PTL DEF Shared!Spec

\* Of one node, or of one topic, there is a single instance, without a condition.
THEOREM SingleOfOneNode ==
  ASSUME Shared!SharedAssumption, Nodes \subseteq Nat, Topics \subseteq Nat,
         (\A a, b \in Nodes : a = b) \/ (\A a, b \in Topics : a = b)
  PROVE  Shared!Spec => []Shared!SingleInstance
<1>1. Shared!Spec => []Shared!TypeOK /\ []Shared!OneInstance
  BY SharedTypeCorrect, SharedInstances
<1>2. Shared!TypeOK /\ Shared!OneInstance => Shared!SingleInstance
  <2> SUFFICES ASSUME Shared!TypeOK, Shared!OneInstance  PROVE Shared!SingleInstance
    OBVIOUS
  <2>1. Shared!Used \subseteq Shared!Keys
    BY DEF Shared!Used, Shared!TypeOK
  <2>2. Shared!Ordered(Shared!Used)
    BY <2>1, KeysOrdered DEF Shared!Ordered
  <2> QED  BY <2>2 DEF Shared!OneInstance
<1> QED  BY <1>1, <1>2, PTL

\* For any nodes and topics, a message reaches the callbacks registered when it came and
\* since, each once and in their order, whatever callbacks create and destroy.
THEOREM SharedDelivery ==
  Shared!SharedAssumption /\ Shared!Spec => []Shared!InOrderOfRegistration
<1> SUFFICES ASSUME Shared!SharedAssumption
             PROVE  Shared!Spec => []Shared!InOrderOfRegistration
  OBVIOUS
<1> DEFINE I == Shared!TypeOK /\ HandlesKept /\ DeliveryKept
<1>1. Shared!Init => I
  BY SharedInit
<1>2. I /\ [Shared!Next]_Shared!vars => I'
  BY SharedTypeStep, SharedStep
<1>3. I => Shared!InOrderOfRegistration
  BY DEF DeliveryKept, Shared!InOrderOfRegistration
<1> QED  BY <1>1, <1>2, <1>3, PTL DEF Shared!Spec

-----------------------------------------------------------------------------
(* The mission file: writing and parsing.                                  *)

\* An action is written as it was read, since it keeps the whole object.
LEMMA ActionRoundTrip ==
  ASSUME NEW j, File!IsObject(j), File!Has(j, "type"), j.type # "navigation"
  PROVE  File!ItemToJson(File!ItemFromJson(j)) = j
<1> DEFINE item == [kind |-> "action", id |-> File!IdOf(j), name |-> j.type, arguments |-> j]
           w == File!WithId([type |-> j.type], File!IdOf(j))
<1>1. File!ItemFromJson(j) = item
  BY DEF File!ItemFromJson
<1>2. item.kind # "navigation" /\ item.arguments = j /\ item.id = File!IdOf(j) /\ item.name = j.type
  OBVIOUS
<1>3. DOMAIN w \subseteq DOMAIN j
  <2>1. CASE File!IdOf(j) = File!NoId
    BY <2>1 DEF File!WithId, File!Has
  <2>2. CASE File!IdOf(j) # File!NoId
    <3>1. "id" \in DOMAIN j
      BY <2>2 DEF File!IdOf, File!Has
    <3> QED  BY <2>2, <3>1 DEF File!WithId, File!Has
  <2> QED  BY <2>1, <2>2
<1>4. File!ItemToJson(item) =
        [k \in DOMAIN w \cup DOMAIN j |-> IF File!Has(j, k) THEN j[k] ELSE w[k]]
  <2> HIDE DEF item
  <2> QED  BY <1>2, Zenon DEF File!ItemToJson
<1> HIDE DEF item, w
<1>5. DOMAIN w \cup DOMAIN j = DOMAIN j
  BY <1>3
<1>6. [k \in DOMAIN w \cup DOMAIN j |-> IF File!Has(j, k) THEN j[k] ELSE w[k]]
        = [k \in DOMAIN j |-> j[k]]
  BY <1>5 DEF File!Has
<1> QED  BY <1>1, <1>4, <1>6 DEF File!IsObject

\* What is written for a waypoint parses as the waypoint.
LEMMA WaypointRoundTrip ==
  ASSUME NEW id, NEW position
  PROVE  /\ File!ItemValid(File!ItemToJson(
              [kind |-> "navigation", id |-> id, position |-> position]))
         /\ File!ItemFromJson(File!ItemToJson(
              [kind |-> "navigation", id |-> id, position |-> position]))
              = [kind |-> "navigation", id |-> id, position |-> position]
<1> DEFINE item == [kind |-> "navigation", id |-> id, position |-> position]
           w == [type |-> "navigation", navigationType |-> "waypoint",
                 frame |-> "global", position |-> position]
           j == File!ItemToJson(item)
<1>1. j = File!WithId(w, id)
  BY DEF File!ItemToJson
<1>2. CASE id = File!NoId
  <2>1. j = w
    BY <1>1, <1>2 DEF File!WithId
  <2>2. File!IdOf(w) = id
    BY <1>2 DEF File!IdOf, File!Has
  <2>3. File!ItemFromJson(w) = item
    BY <2>2 DEF File!ItemFromJson
  <2>4. File!ItemValid(w)
    BY DEF File!ItemValid, File!Has
  <2> QED  BY <2>1, <2>3, <2>4
<1>3. CASE id # File!NoId
  <2>1. j = [k \in DOMAIN w \cup {"id"} |-> IF k = "id" THEN id ELSE w[k]]
    BY <1>1, <1>3 DEF File!WithId
  <2>2. /\ DOMAIN j = {"type", "navigationType", "frame", "position", "id"}
        /\ j["type"] = "navigation" /\ j["navigationType"] = "waypoint"
        /\ j["frame"] = "global" /\ j["position"] = position /\ j["id"] = id
    <3> HIDE DEF j
    <3> QED  BY <2>1
  <2> HIDE DEF j
  <2>3. File!IdOf(j) = id
    BY <2>2 DEF File!IdOf, File!Has
  <2>4. File!ItemFromJson(j) = item
    BY <2>2, <2>3 DEF File!ItemFromJson
  <2>5. File!ItemValid(j)
    BY <2>2 DEF File!ItemValid, File!Has
  <2> QED  BY <2>4, <2>5 DEF j
<1> QED  BY <1>2, <1>3

LEMMA ItemRoundTrip ==
  ASSUME NEW j, File!IsObject(j), File!ItemValid(j)
  PROVE  /\ File!ItemValid(File!ItemToJson(File!ItemFromJson(j)))
         /\ File!ItemFromJson(File!ItemToJson(File!ItemFromJson(j))) = File!ItemFromJson(j)
<1>1. CASE j.type = "navigation"
  <2>1. File!ItemFromJson(j) =
          [kind |-> "navigation", id |-> File!IdOf(j), position |-> j.position]
    BY <1>1 DEF File!ItemFromJson
  <2> QED  BY <2>1, WaypointRoundTrip, Zenon
<1>2. CASE j.type # "navigation"
  <2>1. File!ItemToJson(File!ItemFromJson(j)) = j
    BY <1>2, ActionRoundTrip DEF File!ItemValid
  <2> QED  BY <2>1
<1> QED  BY <1>1, <1>2

\* Options keep their names and, but for the heading rate, their values.
LEMMA OptionsRoundTrip ==
  ASSUME NEW j
  PROVE  LET o == File!OptionsFromJson(j)
             again == File!OptionsFromJson(File!OptionsToJson(o))
         IN  /\ DOMAIN again = DOMAIN o
             /\ \A k \in DOMAIN o \ {"maxHeadingRate"} : again[k] = o[k]
<1> DEFINE names == File!OptionNames \cap DOMAIN j
           o == File!OptionsFromJson(j)
           w == File!OptionsToJson(o)
           again == File!OptionsFromJson(w)
<1>1. o = [k \in names |-> IF k = "maxHeadingRate" THEN File!DegToRad(j[k]) ELSE j[k]]
  BY DEF File!OptionsFromJson
<1> HIDE DEF o
<1>2. DOMAIN o = names
  BY <1>1
<1>3. w = [k \in names |-> IF k = "maxHeadingRate" THEN File!RadToDeg(o[k]) ELSE o[k]]
  BY <1>2 DEF File!OptionsToJson
<1> HIDE DEF w
<1>4. File!OptionNames \cap DOMAIN w = names
  BY <1>3
<1>5. again = [k \in names |-> IF k = "maxHeadingRate" THEN File!DegToRad(w[k]) ELSE w[k]]
  BY <1>4 DEF File!OptionsFromJson
<1> HIDE DEF again
<1>6. DOMAIN again = DOMAIN o
  BY <1>2, <1>5
<1>7. ASSUME NEW k \in DOMAIN o \ {"maxHeadingRate"}
      PROVE  again[k] = o[k]
  BY <1>2, <1>3, <1>5
<1> QED  BY <1>6, <1>7 DEF o, w, again

\* A mission that is written and parsed again has the same items and options.
SameMission(again, m) ==
  /\ again.items = m.items
  /\ DOMAIN again.options = DOMAIN m.options
  /\ \A k \in DOMAIN m.options \ {"maxHeadingRate"} : again.options[k] = m.options[k]

LEMMA MissionRoundTrip ==
  ASSUME File!FileAssumption, NEW d \in Documents, File!Valid(d)
  PROVE  LET m == File!FromJson(d)
         IN  /\ File!Valid(File!ToJson(m))
             /\ SameMission(File!FromJson(File!ToJson(m)), m)
<1> DEFINE m == File!FromJson(d)
           n == Len(d.items)
           source == IF File!Has(d, "defaults") THEN d.defaults ELSE <<>>
           written == [i \in 1 .. n |-> File!ItemToJson(File!ItemFromJson(d.items[i]))]
           options == File!OptionsFromJson(source)
           rewritten == File!OptionsFromJson(File!OptionsToJson(options))
           j == [version |-> 1, defaults |-> File!OptionsToJson(options), items |-> written]
<1>1. /\ n \in Nat
      /\ \A i \in 1 .. n : File!IsObject(d.items[i]) /\ File!ItemValid(d.items[i])
  <2>1. File!WellFormed(d)
    BY DEF File!FileAssumption
  <2>2. \A i \in 1 .. n : File!ItemValid(d.items[i])
    BY DEF File!Valid
  <2> QED  BY <2>1, <2>2 DEF File!WellFormed
<1>2. m = [options |-> options,
           items |-> [i \in 1 .. n |-> File!ItemFromJson(d.items[i])]]
  BY DEF File!FromJson
<1>w. File!ToJson(m) \notin {Absent, Partial}
  BY DEF File!FileAssumption
<1>o. /\ DOMAIN rewritten = DOMAIN options
      /\ \A k \in DOMAIN options \ {"maxHeadingRate"} : rewritten[k] = options[k]
  BY OptionsRoundTrip
<1> HIDE DEF n, source, options, m
<1>3. /\ m.options = options
      /\ m.items = [i \in 1 .. n |-> File!ItemFromJson(d.items[i])]
      /\ DOMAIN m.items = 1 .. n
      /\ \A i \in 1 .. n : m.items[i] = File!ItemFromJson(d.items[i])
      /\ Len(m.items) = n
  BY <1>1, <1>2
<1>4. File!ToJson(m) = j
  BY <1>3 DEF File!ToJson
<1>5. /\ j.version = 1 /\ j.items = written /\ j.defaults = File!OptionsToJson(options)
      /\ File!Has(j, "defaults") /\ File!IsObject(j)
      /\ Len(written) = n
  <2>1. Len(written) = n
    BY <1>1
  <2> QED  BY <2>1 DEF File!Has, File!IsObject
<1>6. \A i \in 1 .. n : written[i] = File!ItemToJson(File!ItemFromJson(d.items[i]))
  OBVIOUS
<1> HIDE DEF j, written
<1>7. File!Valid(j)
  <2>1. j \notin {Absent, Partial}
    BY <1>4, <1>w
  <2>2. \A i \in 1 .. n : File!ItemValid(written[i])
    BY <1>1, <1>6, ItemRoundTrip
  <2> QED  BY <1>5, <2>1, <2>2 DEF File!Valid
<1>8. File!FromJson(j) =
        [options |-> rewritten, items |-> [i \in 1 .. n |-> File!ItemFromJson(written[i])]]
  BY <1>5 DEF File!FromJson
<1> HIDE DEF rewritten
<1>9. [i \in 1 .. n |-> File!ItemFromJson(written[i])]
        = [i \in 1 .. n |-> File!ItemFromJson(d.items[i])]
  BY <1>1, <1>6, ItemRoundTrip
<1>10. SameMission(File!FromJson(j), m)
  BY <1>3, <1>8, <1>9, <1>o DEF SameMission
<1> QED  BY <1>4, <1>7, <1>10 DEF m

-----------------------------------------------------------------------------
(* The mission file: the monitor.                                          *)

\* The directory is watched before the file is looked for, and the timer is
\* cancelled before the file is read.
MonitorKept ==
  /\ watchThread # "start" => watched = ~RelativeName
  /\ ros = "called" => armed
  /\ File!LatestLoaded

LEMMA FileInit ==
  ASSUME File!FileAssumption, File!Init
  PROVE  File!TypeOK /\ MonitorKept
<1>1. File!TypeOK
  <2>1. writes \in 0 .. MaxWrites
    BY DEF File!FileAssumption, File!Init
  <2>2. file \in Documents \cup {Absent, Partial}
    BY DEF File!Init
  <2> QED  BY <2>1, <2>2 DEF File!Init, File!TypeOK
<1> QED  BY <1>1 DEF File!Init, MonitorKept, File!LatestLoaded

LEMMA FileTypeStep ==
  ASSUME File!FileAssumption, File!TypeOK, [File!Next]_File!vars
  PROVE  File!TypeOK'
<1> USE DEF File!TypeOK
<1>1. CASE File!AddWatch
  BY <1>1 DEF File!AddWatch, File!FileAssumption
<1>2. CASE File!ReadEvents
  BY <1>2 DEF File!ReadEvents
<1>3. CASE File!TimerFires
  BY <1>3 DEF File!TimerFires
<1>4. CASE File!CancelTimer
  BY <1>4 DEF File!CancelTimer
<1>5. CASE File!FileUpdated
  <2>1. File!Valid(file) => file \in Documents
    BY DEF File!Valid
  <2> QED  BY <1>5, <2>1 DEF File!FileUpdated
<1>6. CASE File!Destroy
  BY <1>6 DEF File!Destroy
<1>7. CASE File!ThreadReturns
  BY <1>7 DEF File!ThreadReturns
<1>8. CASE File!Joined
  BY <1>8 DEF File!Joined
<1>9. CASE File!Truncate
  BY <1>9 DEF File!Truncate, File!FileAssumption
<1>10. ASSUME NEW document \in Documents, File!Complete(document)
       PROVE  File!TypeOK'
  BY <1>10 DEF File!Complete, File!FileAssumption
<1>11. CASE UNCHANGED File!vars
  BY <1>11 DEF File!vars
<1> QED
  BY <1>1, <1>2, <1>3, <1>4, <1>5, <1>6, <1>7, <1>8, <1>9, <1>10, <1>11 DEF File!Next

LEMMA MonitorStep ==
  ASSUME File!FileAssumption, File!TypeOK, MonitorKept, [File!Next]_File!vars
  PROVE  MonitorKept'
<1> USE DEF MonitorKept, File!LatestLoaded
<1>1. CASE File!AddWatch
  <2>1. ~File!Valid(Absent)
    BY DEF File!Valid
  <2> QED  BY <1>1, <2>1 DEF File!AddWatch
<1>2. CASE File!ReadEvents
  BY <1>2 DEF File!ReadEvents
<1>3. CASE File!TimerFires
  BY <1>3 DEF File!TimerFires
<1>4. CASE File!CancelTimer
  BY <1>4 DEF File!CancelTimer
<1>5. CASE File!FileUpdated
  BY <1>5 DEF File!FileUpdated
<1>6. CASE File!Destroy
  BY <1>6 DEF File!Destroy
<1>7. CASE File!ThreadReturns
  BY <1>7 DEF File!ThreadReturns
<1>8. CASE File!Joined
  BY <1>8 DEF File!Joined
<1>9. CASE File!Truncate
  <2>1. ~File!Valid(Partial)
    BY DEF File!Valid
  <2> QED  BY <1>9, <2>1 DEF File!Truncate
<1>10. ASSUME NEW document \in Documents, File!Complete(document)
       PROVE  MonitorKept'
  BY <1>10 DEF File!Complete
<1>11. CASE UNCHANGED File!vars
  BY <1>11 DEF File!vars
<1> QED
  BY <1>1, <1>2, <1>3, <1>4, <1>5, <1>6, <1>7, <1>8, <1>9, <1>10, <1>11 DEF File!Next

\* The state of the monitor keeps its type: what is loaded is a valid document.
THEOREM FileTypeCorrect == File!FileAssumption /\ File!Spec => []File!TypeOK
<1> SUFFICES ASSUME File!FileAssumption  PROVE File!Spec => []File!TypeOK
  OBVIOUS
<1>1. File!Init => File!TypeOK
  BY FileInit
<1>2. File!TypeOK /\ [File!Next]_File!vars => File!TypeOK'
  BY FileTypeStep
<1> QED  BY <1>1, <1>2, PTL DEF File!Spec

\* When the monitor has nothing left to do, the mission in use is the one in the
\* file, for any documents and any number of writes at any time.
THEOREM FileLoaded == File!FileAssumption /\ File!Spec => []File!LatestLoaded
<1> SUFFICES ASSUME File!FileAssumption  PROVE File!Spec => []File!LatestLoaded
  OBVIOUS
<1>1. File!Init => File!TypeOK /\ MonitorKept
  BY FileInit
<1>2. File!TypeOK /\ MonitorKept /\ [File!Next]_File!vars => File!TypeOK' /\ MonitorKept'
  BY FileTypeStep, MonitorStep
<1>3. MonitorKept => File!LatestLoaded
  BY DEF MonitorKept
<1> QED  BY <1>1, <1>2, <1>3, PTL DEF File!Spec

\* A mission in use has the same items and options when it is written and parsed
\* again, for any documents; only its heading rate may be rounded.
THEOREM FileRoundTrip == File!FileAssumption /\ File!Spec => []File!RoundTrip
<1> SUFFICES ASSUME File!FileAssumption  PROVE File!Spec => []File!RoundTrip
  OBVIOUS
<1>1. File!Init => File!TypeOK
  BY FileInit
<1>2. File!TypeOK /\ [File!Next]_File!vars => File!TypeOK'
  BY FileTypeStep
<1>3. File!TypeOK => File!RoundTrip
  <2> SUFFICES ASSUME File!TypeOK, loaded # None
               PROVE  File!RoundTrip
    BY DEF File!RoundTrip
  <2>1. PICK d \in Documents : File!Valid(d) /\ loaded = File!FromJson(d)
    BY DEF File!TypeOK
  <2>2. File!Valid(File!ToJson(loaded)) /\ SameMission(File!FromJson(File!ToJson(loaded)), loaded)
    BY <2>1, MissionRoundTrip
  <2> QED  BY <2>2 DEF File!RoundTrip, SameMission
<1> QED  BY <1>1, <1>2, <1>3, PTL DEF File!Spec

-----------------------------------------------------------------------------
(* The navigation interfaces.                                              *)

Fields(m) == DOMAIN m.value

\* What is given has values and variances of its fields.
LEMMA MeasurementFields ==
  ASSUME NEW m \in Navigation!Measurements, Navigation!NavigationAssumption
  PROVE  /\ Fields(m) \in {LocalFields, GlobalFields} /\ Fields(m) # {}
         /\ m.value \in [Fields(m) -> Navigation!Values]
         /\ m.variance \in [Fields(m) -> Navigation!Variances]
         /\ m.timestamp \in {"zero", "set"}
         /\ m = [value |-> m.value, variance |-> m.variance, timestamp |-> m.timestamp]
<1>1. CASE m \in Navigation!LocalPositionMeasurement
  BY <1>1 DEF Navigation!LocalPositionMeasurement, Navigation!NavigationAssumption, Fields
<1>2. CASE m \in Navigation!GlobalPositionMeasurement
  BY <1>2 DEF Navigation!GlobalPositionMeasurement, Navigation!NavigationAssumption, Fields
<1> QED  BY <1>1, <1>2 DEF Navigation!Measurements

\* A message is what was given, and is published only after it was accepted; what was
\* given and is accepted is published.
PublishedGiven ==
  /\ measured # None =>
       /\ Navigation!Accepted(given)
       /\ measured \in {Navigation!Message(given),
                         Navigation!Accuracies(Navigation!Message(given))}
  /\ updated /\ Navigation!Accepted(given) => measured # None

LEMMA NavigationInit ==
  ASSUME Navigation!NavigationAssumption, Navigation!Init
  PROVE  Navigation!TypeOK /\ PublishedGiven
<1>1. given \in Navigation!Measurements
  <2>1. CASE interface = "local"
    BY <2>1 DEF Navigation!Init, Navigation!Empty, Navigation!Measurements,
                Navigation!LocalPositionMeasurement, Navigation!Values, Navigation!Variances
  <2>2. CASE interface # "local"
    BY <2>2 DEF Navigation!Init, Navigation!Empty, Navigation!Measurements,
                Navigation!GlobalPositionMeasurement, Navigation!Values, Navigation!Variances
  <2> QED  BY <2>1, <2>2
<1>2. counter \in 0 .. CounterSize - 1
  BY DEF Navigation!Init, Navigation!NavigationAssumption
<1>3. PublishedGiven
  BY DEF Navigation!Init, PublishedGiven
<1> QED  BY <1>1, <1>2, <1>3 DEF Navigation!Init, Navigation!TypeOK

\* A field that is filled in keeps the measurement one.
LEMMA FilledIn ==
  ASSUME Navigation!NavigationAssumption, Navigation!TypeOK,
         NEW f \in Fields(given), NEW value \in Navigation!Values,
         NEW variance \in Navigation!Variances
  PROVE  [given EXCEPT !.value[f] = value, !.variance[f] = variance] \in Navigation!Measurements
<1>1. CASE given \in Navigation!LocalPositionMeasurement
  <2>1. [given EXCEPT !.value[f] = value, !.variance[f] = variance]
          \in Navigation!LocalPositionMeasurement
    BY <1>1 DEF Navigation!LocalPositionMeasurement, Fields
  <2> QED  BY <2>1 DEF Navigation!Measurements
<1>2. CASE given \in Navigation!GlobalPositionMeasurement
  <2>1. [given EXCEPT !.value[f] = value, !.variance[f] = variance]
          \in Navigation!GlobalPositionMeasurement
    BY <1>2 DEF Navigation!GlobalPositionMeasurement, Fields
  <2> QED  BY <2>1 DEF Navigation!Measurements
<1> QED  BY <1>1, <1>2 DEF Navigation!TypeOK, Navigation!Measurements

LEMMA NavigationStep ==
  ASSUME Navigation!NavigationAssumption, Navigation!TypeOK, PublishedGiven,
         [Navigation!Next]_Navigation!navigationVars
  PROVE  Navigation!TypeOK' /\ PublishedGiven'
<1> USE DEF Navigation!interfaceVars
<1>1. ASSUME NEW m \in Navigation!Measurements, Navigation!Fill(m)
      PROVE  Navigation!TypeOK' /\ PublishedGiven'
  BY <1>1 DEF Navigation!Fill, Navigation!TypeOK, PublishedGiven
<1>2. ASSUME NEW f \in DOMAIN given.value, NEW value \in Navigation!Values,
             NEW variance \in Navigation!Variances, Navigation!FillField(f, value, variance)
      PROVE  Navigation!TypeOK' /\ PublishedGiven'
  <2>1. [given EXCEPT !.value[f] = value, !.variance[f] = variance] \in Navigation!Measurements
    BY FilledIn DEF Fields
  <2> QED  BY <1>1, <1>2, <2>1 DEF Navigation!FillField
<1>3. ASSUME NEW timestamp \in {"zero", "set"}, Navigation!FillTimestamp(timestamp)
      PROVE  Navigation!TypeOK' /\ PublishedGiven'
  <2>1. [given EXCEPT !.timestamp = timestamp] \in Navigation!Measurements
    BY DEF Navigation!TypeOK, Navigation!Measurements, Navigation!LocalPositionMeasurement,
           Navigation!GlobalPositionMeasurement
  <2> QED  BY <1>1, <1>3, <2>1 DEF Navigation!FillTimestamp
<1>4. ASSUME UNCHANGED <<interface, poseFrame, velocityFrame, given, counter>>,
             updated' = TRUE,
             NEW m \in {Navigation!Message(given),
                        Navigation!Accuracies(Navigation!Message(given))},
             measured' = IF Navigation!Accepted(given) THEN m ELSE None
      PROVE  Navigation!TypeOK' /\ PublishedGiven'
  <2>1. Navigation!TypeOK'
    BY <1>4 DEF Navigation!TypeOK
  <2>2. Navigation!Accepted(given)' <=> Navigation!Accepted(given)
    BY <1>4 DEF Navigation!Accepted, Navigation!isFrameValid, Navigation!HasValue
  <2>3. m # None
    BY DEF Navigation!TypeOK, Navigation!NavigationAssumption
  <2>4. measured' # None => Navigation!Accepted(given)' /\ measured' = m
    BY <1>4, <2>2
  <2>5. Navigation!Accepted(given)' => measured' # None
    BY <1>4, <2>2, <2>3
  <2>6. m \in {Navigation!Message(given)', Navigation!Accuracies(Navigation!Message(given))'}
    BY <1>4
  <2> QED  BY <2>1, <2>4, <2>5, <2>6 DEF PublishedGiven
<1>5. CASE Navigation!LocalUpdate
  BY <1>4, <1>5 DEF Navigation!LocalUpdate
<1>6. CASE Navigation!GlobalUpdate
  BY <1>4, <1>6 DEF Navigation!GlobalUpdate
<1>7. ASSUME UNCHANGED <<interface, poseFrame, velocityFrame, given, updated, measured>>,
             counter' \in 0 .. CounterSize - 1
      PROVE  Navigation!TypeOK' /\ PublishedGiven'
  <2>1. Navigation!Accepted(given)' <=> Navigation!Accepted(given)
    BY <1>7 DEF Navigation!Accepted, Navigation!isFrameValid, Navigation!HasValue
  <2> QED  BY <1>7, <2>1 DEF Navigation!TypeOK, PublishedGiven
<1>8. CASE Navigation!Reset
  <2>1. counter' \in 0 .. CounterSize - 1
    BY <1>8 DEF Navigation!Reset, Navigation!TypeOK, Navigation!NavigationAssumption
  <2> QED  BY <1>7, <1>8, <2>1 DEF Navigation!Reset
<1>9. CASE UNCHANGED Navigation!navigationVars
  BY <1>7, <1>9 DEF Navigation!navigationVars, Navigation!TypeOK
<1> QED
  BY <1>2, <1>3, <1>5, <1>6, <1>8, <1>9 DEF Navigation!Next

LEMMA PublishedImpliesUsable ==
  ASSUME Navigation!NavigationAssumption, Navigation!TypeOK, PublishedGiven
  PROVE  Navigation!PublishedUsable
<1> DEFINE fields == Fields(given)
           plain == Navigation!Message(given)
<1>1. /\ fields # {}
      /\ given.value \in [fields -> Navigation!Values]
      /\ given.variance \in [fields -> Navigation!Variances]
      /\ given.timestamp \in {"zero", "set"}
      /\ DOMAIN given.value = fields
  BY MeasurementFields DEF Navigation!TypeOK, Fields
<1> HIDE DEF fields
<1>2. ASSUME measured # None, NEW f \in DOMAIN measured.value,
             measured.value[f] = "number"
      PROVE  /\ measured.variance[f] = "positive"
             /\ f \in Navigation!PositionFields => poseFrame = "known"
             /\ f \in Navigation!VelocityFields => velocityFrame = "known"
  <2>1. Navigation!Accepted(given)
    BY <1>2 DEF PublishedGiven
  <2>2. /\ plain.value =
            [g \in fields |-> IF given.value[g] # "unset" THEN given.value[g] ELSE "nan"]
        /\ plain.variance =
            [g \in fields |-> IF given.variance[g] = "unset" THEN "nan" ELSE given.variance[g]]
    BY <1>1 DEF Navigation!Message, Navigation!HasValue
  <2>3. plain = [value |-> plain.value, variance |-> plain.variance]
    BY DEF Navigation!Message
  <2> HIDE DEF plain
  <2>4. measured = plain \/ measured = Navigation!Accuracies(plain)
    BY <1>2 DEF PublishedGiven, plain
  <2>5. /\ Navigation!Accuracies(plain).value = plain.value
        /\ Navigation!Accuracies(plain).variance =
             [g \in fields |-> IF plain.variance[g] = "notPositive" THEN "nan"
                               ELSE plain.variance[g]]
    BY <2>2, <2>3 DEF Navigation!Accuracies
  <2>6. /\ f \in fields /\ plain.value[f] = "number"
        /\ measured.variance[f] =
             IF plain.variance[f] = "notPositive" /\ measured # plain THEN "nan"
             ELSE plain.variance[f]
    BY <1>2, <2>2, <2>4, <2>5
  <2>7. given.value[f] = "number"
    BY <2>2, <2>6
  <2>8. given.variance[f] = "positive"
    BY <1>1, <2>1, <2>6, <2>7
       DEF Navigation!Accepted, Navigation!isVarianceValid, Navigation!isValueNotNAN,
           Navigation!HasValue, Navigation!Variances
  <2>9. measured.variance[f] = "positive"
    BY <2>2, <2>6, <2>8
  <2>10. /\ f \in Navigation!PositionFields => poseFrame = "known"
         /\ f \in Navigation!VelocityFields => velocityFrame = "known"
    BY <1>1, <2>1, <2>6, <2>7
       DEF Navigation!Accepted, Navigation!isFrameValid, Navigation!HasValue
  <2> QED  BY <2>9, <2>10
<1>3. ASSUME updated, given.timestamp = "set",
             \A f \in DOMAIN given.value :
               given.value[f] = "number" /\ given.variance[f] = "positive",
             poseFrame = "known", velocityFrame = "known"
      PROVE  measured # None
  <2>1. Navigation!isMeasurementNonEmpty(given)
    BY <1>1, <1>3 DEF Navigation!isMeasurementNonEmpty, Navigation!HasValue
  <2>2. Navigation!isVarianceValid(given) /\ Navigation!isValueNotNAN(given)
    BY <1>3 DEF Navigation!isVarianceValid, Navigation!isValueNotNAN
  <2>3. Navigation!isFrameValid(given)
    BY <1>3 DEF Navigation!isFrameValid
  <2> QED  BY <1>3, <2>1, <2>2, <2>3 DEF Navigation!Accepted, PublishedGiven
<1> QED  BY <1>2, <1>3 DEF Navigation!PublishedUsable

\* The state of a navigation interface keeps its type.
THEOREM NavigationTypeCorrect ==
  Navigation!NavigationAssumption /\ Navigation!Spec => []Navigation!TypeOK
<1> SUFFICES ASSUME Navigation!NavigationAssumption  PROVE Navigation!Spec => []Navigation!TypeOK
  OBVIOUS
<1>1. Navigation!Init => Navigation!TypeOK /\ PublishedGiven
  BY NavigationInit
<1>2. Navigation!TypeOK /\ PublishedGiven /\ [Navigation!Next]_Navigation!navigationVars
        => Navigation!TypeOK' /\ PublishedGiven'
  BY NavigationStep
<1> QED  BY <1>1, <1>2, PTL DEF Navigation!Spec

\* Whatever fields there are, a published value has an accuracy that can be used, and a
\* position or velocity a known frame; what is complete is published.
THEOREM NavigationUsable ==
  Navigation!NavigationAssumption /\ Navigation!Spec => []Navigation!PublishedUsable
<1> SUFFICES ASSUME Navigation!NavigationAssumption
             PROVE  Navigation!Spec => []Navigation!PublishedUsable
  OBVIOUS
<1>1. Navigation!Init => Navigation!TypeOK /\ PublishedGiven
  BY NavigationInit
<1>2. Navigation!TypeOK /\ PublishedGiven /\ [Navigation!Next]_Navigation!navigationVars
        => Navigation!TypeOK' /\ PublishedGiven'
  BY NavigationStep
<1>3. Navigation!TypeOK /\ PublishedGiven => Navigation!PublishedUsable
  BY PublishedImpliesUsable
<1> QED  BY <1>1, <1>2, <1>3, PTL DEF Navigation!Spec

-----------------------------------------------------------------------------
(* VTOL transitions.                                                       *)

LEMMA OlderIsAge ==
  ASSUME NEW limit \in Nat, NEW age \in Vtol!Ages(limit)
  PROVE  Vtol!Older(age, limit) \in Vtol!Ages(limit) /\ 0 \in Vtol!Ages(limit)
BY DEF Vtol!Older, Vtol!Ages

\* However long the last step was, the integrator stays within its limit.
LEMMA IntegratorLimited ==
  ASSUME Vtol!VtolAssumption, NEW start \in 0 .. Limit, NEW dt \in Nat,
         decelerationError \in {-1, 1, NaN}
  PROVE  Vtol!Integrate(start, dt) \in 0 .. Limit
<1>1. CASE decelerationError = NaN
  BY <1>1 DEF Vtol!Integrate
<1>2. CASE decelerationError # NaN
  <2>1. start + decelerationError * dt \in Int
    BY <1>2, Vtol!VtolAssumption DEF Vtol!VtolAssumption
  <2>2. Vtol!Clamp(start + decelerationError * dt) \in 0 .. Limit
    BY <2>1 DEF Vtol!Clamp, Vtol!VtolAssumption
  <2> QED  BY <1>2, <2>2 DEF Vtol!Integrate
<1> QED  BY <1>1, <1>2

LEMMA TransitionTypeStep ==
  ASSUME Vtol!VtolAssumption, Vtol!TypeOK, [Vtol!Next]_Vtol!vtolVars
  PROVE  Vtol!TypeOK'
<1> USE DEF Vtol!TypeOK, Vtol!fmuVars, Vtol!userVars, Vtol!pitchVars
<1>1. CASE Vtol!Transition
  <2>1. 0 \in Vtol!Ages(Spacing)
    BY DEF Vtol!Ages, Vtol!VtolAssumption
  <2>2. sentAge' \in Vtol!Ages(Spacing)
    BY <1>1, <2>1 DEF Vtol!Transition, Vtol!AgeAfter
  <2> QED  BY <1>1, <2>2 DEF Vtol!Transition
<1>2. CASE Vtol!ComputePitch
  <2>1. pitchAge \in Nat /\ 0 \in 0 .. Limit /\ 0 \in Vtol!Ages(ResetAfter)
    BY DEF Vtol!Ages, Vtol!VtolAssumption
  <2>2. integral' \in 0 .. Limit
    BY <1>2, <2>1, IntegratorLimited DEF Vtol!ComputePitch
  <2> QED  BY <1>2, <2>1, <2>2 DEF Vtol!ComputePitch
<1>3. CASE Vtol!ChangesMind
  <2>1. changes' \in 0 .. MaxChanges
    BY <1>3 DEF Vtol!ChangesMind, Vtol!VtolAssumption
  <2> QED  BY <1>3, <2>1 DEF Vtol!ChangesMind
<1>4. CASE Vtol!StatusArrives
  BY <1>4, OlderIsAge DEF Vtol!StatusArrives, Vtol!VtolAssumption
<1>5. CASE Vtol!LocalPositionArrives
  BY <1>5 DEF Vtol!LocalPositionArrives
<1>6. CASE Vtol!Tick
  <2>1. /\ statusAge' \in Vtol!Ages(StatusTimeout)
        /\ sentAge' \in Vtol!Ages(Spacing)
        /\ pitchAge' \in Vtol!Ages(ResetAfter)
    BY <1>6, OlderIsAge DEF Vtol!Tick, Vtol!VtolAssumption
  <2> QED  BY <1>6, <2>1 DEF Vtol!Tick
<1>7. CASE Vtol!FmuTakesCommand
  BY <1>7 DEF Vtol!FmuTakesCommand, Vtol!Transitioning, Vtol!States
<1>8. CASE Vtol!CommandLost
  BY <1>8 DEF Vtol!CommandLost
<1>9. CASE Vtol!FmuArrives
  <2>1. vehicle' \in Vtol!States
    BY <1>9 DEF Vtol!FmuArrives, Vtol!States
  <2> QED  BY <1>9, <2>1 DEF Vtol!FmuArrives
<1>10. CASE Vtol!FmuFallsBack
  <2>1. faults' \in 0 .. MaxFaults
    BY <1>10 DEF Vtol!FmuFallsBack, Vtol!VtolAssumption
  <2> QED  BY <1>10, <2>1 DEF Vtol!FmuFallsBack, Vtol!States
<1>11. CASE UNCHANGED Vtol!vtolVars
  BY <1>11 DEF Vtol!vtolVars
<1> QED
  BY <1>1, <1>2, <1>3, <1>4, <1>5, <1>6, <1>7, <1>8, <1>9, <1>10, <1>11
     DEF Vtol!Next

\* Whatever the FMU does, the state of a transition keeps its type; the integrator of a
\* back transition stays a number within its limit, also before a local position came.
THEOREM VtolTypeCorrect == Vtol!VtolAssumption /\ Vtol!Spec => []Vtol!TypeOK
<1> SUFFICES ASSUME Vtol!VtolAssumption  PROVE Vtol!Spec => []Vtol!TypeOK
  OBVIOUS
<1>1. Vtol!Init => Vtol!TypeOK
  <2> SUFFICES ASSUME Vtol!Init  PROVE Vtol!TypeOK
    OBVIOUS
  <2>1. faults \in 0 .. MaxFaults /\ changes \in 0 .. MaxChanges /\ integral \in 0 .. Limit
    BY DEF Vtol!Init, Vtol!VtolAssumption
  <2>2. statusAge \in Vtol!Ages(StatusTimeout)
    BY DEF Vtol!Init, Vtol!Ages, Vtol!VtolAssumption
  <2>3. sentAge \in Vtol!Ages(Spacing)
    BY DEF Vtol!Init, Vtol!Ages, Vtol!VtolAssumption
  <2>4. pitchAge \in Vtol!Ages(ResetAfter)
    BY DEF Vtol!Init, Vtol!Ages, Vtol!VtolAssumption
  <2> QED
    BY <2>1, <2>2, <2>3, <2>4 DEF Vtol!Init, Vtol!TypeOK, Vtol!States
<1>2. Vtol!TypeOK /\ [Vtol!Next]_Vtol!vtolVars => Vtol!TypeOK'
  BY TransitionTypeStep
<1> QED  BY <1>1, <1>2, PTL DEF Vtol!Spec

-----------------------------------------------------------------------------
(* All parts: each of them sees steps of its own only.                     *)

\* A node's behaviour is one of each of its parts.
LEMMA PartsInitially ==
  PartsInit => /\ Init /\ Shared!Init /\ Mode!Init /\ File!Init
               /\ Vtol!Init /\ Navigation!Init
BY DEF PartsInit

\* A step of a node is a step of each part, or changes nothing of it.
LEMMA StepOfChecks == [PartsNext]_partsVars => [Next]_vars
BY DEF PartsNext, partsVars, vars

LEMMA StepOfShared == [PartsNext]_partsVars => [Shared!Next]_Shared!vars
BY DEF PartsNext, partsVars, sharedVars, Shared!vars, Shared!instanceVars, Shared!updateVars

LEMMA StepOfMode == [PartsNext]_partsVars => [Mode!Next]_Mode!vars
BY DEF PartsNext, partsVars, modeVars, Mode!vars, Mode!setpointVars, Mode!timerVars,
       Mode!activeVars

LEMMA StepOfFile == [PartsNext]_partsVars => [File!Next]_File!vars
BY DEF PartsNext, partsVars, fileVars, File!vars

LEMMA StepOfVtol == [PartsNext]_partsVars => [Vtol!Next]_Vtol!vtolVars
BY DEF PartsNext, partsVars, transitionVars, Vtol!vtolVars, Vtol!fmuVars, Vtol!userVars,
       Vtol!pitchVars

LEMMA StepOfNavigation == [PartsNext]_partsVars => [Navigation!Next]_Navigation!navigationVars
BY DEF PartsNext, partsVars, measurementVars, Navigation!navigationVars,
       Navigation!interfaceVars

\* What is proved of a part alone holds of it in a node.
THEOREM PartsAreTheirs ==
  PartsSpec => /\ Spec /\ Shared!Spec /\ Mode!Spec /\ File!Spec
               /\ Vtol!Spec /\ Navigation!Spec
BY PartsInitially, StepOfChecks, StepOfShared, StepOfMode, StepOfFile, StepOfVtol,
   StepOfNavigation, PTL
   DEF PartsSpec, Spec, Shared!Spec, Mode!Spec, File!Spec, Vtol!Spec, Navigation!Spec

\* The variables of all parts keep their types.
THEOREM PartsTypeCorrect == PartsSpec => []PartsTypeOK
<1>1. /\ Mode!ModeAssumption /\ Shared!SharedAssumption /\ File!FileAssumption
      /\ Vtol!VtolAssumption /\ Navigation!NavigationAssumption
  BY PartsAssumption
<1>2. PartsTypeOK <=> /\ TypeOK /\ Shared!TypeOK /\ Mode!TypeOK /\ File!TypeOK
                      /\ Vtol!TypeOK /\ Navigation!TypeOK
  BY DEF PartsTypeOK
<1> QED
  BY <1>1, <1>2, PartsAreTheirs, TypeCorrect, SharedTypeCorrect, ModeTypeCorrect,
     FileTypeCorrect, VtolTypeCorrect, NavigationTypeCorrect, PTL

\* Between callbacks the setpoint timer runs exactly when the mode is active and
\* has a rate, and with that rate.
THEOREM TimerHasRate == PartsSpec => []TimerFollowsRate
<1>1. Mode!ModeAssumption
  BY PartsAssumption
<1> QED
  BY <1>1, PartsAreTheirs, ModeTimerHasRate, PTL DEF TimerFollowsRate

\* The configuration the FMU has enables all fields of the setpoint sent last.
THEOREM ConfigurationFits == PartsSpec => []ConfigurationFitsSetpoint
<1>1. Mode!ModeAssumption
  BY PartsAssumption
<1> QED
  BY <1>1, PartsAreTheirs, ModeConfigurationFits, PTL DEF ConfigurationFitsSetpoint

\* What a mode controls it has required when it registered.
THEOREM ControlsRequired == PartsSpec => []ControlsOnlyWhatItRequires
<1>1. Mode!ModeAssumption
  BY PartsAssumption
<1> QED
  BY <1>1, PartsAreTheirs, ModeControlsRequired, PTL DEF ControlsOnlyWhatItRequires

\* There is one shared instance of a node and topic, as long as the keys used are
\* ordered.
THEOREM InstancesAreShared == PartsSpec => []OneInstance
<1>1. Shared!SharedAssumption
  BY PartsAssumption
<1> QED
  BY <1>1, PartsAreTheirs, SharedInstances, PTL DEF OneInstance

\* A message reaches the callbacks in the order of their registration.
THEOREM DeliveredInOrder == PartsSpec => []InOrderOfRegistration
<1>1. Shared!SharedAssumption
  BY PartsAssumption
<1> QED
  BY <1>1, PartsAreTheirs, SharedDelivery, PTL DEF InOrderOfRegistration

\* No change of the mission file is missed.
THEOREM FileIsLoaded == PartsSpec => []LatestLoaded
<1>1. File!FileAssumption
  BY PartsAssumption
<1> QED
  BY <1>1, PartsAreTheirs, FileLoaded, PTL DEF LatestLoaded

\* A mission written and read again has the same items, options and velocities.
THEOREM MissionsRoundTrip == PartsSpec => []RoundTrip
<1>1. File!FileAssumption
  BY PartsAssumption
<1> QED
  BY <1>1, PartsAreTheirs, FileRoundTrip, PTL DEF RoundTrip

\* What the estimator gets has an accuracy that can be used, a position and a velocity
\* are in a known frame, and what is complete is not refused.
THEOREM MeasurementsUsable == PartsSpec => []PublishedUsable
<1>1. Navigation!NavigationAssumption
  BY PartsAssumption
<1> QED
  BY <1>1, PartsAreTheirs, NavigationUsable, PTL DEF PublishedUsable

\* The sample keeps its value, which is one of those assumed.
Sampled ==
  /\ attitude \in Quaternions /\ point \in Vectors
  /\ \E k \in Int : yaw = 90 * k
  /\ yawRate \in Int

LEMMA SampledFirst == PartsInit => Sampled
<1> SUFFICES ASSUME PartsInit  PROVE Sampled
  OBVIOUS
<1>1. SampleInit /\ SampleAssumption
  BY PartsAssumption DEF PartsInit
<1>2. CASE chosen = "frames"
  <2>1. attitude \in Attitudes /\ point \in Points /\ yaw \in Yaws /\ yawRate \in YawRates
    BY <1>1, <1>2 DEF SampleInit
  <2>2. yaw \in Int /\ yaw % 90 = 0
    BY <1>1, <2>1 DEF SampleAssumption
  <2>3. (yaw \div 90) \in Int /\ yaw = 90 * (yaw \div 90)
    BY <2>2
  <2> QED  BY <1>1, <2>1, <2>3 DEF SampleAssumption, Sampled
<1>3. CASE chosen # "frames"
  <2>1. attitude = <<1, 0, 0, 0>> /\ point = <<0, 0, 0>> /\ yaw = 90 * 0 /\ yawRate = 0
    BY <1>1, <1>3 DEF SampleInit
  <2> QED  BY <2>1 DEF Sampled, Quaternions, Vectors
<1> QED  BY <1>2, <1>3

LEMMA SampledStays == Sampled /\ [PartsNext]_partsVars => Sampled'
BY DEF Sampled, PartsNext, partsVars, sampleVars

\* A converted attitude turns as the attitude does, a converted yaw and its rate
\* too, and conversions have inverses (utils/frame_conversion.hpp).
THEOREM ConversionsAreConsistent == PartsSpec => []ConversionsAgree
<1>1. Sampled => ConversionsAgree
  <2> SUFFICES ASSUME Sampled  PROVE ConversionsAgree
    OBVIOUS
  <2>1. PICK k \in Int : yaw = 90 * k
    BY DEF Sampled
  <2>2. attitude \in Quaternions /\ point \in Vectors /\ yawRate \in Int /\ yaw \in Int
    BY <2>1 DEF Sampled
  <2>3. YawAgrees(yaw, point)
    BY <2>1, <2>2, YawsAgree
  <2> QED
    BY <2>2, <2>3, AttitudesAgree, RatesAgree, VariancesAgree, BackAndForth DEF ConversionsAgree
<1> QED  BY <1>1, SampledFirst, SampledStays, PTL DEF PartsSpec
=============================================================================
