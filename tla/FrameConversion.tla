---------------------------- MODULE FrameConversion ----------------------------
(***************************************************************************)
(* The conversions between NED and ENU and between FRD and FLU              *)
(* (utils/frame_conversion.hpp), and wrapPi() (utils/geometry.hpp), over the *)
(* integers: a quaternion stands for its direction, so that a product with   *)
(* 1/sqrt(2) in it is one with 1, angles are degrees, and those that turn a   *)
(* vector are multiples of 90 degrees.                                      *)
(***************************************************************************)
EXTENDS Integers

Vectors     == Int \X Int \X Int
Quaternions == Int \X Int \X Int \X Int   \* w, x, y, z

\* The product of quaternions, and the vector q * v * conjugate(q), which is v
\* rotated and |q|^2 times as long (Eigen).
Product(p, q) ==
  << p[1]*q[1] - p[2]*q[2] - p[3]*q[3] - p[4]*q[4],
     p[1]*q[2] + p[2]*q[1] + p[3]*q[4] - p[4]*q[3],
     p[1]*q[3] - p[2]*q[4] + p[3]*q[1] + p[4]*q[2],
     p[1]*q[4] + p[2]*q[3] - p[3]*q[2] + p[4]*q[1] >>

Rotated(q, v) ==
  LET r == Product(Product(q, <<0, v[1], v[2], v[3]>>), <<q[1], -q[2], -q[3], -q[4]>>)
  IN  <<r[2], r[3], r[4]>>

-----------------------------------------------------------------------------
positionNedToEnu(ned) == <<ned[2], ned[1], -ned[3]>>
positionEnuToNed(enu) == <<enu[2], enu[1], -enu[3]>>
frdToFlu(frd) == <<frd[1], -frd[2], -frd[3]>>
fluToFrd(flu) == <<flu[1], -flu[2], -flu[3]>>
varianceNedToEnu(ned) == <<ned[2], ned[1], ned[3]>>
varianceEnuToNed(enu) == <<enu[2], enu[1], enu[3]>>

\* Mutant: the body keeps its axes.
attitudeWorldOnly(ned) == Product(<<0, 1, 1, 0>>, ned)

\* 180 degrees about X, -90 degrees about Z, and 180 degrees about X of the body
attitudeNedToEnu(ned) == Product(Product(<<0, 1, 1, 0>>, ned), <<0, 1, 0, 0>>)
attitudeEnuToNed(enu) == Product(Product(<<0, 1, 1, 0>>, enu), <<0, 1, 0, 0>>)

\* The loops of wrapPi() end in [-180, 180).
wrapPi(angle) == ((angle + 180) % 360) - 180

yawNedToEnu(ned) == wrapPi(90 - ned)
yawEnuToNed(enu) == wrapPi(90 - enu)
yawRateNedToEnu(ned) == -ned
yawRateEnuToNed(enu) == -enu

\* The cosine of a multiple of 90 degrees
Cos(yaw) == CASE yaw % 360 = 0 -> 1 [] yaw % 360 = 180 -> -1 [] OTHER -> 0
Sin(yaw) == Cos(yaw - 90)

yawBodyToWorld(yaw, p) ==
  <<Cos(yaw) * p[1] - Sin(yaw) * p[2], Sin(yaw) * p[1] + Cos(yaw) * p[2], p[3]>>

-----------------------------------------------------------------------------
(* What the conversions have to do with each other.                        *)

\* A point of the body is where it is, whether its frame and the attitude are
\* converted or the point is: FLU of the converted attitude is ENU of NED.
AttitudeAgrees(q, v) ==
  Rotated(attitudeNedToEnu(q), frdToFlu(v)) =
    LET p == positionNedToEnu(Rotated(q, v)) IN <<2 * p[1], 2 * p[2], 2 * p[3]>>

\* The same for the attitude that is given by a yaw.
YawAgrees(yaw, v) ==
  yawBodyToWorld(yawNedToEnu(yaw), frdToFlu(v)) = positionNedToEnu(yawBodyToWorld(yaw, v))

\* A yaw that turns is, converted, the converted yaw that turns with the
\* converted rate.
RateAgrees(yaw, rate) ==
  yawNedToEnu(yaw + rate) = wrapPi(yawNedToEnu(yaw) + yawRateNedToEnu(rate))

Abs(x) == IF x < 0 THEN -x ELSE x
Spread(v) == <<Abs(v[1]), Abs(v[2]), Abs(v[3])>>

\* The variances are those of the converted coordinates.
VarianceAgrees(v) == varianceNedToEnu(Spread(v)) = Spread(positionNedToEnu(v))

\* Back and forth is the identity: of a quaternion, twice the same, of a yaw the
\* one in [-180, 180).
ThereAndBack(q, v, yaw) ==
  /\ positionEnuToNed(positionNedToEnu(v)) = v
  /\ fluToFrd(frdToFlu(v)) = v
  /\ varianceEnuToNed(varianceNedToEnu(v)) = v
  /\ attitudeEnuToNed(attitudeNedToEnu(q)) = <<2 * q[1], 2 * q[2], 2 * q[3], 2 * q[4]>>
  /\ yawEnuToNed(yawNedToEnu(yaw)) = wrapPi(yaw)
=============================================================================
