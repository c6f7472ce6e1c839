-------------------------- MODULE DAFFSCTransform --------------------------
(***************************************************************************)
(* DAFFSCTransform: the object view and the data view of a direction,      *)
(* which differ by the orientation (yaw, pitch, roll) of the object.       *)
(*                                                                         *)
(* Every angle is a multiple of a quarter turn, so that sines and cosines  *)
(* are -1, 0 or 1 and the rotation is exact: one of the three components   *)
(* of a direction is 1 or -1 and the others are 0.                         *)
(***************************************************************************)
EXTENDS Integers

CONSTANT Degree     \* units per degree

QuarterTurn == 90 * Degree

\* Sine and cosine of a multiple of a quarter turn.
Sin(x) ==
  LET q == (x \div QuarterTurn) % 4 IN IF q = 1 THEN 1 ELSE IF q = 3 THEN -1 ELSE 0
Cos(x) == Sin(x + QuarterTurn)

\* atan2 and asin on such values; atan2(0, 0) is 0.
ArcTan2(s, c) ==
  IF s = 0 THEN (IF c < 0 THEN 2 * QuarterTurn ELSE 0) ELSE s * QuarterTurn
ArcSin(s) == s * QuarterTurn

\* RotationConstants::Init.
RotationConstants(o) ==
  LET sy == Sin(o.yaw) cy == Cos(o.yaw)
      sp == Sin(o.pitch) cp == Cos(o.pitch)
      sr == Sin(o.roll) cr == Cos(o.roll)
  IN  [t1 |-> cy * cr - sy * sp * sr, t2 |-> cy * sr + sy * sp * cr, t3 |-> sy * cp,
       t4 |-> -(sy * cr) - cy * sp * sr, t5 |-> -(sy * sr) + cy * sp * cr, t6 |-> cy * cp,
       t7 |-> cp * sr, t8 |-> cp * cr, t9 |-> sp]

\* The direction in the data view of an azimuth and an elevation, with the
\* constants t that setOrientation keeps.
transformOSC2DSC(t, azimuth, elevation) ==
  LET sa_ce == Sin(azimuth) * Cos(elevation)
      ca_ce == Cos(azimuth) * Cos(elevation)
      se == Sin(elevation)
  IN  [alpha |-> ArcTan2(t.t1 * sa_ce - t.t2 * se + t.t3 * ca_ce,
                         t.t4 * sa_ce - t.t5 * se + t.t6 * ca_ce),
       beta |-> ArcSin(t.t7 * sa_ce + t.t8 * se + t.t9 * ca_ce) + QuarterTurn]

\* The azimuth and elevation of a direction of the data view.
transformDSC2OSC(t, alpha, beta) ==
  LET sa_ce == Sin(alpha) * Cos(beta - QuarterTurn)
      ca_ce == Cos(alpha) * Cos(beta - QuarterTurn)
      se == Sin(beta - QuarterTurn)
  IN  [phi |-> ArcTan2(t.t1 * sa_ce + t.t7 * se + t.t4 * ca_ce,
                       t.t3 * sa_ce + t.t9 * se + t.t6 * ca_ce),
       theta |-> -ArcSin(t.t2 * sa_ce - t.t8 * se + t.t5 * ca_ce)]
=============================================================================
