---------------------------- MODULE DriveCurves -----------------------------
(***************************************************************************)
(* The two curves of drive.c, walked from one end of the input range to    *)
(* the other: the throttle a trigger pair gives and the steering a stick   *)
(* position gives.  The walk compares the integer code with the formulas   *)
(* of DRIVING.md and each point with the one before it.                    *)
(***************************************************************************)
EXTENDS DriveLogic

CONSTANTS
  LX_REACH,     \* stick positions walked: -LX_REACH..LX_REACH, past -512..511
  MODE_MAX      \* the largest output, drive_map_throttle's max

\* max is a mode's limit or the cap, and neither stops the motors.
ASSUME CurvesAssumption ==
  /\ LX_REACH \in Nat
  /\ MODE_MAX \in Nat /\ DRIVE_MIN_OUTPUT <= MODE_MAX

THROTTLE_REACH == 110   \* past -100..100

VARIABLES
  lx,                   \* the stick
  throttle              \* the throttle in percent

vars == <<lx, throttle>>

Init == lx = -LX_REACH /\ throttle = -THROTTLE_REACH

Walk ==
  /\ lx < LX_REACH
  /\ lx' = lx + 1
  /\ throttle' = imin(throttle + 1, THROTTLE_REACH)

Spec == Init /\ [][Walk]_vars

-----------------------------------------------------------------------------
\* DRIVING.md, "Steering", over exact fractions of the travel: |in| <= 10 is
\* centered, 10..100 is scaled to 0..100 and squared, the sign is kept.  The
\* code truncates three times, each time by less than one stick percent,
\* which the curve (slope <= 2 * 100/90) turns into at most 4 points.
SteerFollowsCurve ==
  LET full == IF lx < 0 THEN STICK_HALF ELSE STICK_HALF - 1
      \* tenths of a percent of the travel, and of the rescaled travel
      travel == imin((iabs(lx) * 1000) \div full, 1000)
      scaled == IF travel <= 10 * STEER_DEADZONE
                THEN 0
                ELSE ((travel - 10 * STEER_DEADZONE) * 100) \div (100 - STEER_DEADZONE)
      curve == isign(lx) * ((scaled * scaled) \div 10000)
      out == drive_steer_percent(lx)
  IN  /\ iabs(out) <= iabs(curve)
      /\ iabs(curve) - iabs(out) <= 4
      /\ iabs(lx) >= full => iabs(out) = 100

\* DRIVING.md, "Throttle": out = 10 + (|in| - 2) * (max - 10) / (100 - 2) outside the
\* neutral band (10 and 2 are settings of drive.h), so the motors get 0 or
\* enough to move, and all of max at the end of the travel, the same in both
\* directions.
ThrottleFollowsCurve ==
  LET out == drive_map_throttle(throttle, MODE_MAX)
      a == imin(iabs(throttle), 100)
      range == 100 - DRIVE_NEUTRAL
      \* range times what the formula gives
      curve == DRIVE_MIN_OUTPUT * range + (a - DRIVE_NEUTRAL) * (MODE_MAX - DRIVE_MIN_OUTPUT)
  IN  /\ out = -drive_map_throttle(-throttle, MODE_MAX)
      /\ a <= DRIVE_NEUTRAL <=> out = 0
      /\ out # 0 => /\ DRIVE_MIN_OUTPUT <= iabs(out)
                    /\ iabs(out) * range <= curve
                    /\ (iabs(out) + 1) * range > curve
      /\ a = 100 => iabs(out) = MODE_MAX

\* More stick is never less steering, and no single count of the stick moves
\* the wheels by more than 4 points: no jump at the edge of the deadzone.
SteerMonotone ==
  [][ drive_steer_percent(lx') - drive_steer_percent(lx) \in 0 .. 4 ]_vars

\* More trigger is never less drive.
ThrottleMonotone ==
  [][ drive_map_throttle(throttle', MODE_MAX) >= drive_map_throttle(throttle, MODE_MAX) ]_vars
=============================================================================
