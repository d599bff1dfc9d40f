----------------------------- MODULE DriveLogic -----------------------------
(***************************************************************************)
(* The pure driving logic of firmware/src/drive.c: arming, throttle,       *)
(* steering curve and motor ramps.  No variables: drive_t is the record d, *)
(* and drive_step() is an operator from d and one input to the next d.     *)
(*                                                                         *)
(* The settings of drive.h are CONSTANTS, so that the theorems hold for    *)
(* every retuning the assumption allows.                                   *)
(***************************************************************************)
EXTENDS Integers

CONSTANTS
  DRIVE_OUTPUT_CAP,         \* hard cap on motor output (percent duty)
  DRIVE_LIMITED_MAX,        \* largest output in LIMITED
  DRIVE_FULL_MAX,           \* largest output in FULL
  DRIVE_NEUTRAL,            \* |throttle| up to this is neutral
  DRIVE_MIN_OUTPUT,         \* output at which the motors start to move
  DRIVE_ARM_TRIGGER_MAX,    \* both triggers at most this to arm
  RAMP_UP_STEP,             \* per frame, speeding up
  RAMP_RELEASE_STEP,        \* per frame, slowing down
  RAMP_REVERSE_STEP,        \* per frame, slowing down to reverse
  RAMP_REVERSE_HOLD_FRAMES, \* frames at 0 before reversing
  NoPad                     \* the NULL input: no controller, or an update runs

ASSUME DriveAssumption ==
  /\ DRIVE_OUTPUT_CAP \in Nat /\ DRIVE_LIMITED_MAX \in Nat /\ DRIVE_FULL_MAX \in Nat
  /\ DRIVE_MIN_OUTPUT \in 1 .. DRIVE_OUTPUT_CAP
  /\ DRIVE_MIN_OUTPUT <= DRIVE_LIMITED_MAX
  /\ DRIVE_MIN_OUTPUT <= DRIVE_FULL_MAX
  /\ DRIVE_NEUTRAL \in 0 .. 99
  /\ DRIVE_ARM_TRIGGER_MAX \in Nat
  /\ RAMP_UP_STEP \in Nat \ {0}
  /\ RAMP_RELEASE_STEP \in Nat \ {0}
  /\ RAMP_REVERSE_STEP \in Nat \ {0}
  /\ RAMP_REVERSE_HOLD_FRAMES \in Nat \ {0}

TRIGGER_MAX == 1023
STICK_HALF == 512

STEER_DEADZONE == 10

\* The buttons drive_step() looks at; prev_buttons = 0xFFFF is all of them.
Buttons == {"A", "B", "LB", "RB"}
Shoulders == {"LB", "RB"}

\* pad_state_t, reduced to the fields that driving reads.
Pad == [buttons : SUBSET Buttons, lt : Int, rt : Int, lx : Int]

ASSUME NoPadAssumption == NoPad \notin Pad

Modes == {"UNARMED", "LIMITED", "FULL"}

DriveT == [mode : Modes, prev : SUBSET Buttons, output : Int, hold : Nat]

-----------------------------------------------------------------------------
\* C integer helpers.
iabs(v) == IF v < 0 THEN -v ELSE v
isign(v) == IF v < 0 THEN -1 ELSE 1
imin(a, b) == IF a < b THEN a ELSE b
clamp(v, lo, hi) == IF v < lo THEN lo ELSE IF v > hi THEN hi ELSE v

\* C division truncates toward zero; \div rounds down (b > 0 here).
cdiv(a, b) == isign(a) * (iabs(a) \div b)

trigger_percent(t) == (clamp(t, 0, TRIGGER_MAX) * 100) \div TRIGGER_MAX

drive_throttle_percent(pad) == trigger_percent(pad.rt) - trigger_percent(pad.lt)

\* Faulty variant: the neutral band ends one percent early.
drive_map_throttle_narrow(throttle, max) ==
  LET a == imin(iabs(throttle), 100)
  IN  IF a < DRIVE_NEUTRAL
      THEN 0
      ELSE isign(throttle) *
             (DRIVE_MIN_OUTPUT
              + ((a - DRIVE_NEUTRAL) * (max - DRIVE_MIN_OUTPUT)) \div (100 - DRIVE_NEUTRAL))

\* Faulty variant: the sign of the throttle does not reach the minimum.
drive_map_throttle_sign(throttle, max) ==
  LET a == imin(iabs(throttle), 100)
  IN  IF a <= DRIVE_NEUTRAL
      THEN 0
      ELSE DRIVE_MIN_OUTPUT
           + isign(throttle)
             * (((a - DRIVE_NEUTRAL) * (max - DRIVE_MIN_OUTPUT)) \div (100 - DRIVE_NEUTRAL))

\* Neutral band, then NEUTRAL+1..100 onto MIN_OUTPUT..max, the sign kept.
drive_map_throttle(throttle, max) ==
  LET a == imin(iabs(throttle), 100)
  IN  IF a <= DRIVE_NEUTRAL
      THEN 0
      ELSE isign(throttle) *
             (DRIVE_MIN_OUTPUT
              + ((a - DRIVE_NEUTRAL) * (max - DRIVE_MIN_OUTPUT)) \div (100 - DRIVE_NEUTRAL))

\* Faulty variant: both sides of the stick scaled by 512.
drive_steer_percent_oneside(lx) ==
  LET x == clamp(cdiv(lx * 100, STICK_HALF), -100, 100)
      a == ((iabs(x) - STEER_DEADZONE) * 100) \div (100 - STEER_DEADZONE)
  IN  IF iabs(x) <= STEER_DEADZONE THEN 0 ELSE isign(x) * ((a * a) \div 100)

\* Faulty variant: squaring loses the sign.
drive_steer_percent_unsigned(lx) ==
  LET x == clamp(cdiv(lx * 100, IF lx < 0 THEN STICK_HALF ELSE STICK_HALF - 1), -100, 100)
      a == ((iabs(x) - STEER_DEADZONE) * 100) \div (100 - STEER_DEADZONE)
  IN  IF iabs(x) <= STEER_DEADZONE THEN 0 ELSE (a * a) \div 100

\* Stick to -100..100: each side scaled by its own end, deadzone, then the
\* square curve of STEER_EXPONENT = 2 (one pass of the C loop).
drive_steer_percent(lx) ==
  LET x == clamp(cdiv(lx * 100, IF lx < 0 THEN STICK_HALF ELSE STICK_HALF - 1), -100, 100)
      a == ((iabs(x) - STEER_DEADZONE) * 100) \div (100 - STEER_DEADZONE)
  IN  IF iabs(x) <= STEER_DEADZONE THEN 0 ELSE isign(x) * ((a * a) \div 100)

-----------------------------------------------------------------------------
Reversing(current, target) ==
  current # 0 /\ target # 0 /\ isign(target) # isign(current)

\* Faulty variant: the wait is counted down past 0.
drive_ramp_underflow(current, target, hold) ==
  IF hold >= 0
  THEN [output |-> 0, hold |-> hold - 1]
  ELSE IF Reversing(current, target)
  THEN LET next == IF iabs(current) <= RAMP_REVERSE_STEP
                   THEN 0
                   ELSE current - isign(current) * RAMP_REVERSE_STEP
       IN  [output |-> next, hold |-> IF next = 0 THEN RAMP_REVERSE_HOLD_FRAMES - 1 ELSE 0]
  ELSE IF iabs(target) > iabs(current)
  THEN [output |-> current + isign(target)
                     * imin(RAMP_UP_STEP, iabs(target) - iabs(current)),
        hold   |-> 0]
  ELSE [output |-> current - isign(current)
                     * imin(RAMP_RELEASE_STEP, iabs(current) - iabs(target)),
        hold   |-> 0]

\* Faulty variant: no branch for the other direction.
drive_ramp_noreverse(current, target, hold) ==
  IF hold > 0
  THEN [output |-> 0, hold |-> hold - 1]
  ELSE IF iabs(target) > iabs(current)
  THEN [output |-> current + isign(target)
                     * imin(RAMP_UP_STEP, iabs(target) - iabs(current)),
        hold   |-> 0]
  ELSE [output |-> current - isign(current)
                     * imin(RAMP_RELEASE_STEP, iabs(current) - iabs(target)),
        hold   |-> 0]

\* Faulty variant: the wait is one frame short.
drive_ramp_shortwait(current, target, hold) ==
  IF hold > 0
  THEN [output |-> 0, hold |-> hold - 1]
  ELSE IF Reversing(current, target)
  THEN LET next == IF iabs(current) <= RAMP_REVERSE_STEP
                   THEN 0
                   ELSE current - isign(current) * RAMP_REVERSE_STEP
       IN  [output |-> next, hold |-> IF next = 0 THEN RAMP_REVERSE_HOLD_FRAMES - 2 ELSE 0]
  ELSE IF iabs(target) > iabs(current)
  THEN [output |-> current + isign(target)
                     * imin(RAMP_UP_STEP, iabs(target) - iabs(current)),
        hold   |-> 0]
  ELSE [output |-> current - isign(current)
                     * imin(RAMP_RELEASE_STEP, iabs(current) - iabs(target)),
        hold   |-> 0]

\* Faulty variant: speeding up does not stop at the target.
drive_ramp_overshoot(current, target, hold) ==
  IF hold > 0
  THEN [output |-> 0, hold |-> hold - 1]
  ELSE IF Reversing(current, target)
  THEN LET next == IF iabs(current) <= RAMP_REVERSE_STEP
                   THEN 0
                   ELSE current - isign(current) * RAMP_REVERSE_STEP
       IN  [output |-> next, hold |-> IF next = 0 THEN RAMP_REVERSE_HOLD_FRAMES - 1 ELSE 0]
  ELSE IF iabs(target) > iabs(current)
  THEN [output |-> current + isign(target) * RAMP_UP_STEP, hold |-> 0]
  ELSE [output |-> current - isign(current)
                     * imin(RAMP_RELEASE_STEP, iabs(current) - iabs(target)),
        hold   |-> 0]

\* One frame from current toward target; hold counts the frames left at 0.
drive_ramp(current, target, hold) ==
  IF hold > 0
  THEN [output |-> 0, hold |-> hold - 1]
  ELSE IF Reversing(current, target)
  THEN LET next == IF iabs(current) <= RAMP_REVERSE_STEP
                   THEN 0
                   ELSE current - isign(current) * RAMP_REVERSE_STEP
       IN  [output |-> next,
            hold   |-> IF next = 0 THEN RAMP_REVERSE_HOLD_FRAMES - 1 ELSE 0]
  ELSE IF iabs(target) > iabs(current)
  THEN [output |-> current + isign(target)
                     * imin(RAMP_UP_STEP, iabs(target) - iabs(current)),
        hold   |-> 0]
  ELSE [output |-> current - isign(current)
                     * imin(RAMP_RELEASE_STEP, iabs(current) - iabs(target)),
        hold   |-> 0]

\* Faulty variant: no button counts as held at the start.
drive_init_nothing_held == [mode |-> "UNARMED", prev |-> {}, output |-> 0, hold |-> 0]

\* Every button counts as held: arming needs a fresh press.
drive_init == [mode |-> "UNARMED", prev |-> Buttons, output |-> 0, hold |-> 0]

ArmAllowed(pad) ==
  /\ trigger_percent(pad.lt) <= DRIVE_ARM_TRIGGER_MAX
  /\ trigger_percent(pad.rt) <= DRIVE_ARM_TRIGGER_MAX

\* The mode after this frame's button edges; B wins over A, A over the combo.
NextMode(d, pad) ==
  LET pressed == pad.buttons \ d.prev
      newCombo == Shoulders \subseteq pad.buttons /\ ~(Shoulders \subseteq d.prev)
  IN  IF "B" \in pressed
      THEN IF d.mode = "FULL" THEN "LIMITED" ELSE "UNARMED"
      ELSE IF "A" \in pressed /\ d.mode = "UNARMED" /\ ArmAllowed(pad)
      THEN "LIMITED"
      ELSE IF newCombo /\ d.mode = "LIMITED"
      THEN "FULL"
      ELSE d.mode

ModeMax(mode) ==
  imin(IF mode = "FULL" THEN DRIVE_FULL_MAX ELSE DRIVE_LIMITED_MAX, DRIVE_OUTPUT_CAP)

\* The output the driver asks for in this mode.
Target(mode, pad) == drive_map_throttle(drive_throttle_percent(pad), ModeMax(mode))

\* Faulty variant: the output survives disarming.
drive_step_keeps_output(d, pad) ==
  IF pad = NoPad
  THEN drive_init
  ELSE LET mode == NextMode(d, pad)
           ramp == IF mode = "UNARMED"
                   THEN [output |-> d.output, hold |-> 0]
                   ELSE drive_ramp(d.output, Target(mode, pad), d.hold)
       IN  [mode |-> mode, prev |-> pad.buttons,
            output |-> ramp.output, hold |-> ramp.hold]

\* Faulty variant: the buttons of this frame are not remembered while unarmed.
drive_step_forgets_buttons(d, pad) ==
  IF pad = NoPad
  THEN drive_init
  ELSE LET mode == NextMode(d, pad)
           ramp == IF mode = "UNARMED"
                   THEN [output |-> 0, hold |-> 0]
                   ELSE drive_ramp(d.output, Target(mode, pad), d.hold)
       IN  [mode |-> mode, prev |-> IF mode = "UNARMED" THEN d.prev ELSE pad.buttons,
            output |-> ramp.output, hold |-> ramp.hold]

\* drive_step(): the next drive_t.  out.motor is its output field.
drive_step(d, pad) ==
  IF pad = NoPad
  THEN drive_init
  ELSE LET mode == NextMode(d, pad)
           ramp == IF mode = "UNARMED"
                   THEN [output |-> 0, hold |-> 0]
                   ELSE drive_ramp(d.output, Target(mode, pad), d.hold)
       IN  [mode |-> mode, prev |-> pad.buttons,
            output |-> ramp.output, hold |-> ramp.hold]
=============================================================================
