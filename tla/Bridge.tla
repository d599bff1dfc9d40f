------------------------------- MODULE Bridge -------------------------------
(***************************************************************************)
(* The drive loop down to the pins: motor_set() of firmware/src/motor.c    *)
(* and servo_set() of servo.c, register by register.                       *)
(*                                                                         *)
(* The BTS7960 coasts while EN is low.  With EN high, a duty on RPWM       *)
(* drives one way, on LPWM the other, and none at all brakes.  EN is a     *)
(* GPIO and changes at once; the PWM slice takes new levels only when its  *)
(* counter wraps, every 50 us.  So between two writes, and after the last, *)
(* the pins may show a mix of what was and what is asked for.              *)
(*                                                                         *)
(* External: when the counter wraps, when the chip resets.  A drive frame  *)
(* comes 20 ms or more after the one before, so the wrap is over by then.  *)
(***************************************************************************)
EXTENDS DriveHistory

\* A duty of more than 100 % would not fit the counter.
ASSUME BridgeAssumption == DRIVE_OUTPUT_CAP <= 100

VARIABLES
  pc,                   \* the write on_drive_tick() does next, "idle" between frames
  en,                   \* EN is high
  cc,                   \* the levels written to the slice
  out,                  \* the levels on the pins: cc as of the latest wrap
  pulse                 \* of the servo, in us

pins == <<en, cc, out, pulse>>
bvars == <<hvars, pc, pins>>

MOTOR_DIRECTION == 1
PWM_PERIOD == 7500      \* top + 1: 150 MHz / MOTOR_PWM_HZ
SERVO_CENTER_US == 1500
SERVO_RANGE_US == 150
SERVO_DIRECTION == 1

Level == [rpwm : 0 .. PWM_PERIOD, lpwm : 0 .. PWM_PERIOD]
NoLevel == [rpwm |-> 0, lpwm |-> 0]

BInit ==
  /\ HInit
  /\ pc = "idle" /\ en = FALSE /\ cc = NoLevel /\ out = NoLevel /\ pulse = SERVO_CENTER_US

-----------------------------------------------------------------------------
\* What motor_set() makes of the output of drive_step().
Percent == MOTOR_DIRECTION * clamp(drive.output, -DRIVE_OUTPUT_CAP, DRIVE_OUTPUT_CAP)

Levels(percent) ==
  LET level == (PWM_PERIOD * iabs(percent)) \div 100
  IN  [rpwm |-> IF percent > 0 THEN level ELSE 0, lpwm |-> IF percent < 0 THEN level ELSE 0]

Pulse(steer) ==
  SERVO_CENTER_US + cdiv(SERVO_DIRECTION * SERVO_RANGE_US * clamp(steer, -100, 100), 100)

\* on_drive_tick() up to drive_step().
BFrame(p) ==
  /\ pc = "idle" /\ out = cc
  /\ HFrame(p)
  /\ pc' = "motor"
  /\ UNCHANGED pins

\* Faulty variant: the levels first, EN second, in either case.
motor_first_levels ==
  /\ pc = "motor"
  /\ cc' = Levels(Percent) /\ pc' = "enable"
  /\ UNCHANGED <<hvars, en, out, pulse>>

\* motor_set(): to coast, EN goes low first; to drive, the levels come first.
motor_first ==
  /\ pc = "motor"
  /\ IF Percent = 0
     THEN en' = FALSE /\ pc' = "clear" /\ UNCHANGED cc
     ELSE cc' = Levels(Percent) /\ pc' = "enable" /\ UNCHANGED en
  /\ UNCHANGED <<hvars, out, pulse>>

\* Faulty variant: a coasting bridge keeps its levels.
motor_second_keeps_levels ==
  /\ pc \in {"clear", "enable"}
  /\ IF pc = "clear" THEN UNCHANGED <<en, cc>> ELSE en' = (Percent # 0) /\ UNCHANGED cc
  /\ pc' = "servo"
  /\ UNCHANGED <<hvars, out, pulse>>

motor_second ==
  /\ pc \in {"clear", "enable"}
  /\ IF pc = "clear" THEN cc' = NoLevel /\ UNCHANGED en ELSE en' = (Percent # 0) /\ UNCHANGED cc
  /\ pc' = "servo"
  /\ UNCHANGED <<hvars, out, pulse>>

servo_set ==
  /\ pc = "servo"
  /\ pulse' = Pulse(IF pad = NoPad THEN 0 ELSE drive_steer_percent(pad.lx))
  /\ pc' = "idle"
  /\ UNCHANGED <<hvars, en, cc, out>>

\* The counter of the motors' slice wraps.
Wrap ==
  /\ out # cc
  /\ out' = cc
  /\ UNCHANGED <<hvars, pc, en, cc, pulse>>

\* The chip resets, in the middle of a frame too, and runs main() up to the
\* first frame: the pull-down holds EN low, motor_init() finds nothing to
\* undo, servo_init() centers, drive_init() is what a frame without input
\* leaves.
Reset ==
  /\ HFrame(NoPad)
  /\ pc' = "idle" /\ en' = FALSE /\ cc' = NoLevel /\ out' = NoLevel
  /\ pulse' = SERVO_CENTER_US

BNext ==
  \/ \E p \in Inputs \cup {NoPad} : BFrame(p)
  \/ motor_first \/ motor_second \/ servo_set \/ Wrap \/ Reset

BSpec == BInit /\ [][BNext]_bvars

-----------------------------------------------------------------------------
Brakes == en /\ out = NoLevel

\* What the pins do, at every moment of every frame.
\*  - A stop coasts: once motor_set(0) has made its first write EN is low,
\*    whatever the counter still shows.
\*  - The bridge brakes in one case: EN goes high behind the levels of a start,
\*    which the counter has not taken yet.  Its next wrap ends that, and the
\*    car drives.  (motor.h and DRIVING.md do without this exception.)
\*  - One side drives, and never against what the drive loop asks for.
\*  - When the frame is over and the counter has wrapped, the pins do exactly
\*    what was asked; a car without input coasts with its wheels straight.
BridgeSafe ==
  /\ pc \in {"idle", "motor", "clear", "enable", "servo"}
  /\ cc \in Level /\ out \in Level
  /\ pulse \in SERVO_CENTER_US - SERVO_RANGE_US .. SERVO_CENTER_US + SERVO_RANGE_US
  /\ drive.output = 0 /\ pc # "motor" => ~en
  /\ Brakes => pc \in {"servo", "idle"} /\ drive.output # 0 /\ cc # NoLevel
  /\ out.rpwm = 0 \/ out.lpwm = 0
  /\ en /\ out.rpwm > 0 => MOTOR_DIRECTION * drive.output >= 0
  /\ en /\ out.lpwm > 0 => MOTOR_DIRECTION * drive.output <= 0
  /\ pc = "idle" /\ out = cc =>
       /\ en <=> drive.output # 0
       /\ out = Levels(MOTOR_DIRECTION * drive.output)
  /\ pc = "idle" /\ pad = NoPad => ~en /\ pulse = SERVO_CENTER_US

\* The motors are never thrown from one direction into the other: the duty
\* on the pins passes through 0, and EN rises only over pins at 0, never
\* over what the counter has not taken back yet.
NoPlugging ==
  [][ /\ ~(out.rpwm > 0 /\ out'.lpwm > 0) /\ ~(out.lpwm > 0 /\ out'.rpwm > 0)
      /\ ~en /\ en' => out = NoLevel \/ out = cc ]_bvars
=============================================================================
