---------------------------- MODULE Bridge_proofs ---------------------------
(***************************************************************************)
(* The drive loop with its history, and the pins of module Bridge: after a *)
(* reversal the car rests for the whole wait, the drive loop's theorems    *)
(* hold down to the pins, the bridge never brakes for long and the motors  *)
(* are never thrown from one direction into the other, for all settings    *)
(* and inputs, and with resets and wraps at any moment.                    *)
(***************************************************************************)
EXTENDS Bridge, DriveLoop_proofs

-----------------------------------------------------------------------------
(* Resting before a reversal. *)

\* A car that starts has rested for the whole wait.
LEMMA HInvInit == HInit => HInv
<1> SUFFICES ASSUME HInit PROVE HInv
  OBVIOUS
<1>1. DriveInv
  BY DriveInvInit DEF HInit
<1>2. /\ RAMP_REVERSE_HOLD_FRAMES \in Nat \ {0}
      /\ rest = [frames |-> RAMP_REVERSE_HOLD_FRAMES, dir |-> 0, cause |-> "none"]
      /\ drive.output = 0
  BY DriveAssumption DEF HInit, Init, drive_init
<1> QED BY <1>1, <1>2 DEF HInv, HTypeOK, Causes, DriveInv

\* The bookkeeping of one frame.
LEMMA ObserveEffect ==
  ASSUME Observe, drive.output \in Int, drive'.output \in Int,
         rest \in [frames : 0 .. RAMP_REVERSE_HOLD_FRAMES, dir : {-1, 0, 1}, cause : Causes]
  PROVE  /\ rest' \in [frames : 0 .. RAMP_REVERSE_HOLD_FRAMES, dir : {-1, 0, 1}, cause : Causes]
         /\ drive'.output # 0 => /\ rest'.frames = 0 /\ rest'.cause = "none"
                                 /\ rest'.dir = isign(drive'.output)
         /\ drive'.output = 0 =>
              /\ rest'.frames = imin(rest.frames + 1, RAMP_REVERSE_HOLD_FRAMES)
              /\ drive.output = 0 => rest'.cause = rest.cause
              /\ drive.output # 0 /\ rest'.cause = "reverse" =>
                   /\ drive'.mode # "UNARMED"
                   /\ Reversing(drive.output, Target(drive'.mode, pad'))
<1>1. RAMP_REVERSE_HOLD_FRAMES \in Nat \ {0}
  BY DriveAssumption
<1>2. CASE drive'.output # 0
  <2>1. rest' = [frames |-> 0, dir |-> isign(drive'.output), cause |-> "none"]
    BY <1>2 DEF Observe
  <2>2. isign(drive'.output) \in {-1, 0, 1}
    BY DEF isign
  <2> QED BY <1>1, <1>2, <2>1, <2>2 DEF Causes
<1>3. CASE drive'.output = 0
  <2> DEFINE f == imin(rest.frames + 1, RAMP_REVERSE_HOLD_FRAMES)
  <2>1. f \in 0 .. RAMP_REVERSE_HOLD_FRAMES
    BY <1>1 DEF imin
  <2>2. StopCause \in Causes
    BY DEF StopCause, Causes
  <2>3. StopCause = "reverse" => /\ drive'.mode # "UNARMED"
                                 /\ Reversing(drive.output, Target(drive'.mode, pad'))
    BY DEF StopCause
  <2> HIDE DEF f
  <2>4. rest' = [frames |-> f, dir |-> rest.dir,
                 cause |-> IF drive.output # 0 THEN StopCause ELSE rest.cause]
    BY <1>3 DEF Observe, f
  <2> QED BY <1>3, <2>1, <2>2, <2>3, <2>4 DEF f
<1> QED BY <1>2, <1>3

\* How much of the rest after a reversal is left or served.
Rested(armed, frames, hold) ==
  IF armed
  THEN frames + hold >= RAMP_REVERSE_HOLD_FRAMES
  ELSE frames >= imin(2, RAMP_REVERSE_HOLD_FRAMES)

\* A frame that stays at 0 keeps the rest account: it starts it with the
\* whole wait, and each frame served is one frame less to wait.  Only the way
\* through UNARMED drops the wait, and that way takes three frames.
LEMMA RestedFrame ==
  ASSUME HInv, NEW p \in Inputs \cup {NoPad}, HFrame(p),
         drive'.output = 0, rest'.cause = "reverse"
  PROVE  Rested(Armed', rest'.frames, drive'.hold)
<1> DEFINE H == RAMP_REVERSE_HOLD_FRAMES
           t == Target(drive'.mode, p)
<1>1. /\ DriveInv /\ Frame(p) /\ Observe /\ pad' = p
      /\ H \in Nat \ {0} /\ H <= 3
  BY DriveAssumption, HoldAssumption DEF HInv, HFrame, Frame
<1>2. /\ drive.output \in Int /\ drive.hold \in Nat
      /\ iabs(drive.output) <= DRIVE_OUTPUT_CAP
      /\ drive.hold > 0 => drive.output = 0
      /\ ~Armed => drive.output = 0 /\ drive.hold = 0
      /\ drive.mode \in Modes
  BY <1>1 DEF DriveInv, TypeOK, DriveT, DriveSafe
<1>3. rest.frames \in 0 .. H
  BY DEF HInv, HTypeOK
<1>4. /\ rest'.frames = imin(rest.frames + 1, H)
      /\ drive.output = 0 => rest.cause = "reverse"
      /\ drive.output # 0 => drive'.mode # "UNARMED" /\ Reversing(drive.output, t)
  BY <1>1, <1>2, ObserveEffect DEF HInv, HTypeOK
<1>5. drive.output = 0 => Rested(Armed, rest.frames, drive.hold) /\ rest.frames # 0
  BY <1>4 DEF HInv, Rested
<1>6. CASE drive'.mode = "UNARMED"
  <2>1. drive.output = 0 /\ rest.frames >= 1
    BY <1>3, <1>4, <1>5, <1>6
  <2> QED BY <1>1, <1>3, <1>4, <1>6, <2>1 DEF Rested, Armed, imin
<1>7. CASE drive'.mode # "UNARMED"
  <2>1. /\ drive'.mode = NextMode(drive, p)
        /\ t \in Int /\ iabs(t) <= DRIVE_OUTPUT_CAP
        /\ drive'.output \in Int /\ drive'.hold \in Nat
        /\ drive'.output = drive_ramp(drive.output, t, drive.hold).output
        /\ drive'.hold = drive_ramp(drive.output, t, drive.hold).hold
    BY <1>1, <1>7, FrameEffect
  <2> HIDE DEF t
  <2>2. /\ drive.output # 0 /\ Reversing(drive.output, t) => drive'.hold = H - 1
        /\ drive.hold > 0 => drive'.hold = drive.hold - 1
    BY <1>2, <2>1, RampWait
  <2>3. CASE drive.output # 0
    <3>1. drive'.hold = H - 1 /\ rest'.frames >= 1
      BY <1>1, <1>3, <1>4, <2>2, <2>3 DEF imin
    <3> QED BY <1>1, <1>3, <1>4, <1>7, <2>1, <3>1 DEF Rested, Armed, imin
  <2>4. CASE drive.output = 0 /\ Armed
    <3>1. rest.frames + drive.hold >= H
      BY <1>5, <2>4 DEF Rested
    <3> QED BY <1>1, <1>2, <1>3, <1>4, <1>7, <2>1, <2>2, <3>1 DEF Rested, Armed, imin
  <2>5. CASE drive.output = 0 /\ ~Armed
    <3>1. rest.frames >= imin(2, H)
      BY <1>5, <2>5 DEF Rested
    <3> QED BY <1>1, <1>2, <1>3, <1>4, <1>7, <2>1, <2>2, <3>1 DEF Rested, Armed, imin
  <2> QED BY <2>3, <2>4, <2>5
<1> QED BY <1>6, <1>7

\* Every frame keeps the account.
LEMMA HInvNext == HInv /\ [HNext]_hvars => HInv'
<1> SUFFICES ASSUME HInv, [HNext]_hvars PROVE HInv'
  OBVIOUS
<1>1. CASE HNext
  <2>1. PICK p \in Inputs \cup {NoPad} : HFrame(p)
    BY <1>1 DEF HNext
  <2>2. DriveInv' /\ drive.output \in Int /\ drive'.output \in Int
    <3>1. DriveInv'
      BY <2>1, FrameEffect DEF HFrame, HInv, DriveInv
    <3> QED BY <3>1 DEF HInv, DriveInv, TypeOK, DriveT
  <2>3. /\ rest' \in [frames : 0 .. RAMP_REVERSE_HOLD_FRAMES, dir : {-1, 0, 1}, cause : Causes]
        /\ drive'.output # 0 => /\ rest'.frames = 0 /\ rest'.cause = "none"
                                /\ rest'.dir = isign(drive'.output)
        /\ drive'.output = 0 =>
             rest'.frames = imin(rest.frames + 1, RAMP_REVERSE_HOLD_FRAMES)
    BY <2>1, <2>2, ObserveEffect DEF HFrame, HInv, HTypeOK
  <2>4. rest'.frames = 0 <=> drive'.output # 0
    <3>1. rest.frames \in Nat /\ RAMP_REVERSE_HOLD_FRAMES \in Nat \ {0}
      BY DriveAssumption DEF HInv, HTypeOK
    <3> QED BY <2>3, <3>1 DEF imin
  <2>5. rest'.cause = "reverse" => Rested(Armed', rest'.frames, drive'.hold)
    BY <2>1, <2>3, RestedFrame
  <2> QED BY <2>2, <2>3, <2>4, <2>5 DEF HInv, HTypeOK, DriveInv, Rested
<1>2. CASE UNCHANGED hvars
  BY <1>2 DEF hvars, HInv, HTypeOK, DriveInv, TypeOK, DriveSafe, Armed, PrevIsPad
<1> QED BY <1>1, <1>2

\* While a car rests after a reversal, what it has rested and what it has yet
\* to wait add up to the whole wait, or it is on the long way through UNARMED.
THEOREM DriveRestAccount == HSpec => []HInv
BY HInvInit, HInvNext, PTL DEF HSpec

\* What is remembered of the rest is never more than the wait, a direction
\* and one of the causes.
THEOREM DriveHistoryTypes == HSpec => []HTypeOK
<1>1. HInv => HTypeOK
  BY DEF HInv
<1> QED BY <1>1, DriveRestAccount, PTL

\* Once a reversal has pulled the car to 0 it rests for the whole wait,
\* whatever the driver and the link do meanwhile.
THEOREM DriveReverseHold == HSpec => ReverseHold
<1> DEFINE A == rest.cause = "reverse" /\ drive'.output # 0
                  => rest.frames = RAMP_REVERSE_HOLD_FRAMES
<1>1. ASSUME HInv, HNext PROVE A
  <2>1. PICK p \in Inputs \cup {NoPad} : HFrame(p)
    BY <1>1 DEF HNext
  <2> SUFFICES ASSUME rest.cause = "reverse", drive'.output # 0
               PROVE  rest.frames = RAMP_REVERSE_HOLD_FRAMES
    OBVIOUS
  <2> DEFINE t == Target(drive'.mode, p)
  <2>2. /\ drive'.mode # "UNARMED" /\ drive'.mode = NextMode(drive, p)
        /\ t \in Int /\ iabs(t) <= DRIVE_OUTPUT_CAP
        /\ ArmAllowed(p) => t = 0
        /\ drive'.output \in Int /\ drive'.hold \in Nat
        /\ drive'.output = drive_ramp(drive.output, t, drive.hold).output
        /\ drive'.hold = drive_ramp(drive.output, t, drive.hold).hold
    BY <1>1, <2>1, FrameEffect DEF HFrame, HInv
  <2> HIDE DEF t
  <2>3. /\ drive.output \in Int /\ drive.hold \in Nat
        /\ iabs(drive.output) <= DRIVE_OUTPUT_CAP
        /\ drive.hold > 0 => drive.output = 0
        /\ ~Armed => drive.output = 0 /\ drive.hold = 0
    BY <1>1 DEF HInv, DriveInv, TypeOK, DriveT, DriveSafe
  <2>4. drive.hold = 0 /\ ~(drive.output = 0 /\ t = 0)
    BY <2>2, <2>3, RampWait
  <2>5. rest.cause = "reverse" => Rested(Armed, rest.frames, drive.hold)
    BY <1>1 DEF HInv, Rested
  <2>6. rest.frames \in 0 .. RAMP_REVERSE_HOLD_FRAMES /\ RAMP_REVERSE_HOLD_FRAMES \in Nat
    BY <1>1, DriveAssumption DEF HInv, HTypeOK
  <2>7. Armed
    BY <2>2, <2>3, <2>4 DEF NextMode, Armed
  <2> QED BY <2>4, <2>5, <2>6, <2>7 DEF Rested
<1> HIDE DEF A
<1>2. HInv /\ [HNext]_hvars => [A]_hvars
  BY <1>1
<1>3. HSpec => [][A]_hvars
  BY <1>2, HInvInit, HInvNext, PTL DEF HSpec
<1> QED BY <1>3 DEF ReverseHold, A

-----------------------------------------------------------------------------
(* The pins. *)

\* Two levels that do not drive in opposite directions.
SameWay(a, b) ==
  /\ ~(a.rpwm > 0 /\ b.lpwm > 0)
  /\ ~(a.lpwm > 0 /\ b.rpwm > 0)

BridgeType ==
  /\ pc \in {"idle", "motor", "clear", "enable", "servo"}
  /\ en \in BOOLEAN
  /\ cc \in Level /\ out \in Level
  /\ pulse \in SERVO_CENTER_US - SERVO_RANGE_US .. SERVO_CENTER_US + SERVO_RANGE_US

\* What was written is what is asked for.
Done == (en <=> drive.output # 0) /\ cc = Levels(drive.output)

\* Where the writes of a frame are, against what the frame asks for.
Progress ==
  /\ pc = "idle" => Done /\ (pad = NoPad => pulse = SERVO_CENTER_US)
  /\ pc = "motor" => out = cc /\ (en <=> cc # NoLevel) /\ SameWay(cc, Levels(drive.output))
  /\ pc = "clear" => ~en /\ drive.output = 0
  /\ pc = "enable" => /\ drive.output # 0 /\ cc = Levels(drive.output)
                      /\ ~en => out = NoLevel \/ out = cc
                      /\ en => out # NoLevel
  /\ pc = "servo" => Done

BridgeInv ==
  /\ HInv
  /\ BridgeType
  /\ cc.rpwm = 0 \/ cc.lpwm = 0
  /\ out.rpwm = 0 \/ out.lpwm = 0
  /\ SameWay(out, cc)
  /\ en => cc # NoLevel
  /\ pad = NoPad => drive.output = 0
  /\ Progress

-----------------------------------------------------------------------------
\* The levels of an output: one side only, within the counter, and none for
\* an output of 0 alone.
LEMMA LevelsOf ==
  ASSUME NEW o \in Int, iabs(o) <= 100
  PROVE  /\ Levels(o) \in Level
         /\ Levels(o).rpwm > 0 <=> o > 0
         /\ Levels(o).lpwm > 0 <=> o < 0
         /\ Levels(o).rpwm = 0 \/ Levels(o).lpwm = 0
         /\ Levels(o) = NoLevel <=> o = 0
<1> DEFINE l == (PWM_PERIOD * iabs(o)) \div 100
<1>1. iabs(o) \in 0 .. 100 /\ (iabs(o) = 0 <=> o = 0)
  BY DEF iabs
<1>2. l = 75 * iabs(o)
  BY <1>1 DEF PWM_PERIOD
<1>3. l \in 0 .. PWM_PERIOD /\ (l = 0 <=> o = 0)
  BY <1>1, <1>2 DEF PWM_PERIOD
<1>4. Levels(o) = [rpwm |-> IF o > 0 THEN l ELSE 0, lpwm |-> IF o < 0 THEN l ELSE 0]
  BY DEF Levels
<1> HIDE DEF l
<1> QED BY <1>3, <1>4 DEF Level, NoLevel, PWM_PERIOD

\* The center is in the range of the servo.
LEMMA Center ==
  SERVO_CENTER_US \in SERVO_CENTER_US - SERVO_RANGE_US .. SERVO_CENTER_US + SERVO_RANGE_US
BY DEF SERVO_CENTER_US, SERVO_RANGE_US

\* The pulse of a steering value stays in the range of the servo.
LEMMA PulseOf ==
  ASSUME NEW steer \in Int
  PROVE  /\ Pulse(steer) \in SERVO_CENTER_US - SERVO_RANGE_US .. SERVO_CENTER_US + SERVO_RANGE_US
         /\ Pulse(0) = SERVO_CENTER_US
<1> USE DEF SERVO_CENTER_US, SERVO_RANGE_US, SERVO_DIRECTION
<1>1. ASSUME NEW x \in -100 .. 100
      PROVE  cdiv(SERVO_DIRECTION * SERVO_RANGE_US * x, 100) \in -150 .. 150
  <2>1. CASE x >= 0
    BY <2>1 DEF cdiv, iabs, isign
  <2>2. CASE x < 0
    BY <2>2 DEF cdiv, iabs, isign
  <2> QED BY <2>1, <2>2
<1>2. clamp(steer, -100, 100) \in -100 .. 100
  BY DEF clamp
<1>3. Pulse(0) = SERVO_CENTER_US
  BY DEF Pulse, clamp, cdiv, iabs, isign
<1>4. Pulse(steer) = 1500 + cdiv(SERVO_DIRECTION * SERVO_RANGE_US * clamp(steer, -100, 100), 100)
  BY DEF Pulse
<1>5. cdiv(SERVO_DIRECTION * SERVO_RANGE_US * clamp(steer, -100, 100), 100) \in -150 .. 150
  BY <1>1, <1>2
<1> QED BY <1>3, <1>4, <1>5

\* The steering curve gives a number for every stick.
LEMMA SteerType ==
  ASSUME NEW lx \in Int
  PROVE  drive_steer_percent(lx) \in Int
<1> DEFINE x == clamp(cdiv(lx * 100, IF lx < 0 THEN STICK_HALF ELSE STICK_HALF - 1), -100, 100)
           a == ((iabs(x) - STEER_DEADZONE) * 100) \div (100 - STEER_DEADZONE)
<1>1. x \in Int
  BY DEF clamp, cdiv, iabs, isign, STICK_HALF
<1> HIDE DEF x
<1>2. a \in Int
  BY <1>1 DEF iabs, STEER_DEADZONE
<1> HIDE DEF a
<1>3. (a * a) \div 100 \in Int
  BY <1>2
<1>4. isign(x) * ((a * a) \div 100) \in Int
  BY <1>3 DEF isign
<1> QED BY <1>4 DEF drive_steer_percent, x, a

\* The output as motor_set() takes it, from a state of the invariant.
LEMMA PercentOf ==
  ASSUME HInv
  PROVE  drive.output \in Int /\ iabs(drive.output) <= 100 /\ Percent = drive.output
<1>1. drive.output \in Int /\ iabs(drive.output) <= DRIVE_OUTPUT_CAP /\ DRIVE_OUTPUT_CAP \in Nat
  BY DriveAssumption DEF HInv, DriveInv, TypeOK, DriveT, DriveSafe
<1>2. iabs(drive.output) <= 100
  BY <1>1, BridgeAssumption DEF iabs
<1>3. Percent = drive.output
  BY <1>1 DEF Percent, clamp, iabs, MOTOR_DIRECTION
<1> QED BY <1>1, <1>2, <1>3

\* A frame does not ask for the other direction, and asks for 0 without input.
LEMMA FrameSameWay ==
  ASSUME HInv, NEW p \in Inputs \cup {NoPad}, HFrame(p)
  PROVE  /\ HInv'
         /\ SameWay(Levels(drive.output), Levels(drive'.output))
         /\ pad' = NoPad => drive'.output = 0
<1>1. HInv'
  BY HInvNext DEF HNext
<1>2. /\ drive.output \in Int /\ iabs(drive.output) <= 100
      /\ drive'.output \in Int /\ iabs(drive'.output) <= 100
  <2>1. ASSUME HInv PROVE drive.output \in Int /\ iabs(drive.output) <= 100
    BY <2>1, PercentOf
  <2>2. drive'.output \in Int /\ iabs(drive'.output) <= DRIVE_OUTPUT_CAP
    BY <1>1 DEF HInv, DriveInv, TypeOK, DriveT, DriveSafe
  <2>3. DRIVE_OUTPUT_CAP \in Nat /\ DRIVE_OUTPUT_CAP <= 100
    BY DriveAssumption, BridgeAssumption
  <2> QED BY <2>1, <2>2, <2>3 DEF iabs
<1>3. ~(drive.output > 0 /\ drive'.output < 0) /\ ~(drive.output < 0 /\ drive'.output > 0)
  <2> DEFINE c == drive.output
             o == drive'.output
             t == Target(drive'.mode, p)
  <2>1. CASE drive'.mode = "UNARMED" /\ drive'.output = 0
    BY <1>2, <2>1
  <2>2. CASE drive'.mode # "UNARMED"
    <3>1. /\ o \in Int /\ drive'.hold \in Nat
          /\ o = drive_ramp(c, t, drive.hold).output
          /\ drive'.hold = drive_ramp(c, t, drive.hold).hold
          /\ t \in Int /\ iabs(t) <= DRIVE_OUTPUT_CAP
      BY <2>2, FrameEffect DEF HFrame, HInv
    <3>2. /\ c \in Int /\ drive.hold \in Nat /\ iabs(c) <= DRIVE_OUTPUT_CAP
          /\ drive.hold > 0 => c = 0
      BY DEF HInv, DriveInv, TypeOK, DriveT, DriveSafe
    <3> HIDE DEF c, o, t
    <3>3. (c > 0 => o >= 0) /\ (c < 0 => o <= 0)
      BY <3>1, <3>2, RampFrame
    <3> QED BY <3>1, <3>2, <3>3 DEF c, o
  <2> QED BY <2>1, <2>2, FrameEffect DEF HFrame, HInv
<1>4. pad' = NoPad => drive'.output = 0
  BY DEF HFrame, Frame, drive_step, drive_init
<1> QED BY <1>1, <1>2, <1>3, <1>4, LevelsOf DEF SameWay

-----------------------------------------------------------------------------
(* The writes of a frame. *)

\* The levels are numbers, and none of them drives against itself.
LEMMA LevelFacts ==
  ASSUME NEW a \in Level, NEW b \in Level
  PROVE  /\ a.rpwm \in Nat /\ a.lpwm \in Nat
         /\ a.rpwm = 0 \/ a.lpwm = 0 => SameWay(a, a)
         /\ SameWay(a, NoLevel) /\ SameWay(NoLevel, a)
         /\ SameWay(a, b) => SameWay(b, a)
<1>1. a.rpwm \in Nat /\ a.lpwm \in Nat /\ b.rpwm \in Nat /\ b.lpwm \in Nat
  <2>1. /\ a.rpwm \in 0 .. PWM_PERIOD /\ a.lpwm \in 0 .. PWM_PERIOD
        /\ b.rpwm \in 0 .. PWM_PERIOD /\ b.lpwm \in 0 .. PWM_PERIOD
    BY DEF Level
  <2>2. \A x \in 0 .. PWM_PERIOD : x \in Nat
    BY DEF PWM_PERIOD
  <2> QED BY <2>1, <2>2
<1>2. NoLevel.rpwm = 0 /\ NoLevel.lpwm = 0
  BY DEF NoLevel
<1> QED BY <1>1, <1>2 DEF SameWay

\* The first state is one of the invariant.
LEMMA BridgeInvInit == BInit => BridgeInv
<1> SUFFICES ASSUME BInit PROVE BridgeInv
  OBVIOUS
<1>1. HInv /\ drive.output = 0
  BY HInvInit DEF BInit, HInit, Init, drive_init
<1>2. Levels(drive.output) = NoLevel /\ NoLevel \in Level
  BY <1>1, LevelsOf DEF iabs
<1>3. NoLevel.rpwm = 0 /\ NoLevel.lpwm = 0
  BY DEF NoLevel
<1>4. /\ pc = "idle" /\ en = FALSE /\ cc = NoLevel /\ out = NoLevel
      /\ pulse = SERVO_CENTER_US
  BY DEF BInit
<1>5. BridgeType
  BY <1>2, <1>4, Center DEF BridgeType
<1>6. Progress
  BY <1>1, <1>2, <1>4 DEF Progress, Done
<1>7. SameWay(out, cc)
  BY <1>2, <1>4, LevelFacts
<1> QED BY <1>1, <1>3, <1>4, <1>5, <1>6, <1>7 DEF BridgeInv

\* What the levels asked for are, from a state of the invariant.
LEMMA Asked ==
  ASSUME BridgeInv
  PROVE  /\ drive.output \in Int /\ Percent = drive.output
         /\ Levels(drive.output) \in Level
         /\ Levels(drive.output).rpwm = 0 \/ Levels(drive.output).lpwm = 0
         /\ Levels(drive.output) = NoLevel <=> drive.output = 0
<1>1. drive.output \in Int /\ iabs(drive.output) <= 100 /\ Percent = drive.output
  BY PercentOf DEF BridgeInv
<1> QED BY <1>1, LevelsOf

\* The invariant only speaks of the drive loop through HInv, the output and
\* the pad, so a write to the pins keeps what it says of them.
LEMMA DriveKept ==
  ASSUME BridgeInv, UNCHANGED hvars
  PROVE  /\ HInv'
         /\ drive' = drive /\ pad' = pad
         /\ Levels(drive.output)' = Levels(drive.output)
<1>1. HInv'
  BY HInvNext DEF BridgeInv
<1> QED BY <1>1 DEF hvars, Levels

\* A new frame finds what the last one asked for on the pins.
LEMMA BFrameKeeps ==
  ASSUME BridgeInv, NEW p \in Inputs \cup {NoPad}, BFrame(p)
  PROVE  BridgeInv'
<1>1. /\ HInv' /\ SameWay(Levels(drive.output), Levels(drive'.output))
      /\ pad' = NoPad => drive'.output = 0
  BY FrameSameWay DEF BFrame, BridgeInv
<1>2. /\ pc = "idle" /\ out = cc /\ pc' = "motor"
      /\ en' = en /\ cc' = cc /\ out' = out /\ pulse' = pulse
  BY DEF BFrame, pins
<1>3. cc = Levels(drive.output) /\ (en <=> cc # NoLevel)
  BY <1>2, Asked DEF BridgeInv, Progress, Done
<1>4. Levels(drive.output)' = Levels(drive'.output)
  BY DEF Levels
<1>5. Progress'
  BY <1>1, <1>2, <1>3, <1>4 DEF Progress
<1> QED BY <1>1, <1>2, <1>5 DEF BridgeInv, BridgeType, SameWay

\* EN low, or the new levels over a bridge that may still show the old ones.
LEMMA MotorFirstKeeps ==
  ASSUME BridgeInv, motor_first
  PROVE  BridgeInv'
<1>1. /\ pc = "motor" /\ UNCHANGED hvars /\ out' = out /\ pulse' = pulse
      /\ out = cc /\ (en <=> cc # NoLevel) /\ SameWay(cc, Levels(drive.output))
  BY DEF motor_first, BridgeInv, Progress
<1>2. HInv' /\ drive' = drive /\ pad' = pad
  BY <1>1, DriveKept
<1>3. Levels(drive.output)' = Levels(drive.output)
  BY <1>1, DriveKept
<1>4. CASE Percent = 0
  <2>1. en' = FALSE /\ pc' = "clear" /\ cc' = cc /\ drive.output = 0
    BY <1>4, Asked DEF motor_first
  <2>2. Progress'
    BY <1>2, <2>1 DEF Progress
  <2> QED BY <1>1, <1>2, <2>1, <2>2 DEF BridgeInv, BridgeType, SameWay
<1>5. CASE Percent # 0
  <2>1. cc' = Levels(drive.output) /\ pc' = "enable" /\ en' = en /\ drive.output # 0
    BY <1>5, Asked DEF motor_first
  <2>2. Progress'
    BY <1>1, <1>2, <1>3, <2>1 DEF Progress
  <2>3. SameWay(out', cc')
    BY <1>1, <2>1
  <2>4. BridgeType' /\ (cc'.rpwm = 0 \/ cc'.lpwm = 0) /\ cc' # NoLevel
    BY <1>1, <2>1, Asked DEF BridgeType, BridgeInv
  <2>5. SameWay(out, cc)'
    BY <2>3 DEF SameWay
  <2> QED BY <1>1, <1>2, <2>1, <2>2, <2>4, <2>5 DEF BridgeInv
<1> QED BY <1>4, <1>5

\* The second write ends what motor_set() was asked for.
LEMMA MotorSecondKeeps ==
  ASSUME BridgeInv, motor_second
  PROVE  BridgeInv'
<1>1. UNCHANGED hvars /\ out' = out /\ pulse' = pulse /\ pc' = "servo"
  BY DEF motor_second
<1>2. HInv' /\ drive' = drive /\ pad' = pad
  BY <1>1, DriveKept
<1>3. Levels(drive.output)' = Levels(drive.output)
  BY <1>1, DriveKept
<1>4. CASE pc = "clear"
  <2>1. cc' = NoLevel /\ en' = en /\ ~en /\ drive.output = 0
    BY <1>4 DEF motor_second, BridgeInv, Progress
  <2>2. Levels(drive.output) = NoLevel /\ NoLevel \in Level
    BY <2>1, Asked
  <2>3. Progress'
    BY <1>1, <1>2, <1>3, <2>1, <2>2 DEF Progress, Done
  <2>4. SameWay(out, cc)'
    BY <1>1, <2>1, <2>2, LevelFacts DEF BridgeInv, BridgeType, SameWay
  <2>5. cc'.rpwm = 0
    BY <2>1 DEF NoLevel
  <2> QED BY <1>1, <1>2, <2>1, <2>2, <2>3, <2>4, <2>5 DEF BridgeInv, BridgeType
<1>5. CASE pc = "enable"
  <2>1. cc' = cc /\ en' = (Percent # 0) /\ drive.output # 0 /\ cc = Levels(drive.output)
    BY <1>5 DEF motor_second, BridgeInv, Progress
  <2>2. en' /\ en' \in BOOLEAN /\ cc # NoLevel
    BY <2>1, Asked
  <2>3. Progress'
    BY <1>1, <1>2, <1>3, <2>1, <2>2 DEF Progress, Done
  <2> QED BY <1>1, <1>2, <2>1, <2>2, <2>3 DEF BridgeInv, BridgeType, SameWay
<1> QED BY <1>4, <1>5 DEF motor_second

\* The servo gets a pulse of its range, and the frame is over.
LEMMA ServoKeeps ==
  ASSUME BridgeInv, servo_set
  PROVE  BridgeInv'
<1> DEFINE s == IF pad = NoPad THEN 0 ELSE drive_steer_percent(pad.lx)
<1>1. UNCHANGED hvars /\ pc = "servo" /\ pc' = "idle" /\ en' = en /\ cc' = cc /\ out' = out
      /\ pulse' = Pulse(s)
  BY DEF servo_set
<1>2. HInv' /\ drive' = drive /\ pad' = pad
  BY <1>1, DriveKept
<1>3. Levels(drive.output)' = Levels(drive.output)
  BY <1>1, DriveKept
<1>4. pulse' \in SERVO_CENTER_US - SERVO_RANGE_US .. SERVO_CENTER_US + SERVO_RANGE_US
  <2>1. CASE pad = NoPad
    BY <1>1, <2>1, PulseOf
  <2>2. CASE pad # NoPad
    <3>1. pad.lx \in Int
      BY <2>2, InputsAssumption DEF BridgeInv, HInv, DriveInv, TypeOK, Pad
    <3>2. s \in Int
      BY <2>2, <3>1, SteerType
    <3> HIDE DEF s
    <3> QED BY <1>1, <3>2, PulseOf
  <2> QED BY <2>1, <2>2
<1>5. pad = NoPad => pulse' = SERVO_CENTER_US
  BY <1>1, PulseOf
<1>6. Progress'
  BY <1>1, <1>2, <1>3, <1>5 DEF BridgeInv, Progress, Done
<1> QED BY <1>1, <1>2, <1>4, <1>6 DEF BridgeInv, BridgeType, SameWay

\* The pins take what was written, whatever write is next.
LEMMA WrapKeeps ==
  ASSUME BridgeInv, Wrap
  PROVE  BridgeInv'
<1>1. /\ UNCHANGED hvars /\ out' = cc /\ out # cc
      /\ pc' = pc /\ en' = en /\ cc' = cc /\ pulse' = pulse
  BY DEF Wrap
<1>2. HInv' /\ drive' = drive /\ pad' = pad
  BY <1>1, DriveKept
<1>3. Levels(drive.output)' = Levels(drive.output)
  BY <1>1, DriveKept
<1>4. Progress'
  BY <1>1, <1>2, <1>3 DEF BridgeInv, Progress, Done
<1>5. SameWay(out, cc)'
  BY <1>1, LevelFacts DEF BridgeInv, BridgeType, SameWay
<1> QED BY <1>1, <1>2, <1>4, <1>5 DEF BridgeInv, BridgeType

\* A reset asks for nothing and writes nothing.
LEMMA ResetKeeps ==
  ASSUME BridgeInv, Reset
  PROVE  BridgeInv'
<1>1. HFrame(NoPad) /\ pc' = "idle" /\ en' = FALSE /\ cc' = NoLevel /\ out' = NoLevel
      /\ pulse' = SERVO_CENTER_US
  BY DEF Reset
<1>2. HInv' /\ drive'.output = 0
  BY <1>1, FrameSameWay DEF BridgeInv, HFrame, Frame
<1>3. Levels(0) = NoLevel /\ NoLevel \in Level
  BY LevelsOf DEF iabs
<1>4. Progress'
  BY <1>1, <1>2, <1>3 DEF Progress, Done, Levels
<1>5. NoLevel.rpwm = 0 /\ NoLevel.lpwm = 0
  BY DEF NoLevel
<1>6. BridgeType'
  BY <1>1, <1>3, Center DEF BridgeType
<1>7. SameWay(out, cc)'
  BY <1>1, <1>5 DEF SameWay
<1> QED BY <1>1, <1>2, <1>4, <1>5, <1>6, <1>7 DEF BridgeInv

\* Every step keeps the invariant.
LEMMA BridgeInvNext == BridgeInv /\ [BNext]_bvars => BridgeInv'
<1> SUFFICES ASSUME BridgeInv, [BNext]_bvars PROVE BridgeInv'
  OBVIOUS
<1>1. CASE \E p \in Inputs \cup {NoPad} : BFrame(p)
  BY <1>1, BFrameKeeps
<1>2. CASE motor_first
  BY <1>2, MotorFirstKeeps
<1>3. CASE motor_second
  BY <1>3, MotorSecondKeeps
<1>4. CASE servo_set
  BY <1>4, ServoKeeps
<1>5. CASE Wrap
  BY <1>5, WrapKeeps
<1>6. CASE Reset
  BY <1>6, ResetKeeps
<1>7. CASE UNCHANGED bvars
  <2>1. /\ UNCHANGED hvars /\ pc' = pc /\ en' = en /\ cc' = cc /\ out' = out /\ pulse' = pulse
    BY <1>7 DEF bvars, pins
  <2>2. HInv' /\ drive' = drive /\ pad' = pad
    BY <2>1, DriveKept
  <2>3. Levels(drive.output)' = Levels(drive.output)
    BY <2>1, DriveKept
  <2> QED BY <2>1, <2>2, <2>3 DEF BridgeInv, BridgeType, SameWay, Progress, Done
<1> QED BY <1>1, <1>2, <1>3, <1>4, <1>5, <1>6, <1>7 DEF BNext

-----------------------------------------------------------------------------
(* The theorems. *)

\* The drive loop that writes to pins is still the drive loop: a frame with
\* or without input, a reset as a frame without, and no write is anything.
THEOREM BridgeImplementsDrive == BSpec => HSpec
<1>1. BInit => HInit
  BY DEF BInit
<1>2. [BNext]_bvars => [HNext]_hvars
  BY DEF BNext, bvars, HNext, BFrame, motor_first, motor_second, servo_set, Wrap, Reset
<1> QED BY <1>1, <1>2, PTL DEF BSpec, HSpec

\* A stop coasts from its first write on; the bridge brakes only in the period
\* that a start begins in; it never drives against what is asked for, and
\* between frames the pins do what the drive loop asked for.
THEOREM BridgeIsSafe == BSpec => []BridgeSafe
<1>1. ASSUME BridgeInv PROVE BridgeSafe
  <2> USE <1>1
  <2>1. MOTOR_DIRECTION * drive.output = drive.output /\ drive.output \in Int
    BY Asked DEF MOTOR_DIRECTION
  <2>2. BridgeType /\ Progress /\ (out.rpwm = 0 \/ out.lpwm = 0)
    BY DEF BridgeInv
  <2>3. drive.output = 0 /\ pc # "motor" => ~en
    BY <2>2 DEF BridgeType, Progress, Done
  <2>4. Brakes => pc \in {"servo", "idle"} /\ drive.output # 0 /\ cc # NoLevel
    <3> SUFFICES ASSUME Brakes PROVE pc \in {"servo", "idle"} /\ drive.output # 0
      BY DEF BridgeInv, Brakes
    <3>1. pc # "motor" /\ pc # "clear"
      BY <2>2 DEF Progress, Brakes
    <3>2. pc # "enable"
      BY <2>2 DEF Progress, Brakes
    <3> QED BY <2>2, <2>3, <3>1, <3>2 DEF BridgeType, Brakes
  <2>5. en => SameWay(out, Levels(drive.output))
    BY <2>2 DEF BridgeInv, BridgeType, Progress, Done
  <2>6. /\ Levels(drive.output).rpwm > 0 <=> drive.output > 0
        /\ Levels(drive.output).lpwm > 0 <=> drive.output < 0
    BY PercentOf, LevelsOf DEF BridgeInv
  <2>7. (en /\ out.rpwm > 0 => drive.output >= 0) /\ (en /\ out.lpwm > 0 => drive.output <= 0)
    BY <2>1, <2>5, <2>6 DEF SameWay
  <2>8. pc = "idle" => Done /\ (pad = NoPad => pulse = SERVO_CENTER_US /\ drive.output = 0)
    BY <2>2 DEF BridgeInv, Progress
  <2> QED BY <2>1, <2>2, <2>3, <2>4, <2>7, <2>8 DEF BridgeType, BridgeSafe, Done
<1> QED BY <1>1, BridgeInvInit, BridgeInvNext, PTL DEF BSpec

\* The duty on the pins passes through 0 before it changes sides, and EN
\* rises over no duty or over the duty asked for, resets and all.
THEOREM BridgeNoPlugging == BSpec => NoPlugging
<1> DEFINE A == /\ ~(out.rpwm > 0 /\ out'.lpwm > 0) /\ ~(out.lpwm > 0 /\ out'.rpwm > 0)
                /\ ~en /\ en' => out = NoLevel \/ out = cc
<1>1. ASSUME BridgeInv, BNext PROVE A
  <2>1. out' \in {out, cc, NoLevel}
    BY <1>1 DEF BNext, BFrame, pins, motor_first, motor_second, servo_set, Wrap, Reset
  <2>2. SameWay(out, out) /\ SameWay(out, cc) /\ SameWay(out, NoLevel)
    BY <1>1, LevelFacts DEF BridgeInv, BridgeType
  <2>3. SameWay(out, out')
    BY <2>1, <2>2
  <2>4. ~en /\ en' => motor_second
    BY <1>1 DEF BNext, BFrame, pins, motor_first, servo_set, Wrap, Reset
  <2>5. ~en /\ en' => out = NoLevel \/ out = cc
    BY <1>1, <2>4 DEF motor_second, BridgeInv, Progress
  <2> QED BY <2>3, <2>5 DEF SameWay
<1> HIDE DEF A
<1>2. BridgeInv /\ [BNext]_bvars => [A]_bvars
  BY <1>1
<1>3. BSpec => [][A]_bvars
  BY <1>2, BridgeInvInit, BridgeInvNext, PTL DEF BSpec
<1> QED BY <1>3 DEF NoPlugging, A
=============================================================================
