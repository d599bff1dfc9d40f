-------------------------- MODULE DriveLoop_proofs --------------------------
(***************************************************************************)
(* What the drive loop guarantees for every value of the settings of       *)
(* drive.h that DriveAssumption allows and every set of inputs.            *)
(***************************************************************************)
EXTENDS DriveLoop, TLAPS

-----------------------------------------------------------------------------
(* Arithmetic of the integer helpers. *)

\* A share x/z <= 1 of y, rounded down, is between 0 and y.
LEMMA DivBound ==
  ASSUME NEW x \in Nat, NEW y \in Nat, NEW z \in Nat \ {0}, x <= z
  PROVE  (x * y) \div z \in 0 .. y
<1>1. x * y <= z * y
  OBVIOUS
<1>2. x * y \in Nat
  OBVIOUS
<1> DEFINE q == (x * y) \div z
           r == (x * y) % z
<1>3. q \in Int /\ r \in 0 .. z - 1 /\ x * y = z * q + r
  BY <1>2
<1>4. q >= 0
  BY <1>2
<1>5. q <= y
  <2>1. SUFFICES ASSUME q >= y + 1 PROVE FALSE
    BY <1>3
  <2>2. z * q >= z * (y + 1)
    BY <1>3, <2>1
  <2>3. z * (y + 1) = z * y + z
    OBVIOUS
  <2> QED BY <1>1, <1>3, <2>2, <2>3
<1> QED BY <1>3, <1>4, <1>5

\* The triggers as percentages.
LEMMA TriggerType ==
  ASSUME NEW t \in Int
  PROVE  trigger_percent(t) \in Nat
<1>1. clamp(t, 0, TRIGGER_MAX) \in Nat
  BY DEF clamp, TRIGGER_MAX
<1> QED BY <1>1, SMT DEF trigger_percent, TRIGGER_MAX

\* drive_map_throttle() stays within the limit it is given, moves the motors
\* with the minimum output at least, and gives 0 in the neutral band.
LEMMA MapBound ==
  ASSUME NEW th \in Int, NEW max \in Nat, DRIVE_MIN_OUTPUT <= max
  PROVE  /\ drive_map_throttle(th, max) \in Int
         /\ iabs(drive_map_throttle(th, max)) <= max
         /\ iabs(th) <= DRIVE_NEUTRAL => drive_map_throttle(th, max) = 0
<1> DEFINE a == imin(iabs(th), 100)
           x == a - DRIVE_NEUTRAL
           y == max - DRIVE_MIN_OUTPUT
           z == 100 - DRIVE_NEUTRAL
<1>1. a \in 0 .. 100
  BY DEF imin, iabs
<1>2. /\ DRIVE_NEUTRAL \in 0 .. 99 /\ DRIVE_MIN_OUTPUT \in Nat
      /\ y \in Nat /\ z \in Nat \ {0}
  BY DriveAssumption
<1>3. CASE a <= DRIVE_NEUTRAL
  BY <1>3 DEF drive_map_throttle, iabs
<1>4. CASE a > DRIVE_NEUTRAL
  <2>1. x \in Nat /\ x <= z
    BY <1>1, <1>2, <1>4
  <2>2. (x * y) \div z \in 0 .. y
    BY <1>2, <2>1, DivBound
  <2> HIDE DEF x, y, z
  <2>3. drive_map_throttle(th, max) = isign(th) * (DRIVE_MIN_OUTPUT + (x * y) \div z)
    BY <1>1, <1>2, <1>4 DEF drive_map_throttle, x, y, z
  <2>4. DRIVE_MIN_OUTPUT + (x * y) \div z \in 0 .. max
    BY <1>2, <2>2 DEF y
  <2>5. isign(th) \in {-1, 1}
    BY DEF isign
  <2>6. iabs(th) > DRIVE_NEUTRAL
    BY <1>1, <1>2, <1>4 DEF imin, iabs
  <2> QED BY <1>2, <2>3, <2>4, <2>5, <2>6 DEF iabs
<1> QED BY <1>1, <1>2, <1>3, <1>4

\* What the driver can ask for is within the cap, and a pad that may arm the
\* car asks for nothing.
LEMMA TargetBound ==
  ASSUME NEW p \in Inputs, NEW m \in Modes
  PROVE  /\ Target(m, p) \in Int
         /\ iabs(Target(m, p)) <= DRIVE_OUTPUT_CAP
         /\ ArmAllowed(p) => Target(m, p) = 0
<1>1. p.lt \in Int /\ p.rt \in Int
  BY InputsAssumption DEF Pad
<1>2. trigger_percent(p.lt) \in Nat /\ trigger_percent(p.rt) \in Nat
  BY <1>1, TriggerType
<1>3. /\ ModeMax(m) \in Nat /\ DRIVE_MIN_OUTPUT <= ModeMax(m)
      /\ ModeMax(m) <= DRIVE_OUTPUT_CAP
  BY DriveAssumption DEF ModeMax, imin
<1> DEFINE th == drive_throttle_percent(p)
<1>4. th \in Int
  BY <1>2 DEF drive_throttle_percent
<1>5. ArmAllowed(p) => iabs(th) <= DRIVE_NEUTRAL
  BY <1>2, DriveAssumption, ArmAssumption DEF ArmAllowed, drive_throttle_percent, iabs
<1> HIDE DEF th
<1>6. /\ drive_map_throttle(th, ModeMax(m)) \in Int
      /\ iabs(drive_map_throttle(th, ModeMax(m))) <= ModeMax(m)
      /\ iabs(th) <= DRIVE_NEUTRAL => drive_map_throttle(th, ModeMax(m)) = 0
  BY <1>3, <1>4, MapBound
<1>7. iabs(drive_map_throttle(th, ModeMax(m))) \in Int
  BY <1>6 DEF iabs
<1> QED BY <1>3, <1>5, <1>6, <1>7, DriveAssumption DEF Target, th

-----------------------------------------------------------------------------
(* One frame of the ramp. *)

\* A frame's output and wait are numbers.
LEMMA RampType ==
  ASSUME NEW c \in Int, NEW t \in Int, NEW h \in Nat
  PROVE  drive_ramp(c, t, h).output \in Int /\ drive_ramp(c, t, h).hold \in Nat
<1> USE DriveAssumption
<1>1. CASE h > 0
  BY <1>1 DEF drive_ramp
<1>2. CASE h = 0
  BY <1>2 DEF drive_ramp, iabs, isign, imin
<1> QED BY <1>1, <1>2

\* The four cases of drive_ramp(), from output c and wait h to o and k:
\* waiting at 0, slowing down to reverse, speeding up, slowing down.
RampCase(c, t, h, o, k) ==
  \/ h > 0 /\ o = 0 /\ k = h - 1
  \/ /\ h = 0 /\ Reversing(c, t) /\ iabs(c) <= RAMP_REVERSE_STEP
     /\ o = 0 /\ k = RAMP_REVERSE_HOLD_FRAMES - 1
  \/ /\ h = 0 /\ Reversing(c, t) /\ iabs(c) > RAMP_REVERSE_STEP /\ o # 0 /\ k = 0
     /\ o = c - isign(c) * RAMP_REVERSE_STEP
  \/ /\ h = 0 /\ ~Reversing(c, t) /\ iabs(t) > iabs(c) /\ k = 0
     /\ o = c + isign(t) * imin(RAMP_UP_STEP, iabs(t) - iabs(c))
  \/ /\ h = 0 /\ ~Reversing(c, t) /\ ~(iabs(t) > iabs(c)) /\ k = 0
     /\ o = c - isign(c) * imin(RAMP_RELEASE_STEP, iabs(c) - iabs(t))

\* There are no others.
LEMMA RampCases ==
  ASSUME NEW c \in Int, NEW t \in Int, NEW h \in Nat,
         NEW o \in Int, o = drive_ramp(c, t, h).output,
         NEW k \in Nat, k = drive_ramp(c, t, h).hold
  PROVE  RampCase(c, t, h, o, k)
<1> USE DEF RampCase
<1>1. /\ RAMP_REVERSE_STEP \in Nat \ {0} /\ RAMP_REVERSE_HOLD_FRAMES \in Nat \ {0}
  BY DriveAssumption
<1>2. c - isign(c) * RAMP_REVERSE_STEP = 0 => iabs(c) <= RAMP_REVERSE_STEP
  BY <1>1 DEF isign, iabs
<1>3. CASE h > 0
  BY <1>3 DEF drive_ramp
<1>4. CASE h = 0 /\ Reversing(c, t)
  <2>1. CASE iabs(c) <= RAMP_REVERSE_STEP
    BY <1>4, <2>1 DEF drive_ramp
  <2>2. CASE ~(iabs(c) <= RAMP_REVERSE_STEP)
    <3>1. iabs(c) \in Int
      BY DEF iabs
    <3> QED BY <1>1, <1>2, <1>4, <2>2, <3>1 DEF drive_ramp
  <2> QED BY <2>1, <2>2
<1>5. CASE h = 0 /\ ~Reversing(c, t) /\ iabs(t) > iabs(c)
  BY <1>5 DEF drive_ramp
<1>6. CASE h = 0 /\ ~Reversing(c, t) /\ ~(iabs(t) > iabs(c))
  BY <1>6 DEF drive_ramp
<1> QED BY <1>3, <1>4, <1>5, <1>6

\* The ways in which a frame from output c, wait h to output o, wait k serves
\* target t: it arrives, it comes nearer, or it waits one frame less.
Nearer(c, t, h, o, k) ==
  \/ h = 0 /\ k = 0 /\ (o = t \/ iabs(t - o) < iabs(t - c))
  \/ h = 0 /\ k < RAMP_REVERSE_HOLD_FRAMES /\ iabs(t - o) < iabs(t - c)
  \/ k < h /\ o = c

\* One frame keeps the output in the cap and on its side of 0, speeds up by
\* the ramp-up step at most, slows down by more than the release step only to
\* reverse, and ends nearer to the target or at it.
LEMMA RampFrame ==
  ASSUME NEW c \in Int, NEW t \in Int, NEW h \in Nat,
         iabs(c) <= DRIVE_OUTPUT_CAP, iabs(t) <= DRIVE_OUTPUT_CAP, h > 0 => c = 0,
         NEW o \in Int, o = drive_ramp(c, t, h).output,
         NEW k \in Nat, k = drive_ramp(c, t, h).hold
  PROVE  /\ iabs(o) <= DRIVE_OUTPUT_CAP
         /\ k > 0 => o = 0
         /\ c > 0 => o >= 0
         /\ c < 0 => o <= 0
         /\ iabs(o) - iabs(c) <= RAMP_UP_STEP
         /\ iabs(c) - iabs(o) > RAMP_RELEASE_STEP => Reversing(c, t)
         /\ Nearer(c, t, h, o, k)
<1> USE DriveAssumption DEF iabs, isign, imin, Reversing, Nearer
<1>1. CASE h > 0 /\ o = 0 /\ k = h - 1
  BY <1>1
<1>2. CASE /\ h = 0 /\ Reversing(c, t) /\ iabs(c) <= RAMP_REVERSE_STEP
           /\ o = 0 /\ k = RAMP_REVERSE_HOLD_FRAMES - 1
  BY <1>2
<1>3. CASE /\ h = 0 /\ Reversing(c, t) /\ iabs(c) > RAMP_REVERSE_STEP /\ o # 0 /\ k = 0
           /\ o = c - isign(c) * RAMP_REVERSE_STEP
  BY <1>3
<1>4. CASE /\ h = 0 /\ ~Reversing(c, t) /\ iabs(t) > iabs(c) /\ k = 0
           /\ o = c + isign(t) * imin(RAMP_UP_STEP, iabs(t) - iabs(c))
  BY <1>4
<1>5. CASE /\ h = 0 /\ ~Reversing(c, t) /\ ~(iabs(t) > iabs(c)) /\ k = 0
           /\ o = c - isign(c) * imin(RAMP_RELEASE_STEP, iabs(c) - iabs(t))
  <2>1. CASE c < 0
    <3>1. t \in c .. 0 /\ o = c + imin(RAMP_RELEASE_STEP, t - c)
      BY <1>5, <2>1
    <3> QED BY <1>5, <2>1, <3>1
  <2>2. CASE c >= 0
    <3>1. t \in 0 .. c /\ o = c - imin(RAMP_RELEASE_STEP, c - t)
      BY <1>5, <2>2
    <3> QED BY <1>5, <2>2, <3>1
  <2> QED BY <2>1, <2>2
<1>6. RampCase(c, t, h, o, k)
  BY RampCases
<1> HIDE DEF iabs, isign, imin, Reversing, Nearer
<1> QED BY <1>1, <1>2, <1>3, <1>4, <1>5, <1>6 DEF RampCase

\* A wait lasts as many frames as it has left, a reversal that reaches 0
\* starts one, and from rest the ramp goes nowhere without a target.
LEMMA RampWait ==
  ASSUME NEW c \in Int, NEW t \in Int, NEW h \in Nat,
         NEW o \in Int, o = drive_ramp(c, t, h).output,
         NEW k \in Nat, k = drive_ramp(c, t, h).hold
  PROVE  /\ h > 0 => o = 0 /\ k = h - 1
         /\ h = 0 /\ Reversing(c, t) /\ o = 0 => k = RAMP_REVERSE_HOLD_FRAMES - 1
         /\ h = 0 /\ c = 0 /\ t = 0 => o = 0
<1>1. CASE h > 0
  BY <1>1 DEF drive_ramp
<1>2. CASE h = 0 /\ Reversing(c, t)
  BY <1>2 DEF drive_ramp, Reversing
<1>3. CASE h = 0 /\ ~Reversing(c, t)
  <2>1. c = 0 /\ t = 0 => o = 0 - isign(0) * imin(RAMP_RELEASE_STEP, 0)
    BY <1>3 DEF drive_ramp, iabs
  <2>2. isign(0) = 1 /\ imin(RAMP_RELEASE_STEP, 0) = 0
    BY DriveAssumption DEF isign, imin
  <2> QED BY <1>3, <2>1, <2>2
<1> QED BY <1>1, <1>2, <1>3

-----------------------------------------------------------------------------
(* One frame of the loop. *)

\* A frame without input is drive_init(); one with input keeps the mode
\* logic and the ramp apart.
LEMMA FrameCases ==
  ASSUME NEW p \in Inputs \cup {NoPad}, Frame(p), TypeOK
  PROVE  /\ pad' = p
         /\ \/ p = NoPad /\ drive' = drive_init
            \/ /\ p \in Inputs /\ p # NoPad
               /\ drive'.mode = NextMode(drive, p) /\ drive'.mode \in Modes
               /\ drive'.prev = p.buttons /\ p.buttons \subseteq Buttons
               /\ drive' = [mode |-> drive'.mode, prev |-> drive'.prev,
                            output |-> drive'.output, hold |-> drive'.hold]
               /\ IF drive'.mode = "UNARMED"
                  THEN drive'.output = 0 /\ drive'.hold = 0
                  ELSE LET r == drive_ramp(drive.output, Target(drive'.mode, p), drive.hold)
                       IN  drive'.output = r.output /\ drive'.hold = r.hold
<1>1. CASE p = NoPad
  BY <1>1 DEF Frame, drive_step
<1>2. CASE p # NoPad
  <2>1. p \in Inputs /\ p.buttons \subseteq Buttons
    BY <1>2, InputsAssumption DEF Pad
  <2>2. NextMode(drive, p) \in Modes
    BY DEF NextMode, Modes, TypeOK, DriveT
  <2> QED BY <1>2, <2>1, <2>2 DEF Frame, drive_step
<1> QED BY <1>1, <1>2

\* The frame's whole effect on the motors, from a state of the invariant.
LEMMA FrameEffect ==
  ASSUME NEW p \in Inputs \cup {NoPad}, Frame(p), DriveInv
  PROVE  /\ TypeOK' /\ DriveSafe' /\ PrevIsPad'
         /\ \/ drive'.mode = "UNARMED" /\ drive'.output = 0 /\ drive'.hold = 0
            \/ /\ drive'.mode # "UNARMED" /\ p \in Inputs
               /\ drive'.mode = NextMode(drive, p)
               /\ Target(drive'.mode, p) \in Int
               /\ iabs(Target(drive'.mode, p)) <= DRIVE_OUTPUT_CAP
               /\ ArmAllowed(p) => Target(drive'.mode, p) = 0
               /\ drive'.output \in Int /\ drive'.hold \in Nat
               /\ drive'.output = drive_ramp(drive.output, Target(drive'.mode, p), drive.hold).output
               /\ drive'.hold = drive_ramp(drive.output, Target(drive'.mode, p), drive.hold).hold
<1> USE DEF DriveInv
<1>1. CASE p = NoPad /\ drive' = drive_init
  <2>1. DRIVE_OUTPUT_CAP \in Nat
    BY DriveAssumption
  <2> QED
    BY <1>1, <2>1, FrameCases
    DEF drive_init, TypeOK, DriveT, Modes, DriveSafe, PrevIsPad, Armed, iabs
<1>2. CASE p \in Inputs /\ p # NoPad
  <2>1. /\ pad' = p /\ drive'.mode = NextMode(drive, p) /\ drive'.mode \in Modes
        /\ drive'.prev = p.buttons /\ p.buttons \subseteq Buttons
        /\ drive' = [mode |-> drive'.mode, prev |-> drive'.prev,
                     output |-> drive'.output, hold |-> drive'.hold]
    BY <1>2, FrameCases, NoPadAssumption, InputsAssumption
  <2>2. PrevIsPad'
    BY <1>2, <2>1 DEF PrevIsPad
  <2>3. CASE drive'.mode = "UNARMED"
    <3>1. drive'.output = 0 /\ drive'.hold = 0
      BY <1>2, <2>3, FrameCases
    <3>2. TypeOK'
      BY <2>1, <3>1 DEF TypeOK, DriveT
    <3> QED BY <2>2, <2>3, <3>1, <3>2, DriveAssumption DEF DriveSafe, Armed, iabs
  <2>4. CASE drive'.mode # "UNARMED"
    <3> DEFINE t == Target(drive'.mode, p)
    <3>1. t \in Int /\ iabs(t) <= DRIVE_OUTPUT_CAP /\ (ArmAllowed(p) => t = 0)
      BY <1>2, <2>1, TargetBound
    <3> HIDE DEF t
    <3>2. /\ drive'.output = drive_ramp(drive.output, t, drive.hold).output
          /\ drive'.hold = drive_ramp(drive.output, t, drive.hold).hold
      BY <1>2, <2>4, FrameCases DEF t
    <3>3. /\ drive.output \in Int /\ drive.hold \in Nat
          /\ iabs(drive.output) <= DRIVE_OUTPUT_CAP
          /\ drive.hold > 0 => drive.output = 0
      BY DEF TypeOK, DriveT, DriveSafe
    <3>7. drive'.output \in Int /\ drive'.hold \in Nat
      BY <3>1, <3>2, <3>3, RampType
    <3>4. /\ iabs(drive'.output) <= DRIVE_OUTPUT_CAP
          /\ drive'.hold > 0 => drive'.output = 0
      BY <3>1, <3>2, <3>3, <3>7, RampFrame
    <3>5. TypeOK'
      BY <2>1, <3>7 DEF TypeOK, DriveT
    <3>6. DriveSafe'
      BY <2>4, <3>4 DEF DriveSafe, Armed
    <3> QED BY <1>2, <2>1, <2>2, <2>4, <3>1, <3>2, <3>7, <3>5, <3>6 DEF t
  <2> QED BY <2>3, <2>4
<1> QED BY <1>1, <1>2, FrameCases

-----------------------------------------------------------------------------
(* The theorems. *)

\* A car that starts is disarmed and coasts.
LEMMA DriveInvInit == Init => DriveInv
BY DriveAssumption
DEF Init, DriveInv, drive_init, TypeOK, DriveT, Modes, DriveSafe, PrevIsPad, Armed, iabs

\* Every frame keeps the invariant.
LEMMA DriveInvNext == DriveInv /\ [Next]_vars => DriveInv'
<1> SUFFICES ASSUME DriveInv, [Next]_vars PROVE DriveInv'
  OBVIOUS
<1>1. CASE Next
  <2>1. PICK p \in Inputs \cup {NoPad} : Frame(p)
    BY <1>1 DEF Next
  <2> QED BY <2>1, FrameEffect DEF DriveInv
<1>2. CASE UNCHANGED vars
  BY <1>2 DEF vars, DriveInv, TypeOK, DriveSafe, Armed, PrevIsPad
<1> QED BY <1>1, <1>2

\* drive_t keeps its type whatever the frames bring.
THEOREM DriveTypeCorrect == Spec => []TypeOK
<1>1. DriveInv => TypeOK
  BY DEF DriveInv
<1> QED BY <1>1, DriveInvInit, DriveInvNext, PTL DEF Spec

\* The output never leaves the cap, and an unarmed car coasts.
THEOREM DriveSafety == Spec => []DriveSafe
<1>1. DriveInv => DriveSafe
  BY DEF DriveInv
<1> QED BY <1>1, DriveInvInit, DriveInvNext, PTL DEF Spec

\* The output changes sign never, grows by the ramp-up step at most, and
\* shrinks faster than a release only for a stop or a reversal.
THEOREM DriveSlew == Spec => SlewBounded
<1> DEFINE A == /\ drive.output * drive'.output >= 0
                /\ iabs(drive'.output) - iabs(drive.output) <= RAMP_UP_STEP
                /\ iabs(drive.output) - iabs(drive'.output) > RAMP_RELEASE_STEP
                     => \/ drive'.mode = "UNARMED"
                        \/ Reversing(drive.output, Target(drive'.mode, pad'))
<1>1. ASSUME DriveInv, Next PROVE A
  <2>1. PICK p \in Inputs \cup {NoPad} : Frame(p)
    BY <1>1 DEF Next
  <2>2. pad' = p
    BY <2>1 DEF Frame
  <2> DEFINE c == drive.output
             o == drive'.output
  <2>3. c \in Int /\ drive.hold \in Nat /\ iabs(c) <= DRIVE_OUTPUT_CAP
        /\ (drive.hold > 0 => c = 0)
    BY <1>1 DEF DriveInv, TypeOK, DriveT, DriveSafe
  <2>4. RAMP_UP_STEP \in Nat
    BY DriveAssumption
  <2>5. CASE drive'.mode = "UNARMED" /\ drive'.output = 0
    <3>1. iabs(c) \in Nat /\ iabs(o) = 0 /\ c * o = 0
      BY <2>3, <2>5 DEF iabs
    <3> QED BY <2>4, <2>5, <3>1
  <2>6. CASE drive'.mode # "UNARMED"
    <3> DEFINE t == Target(drive'.mode, p)
    <3>1. /\ o \in Int /\ drive'.hold \in Nat
          /\ o = drive_ramp(c, t, drive.hold).output
          /\ drive'.hold = drive_ramp(c, t, drive.hold).hold
          /\ t \in Int /\ iabs(t) <= DRIVE_OUTPUT_CAP
      BY <1>1, <2>1, <2>6, FrameEffect
    <3> HIDE DEF c, o, t
    <3>2. /\ c > 0 => o >= 0
          /\ c < 0 => o <= 0
          /\ iabs(o) - iabs(c) <= RAMP_UP_STEP
          /\ iabs(c) - iabs(o) > RAMP_RELEASE_STEP => Reversing(c, t)
      BY <2>3, <3>1, RampFrame
    <3>3. c * o >= 0
      BY <2>3, <3>1, <3>2
    <3> QED BY <2>2, <3>2, <3>3 DEF c, o, t
  <2> QED BY <1>1, <2>1, <2>5, <2>6, FrameEffect
<1> HIDE DEF A
<1>2. DriveInv /\ [Next]_vars => [A]_vars
  BY <1>1
<1>3. Spec => [][A]_vars
  BY <1>2, DriveInvInit, DriveInvNext, PTL DEF Spec
<1> QED BY <1>3 DEF SlewBounded, A

\* A frame of an armed car is never lost: it ends at the driver's target or
\* nearer to it.
THEOREM DriveProgress == Spec => RampProgress
<1> DEFINE A == drive'.mode # "UNARMED" =>
                  LET t == Target(drive'.mode, pad')
                  IN  Distance(drive', t) < Distance(drive, t) \/ Distance(drive', t) = 0
<1>1. ASSUME DriveInv, Next PROVE A
  <2>1. PICK p \in Inputs \cup {NoPad} : Frame(p)
    BY <1>1 DEF Next
  <2>2. pad' = p
    BY <2>1 DEF Frame
  <2> SUFFICES ASSUME drive'.mode # "UNARMED"
               PROVE  LET t == Target(drive'.mode, p)
                      IN  Distance(drive', t) < Distance(drive, t) \/ Distance(drive', t) = 0
    BY <2>2
  <2> DEFINE t == Target(drive'.mode, p)
             c == drive.output
             o == drive'.output
             h == drive.hold
             k == drive'.hold
  <2>3. /\ o \in Int /\ k \in Nat
        /\ o = drive_ramp(c, t, h).output /\ k = drive_ramp(c, t, h).hold
        /\ t \in Int /\ iabs(t) <= DRIVE_OUTPUT_CAP
    BY <1>1, <2>1, FrameEffect
  <2>4. /\ c \in Int /\ h \in Nat /\ iabs(c) <= DRIVE_OUTPUT_CAP
        /\ h > 0 => c = 0
    BY <1>1 DEF DriveInv, TypeOK, DriveT, DriveSafe
  <2>5. RAMP_REVERSE_HOLD_FRAMES \in Nat \ {0}
    BY DriveAssumption
  <2> HIDE DEF t, c, o, h, k
  <2>6. /\ \/ h = 0 /\ k = 0 /\ (o = t \/ iabs(t - o) < iabs(t - c))
           \/ h = 0 /\ k < RAMP_REVERSE_HOLD_FRAMES /\ iabs(t - o) < iabs(t - c)
           \/ k < h /\ o = c
    BY <2>3, <2>4, RampFrame DEF Nearer
  <2> DEFINE a == iabs(t - o)
             b == iabs(t - c)
  <2>7. a \in Nat /\ b \in Nat /\ (o = t => a = 0)
    BY <2>3, <2>4 DEF iabs
  <2>8. \/ a = 0 /\ k = 0
        \/ a + 1 <= b /\ k < RAMP_REVERSE_HOLD_FRAMES /\ h = 0
        \/ a = b /\ k < h
    BY <2>3, <2>4, <2>5, <2>6, <2>7
  <2> HIDE DEF a, b
  <2> DEFINE H == RAMP_REVERSE_HOLD_FRAMES
  <2>9. H * a + k < H * b + h \/ H * a + k = 0
    <3>1. CASE a = 0 /\ k = 0
      BY <2>5, <3>1
    <3>2. CASE a + 1 <= b /\ k < RAMP_REVERSE_HOLD_FRAMES /\ h = 0
      <4>1. H * (a + 1) <= H * b
        BY <2>5, <2>7, <3>2
      <4>2. H * (a + 1) = H * a + H
        BY <2>5, <2>7
      <4>3. H * a \in Nat /\ H * b \in Nat
        BY <2>5, <2>7
      <4> QED BY <2>3, <2>4, <2>5, <3>2, <4>1, <4>2, <4>3
    <3>3. CASE a = b /\ k < h
      <4>1. H * a \in Nat
        BY <2>5, <2>7
      <4> QED BY <2>3, <2>4, <3>3, <4>1
    <3> QED BY <2>8, <3>1, <3>2, <3>3
  <2> QED BY <2>9 DEF Distance, a, b, c, o, h, k, t
<1> HIDE DEF A
<1>2. DriveInv /\ [Next]_vars => [A]_vars
  BY <1>1
<1>3. Spec => [][A]_vars
  BY <1>2, DriveInvInit, DriveInvNext, PTL DEF Spec
<1> QED BY <1>3 DEF RampProgress, A

\* Arming takes a press of A that two frames with input saw happen.
THEOREM DriveArming == Spec => ArmNeedsFreshPress
<1> DEFINE A == ~Armed /\ Armed' =>
                  /\ pad # NoPad /\ "A" \notin pad.buttons
                  /\ "A" \in pad'.buttons /\ ArmAllowed(pad')
                  /\ drive'.mode = "LIMITED" /\ drive'.output = 0
<1>1. ASSUME DriveInv, Next PROVE A
  <2>1. PICK p \in Inputs \cup {NoPad} : Frame(p)
    BY <1>1 DEF Next
  <2>2. pad' = p
    BY <2>1 DEF Frame
  <2> SUFFICES ASSUME ~Armed, Armed' PROVE A
    OBVIOUS
  <2> DEFINE t == Target(drive'.mode, p)
  <2>3. /\ drive'.mode = NextMode(drive, p)
        /\ t \in Int /\ iabs(t) <= DRIVE_OUTPUT_CAP
        /\ ArmAllowed(p) => t = 0
        /\ drive'.output \in Int /\ drive'.hold \in Nat
        /\ drive'.output = drive_ramp(drive.output, t, drive.hold).output
        /\ drive'.hold = drive_ramp(drive.output, t, drive.hold).hold
    BY <1>1, <2>1, FrameEffect DEF Armed
  <2>4. /\ drive.mode = "UNARMED" /\ drive.output = 0 /\ drive.hold = 0
        /\ drive.prev = IF pad = NoPad THEN Buttons ELSE pad.buttons
    BY <1>1 DEF DriveInv, DriveSafe, PrevIsPad, Armed
  <2>5. /\ "A" \in p.buttons \ drive.prev /\ ArmAllowed(p)
        /\ drive'.mode = "LIMITED"
    BY <2>3, <2>4 DEF NextMode, Armed
  <2>6. pad # NoPad /\ "A" \notin pad.buttons
    BY <2>4, <2>5 DEF Buttons
  <2>7. drive'.output = 0
    <3> HIDE DEF t
    <3>1. iabs(0) <= DRIVE_OUTPUT_CAP
      BY DriveAssumption DEF iabs
    <3> QED BY <2>3, <2>4, <2>5, <3>1, RampWait
  <2> QED BY <2>2, <2>5, <2>6, <2>7
<1> HIDE DEF A
<1>2. DriveInv /\ [Next]_vars => [A]_vars
  BY <1>1 DEF vars, Armed
<1>3. Spec => [][A]_vars
  BY <1>2, DriveInvInit, DriveInvNext, PTL DEF Spec
<1> QED BY <1>3 DEF ArmNeedsFreshPress, A
=============================================================================
