----------------------------- MODULE DriveLoop ------------------------------
(***************************************************************************)
(* The drive loop: on_drive_tick() of firmware/src/main.c hands every      *)
(* 20 ms frame one input to drive_step().  Here the inputs are free: each  *)
(* frame takes any member of Inputs, or NoPad.  Module Car supplies the    *)
(* inputs the controller and the update server really produce, and         *)
(* implements this specification.                                          *)
(***************************************************************************)
EXTENDS DriveLogic

CONSTANT Inputs         \* the pad states a frame can see

ASSUME InputsAssumption == Inputs \subseteq Pad

\* A pair of triggers that may arm the car asks for no drive.
ASSUME ArmAssumption == DRIVE_ARM_TRIGGER_MAX <= DRIVE_NEUTRAL

VARIABLES
  drive,                \* drive_t of main.c
  pad                   \* the input of the latest frame (NoPad before the first)

vars == <<drive, pad>>

TypeOK == drive \in DriveT /\ pad \in Inputs \cup {NoPad}

Init == drive = drive_init /\ pad = NoPad

\* One call of on_drive_tick().
Frame(p) == drive' = drive_step(drive, p) /\ pad' = p

Next == \E p \in Inputs \cup {NoPad} : Frame(p)

Spec == Init /\ [][Next]_vars

-----------------------------------------------------------------------------
Armed == drive.mode # "UNARMED"

\* What the motors get is within the cap, the car coasts unless it is armed,
\* and a wait before reversing is spent at 0.
DriveSafe ==
  /\ iabs(drive.output) <= DRIVE_OUTPUT_CAP
  /\ ~Armed => drive.output = 0 /\ drive.hold = 0
  /\ drive.hold > 0 => drive.output = 0

\* The buttons held in the frame before: those of its input, or all of them
\* when it had none.
PrevIsPad == drive.prev = IF pad = NoPad THEN Buttons ELSE pad.buttons

DriveInv == TypeOK /\ DriveSafe /\ PrevIsPad

\* No frame throws the output from one direction into the other, none adds
\* more than the ramp-up step, and only a stop (B, lost input) or a reversal
\* removes more than the release step.
SlewBounded ==
  [][ /\ drive.output * drive'.output >= 0
      /\ iabs(drive'.output) - iabs(drive.output) <= RAMP_UP_STEP
      /\ iabs(drive.output) - iabs(drive'.output) > RAMP_RELEASE_STEP
           => \/ drive'.mode = "UNARMED"
              \/ Reversing(drive.output, Target(drive'.mode, pad')) ]_vars

\* Frames the ramp still needs for target t, in a measure that also counts
\* the wait: each frame at 0 is worth less than one point of output.
Distance(d, t) == RAMP_REVERSE_HOLD_FRAMES * iabs(t - d.output) + d.hold

\* Every frame of an armed car brings it nearer to what the driver asks for
\* in that frame, or it is there: no overshoot, no oscillation around the
\* target, no wait that never ends.
RampProgress ==
  [][ drive'.mode # "UNARMED" =>
        LET t == Target(drive'.mode, pad')
        IN  Distance(drive', t) < Distance(drive, t) \/ Distance(drive', t) = 0 ]_vars

\* The car arms only on a press of A seen by two frames in a row: the one
\* before had input with A up, this one has it down with both triggers
\* released.  Never in the first frame of a connection, never straight into
\* FULL.
ArmNeedsFreshPress ==
  [][ ~Armed /\ Armed' =>
        /\ pad # NoPad /\ "A" \notin pad.buttons
        /\ "A" \in pad'.buttons /\ ArmAllowed(pad')
        /\ drive'.mode = "LIMITED" /\ drive'.output = 0 ]_vars
=============================================================================
