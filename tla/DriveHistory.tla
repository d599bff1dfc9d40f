---------------------------- MODULE DriveHistory ----------------------------
(***************************************************************************)
(* The drive loop with a history variable that remembers how the car came  *)
(* to rest.  It states what the motors may be asked to do after a stop,    *)
(* whatever the driver, the radio link or an update did meanwhile.         *)
(***************************************************************************)
EXTENDS DriveLoop

\* Stopping and arming again takes three frames at 0 at least: the stop, a
\* frame without A (or the first of a connection), the press of A.  A longer
\* wait could be cut short that way.
ASSUME HoldAssumption == RAMP_REVERSE_HOLD_FRAMES <= 3

VARIABLE
  rest  \* frames: frames in a row at output 0, counted up to the hold time;
        \* dir: the direction (-1, 1) of the last output before, 0 if none;
        \* cause: what ended that motion

hvars == <<drive, pad, rest>>

Causes == {"none", "stop", "release", "reverse"}

HTypeOK ==
  /\ TypeOK
  /\ rest \in [frames : 0 .. RAMP_REVERSE_HOLD_FRAMES, dir : {-1, 0, 1}, cause : Causes]

HInit ==
  Init /\ rest = [frames |-> RAMP_REVERSE_HOLD_FRAMES, dir |-> 0, cause |-> "none"]

\* Why this frame brought a moving car to 0: B or lost input, the driver
\* asking for the other direction, or the released trigger.
StopCause ==
  IF drive'.mode = "UNARMED" THEN "stop"
  ELSE IF Reversing(drive.output, Target(drive'.mode, pad')) THEN "reverse"
  ELSE "release"

Observe ==
  rest' = IF drive'.output # 0
          THEN [frames |-> 0, dir |-> isign(drive'.output), cause |-> "none"]
          ELSE [frames |-> imin(rest.frames + 1, RAMP_REVERSE_HOLD_FRAMES),
                dir    |-> rest.dir,
                cause  |-> IF drive.output # 0 THEN StopCause ELSE rest.cause]

HFrame(p) == Frame(p) /\ Observe

HNext == \E p \in Inputs \cup {NoPad} : HFrame(p)

HInv ==
  /\ HTypeOK
  /\ DriveInv
  /\ rest.frames = 0 <=> drive.output # 0
  /\ rest.cause = "reverse" =>
       IF Armed
       THEN rest.frames + drive.hold >= RAMP_REVERSE_HOLD_FRAMES
       ELSE rest.frames >= imin(2, RAMP_REVERSE_HOLD_FRAMES)

HSpec == HInit /\ [][HNext]_hvars

\* Reversing (drive.h: "wait 60 ms at 0 before reversing"): once a reversal
\* has pulled the output to 0, the motors rest for the whole wait before they
\* move at all.  Stopping and arming again in between, or losing and finding
\* the controller, is no way around the wait.
ReverseHold ==
  [][ rest.cause = "reverse" /\ drive'.output # 0 => rest.frames = RAMP_REVERSE_HOLD_FRAMES ]_hvars

\* This frame moves the car the other way than before its rest.
Turns == rest.dir # 0 /\ drive'.output # 0 /\ isign(drive'.output) # rest.dir

\* DRIVING.md, "Motor ramps": a driver who wants the other direction gets "Down
\* to 0 in <= 200 ms, wait 60 ms at 0, then reverse".
PauseBeforeReversing ==
  [][ Turns /\ rest.cause # "stop" => rest.frames = RAMP_REVERSE_HOLD_FRAMES ]_hvars
=============================================================================
