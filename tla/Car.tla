-------------------------------- MODULE Car ---------------------------------
(***************************************************************************)
(* The car: firmware/src/main.c with the controller and the update server. *)
(*                                                                         *)
(* Everything runs in callbacks on one run loop.  A callback is never      *)
(* interrupted by another, but between two drive frames any number of      *)
(* Bluetooth events, reports and steps of an update may come, in any       *)
(* order.  The drive frame reads their outcome and nothing else: the two   *)
(* meet in controller_latest() and ota_active().                           *)
(*                                                                         *)
(* Time is counted in drive frames: the drive timer is re-armed by every   *)
(* tick, and the update waits for STOP_SETTLE_MS on the same run loop.     *)
(***************************************************************************)
EXTENDS DriveLogic, FiniteSets

CONSTANTS
  Devices, Gamepads,    \* see Controller
  Reports,              \* the pad states a gamepad can report
  SETTLE_FRAMES         \* drive frames that STOP_SETTLE_MS surely contains

\* A zeroed pad_state_t.
Idle == [buttons |-> {}, lt |-> 0, rt |-> 0, lx |-> 0]

ASSUME CarAssumption ==
  /\ IsFiniteSet(Devices) /\ Gamepads \subseteq Devices
  /\ Reports \subseteq Pad /\ Idle \in Reports
  /\ SETTLE_FRAMES \in Nat \ {0}
  /\ DRIVE_ARM_TRIGGER_MAX <= DRIVE_NEUTRAL

VARIABLES
  drive, pad,           \* main.c's drive_t, and the input of the latest frame
  device, scanning, incoming, connected_count, latest, paused, bt_ready, led,
  phase, image,         \* the update
  frames                \* drive frames since the update stopped the car

driveVars == <<drive, pad>>
controllerVars ==
  <<device, scanning, incoming, connected_count, latest, paused, bt_ready, led>>
updateVars == <<phase, image>>
vars == <<drive, pad, device, scanning, incoming, connected_count, latest, paused, bt_ready,
          led, phase, image, frames>>

Drive == INSTANCE DriveLoop WITH Inputs <- Reports
C == INSTANCE Controller
Update == INSTANCE UpdateSession

TypeOK == Drive!TypeOK /\ C!TypeOK /\ Update!TypeOK /\ frames \in 0 .. SETTLE_FRAMES

Init == Drive!Init /\ C!Init /\ Update!Init /\ frames = 0

-----------------------------------------------------------------------------
\* on_drive_tick(): no input while an update has stopped the car.
Input == IF Update!Active THEN NoPad ELSE C!controller_latest

\* Faulty variant: the drive loop pauses during an update.
DriveTick_pauses ==
  /\ phase # "off"
  /\ IF Update!Active THEN drive' = drive /\ pad' = NoPad ELSE Drive!Frame(Input)
  /\ frames' = imin(frames + 1, SETTLE_FRAMES)
  /\ UNCHANGED <<controllerVars, updateVars>>

DriveTick ==
  /\ phase # "off"
  /\ Drive!Frame(Input)
  /\ frames' = imin(frames + 1, SETTLE_FRAMES)
  /\ UNCHANGED <<controllerVars, updateVars>>

\* The Bluetooth events touch controller.c alone.
FromRadio == phase # "off" /\ UNCHANGED <<driveVars, updateVars, frames>>

DeviceReady(d) == C!Ready(d) /\ FromRadio

DeviceLost(d) == C!Disconnected(d) /\ FromRadio

Report(d, r) == C!ControllerData(d, r) /\ FromRadio

RadioStep ==
  /\ \/ C!InitComplete \/ C!StatusTick
     \/ \E d \in Devices : C!Connected(d) \/ C!RejectReady(d)
  /\ FromRadio

\* on_header(): car_stopped = true and controller_pause() in one handler.
StopCar ==
  /\ Update!StopCar /\ C!Pause
  /\ frames' = 0
  /\ UNCHANGED driveVars

\* Faulty variant: writing begins without the settle time.
Settle_at_once ==
  /\ Update!Settle
  /\ UNCHANGED <<driveVars, controllerVars, frames>>

\* upload_tick(): STOP_SETTLE_MS have passed.
Settle ==
  /\ Update!Settle /\ frames >= SETTLE_FRAMES
  /\ UNCHANGED <<driveVars, controllerVars, frames>>

\* Faulty variant: the controller is not told that the update is over.
Cancel_keeps_pause ==
  /\ Update!Cancel
  /\ UNCHANGED <<driveVars, controllerVars, frames>>

\* resume_car(): car_stopped = false and controller_resume().
Cancel ==
  /\ Update!Cancel /\ C!Resume
  /\ UNCHANGED <<driveVars, frames>>

\* The steps of an update that touch only the update.
UpdateStep ==
  /\ Update!Accept \/ Update!Refuse \/ Update!Write \/ Update!Finish \/ Update!Reboot
  /\ UNCHANGED <<driveVars, controllerVars, frames>>

\* The chip restarts: drive_init() and zeroed memory everywhere.
Restart ==
  /\ drive' = drive_init /\ pad' = NoPad
  /\ C!Restart /\ Update!Restart
  /\ frames' = 0

Next ==
  \/ DriveTick \/ RadioStep \/ StopCar \/ Settle \/ Cancel \/ UpdateStep \/ Restart
  \/ \E d \in Devices : \/ DeviceReady(d) \/ DeviceLost(d)
                        \/ \E r \in Reports : Report(d, r)

Spec == Init /\ [][Next]_vars

-----------------------------------------------------------------------------
Coasting == drive.mode = "UNARMED" /\ drive.output = 0

\* The flash is written, and the chip reset, only under a car that is
\* disarmed and coasts: writing turns interrupts off and the drive loop with
\* them.
NoWriteWhileDriving == phase \in {"writing", "rebooting", "off"} => Coasting

\* The update and the controller agree who has the car.
PausedWhileUpdating == paused <=> Update!Active

\* The first frame after the last controller is gone, or after an update
\* took the car, disarms it, however many devices joined, failed and left.
StopsWithinAFrame ==
  [][ DriveTick /\ (C!ReadyDevices = {} \/ Update!Active) => Coasting' ]_vars

\* The car implements the drive loop: what is proved for any inputs holds for
\* those the controller and the update produce, across restarts too.
DriveSpec == Drive!Spec
=============================================================================
