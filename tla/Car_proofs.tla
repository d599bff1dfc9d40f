----------------------------- MODULE Car_proofs -----------------------------
(***************************************************************************)
(* The car as a whole: for any devices, pads and settings, it implements   *)
(* the drive loop, and the update and the drive loop keep out of each      *)
(* other's way.                                                            *)
(***************************************************************************)
EXTENDS Car, TLAPS

CP == INSTANCE Controller_proofs
DP == INSTANCE DriveLoop_proofs WITH Inputs <- Reports

\* What the controller's theorems assume holds in the car.
LEMMA Assumptions ==
  /\ CP!ControllerAssumption
  /\ NoPad \notin Reports
  /\ SETTLE_FRAMES \in Nat \ {0}
<1>1. NoPad \notin Reports
  BY CarAssumption, NoPadAssumption
<1>2. CP!IsFiniteSet(Devices)
  BY CarAssumption DEF IsFiniteSet, CP!IsFiniteSet
<1> QED BY <1>1, <1>2, CarAssumption, DriveAssumption
        DEF CP!ControllerAssumption

\* Between writing and driving stands a frame without input.
SettledInv ==
  /\ frames \in Nat
  /\ PausedWhileUpdating
  /\ NoWriteWhileDriving
  /\ phase = "stopping" /\ frames >= 1 => Coasting

\* The failsafe of drive_step(): a frame without input starts over.
LEMMA FrameWithoutInput ==
  ASSUME DriveTick, Input = NoPad
  PROVE  Coasting'
<1>1. drive' = drive_init
  BY DEF DriveTick, Drive!Frame, Drive!drive_step, Drive!drive_init, drive_init,
     Drive!Buttons, Buttons
<1> QED BY <1>1 DEF Coasting, drive_init

\* Every callback keeps the update and the drive loop apart.
LEMMA SettledNext ==
  ASSUME SettledInv, [Next]_vars
  PROVE  SettledInv'
<1> USE DEF SettledInv, PausedWhileUpdating, NoWriteWhileDriving, Update!Active
<1>1. CASE DriveTick
  <2>1. frames' \in Nat /\ frames' >= 0
    BY <1>1, Assumptions DEF DriveTick, imin
  <2>2. Update!Active => Coasting'
    BY <1>1, FrameWithoutInput DEF Input
  <2>3. UNCHANGED <<phase, paused>>
    BY <1>1 DEF DriveTick, controllerVars, updateVars
  <2> QED BY <2>1, <2>2, <2>3
<1>2. CASE FromRadio /\ UNCHANGED paused
  <2>1. Coasting' <=> Coasting
    BY <1>2 DEF FromRadio, driveVars, Coasting
  <2> QED BY <1>2, <2>1 DEF FromRadio, updateVars
<1>3. CASE RadioStep
  <2>1. UNCHANGED paused
    BY <1>3 DEF RadioStep, C!InitComplete, C!StatusTick, C!Connected, C!RejectReady
  <2> QED BY <1>2, <1>3, <2>1 DEF RadioStep
<1>4. ASSUME NEW d \in Devices, DeviceReady(d) \/ DeviceLost(d)
      PROVE  SettledInv'
  <2>1. UNCHANGED paused /\ FromRadio
    BY <1>4 DEF DeviceReady, DeviceLost, C!Ready, C!Disconnected
  <2> QED BY <1>2, <2>1
<1>5. ASSUME NEW d \in Devices, NEW r \in Reports, Report(d, r)
      PROVE  SettledInv'
  <2>1. UNCHANGED paused /\ FromRadio
    BY <1>5 DEF Report, C!ControllerData
  <2> QED BY <1>2, <2>1
<1>6. CASE StopCar
  BY <1>6 DEF StopCar, Update!StopCar, C!Pause
<1>7. CASE Settle
  <2>1. Coasting
    BY <1>7, Assumptions DEF Settle, Update!Settle
  <2>2. Coasting'
    BY <1>7, <2>1 DEF Settle, driveVars, Coasting
  <2> QED BY <1>7, <2>2 DEF Settle, Update!Settle, controllerVars
<1>8. CASE Cancel
  BY <1>8 DEF Cancel, Update!Cancel, C!Resume
<1>9. CASE UpdateStep
  <2>1. Coasting' <=> Coasting
    BY <1>9 DEF UpdateStep, driveVars, Coasting
  <2>2. UNCHANGED <<paused, frames>>
    BY <1>9 DEF UpdateStep, controllerVars
  <2> QED BY <1>9, <2>1, <2>2
          DEF UpdateStep, Update!Accept, Update!Refuse, Update!Write, Update!Finish, Update!Reboot
<1>10. CASE Restart
  BY <1>10 DEF Restart, C!Restart, Update!Restart
<1>11. CASE UNCHANGED vars
  BY <1>11 DEF vars, Coasting
<1> QED BY <1>1, <1>3, <1>4, <1>5, <1>6, <1>7, <1>8, <1>9, <1>10, <1>11 DEF Next

\* A step of the car is a step of the controller or leaves it alone.
LEMMA ControllerStep ==
  ASSUME SettledInv, [Next]_vars
  PROVE  [CP!Next]_CP!vars
<1> USE DEF CP!Next, CP!vars
<1>1. CASE DriveTick \/ Settle \/ UpdateStep \/ UNCHANGED vars
  BY <1>1 DEF DriveTick, Settle, UpdateStep, vars, controllerVars
<1>2. CASE RadioStep
  BY <1>2 DEF RadioStep, C!InitComplete, C!StatusTick, C!Connected, C!RejectReady,
     CP!InitComplete, CP!StatusTick, CP!Connected, CP!RejectReady,
     C!controller_connected, CP!controller_connected
<1>3. ASSUME NEW d \in Devices, DeviceReady(d) \/ DeviceLost(d)
      PROVE  CP!Next
  BY <1>3 DEF DeviceReady, DeviceLost, C!Ready, C!Disconnected, CP!Ready, CP!Disconnected
<1>4. ASSUME NEW d \in Devices, NEW r \in Reports, Report(d, r)
      PROVE  CP!Next
  BY <1>4 DEF Report, C!ControllerData, CP!ControllerData
<1>5. CASE StopCar
  <2>1. ~paused
    BY <1>5 DEF StopCar, Update!StopCar, SettledInv, PausedWhileUpdating, Update!Active
  <2> QED BY <1>5, <2>1 DEF StopCar, C!Pause, CP!Pause
<1>6. CASE Cancel
  <2>1. paused
    BY <1>6 DEF Cancel, Update!Cancel, SettledInv, PausedWhileUpdating, Update!Active
  <2> QED BY <1>6, <2>1 DEF Cancel, C!Resume, CP!Resume
<1>7. CASE Restart
  BY <1>7 DEF Restart, C!Restart, CP!Restart
<1> QED BY <1>1, <1>2, <1>3, <1>4, <1>5, <1>6, <1>7 DEF Next

\* The inductive invariant: both halves of the car.
CarInv == SettledInv /\ CP!ControllerInv

\* It holds when the chip starts.
LEMMA CarInvInit == Init => CarInv
<1>1. Init => SettledInv
  BY DEF Init, SettledInv, PausedWhileUpdating, NoWriteWhileDriving, Update!Init, Update!Active,
     C!Init
<1>2. Init => CP!Init
  BY DEF Init, C!Init, CP!Init
<1>3. CP!Init => CP!ControllerInv
  BY Assumptions, CP!ControllerInvInit
<1> QED BY <1>1, <1>2, <1>3 DEF CarInv

\* Every callback keeps it.
LEMMA CarInvNext == CarInv /\ [Next]_vars => CarInv'
<1>1. CP!ControllerInv /\ [CP!Next]_CP!vars => CP!ControllerInv'
  BY Assumptions, CP!ControllerInvNext
<1> QED BY <1>1, SettledNext, ControllerStep DEF CarInv

\* The flash is written, and the chip reset for the new image, only while the
\* car is disarmed and coasts.
THEOREM CarNoWriteWhileDriving == Spec => []NoWriteWhileDriving
<1>1. CarInv => NoWriteWhileDriving
  BY DEF CarInv, SettledInv
<1> QED BY <1>1, CarInvInit, CarInvNext, PTL DEF Spec

\* The controller is paused exactly while an update has the car.
THEOREM CarPausedWhileUpdating == Spec => []PausedWhileUpdating
<1>1. CarInv => PausedWhileUpdating
  BY DEF CarInv, SettledInv
<1> QED BY <1>1, CarInvInit, CarInvNext, PTL DEF Spec

\* A drive frame sees a reported pad state or none.
LEMMA InputType ==
  ASSUME CarInv
  PROVE  Input \in Reports \cup {NoPad}
BY DEF CarInv, CP!ControllerInv, CP!TypeOK, Input, C!controller_latest

\* Without a ready device there is no input.
LEMMA NoDeviceNoInput ==
  ASSUME CarInv, C!ReadyDevices = {}
  PROVE  C!controller_latest = NoPad
<1>1. CP!ReadyDevices = {}
  BY DEF C!ReadyDevices, CP!ReadyDevices
<1>2. CP!controller_latest = NoPad
  BY <1>1, Assumptions, CP!NobodyNoInput DEF CarInv
<1> QED BY <1>2 DEF C!controller_latest, C!controller_connected,
             CP!controller_latest, CP!controller_connected

\* One drive frame stops a car whose last controller is gone or that an
\* update has taken.
THEOREM CarStopsWithinAFrame == Spec => StopsWithinAFrame
<1> DEFINE A == DriveTick /\ (C!ReadyDevices = {} \/ Update!Active) => Coasting'
<1>1. CarInv => A
  <2> SUFFICES ASSUME CarInv, DriveTick, C!ReadyDevices = {} \/ Update!Active
               PROVE  Coasting'
    OBVIOUS
  <2>1. Input = NoPad
    BY NoDeviceNoInput DEF Input
  <2> QED BY <2>1, FrameWithoutInput
<1> HIDE DEF A
<1>2. CarInv /\ [Next]_vars => [A]_vars
  BY <1>1
<1>3. Spec => [][A]_vars
  BY <1>2, CarInvInit, CarInvNext, PTL DEF Spec
<1> QED BY <1>3 DEF StopsWithinAFrame, A

\* The car implements the drive loop: whatever is proved of it for any inputs
\* holds for the inputs the controller and the update produce.
THEOREM CarImplementsDriveLoop == Spec => DriveSpec
<1>1. Init => Drive!Init
  BY DEF Init
<1>2. CarInv /\ [Next]_vars => [Drive!Next]_(Drive!vars)
  <2> SUFFICES ASSUME CarInv, [Next]_vars
               PROVE  [Drive!Next]_(Drive!vars)
    OBVIOUS
  <2>1. CASE DriveTick
    BY <2>1, InputType DEF DriveTick, Drive!Next
  <2>2. CASE Restart
    <3>1. Drive!Frame(NoPad)
      BY <2>2 DEF Restart, Drive!Frame, Drive!drive_step, Drive!drive_init, drive_init,
         Drive!Buttons, Buttons
    <3> QED BY <3>1 DEF Drive!Next
  <2>3. CASE RadioStep \/ StopCar \/ Settle \/ Cancel \/ UpdateStep \/ UNCHANGED vars
    BY <2>3 DEF RadioStep, FromRadio, StopCar, Settle, Cancel, UpdateStep, vars,
                driveVars, Drive!vars
  <2>4. ASSUME NEW d \in Devices, NEW r \in Reports,
               DeviceReady(d) \/ DeviceLost(d) \/ Report(d, r)
        PROVE  UNCHANGED Drive!vars
    BY <2>4 DEF DeviceReady, DeviceLost, Report, FromRadio, driveVars, Drive!vars
  <2> QED BY <2>1, <2>2, <2>3, <2>4, CarAssumption DEF Next
<1> QED BY <1>1, <1>2, CarInvInit, CarInvNext, PTL DEF Spec, DriveSpec, Drive!Spec
-----------------------------------------------------------------------------
(* What is proved of the drive loop holds in the car. *)

\* What the drive loop's theorems assume holds in the car.
LEMMA DriveAssumptions ==
  DP!DriveAssumption /\ DP!NoPadAssumption /\ DP!InputsAssumption /\ DP!ArmAssumption
<1>1. DP!Pad = Pad
  BY DEF DP!Pad, Pad, DP!Buttons, Buttons
<1> QED BY <1>1, CarAssumption, DriveAssumption, NoPadAssumption
        DEF DP!DriveAssumption, DP!NoPadAssumption, DP!InputsAssumption, DP!ArmAssumption

\* The drive loop of the car and that of the theorems are one: the same
\* definitions, instantiated twice.
LEMMA SameLoop ==
  /\ Drive!Init <=> DP!Init
  /\ [Drive!Next]_(Drive!vars) <=> [DP!Next]_(DP!vars)
  /\ Drive!DriveSafe <=> DP!DriveSafe
  /\ Drive!TypeOK <=> DP!TypeOK
<1>1. \A t : Drive!trigger_percent(t) = DP!trigger_percent(t)
  BY DEF Drive!trigger_percent, DP!trigger_percent, Drive!clamp, DP!clamp, Drive!TRIGGER_MAX,
         DP!TRIGGER_MAX
<1>2. \A th, max : Drive!drive_map_throttle(th, max) = DP!drive_map_throttle(th, max)
  BY DEF Drive!drive_map_throttle, DP!drive_map_throttle, Drive!imin, DP!imin, Drive!iabs,
         DP!iabs, Drive!isign, DP!isign
<1>3. \A m : Drive!ModeMax(m) = DP!ModeMax(m)
  BY DEF Drive!ModeMax, DP!ModeMax, Drive!imin, DP!imin
<1>4. \A m, p : Drive!Target(m, p) = DP!Target(m, p)
  BY <1>1, <1>2, <1>3
     DEF Drive!Target, DP!Target, Drive!drive_throttle_percent, DP!drive_throttle_percent
<1>5. \A d, p : Drive!NextMode(d, p) = DP!NextMode(d, p)
  BY <1>1 DEF Drive!NextMode, DP!NextMode, Drive!ArmAllowed, DP!ArmAllowed, Drive!Shoulders,
              DP!Shoulders
<1>6. \A c, t, h : Drive!drive_ramp(c, t, h) = DP!drive_ramp(c, t, h)
  BY DEF Drive!drive_ramp, DP!drive_ramp, Drive!Reversing, DP!Reversing, Drive!imin, DP!imin,
         Drive!iabs, DP!iabs, Drive!isign, DP!isign
<1>7. Drive!drive_init = DP!drive_init
  BY DEF Drive!drive_init, DP!drive_init, Drive!Buttons, DP!Buttons
<1>8. \A d, p : Drive!drive_step(d, p) = DP!drive_step(d, p)
  BY <1>4, <1>5, <1>6, <1>7 DEF Drive!drive_step, DP!drive_step
<1>9. [Drive!Next]_(Drive!vars) <=> [DP!Next]_(DP!vars)
  BY <1>8 DEF Drive!Next, DP!Next, Drive!Frame, DP!Frame, Drive!vars, DP!vars
<1>10. Drive!Init <=> DP!Init
  BY <1>7 DEF Drive!Init, DP!Init
<1>11. Drive!DriveSafe <=> DP!DriveSafe
  BY DEF Drive!DriveSafe, DP!DriveSafe, Drive!Armed, DP!Armed, Drive!iabs, DP!iabs
<1>12. Drive!TypeOK <=> DP!TypeOK
  BY DEF Drive!TypeOK, DP!TypeOK, Drive!DriveT, DP!DriveT, Drive!Modes, DP!Modes, Drive!Buttons,
         DP!Buttons
<1> QED BY <1>9, <1>10, <1>11, <1>12

\* The drive loop's own invariant holds in the car.
LEMMA CarDriveInv == Spec => [](Drive!TypeOK /\ Drive!DriveSafe)
<1>1. Drive!Init => DP!DriveInv
  BY SameLoop, DriveAssumptions, DP!DriveInvInit
<1>2. DP!DriveInv /\ [Drive!Next]_(Drive!vars) => DP!DriveInv'
  BY SameLoop, DriveAssumptions, DP!DriveInvNext
<1>3. DP!DriveInv => Drive!TypeOK /\ Drive!DriveSafe
  BY SameLoop DEF DP!DriveInv
<1> QED BY <1>1, <1>2, <1>3, CarImplementsDriveLoop, PTL DEF DriveSpec, Drive!Spec

\* In the car too, with the inputs of its controllers and updates, the motors
\* get no more than the cap, none while it is disarmed, and none in the wait
\* before reversing.
THEOREM CarDriveSafe == Spec => []Drive!DriveSafe
BY CarDriveInv, PTL

\* The phases of an update are those of UpdateSession, and the frames since
\* it stopped the car are counted no further than the settle time.
UpdateInv == Update!TypeOK /\ frames \in 0 .. SETTLE_FRAMES

\* Every callback keeps them.
LEMMA UpdateInvNext == UpdateInv /\ [Next]_vars => UpdateInv'
<1> SUFFICES ASSUME UpdateInv, [Next]_vars PROVE UpdateInv'
  OBVIOUS
<1> USE Assumptions DEF UpdateInv
<1>1. CASE DriveTick
  BY <1>1 DEF DriveTick, updateVars, Update!TypeOK, imin
<1>2. CASE StopCar \/ Settle \/ Cancel \/ UpdateStep \/ Restart
  <2>1. Update!TypeOK'
    BY <1>2 DEF StopCar, Settle, Cancel, UpdateStep, Restart, Update!TypeOK, Update!StopCar,
                Update!Settle, Update!Cancel, Update!Accept, Update!Refuse, Update!Write,
                Update!Finish, Update!Reboot, Update!Restart
  <2>2. frames' \in {frames, 0}
    BY <1>2 DEF StopCar, Settle, Cancel, UpdateStep, Restart
  <2> QED BY <2>1, <2>2
<1>3. CASE UNCHANGED <<phase, image, frames>>
  BY <1>3 DEF Update!TypeOK
<1>4. RadioStep \/ UNCHANGED vars
      \/ (\E d \in Devices : DeviceReady(d) \/ DeviceLost(d) \/ \E r \in Reports : Report(d, r))
        => UNCHANGED <<phase, image, frames>>
  BY DEF RadioStep, DeviceReady, DeviceLost, Report, FromRadio, updateVars, vars
<1> QED BY <1>1, <1>2, <1>3, <1>4 DEF Next

\* The types of the whole car: the drive loop, the controller and the update
\* keep theirs whatever order their callbacks come in.
THEOREM CarTypes == Spec => []TypeOK
<1>1. Init => UpdateInv
  BY Assumptions DEF Init, UpdateInv, Update!Init, Update!TypeOK
<1>2. CarInv => C!TypeOK
  BY DEF CarInv, CP!ControllerInv, CP!TypeOK, C!TypeOK, CP!DeviceStates, C!DeviceStates
<1>3. Drive!TypeOK /\ CarInv /\ UpdateInv => TypeOK
  BY <1>2 DEF TypeOK, UpdateInv
<1> QED BY <1>1, <1>3, CarDriveInv, CarInvInit, CarInvNext, UpdateInvNext, PTL DEF Spec
=============================================================================
