----------------------------- MODULE CarHistory -----------------------------
(***************************************************************************)
(* The car with a history variable that remembers whose report it drives   *)
(* on, to state what DRIVING.md promises the driver.                       *)
(***************************************************************************)
EXTENDS Car

CONSTANT NoDevice

VARIABLE source  \* the gamepad whose report is in latest, NoDevice if zeroed

hvars == <<vars, source>>

HInit == Init /\ source = NoDevice

HNext ==
  \/ Restart /\ source' = NoDevice
  \/ (DriveTick \/ RadioStep \/ StopCar \/ Settle \/ Cancel \/ UpdateStep) /\ UNCHANGED source
  \/ \E d \in Devices :
       \/ DeviceReady(d) /\ source' = NoDevice
       \/ DeviceLost(d) /\ source' = IF connected_count' = 0 THEN NoDevice ELSE source
       \/ \E r \in Reports : Report(d, r) /\ source' = d

HSpec == HInit /\ [][HNext]_hvars

-----------------------------------------------------------------------------
\* DRIVING.md, "Failsafe": "Controller disconnect must also stop the car at
\* once."  The next frame after the driver's controller is gone disarms.
LostDriverStops ==
  [][ DriveTick /\ source # NoDevice /\ device[source] # "ready" => Coasting' ]_hvars
=============================================================================
