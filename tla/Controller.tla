----------------------------- MODULE Controller -----------------------------
(***************************************************************************)
(* firmware/src/controller.c: which controllers are connected, and the     *)
(* latest state of the pad.                                                *)
(*                                                                         *)
(* Bluepad32 calls the platform_on_...() handlers on the Bluetooth run     *)
(* loop, one at a time; each is one action.  What Bluepad32 and the radio  *)
(* do is external: a device connects while the car scans or takes          *)
(* incoming connections, is set up, and may be lost at any point.  A pad   *)
(* sends a report only when something on it changes.                       *)
(***************************************************************************)
EXTENDS Naturals, FiniteSets

CONSTANTS
  Devices,        \* Bluetooth devices in reach
  Gamepads,       \* those that are game controllers (others: a mouse)
  Reports,        \* the pad states a gamepad can report
  Idle,           \* a zeroed pad_state_t: nothing pressed, sticks centered
  NoPad           \* controller_latest() returned false

ASSUME ControllerAssumption ==
  /\ IsFiniteSet(Devices) /\ Gamepads \subseteq Devices
  /\ Idle \in Reports /\ NoPad \notin Reports

VARIABLES
  device,            \* Bluepad32's view of each device
  scanning,          \* Bluepad32 scans and autoconnects
  incoming,          \* Bluepad32 accepts incoming connections
  connected_count,
  latest,
  paused,            \* an update runs
  bt_ready,
  led

vars == <<device, scanning, incoming, connected_count, latest, paused, bt_ready, led>>

DeviceStates == {"absent", "setup", "ready", "rejected"}

TypeOK ==
  /\ device \in [Devices -> DeviceStates]
  /\ scanning \in BOOLEAN /\ incoming \in BOOLEAN
  /\ connected_count \in Nat
  /\ latest \in Reports
  /\ paused \in BOOLEAN /\ bt_ready \in BOOLEAN /\ led \in BOOLEAN

Init ==
  /\ device = [d \in Devices |-> "absent"]
  /\ scanning = FALSE /\ incoming = TRUE
  /\ connected_count = 0 /\ latest = Idle
  /\ paused = FALSE /\ bt_ready = FALSE
  /\ led = TRUE

controller_connected == connected_count > 0

\* Faulty variant: the last state is handed out without a controller too.
controller_latest_always == latest

controller_latest == IF controller_connected THEN latest ELSE NoPad

-----------------------------------------------------------------------------
\* platform_on_init_complete(): scanning starts, whatever the update does.
InitComplete ==
  /\ ~bt_ready
  /\ bt_ready' = TRUE
  /\ scanning' = TRUE
  /\ UNCHANGED <<device, incoming, connected_count, latest, paused, led>>

\* A device links up; platform_on_device_connected() only prints.
Connected(d) ==
  /\ bt_ready /\ (scanning \/ incoming)
  /\ device[d] = "absent"
  /\ device' = [device EXCEPT ![d] = "setup"]
  /\ UNCHANGED <<scanning, incoming, connected_count, latest, paused, bt_ready, led>>

\* Faulty variant: a device that gets ready during an update is let in.
RejectReady_admits(d) ==
  /\ device[d] = "setup" /\ paused
  /\ device' = [device EXCEPT ![d] = "ready"]
  /\ connected_count' = connected_count + 1
  /\ UNCHANGED <<scanning, incoming, latest, paused, bt_ready, led>>

\* platform_on_device_ready() during an update: Bluepad32 drops the device.
RejectReady(d) ==
  /\ device[d] = "setup" /\ paused
  /\ device' = [device EXCEPT ![d] = "rejected"]
  /\ UNCHANGED <<scanning, incoming, connected_count, latest, paused, bt_ready, led>>

\* platform_on_device_ready(): one controller more, its state not yet known.
Ready(d) ==
  /\ device[d] = "setup" /\ ~paused
  /\ device' = [device EXCEPT ![d] = "ready"]
  /\ connected_count' = connected_count + 1
  /\ latest' = Idle
  /\ led' = TRUE
  /\ UNCHANGED <<scanning, incoming, paused, bt_ready>>

\* Faulty variant: the count goes below 0.
Disconnected_unguarded(d) ==
  /\ device[d] # "absent"
  /\ device' = [device EXCEPT ![d] = "absent"]
  /\ connected_count' = connected_count - 1
  /\ latest' = IF connected_count' = 0 THEN Idle ELSE latest
  /\ UNCHANGED <<scanning, incoming, paused, bt_ready, led>>

\* Faulty variant: the count forgets to go down.
Disconnected_uncounted(d) ==
  /\ device[d] # "absent"
  /\ device' = [device EXCEPT ![d] = "absent"]
  /\ UNCHANGED <<scanning, incoming, connected_count, latest, paused, bt_ready, led>>

\* platform_on_device_disconnected(): for a device in any state, since it
\* does not look whether this one was ever counted.
Disconnected(d) ==
  /\ device[d] # "absent"
  /\ device' = [device EXCEPT ![d] = "absent"]
  /\ connected_count' = IF connected_count > 0 THEN connected_count - 1 ELSE 0
  /\ latest' = IF connected_count' = 0 THEN Idle ELSE latest
  /\ UNCHANGED <<scanning, incoming, paused, bt_ready, led>>

\* platform_on_controller_data(): the latest report replaces the one before,
\* whichever gamepad it comes from; other devices' reports are dropped.
ControllerData(d, report) ==
  /\ device[d] = "ready" /\ d \in Gamepads
  /\ latest' = report
  /\ UNCHANGED <<device, scanning, incoming, connected_count, paused, bt_ready, led>>

\* controller_pause(), called by the update when it stops the car.
Pause ==
  /\ paused' = TRUE /\ scanning' = FALSE /\ incoming' = FALSE
  /\ UNCHANGED <<device, connected_count, latest, bt_ready, led>>

\* Faulty variant: scanning stays off after an update.
Resume_deaf ==
  /\ paused' = FALSE /\ incoming' = TRUE
  /\ UNCHANGED <<device, scanning, connected_count, latest, bt_ready, led>>

\* controller_resume(), called by the update when it is cancelled.
Resume ==
  /\ paused' = FALSE /\ scanning' = TRUE /\ incoming' = TRUE
  /\ UNCHANGED <<device, connected_count, latest, bt_ready, led>>

\* on_status_tick(), running since Bluetooth is up: the LED blinks during an
\* update and while no controller is connected.  Its phase is left open.
StatusTick ==
  /\ bt_ready
  /\ led' \in IF paused \/ ~controller_connected THEN BOOLEAN ELSE {led}
  /\ UNCHANGED <<device, scanning, incoming, connected_count, latest, paused, bt_ready>>

\* The chip restarts (power, watchdog, the reboot that ends an update): the
\* links drop and everything in RAM is gone.
Restart ==
  /\ device' = [d \in Devices |-> "absent"]
  /\ scanning' = FALSE /\ incoming' = TRUE
  /\ connected_count' = 0 /\ latest' = Idle
  /\ paused' = FALSE /\ bt_ready' = FALSE /\ led' = TRUE

Next ==
  \/ Restart
  \/ InitComplete \/ StatusTick
  \/ ~paused /\ Pause
  \/ paused /\ Resume
  \/ \E d \in Devices : \/ Connected(d) \/ RejectReady(d) \/ Ready(d) \/ Disconnected(d)
                        \/ \E report \in Reports : ControllerData(d, report)

Spec == Init /\ [][Next]_vars

-----------------------------------------------------------------------------
ReadyDevices == {d \in Devices : device[d] = "ready"}

\* The count never claims a controller that is not there, however devices
\* come, fail to get ready, are rejected and go: the failsafe's half of the
\* truth.  With no device ready there is no input.
NoPhantomController ==
  /\ connected_count <= Cardinality(ReadyDevices)
  /\ ReadyDevices = {} => controller_latest = NoPad

\* Once Bluetooth is up and no update runs, a controller can get in: by
\* being found, or by connecting itself.
OpenUnlessUpdating == bt_ready /\ ~paused => scanning /\ incoming

\* No controller joins while an update runs; those connected may only leave.
NobodyJoinsAnUpdate ==
  [][ paused => /\ ReadyDevices' \subseteq ReadyDevices
                /\ connected_count' <= connected_count ]_vars

\* controller.h on controller_connected(): "True while a controller is
\* connected and ready."
ReadyMeansConnected == ReadyDevices # {} => controller_connected
=============================================================================
