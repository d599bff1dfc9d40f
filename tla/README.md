# Verification of the car firmware

TLA+ models of the firmware of the LEGO Technic car (`firmware/src`), checked
with TLC, with theorems proved by TLAPS. The models are about what a test
bench hardly shows: what happens when Bluetooth events, reports, drive frames,
an update over Wi-Fi, failing flash and a restart come in an order nobody
tried.

## The system

Everything on the car runs in callbacks on one BTstack run loop. No callback
interrupts another, but between two of them anything may have happened.
"Hard" below names the behaviours the properties are aimed at.

| Component | State | Operations | Talks to | Correct when |
|---|---|---|---|---|
| Driving logic, `drive.c` | `drive_t`: mode, last buttons, output, frames left to wait | `drive_step()` every 20 ms | called by `main.c` | output within the cap; no input means disarmed and coasting; arming needs a fresh press; ramps converge; a reversal waits at 0 |
| Main loop, `main.c` | `drive`, watchdog | `on_drive_tick()` | reads `controller_latest()` and `ota_active()`, drives motor and servo | the car stops within a frame of losing its input |
| Controller, `controller.c` | `connected_count`, `latest`, `paused`, `bt_ready`, LED | Bluepad32 callbacks, `controller_pause/resume()`, `on_status_tick()` | Bluepad32; paused by `ota.c` | never claims a controller that is gone; nobody joins during an update; open otherwise |
| Update protocol, `ota_logic.c` | `ota_rx_t` | `ota_header_parse()`, `ota_rx_init()`, `ota_rx_block()`, `ota_buy_decide()` | called by `ota.c` | each block goes to its place in the slot, each sector is erased once |
| Update server, `ota.c` | `up_state`, `client`, `car_stopped`, `buf`, `rx`, times | lwIP callbacks `on_accept/on_recv/on_tcp_err`, `on_tick()` | PC over TCP, flash, controller, boot ROM | one upload at a time; the running image untouched; a whole image or no reboot; the car never left stopped |
| Try before you buy, `ota.c` | `buy_pending`, `via_update`, scratch register | `buy_tick()`, `ota_init()` | boot ROM, watchdog | only an image whose radios work is kept, every trial ends, neither a purchase nor a reset takes the last bought image, nor anything from a car that runs one |
| Wi-Fi, `ota.c` | `wifi_state`, time of last change | `wifi_tick()` | cyw43 | joins again for ever |
| Upload tool, `tools/ota.mjs` | socket, reply buffer | header, chunks, replies | update server | success reported only for an image the car took |
| Motor and servo, `motor.c`, `servo.c` | PWM levels (written, and latched by the slice), enable pin, servo pulse | `motor_set()`, `servo_set()`, their inits | `main.c` | a stop coasts; between two register writes no jump into the other direction, and a brake only until the first wrap of a start |
| Pairing keys, `flash_bank_fix.c` | SDK flash bank | read through the untranslated window | BTstack | reads what was written |

Hard behaviours: devices that come, fail and go between two frames while one
counter says whether anybody drives; a gamepad that reports only changes, so
the last report is the truth until the link drops; an update that stops the
car in one callback, while the drive loop learns of it in another; an upload
that ends in any state, for any of five reasons; flash writes that fail or are
cut by a restart; addresses that wrap; timers that are late; replies that are
cut, lost or answered after the other end gave up; a trial of a new image
while two radios come and go; a reset between two register writes.
PROJECT.json lists them one by one, at their lines.

## The modules

| Module | Models | State and actions |
|---|---|---|
| `DriveLogic` | `drive.c` as operators | `drive_step(d, pad)` from one `drive_t` to the next; the settings of `drive.h` are constants |
| `DriveLoop` | `on_drive_tick()` with free inputs | `Frame(p)`: any input or none, every 20 ms |
| `DriveHistory` | the same with a history variable | `rest`: how long, from which direction and why the motors are at 0 |
| `Bridge` | `motor.c`, `servo.c` behind the drive loop | `pc`: the register write that is next; `BFrame`, `motor_first`, `motor_second`, `servo_set`; `Wrap` latches the levels, `Reset` comes anywhere |
| `DriveCurves` | steering and throttle curves | walks the input range; compares with the formulas of DRIVING.md |
| `Controller` | `controller.c` | one action per Bluepad32 callback, `Pause`, `Resume`, `StatusTick`; `device` is Bluepad32's own view, `Restart` the reset |
| `UpdateSession` | what an update promises the rest of the car | phases idle, connected, stopping, writing, rebooting, off |
| `OtaLogic` | `ota_logic.c` as operators | `ota_header_parse`, `ota_rx_init`, `BlockStatus`, `ota_write`, `ota_rx_next` |
| `Upload` | the upload half of `ota.c` | one action per callback; `on_chunk()` one action per block, with everything but a restart shut out meanwhile |
| `Car` | `main.c`: `DriveLoop`, `Controller` and `UpdateSession` together | `DriveTick` between the others; `StopCar` and `Cancel` are steps of update and controller at once, as in `on_header()` and `resume_car()` |
| `CarHistory` | the car with a history variable | `source`: whose report the car drives on |
| `OtaSession` | `tools/ota.mjs` and TCP, around `Upload` | the tool's steps `Pc...`; the server's callbacks `S...`, each one of `Upload` with what it sends and reads; faults of the network |
| `Wifi` | the join in `ota.c` | one action per outcome of `wifi_tick()`; the radio is external |
| `Boot` | `ota_init()`, `buy_tick()`, `ota_buy_decide()`, the reboots, the start of `main()` | `OnTick` is all of `on_tick()` with `wifi_tick` and the end of an upload; boot ROM, watchdog, power and picotool are external |
| `MC...` | constants for TLC | |
| `..._proofs` | theorems and the lemmas they rest on | `Bridge_proofs` has those of `DriveHistory`, `Upload_proofs` those of `OtaLogic` and `UpdateSession`, `Boot_proofs` those of `Wifi` |

Definitions keep the names of the code. Definitions with "Faulty variant" in
their comment are not used by any model: each puts a plausible mistake into
the definition after it, and the property named with it in PROJECT.json
(`mutants`) catches it.

Abstractions. A pad is the buttons `A B LB RB`, both triggers and the steering
axis: `drive_step()` and `servo_set()` are given nothing else. A header is whether its magic and
token are right, and its two numbers; a block likewise. Of received data only
the amount counts; its content is chosen when it is complete. A flash page is
old (as before this upload), blank, new, bad, or mixed (written without an
erase). In `Car` and `Boot` the update is `UpdateSession`, not `Upload`:
`Upload` implements it (run `upload`, property `UpdateSpec`). In `OtaSession`
the data on the connection is only counted: the tool is honest and waits for
each reply, so what is on its way is always one header or one chunk; a reply
is as many pieces as TCP may cut it into.

External, modelled from how the code uses it: in `Boot`, the boot ROM's choice
of the slot, its 16.7 s watchdog under an image on trial and the erase that
comes with a purchase, as firmware/KNOWLEDGE.md ("OTA update on the RP2350")
describes them; a purchase is one step, so a hang between the watchdog going
off in it and on again is not modelled. In `Bridge`, the PWM slice latches
its levels when its counter wraps, which takes 50 us and so is over before
the next frame, 20 ms later; the wrap may come before, between and after the
writes of a frame.

Time. Drive frames are counted. `Upload` counts ticks of `on_tick()`: the run
loop calls it at least 100 ms apart, so the n-th tick after an event may find
any timeout expired (it may be late) and must find one of fewer than n ticks
expired. `STOP_SETTLE_MS` in `Car` is `SETTLE_FRAMES` drive frames: 100 ms
hold four frames of 20 ms for sure; one is all that `NoWriteWhileDriving`
needs. This assumes that no callback holds the run loop up for the whole
100 ms: nothing in the code orders the two timers once both are late. `Boot`
counts in units of 15 s, of many ticks each; a tick may or may not be the first
of a new unit, so a timeout of n units may be noticed by any tick from then on.

## The runs

| Run | Checks | Bounds |
|---|---|---|
| `drive_loop` | output limits, slew, convergence of the ramp, arming, wait before reversing; the inductive invariant `HInv`; pins that brake for no more than the first PWM period of a start and never plug, with wraps and resets between any two register writes | real settings of `drive.h`, `motor.h` and `servo.h`; 42 inputs: six trigger pairs at the edges of each comparison times seven button sets, and no input; two more with the stick off center |
| `drive_reverse_pause` | violation: reversing without the 60 ms at 0 | same |
| `drive_curves` | both curves against DRIVING.md, monotone, no jumps | every stick position from -520 to 520, every throttle from -110 to 110 |
| `controller` | the count against the devices, who may join and when | two gamepads (symmetric), one mouse, two pad states, any number of updates and restarts |
| `controller_desync` | violation: ready but not counted | same |
| `car` | no write under a driving car, stop within a frame, agreement of controller and update; implements `DriveLoop` | two gamepads, seven pad states, output 2 points, hold 2 frames |
| `car_two_drivers` | violation: lost driver, other controller on | two gamepads |
| `upload` | image whole, running image untouched, car and connection freed, every upload ends; implements `UpdateSession` | flash of 12 pages in 6 sectors, partitions of 4 pages, images of 1 and 3 blocks (and of 0, 5 and 33 refused), chunks of 2 blocks in up to 2 pieces, 64-byte address space, targets all around the slot |
| `upload_abort` | violation: an abort that lwIP is not told of | same |
| `ota_session` | neither end overruns the other, the tool's verdict is true, a retry succeeds once faults of the network, the flash and power stop | flash of `upload`; an image of 3 blocks, so 2 chunks, the last one padded; replies and chunks cut into up to 2 pieces; any number of runs of the tool |
| `boot` | how the last bought image may be lost, what is bought and what is given up, watchdog, end of every trial, Wi-Fi that joins again | two slots, any number of updates, USB loads, resets; deadline, retry and join timeout 1, 2 and 3 units |
| `boot_revert` | violation: nothing to go back to | same |

The bounds are the smallest at which each case occurs. A slot has more than
one sector and a sector more than one page, so an image crosses sectors, has
gaps, starts in the middle of a sector and ends in a partly used one. An image
of three blocks needs two chunks, the last of them padded. 33 pages of two
bytes wrap around 64, so a size compared in 32 bits would be accepted. Two
partitions may each be the running one, and the table's sector comes before
both. In `car`, two points of output and a release step of one are enough for
a ramp that has not ended when the next event comes. In `ota_session`, two
chunks are the fewest with a chunk that is neither first nor last to be
answered (`ACK!`) and one that is (`DONE`); two pieces are enough for a
reply or a chunk that is there in part. In `boot` the three times keep their
order, not their sizes: the code has 15 s for the deadline and the retry and
30 s for the join, so with the retry longer than the deadline the trial also
ends while the join waits.

Deadlock is checked everywhere but in `drive_curves`, whose walk ends.

Fairness is assumed in three runs; all other properties are safety properties.

- `upload`: the tick keeps coming (`on_tick()` re-arms its timer), `on_chunk()`
  runs to its end (its loop is bounded and waits for nobody), and the chip
  resets after `rom_reboot()` (or by the watchdog, which the endless loop
  behind it no longer feeds). Nothing is assumed of the PC or the network.
- `ota_session`: the same of the car, whose callbacks are called for what has
  arrived; the tool goes on, its user runs it again, and its timeout comes
  when nobody is left to answer. That the end of a run, or the loss of a
  connection, ever reaches the car is not assumed: its own timeout frees it.
  `RetrySucceeds` says nothing of behaviours in which faults never stop. They
  are named in `Fault`, one by one: a restart, a broken connection, a page that
  is not written, a reply that is not sent or that a reset overtakes, a tool
  that gives up on a car about to answer, and a car that times out while data
  or a reply is still under way (a tick may come late, so the model cannot
  tell that from a slow network). What the server refuses, and a stall of its
  own with nothing under way, are not faults: a server that turned down honest
  uploads, or waited for what it has, would break the property.
- `boot`: the tick keeps coming and time passes, a scan ends, and a chip told
  to reboot does. Nothing is assumed of the radios, the PC, power, or of
  `main()` getting to its run loop.

### What the violations show

Each is a place where code and documents disagree; PROJECT.json (`findings`)
has the quotes.

- `controller.c:248`: a device that leaves without having been ready takes
  another one off the count. The car then stops (safe), but stays without a
  driver until the controller reconnects.
- `controller.c:251`: with two controllers on, losing the one that drives does
  not stop the car.
- `drive.c:61`: the wait before reversing is only part of one of the two ways
  to reverse.
- `ota.c:342`: the return value of `close_client()` is dropped. (The lwIP API
  allows `tcp_close()` to fail; recent versions rarely do.)
- `ota.c:277`: an upload is taken while the running image is not bought, and
  its target may be the only bought image. A revert then has nothing to go
  back to. `BoughtKept` shows that this, and a USB load in the same place, is
  the only way to lose it.

Seen while modelling, without a run of their own.

Driving:
- `controller.c:277`: only the last report before a frame counts, so a press
  of B shorter than a frame is lost.
- `controller.c:262`: a gamepad whose first report after the connection comes
  after the first frame with input arms the car with an A held all along: that
  frame had no buttons. `ArmNeedsFreshPress` does not see it: it is about what
  the drive loop is given.
- `ota.c:282`: an upload that fails before the next drive frame never disarms
  the car.
- `motor.c:56`: at each start EN goes high while the pins are still at 0, for
  up to one PWM period of 50 us: the bridge brakes for that long, where
  `motor.h:9` says "Never brakes" and DRIVING.md:59 "No braking". `BridgeSafe`
  shows that this is the only brake, and that the next wrap ends it.
- `controller.c:224` starts scanning even if an update runs
  (`NobodyJoinsAnUpdate` holds because `platform_on_device_ready()` refuses).
- `controller.c:96`: after a cancelled update the LED keeps the last phase of
  its blinking until the next connection.

Updating:
- `OTA_ERR_BUSY` is never sent, a second PC is aborted (`ota.c:381`).
- The tool may report a failure though the car reboots into the new image:
  DONE is not waited for (`VerdictTrue` is one-sided for this reason).
- A purchase erases the first sector of the other slot, also under an upload
  that is writing there. The upload goes on to DONE, and its image does not
  start.
- A purchase that the boot ROM refuses is never tried again: `buy_pending` is
  cleared first.
- `WIFI_RETRY_MS` equals `OTA_BUY_DEADLINE_MS`: if the first join of a new
  image fails, there is no second one before the image is given up.
- The magic in scratch[0] outlives an updated image that never reaches
  `ota_init()`. An image loaded over USB in that window, also by a reboot of
  type FLASH_UPDATE, takes itself for an update and may be given up
  (`ota.c:496`; `cause = "marked"` in `Boot`).
- `ota_logic.h:102` says that after a USB flash there is no old slot to fall
  back to. With `picotool load` into the free slot there is one.

## What is proved

For every value of the constants that the assumptions allow. Each module's
assumptions stand next to its constants, and TLC evaluates them on every run:

- `DriveAssumption`: what `drive.h` must keep. Steps and wait positive, the
  minimum output within the cap and the mode limits, the neutral band below
  100. `ArmAssumption` ties the arming limit to the neutral band,
  `HoldAssumption` bounds the wait by the three frames a stop and a new arming
  take at least, `BridgeAssumption` the cap by 100 %, `CurvesAssumption` gives
  the throttle map a limit the motors move with.
- `ControllerAssumption`, `CarAssumption`: finitely many devices, the gamepads
  among them, a settle time of a frame or more.
- `OtaAssumption`, `UploadAssumption`: whole sectors of whole pages, partitions
  in the flash and in reach of 32-bit addresses (`WORD`), sizes positive, a
  header that fits into the buffer for a chunk.
  Headers and blocks are any set of headers and blocks.
- `SessionAssumption`: an image of one block or more, whose number is a 32-bit
  word as it is in the header; a reply of a piece or more.
- `BootAssumption`, `WifiAssumption`: deadline and timeouts positive, in any
  relation to each other.

Every property of every passing run is stated by a theorem, but for the four
liveness properties. The arguments:

- `DriveLoop_proofs`: type, `DriveSafe`, `SlewBounded`, `RampProgress` and
  `ArmNeedsFreshPress`. The inductive invariant `DriveInv` adds to the type and
  `DriveSafe` that `prev` are the buttons of the last input (else an edge says
  nothing). Lemmas bound the throttle map and the four cases of `drive_ramp`;
  one lemma per case carries the properties.
- `DriveCurves_proofs`: the throttle map follows the formula of DRIVING.md
  without its fraction and never goes back, for all settings; the steering
  curve stays within four points of its formula and moves by at most four
  points per count of the stick, for every position. The steering is split
  into travel, rescaled travel and square: one count is at most one percent of
  travel, one percent at most two of the rescaled travel, two percent at most
  four points of the square. `SquaredExact` compares with the formula in
  hundredths.
- `Bridge_proofs`, first the history of the drive loop: `ReverseHold` from
  `HInv` (`DriveRestAccount`): as long as a car that a reversal stopped is
  armed, frames rested plus frames left make up the wait; once disarmed, it
  has rested two frames at least when it can arm again. Then the pins:
  `BridgeImplementsDrive` (the loop that writes to pins is still the drive
  loop, so the theorems above hold of it, resets included), `BridgeSafe` and
  `NoPlugging`. `BridgeInv` says, for each write of a frame, how the written
  levels, those on the pins and the output asked for relate: EN rises only
  after the levels, over pins that a wrap has brought up to date or that are
  at 0 (the brake of a start: the written levels are not 0, so the next wrap
  ends it), and levels written one after the other never drive in opposite
  directions, because a frame never changes the sign of the output.
- `Controller_proofs`: type, `NoPhantomController`, `OpenUnlessUpdating`,
  `NobodyJoinsAnUpdate`, for any finite set of devices. The inductive
  `ControllerInv`, stated with the proofs, bounds the count by the number of
  ready devices; equality, which `controller.h` promises, does not hold
  (`controller_desync`).
- `Upload_proofs`: type, `CarFollowsUpload`, `ImageIntact` and
  `RunningImageUntouched`, for any flash, any PC and any timeouts, and that the
  server implements `UpdateSession` (`UploadImplementsUpdate`), callback by
  callback. First lemmas about quotients and multiples, then about the
  receiver of `ota_logic.c`: a block that is accepted lies behind the last
  one, whole and inside the slot, without a wrap of the 32-bit sum, and is
  erased in time (`BlockPlace`, `RxNext`). `UploadInv` relates receiver and
  flash. `Placed`: `rx` describes the slot of a partition the car does not run
  from; every page outside what it has erased is as before, every page between
  the last one written and the end of the erased is blank, and there are as
  many new pages as blocks counted. Without the blank pages the next write
  could fall on an old one; without `erased_end` a sector with pages of the
  image could be erased again. The other parts say which state has which: no
  page touched before the car is stopped, a state that waits for data never
  has all of it, a reboot has.
- `OtaSession_proofs`: type, `LockStep` and `VerdictTrue`, for any size of
  image, chunk and reply and however TCP cuts them. `SessionInv` is `UploadInv`
  and what the two ends know of each other: at most one reply is on its way
  for the car's own run of the tool, and only while the car waits for what
  follows it (`TurnInv`); data on its way is exactly the rest of what the car
  waits for (`DataInv`), also when it comes from a run that was given up; the
  blocks counted are those of the chunks sent (`BlocksInv`), so the last chunk
  is the one answered with DONE; and DONE is said of an image that was taken
  and of nothing else (`VerdictInv`). Each step of a session is one of
  `UpdateSession` or invisible to it (`SessionImplementsUpdate`).
- `Boot_proofs`: type, `WatchdogKept`, `BoughtKept`, `BuyOnlyWhatWorks` and
  `RevertOnlyUnhealthy`, for any deadline and timeouts. `BootInv` adds to the
  type that what runs is whole (`RunsWhole`: an upload writes to the other
  slot), that nothing drives before the run loop (`DrivesLater`), and where a
  trial may come from (`TrialInv`: `via_update` is set only after an update,
  or under a magic left by one). `BoughtKept` follows from `RunsWhole`: what a
  purchase buys is whole, so a bought image is left whatever it erases, and
  uploads and USB loads spare the image that runs.
- `Car_proofs`, for any devices and pads: type, `NoWriteWhileDriving`,
  `PausedWhileUpdating`, `StopsWithinAFrame`, and `DriveSpec`: the car
  implements `DriveLoop`, so the theorems about it hold in the car;
  `CarDriveSafe` states one of them there. The inductive `CarInv` is
  `ControllerInv`, carried over because a step of the car is a step of the
  controller or leaves it alone, and `SettledInv`: once a frame has passed
  since the update took the car, it coasts. As `Upload` implements
  `UpdateSession`, what is proved with the abstract update holds of the
  server.

Only model-checked: liveness (`UploadEnds`, `RetrySucceeds`, `TrialEnds`,
`WifiRetries`), which is out of the prover's reach and stays so.

## What is not modelled, and the plan

Every part of the firmware that keeps state and decides something is modelled,
and every safety property that a run checks is proved. What the plan has left
ties the proofs together: the car with the server itself, `Upload`, in place of
`UpdateSession`, and what is proved of either, of both at once.

Not planned: `pad_text.c` and all printing; `flash_bank_fix.c`, one read with a
constant base address that is right or wrong on the chip only; in the upload
tool, the command line, `.env` and the name lookup, which end before the
connection; link parameters (`limit_link_timeout()`, `on_hci_event()`), which
are set once and only logged; build files; the hardware watchdog's clock and
flash erase times, which need numbers the source does not have; a power cut in
the middle of an erase, which leaves a page the boot ROM's hash check refuses.
