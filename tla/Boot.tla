-------------------------------- MODULE Boot --------------------------------
(***************************************************************************)
(* Two images, A and B, and which of them the car runs: "try before you    *)
(* buy" of firmware/src/ota.c (ota_init(), buy_tick(), the reboots),       *)
(* ota_buy_decide() of ota_logic.c and the start of main.c, together with  *)
(* the Wi-Fi join (module Wifi) and uploads (module UpdateSession).        *)
(*                                                                         *)
(* External: the boot ROM, after KNOWLEDGE.md ("OTA update on the          *)
(* RP2350"); the radio; the PC; picotool over USB; when power fails or the *)
(* run loop hangs.  The flash has its partition table: without one the     *)
(* server refuses every upload (module Upload).                            *)
(*                                                                         *)
(* Time is counted in units of many ticks; a tick may or may not be the    *)
(* first of a new unit.                                                    *)
(***************************************************************************)
EXTENDS Wifi

CONSTANT BUY_DEADLINE   \* OTA_BUY_DEADLINE_MS

ASSUME BootAssumption == BUY_DEADLINE \in Nat \ {0}

VARIABLES
  slot,                 \* what each slot holds, and whether it was bought
  running,              \* the slot of the running image, "none" if there is none
  stage,                \* "booted": main() has not reached ota_init();
                        \* "on": the run loop runs; "update", "revert": it has
                        \* ended in a reboot of that kind; "dead": no image
  cause,                \* what started the chip last ("marked": a USB load that
                        \* found scratch set); the code knows the boot type only
  scratch,              \* watchdog scratch[0] is OTA_REBOOT_MAGIC
  watchdog,             \* what it was loaded by: the boot ROM's 16.7 s, or our 1 s
  driving,              \* main.c: frame > 0
  buy_pending, via_update, bt_ready,
  uptime,               \* now_ms()
  phase, image          \* the upload

romVars == <<slot, running, cause>>
buyVars == <<buy_pending, via_update>>
updateVars == <<phase, image>>
vars == <<wifiVars, romVars, buyVars, updateVars, stage, scratch, watchdog, driving,
          bt_ready, uptime>>

Update == INSTANCE UpdateSession

Slots == {"A", "B"}
Other(s) == IF s = "A" THEN "B" ELSE "A"

\* none: nothing the boot ROM takes for an image; part: its hash check fails.
Contents == {"none", "part", "whole"}

TypeOK ==
  /\ WifiTypeOK /\ Update!TypeOK
  /\ slot \in [Slots -> [content : Contents, bought : BOOLEAN]]
  /\ running \in Slots \cup {"none"}
  /\ stage \in {"booted", "on", "update", "revert", "dead"}
  /\ cause \in {"normal", "update", "usb", "marked"}
  /\ watchdog \in {"off", "rom", "car"}
  /\ uptime \in 0 .. BUY_DEADLINE
  /\ \A b \in {scratch, driving, buy_pending, via_update, bt_ready} : b \in BOOLEAN
  /\ stage = "dead" <=> running = "none"
  /\ buy_pending => ~slot[running].bought

\* Zeroed memory.
RamZero ==
  /\ WifiZero /\ Update!Init
  /\ driving = FALSE /\ buy_pending = FALSE /\ via_update = FALSE
  /\ bt_ready = FALSE /\ uptime = 0

RamZeroed ==
  /\ WifiZeroed /\ Update!Restart
  /\ driving' = FALSE /\ buy_pending' = FALSE /\ via_update' = FALSE
  /\ bt_ready' = FALSE /\ uptime' = 0

\* A car that was set up once runs its first image.
Init ==
  /\ slot = [A |-> [content |-> "whole", bought |-> TRUE],
             B |-> [content |-> "none", bought |-> FALSE]]
  /\ running = "A" /\ stage = "booted" /\ cause = "normal"
  /\ scratch = FALSE /\ watchdog = "off"
  /\ RamZero

-----------------------------------------------------------------------------
\* rom_get_last_boot_type()
boot_type(c) == IF c = "normal" THEN "normal" ELSE "flash_update"

Whole(slots) == {s \in Slots : slots[s].content = "whole"}
Kept(slots) == {s \in Whole(slots) : slots[s].bought}

\* What the boot ROM starts: after an update the new image if it is whole;
\* else a bought one, A before B; with none, an image that was not bought, or
\* nothing.
Startable(slots, c, target) ==
  IF boot_type(c) = "flash_update" /\ target \in Whole(slots) THEN {target}
  ELSE IF "A" \in Kept(slots) THEN {"A"}
  ELSE IF Kept(slots) # {} THEN {"B"}
  ELSE Whole(slots) \cup {"none"}

\* The chip starts.  An image that was not bought runs under a watchdog of
\* the boot ROM.
Start(c, target) ==
  /\ running' \in Startable(slot', c, target)
  /\ cause' = c
  /\ stage' = IF running' = "none" THEN "dead" ELSE "booted"
  /\ watchdog' = IF running' = "none" \/ slot'[running'].bought THEN "off" ELSE "rom"
  /\ RamZeroed

PowerCut == UNCHANGED slot /\ scratch' = FALSE /\ Start("normal", "A")

\* The watchdog bites: the run loop hangs, or main() never got that far.
WatchdogReset ==
  /\ stage \in {"booted", "on"} /\ watchdog # "off"
  /\ UNCHANGED <<scratch, slot>>
  /\ Start("normal", "A")

\* watchdog_reboot() and rom_reboot() do their work.
OrderedReset ==
  /\ UNCHANGED <<scratch, slot>>
  /\ \/ stage = "revert" /\ Start("normal", "A")
     \/ stage = "update" /\ Start("update", Other(running))

\* picotool load -x, on a running car or one in BOOTSEL, writes a new image
\* to the free slot and starts it with a reboot of type FLASH_UPDATE too.  The
\* scratch registers survive it, with the magic of an update if its image has
\* not reached ota_init().
UsbLoad ==
  \E s \in Slots \ {running} :
    /\ stage \in {"booted", "on", "dead"}
    /\ slot' = [slot EXCEPT ![s] = [content |-> "whole", bought |-> FALSE]]
    /\ UNCHANGED scratch
    /\ Start(IF scratch THEN "marked" ELSE "usb", s)

-----------------------------------------------------------------------------
\* Faulty variant: the boot type alone tells an update from a USB load.
ViaUpdate_boot_type == boot_type(cause) = "flash_update"

\* ota_init(): did an update start this image?
ViaUpdate == boot_type(cause) = "flash_update" /\ scratch

\* main() up to its run loop, with ota_init().  It may get no further than
\* cyw43_arch_init(), so nothing says that this action happens.
OtaInit ==
  /\ stage = "booted"
  /\ stage' = "on"
  /\ buy_pending' = ~slot[running].bought
  /\ via_update' = ViaUpdate
  /\ scratch' = FALSE
  /\ wifi_join
  /\ UNCHANGED <<romVars, updateVars, watchdog, driving, bt_ready, uptime>>

\* on_drive_tick(): the first frame turns our watchdog on.
FirstFrame ==
  /\ stage = "on" /\ ~driving
  /\ driving' = TRUE /\ watchdog' = "car"
  /\ UNCHANGED <<wifiVars, romVars, buyVars, updateVars, stage, scratch, bt_ready, uptime>>

\* platform_on_init_complete().
BluetoothReady ==
  /\ stage = "on" /\ bt_ready' = TRUE
  /\ UNCHANGED <<wifiVars, romVars, buyVars, updateVars, stage, scratch, watchdog, driving, uptime>>

Radio ==
  /\ stage = "on"
  /\ LinkChanges \/ ScanEnds
  /\ UNCHANGED <<romVars, buyVars, updateVars, stage, scratch, watchdog, driving, bt_ready, uptime>>

\* Faulty variant: find_slot() takes any slot the boot ROM offers.
Target_any == Slots

\* find_slot(): the slot the car does not run from.
Target == {Other(running)}

\* A page of the upload is written.  If the first sector was erased under
\* the upload, what follows does not make an image of it.
WritePage ==
  \E s \in Target, content \in Contents :
    /\ Update!Write
    /\ \/ image # "none" /\ slot[s].content = "none" /\ content = "none"
       \/ ~(image # "none" /\ slot[s].content = "none") /\ content = "part"
       \/ /\ ~(image # "none" /\ slot[s].content = "none")
          /\ image' = "whole" /\ content = "whole"
    /\ slot' = [slot EXCEPT ![s] = [content |-> content, bought |-> FALSE]]

\* The callbacks of an upload.  None of them asks whether the running image
\* is bought.
UploadStep ==
  /\ stage = "on"
  /\ \/ link = "UP" /\ (Update!Accept \/ Update!StopCar) /\ UNCHANGED slot
     \/ link = "UP" /\ WritePage
     \/ (Update!Refuse \/ Update!Cancel \/ Update!Finish) /\ UNCHANGED slot
  /\ UNCHANGED <<wifiVars, buyVars, running, cause, stage, scratch, watchdog, driving,
                 bt_ready, uptime>>

-----------------------------------------------------------------------------
\* Faulty variant: either radio is enough.
ota_buy_decide_either(bt, wifi_up, now) ==
  IF ~buy_pending THEN "NOTHING"
  ELSE IF ~via_update THEN IF bt THEN "NOW" ELSE "WAIT"
  ELSE IF bt \/ wifi_up THEN "NOW"
  ELSE IF now >= BUY_DEADLINE THEN "REVERT" ELSE "WAIT"

\* Faulty variant: the deadline counts only once Bluetooth is up.
ota_buy_decide_patient(bt, wifi_up, now) ==
  IF ~buy_pending THEN "NOTHING"
  ELSE IF ~via_update THEN IF bt THEN "NOW" ELSE "WAIT"
  ELSE IF bt /\ wifi_up THEN "NOW"
  ELSE IF bt /\ now >= BUY_DEADLINE THEN "REVERT" ELSE "WAIT"

\* ota_buy_decide()
ota_buy_decide(bt, wifi_up, now) ==
  IF ~buy_pending THEN "NOTHING"
  ELSE IF ~via_update THEN IF bt THEN "NOW" ELSE "WAIT"
  ELSE IF bt /\ wifi_up THEN "NOW"
  ELSE IF now >= BUY_DEADLINE THEN "REVERT" ELSE "WAIT"

\* rom_explicit_buy(): the image is bought, and the first sector of the other
\* erased so that a normal boot does not prefer it; or an error.
RomBuy ==
  \/ \E other \in {[slot[Other(running)] EXCEPT !.content = "none"]}
                  \cup (IF running = "A" THEN {slot["B"]} ELSE {}) :
       slot' = [slot EXCEPT ![running].bought = TRUE, ![Other(running)] = other]
  \/ UNCHANGED slot

\* Faulty variant: the watchdog stays as rom_explicit_buy() leaves it.
Buy_no_watchdog ==
  /\ RomBuy
  /\ watchdog' = "off"
  /\ buy_pending' = FALSE
  /\ UNCHANGED stage

\* Faulty variant: the image stays pending, to be bought again by every tick.
Buy_keeps_pending == RomBuy /\ UNCHANGED <<watchdog, buy_pending, stage>>

\* buy_tick(), OTA_BUY_NOW.  rom_explicit_buy() turns the watchdog off, the
\* code turns it on again with the load it had.
Buy ==
  /\ RomBuy
  /\ UNCHANGED watchdog
  /\ buy_pending' = FALSE
  /\ UNCHANGED stage

\* buy_tick(), on the Wi-Fi state that wifi_tick() has just set.
buy_tick ==
  LET a == ota_buy_decide(bt_ready, wifi_state' = "WIFI_UP", uptime')
  IN  \/ a = "NOW" /\ Buy
      \/ a = "REVERT" /\ stage' = "revert" /\ UNCHANGED <<slot, watchdog, buy_pending>>
      \/ a \in {"NOTHING", "WAIT"} /\ UNCHANGED <<slot, watchdog, buy_pending, stage>>

\* upload_tick(), but for the reboot: nothing is due, the car has settled, or
\* the upload stalled.
upload_tick ==
  UNCHANGED updateVars \/ Update!Settle \/ Update!Refuse \/ Update!Cancel

\* upload_tick(): reboot_into_update() does not return.
RebootIntoUpdate ==
  /\ Update!Reboot
  /\ stage' = "update" /\ scratch' = TRUE
  /\ UNCHANGED <<slot, watchdog, buy_pending>>

\* on_tick(): wifi_tick(), upload_tick(), buy_tick().
OnTick(d) ==
  /\ stage = "on"
  /\ uptime' = Elapsed(uptime, d, BUY_DEADLINE)
  /\ wifi_tick(d)
  /\ RebootIntoUpdate \/ (upload_tick /\ buy_tick /\ UNCHANGED scratch)
  /\ UNCHANGED <<running, cause, via_update, driving, bt_ready>>

Tick == \E d \in {0, 1} : OnTick(d)

Next ==
  \/ PowerCut \/ WatchdogReset \/ OrderedReset \/ UsbLoad \/ OtaInit
  \/ FirstFrame \/ BluetoothReady \/ Radio \/ UploadStep \/ Tick

\* The timer of on_tick() is re-armed and time passes, a scan ends, and a
\* chip told to reboot does.  Nothing is assumed of the radio, the PC or
\* power, nor that main() gets to its run loop.
Fairness == WF_vars(OnTick(1)) /\ WF_vars(Radio /\ ScanEnds) /\ WF_vars(OrderedReset)

Spec == Init /\ [][Next]_vars /\ Fairness

-----------------------------------------------------------------------------
Bought == running # "none" /\ slot[running].bought

\* The last bought image is taken only by an upload or a USB load, and never
\* from under itself: only while an image runs that was not bought (then
\* nothing asks).  A purchase, though it may erase the image the car was sold
\* with, leaves the one it buys, and no reset takes any.
BoughtKept ==
  [][ Kept(slot) # {} /\ Kept(slot') = {} => ~Bought /\ (UploadStep \/ UsbLoad) ]_vars

Buys == slot' # slot /\ ~Bought /\ running' = running /\ slot'[running].bought

\* A new image that came over the air is bought only if Bluetooth is up and
\* the network is there at this moment, not when it last was looked at: else
\* it could not be updated again.
BuyOnlyWhatWorks ==
  [][ stage = "on" /\ Buys => bt_ready /\ (via_update => link = "UP") ]_vars

\* Only an image on trial after an update is given up, or one that was loaded
\* over USB before the updated one got to ota_init() (after any other USB load
\* there may be no old one to go back to, and a car without Wi-Fi would restart
\* for ever), and not one whose radios both work, however late the tick that sees
\* it.
RevertOnlyUnhealthy ==
  [][ stage = "on" /\ stage' = "revert" =>
        /\ cause \in {"update", "marked"} /\ ~slot[running].bought
        /\ ~(bt_ready /\ link = "UP" /\ wifi_state # "WIFI_WAIT") ]_vars

\* While the car can drive, its 1 s watchdog runs, the boot ROM's games with
\* it notwithstanding.
WatchdogKept == stage = "on" /\ driving => watchdog = "car"

OnTrial == stage = "on" /\ buy_pending /\ via_update

\* Every trial ends: the image is bought or given up, or the chip restarts,
\* whatever the radios do.
TrialEnds == OnTrial ~> ~OnTrial

JoinsAgain ==
  wifi_state = "WIFI_WAIT" /\ (wifi_state' = "WIFI_JOINING" \/ since' < since)

\* A car that stays on is on a network that is there again and again whenever
\* it looks, or tries to join it again and again, whatever links, joins and
\* scans come to.
WifiRetries ==
  <>[](stage = "on") =>
    []<><<JoinsAgain>>_vars \/ (<>[](wifi_state = "WIFI_UP") /\ []<>(link = "UP"))

\* ota.c on the revert: "normal reboot: boot ROM skips the unbought image",
\* and firmware/README.md: "reboot -> the boot ROM starts the old slot again".
\* So there is an old slot to start.
RevertFindsOldImage ==
  [][ stage = "on" /\ stage' = "revert" => Kept(slot) # {} ]_vars
=============================================================================
