----------------------------- MODULE Boot_proofs ------------------------------
(***************************************************************************)
(* What "try before you buy" guarantees for any deadline and any timeouts  *)
(* of the Wi-Fi join: the last image that can be started is not lost, an   *)
(* image is bought only if it could be replaced over the air again, and    *)
(* given up only on trial and with a radio that does not work.             *)
(***************************************************************************)
EXTENDS Boot, TLAPS

\* The image that runs is whole: the boot ROM checked it, and the car writes
\* to the other slot only.
RunsWhole == running # "none" => slot[running].content = "whole"

\* The watchdog of the car is turned on with the first frame of the run loop.
DrivesLater == stage = "booted" => ~driving

\* Who is on trial came with an update, or with a USB load before the updated
\* image had read the magic.
TrialInv ==
  /\ via_update => cause \in {"update", "marked"}
  /\ stage = "booted" /\ cause = "usb" => ~scratch

\* The inductive invariant.
BootInv == TypeOK /\ RunsWhole /\ DrivesLater /\ WatchdogKept /\ TrialInv

-----------------------------------------------------------------------------
(* The parts of a step. *)

\* Time is counted up to its bound.
LEMMA ElapsedType ==
  ASSUME NEW max \in Nat, NEW t \in 0 .. max, NEW d \in {0, 1}
  PROVE  Elapsed(t, d, max) \in 0 .. max
BY DEF Elapsed

\* The bounds are numbers.
LEMMA Bounds == MAX_SINCE \in Nat /\ 0 \in 0 .. MAX_SINCE /\ BUY_DEADLINE \in Nat
BY WifiAssumption, BootAssumption DEF MAX_SINCE

\* A slot whose content changes keeps its place.
LEMMA SlotTypes ==
  ASSUME slot \in [Slots -> [content : Contents, bought : BOOLEAN]],
         NEW s \in Slots, NEW c \in Contents, NEW b \in BOOLEAN
  PROVE  LET new == [slot EXCEPT ![s] = [content |-> c, bought |-> b]]
         IN  /\ new \in [Slots -> [content : Contents, bought : BOOLEAN]]
             /\ new[s] = [content |-> c, bought |-> b]
             /\ \A t \in Slots \ {s} : new[t] = slot[t]
OBVIOUS

\* The two slots.
LEMMA OtherSlot ==
  ASSUME NEW s \in Slots
  PROVE  Other(s) \in Slots /\ Other(s) # s /\ Slots = {s, Other(s)}
BY DEF Slots, Other

\* The chip starts with zeroed memory, and with a whole image or none.
LEMMA StartInv ==
  ASSUME slot' \in [Slots -> [content : Contents, bought : BOOLEAN]], scratch' \in BOOLEAN,
         NEW c \in {"normal", "update", "usb", "marked"}, c = "usb" => ~scratch',
         NEW target, Start(c, target)
  PROVE  BootInv'
<1>1. /\ wifi_state' = "WIFI_JOINING" /\ since' = 0 /\ link' = "PENDING" /\ scanning' = FALSE
      /\ phase' = "idle" /\ image' = "none"
      /\ driving' = FALSE /\ buy_pending' = FALSE /\ via_update' = FALSE
      /\ bt_ready' = FALSE /\ uptime' = 0
  BY DEF Start, RamZeroed, WifiZeroed, Update!Restart
<1>2. /\ running' \in Startable(slot', c, target) /\ cause' = c
      /\ stage' = IF running' = "none" THEN "dead" ELSE "booted"
      /\ watchdog' = IF running' = "none" \/ slot'[running'].bought THEN "off" ELSE "rom"
  BY DEF Start
<1>3. running' \in Whole(slot') \cup {"none"}
  <2>1. Kept(slot') \subseteq Whole(slot') /\ Whole(slot') \subseteq Slots
    BY DEF Kept, Whole
  <2>2. Kept(slot') # {} /\ "A" \notin Kept(slot') => "B" \in Kept(slot')
    BY <2>1 DEF Slots
  <2> QED BY <1>2, <2>1, <2>2 DEF Startable
<1>4. WifiTypeOK' /\ Update!TypeOK'
  BY <1>1, Bounds DEF WifiTypeOK, Links, Update!TypeOK
<1>5. TypeOK'
  <2>1. running' \in Slots \cup {"none"} /\ (stage' = "dead" <=> running' = "none")
        /\ stage' \in {"booted", "on", "update", "revert", "dead"}
        /\ watchdog' \in {"off", "rom", "car"} /\ cause' \in {"normal", "update", "usb", "marked"}
    BY <1>2, <1>3 DEF Whole, Slots
  <2>2. uptime' \in 0 .. BUY_DEADLINE
    BY <1>1, Bounds
  <2>3. \A b \in {scratch', driving', buy_pending', via_update', bt_ready'} : b \in BOOLEAN
    BY <1>1
  <2> QED BY <1>1, <1>4, <2>1, <2>2, <2>3 DEF TypeOK
<1>6. RunsWhole'
  BY <1>3 DEF RunsWhole, Whole
<1> QED BY <1>1, <1>2, <1>5, <1>6 DEF BootInv, DrivesLater, WatchdogKept, TrialInv

\* The radio keeps its type.
LEMMA WifiTickType ==
  ASSUME WifiTypeOK, NEW d \in {0, 1}, wifi_tick(d)
  PROVE  WifiTypeOK'
<1>1. Elapsed(since, d, MAX_SINCE) \in 0 .. MAX_SINCE
  BY Bounds, ElapsedType DEF WifiTypeOK
<1>2. since' \in 0 .. MAX_SINCE
  BY <1>1, Bounds DEF wifi_tick, GiveUp, Lost, Retry, Leave, wifi_join
<1>3. /\ wifi_state' \in {"WIFI_JOINING", "WIFI_UP", "WIFI_WAIT"}
      /\ link' \in {link, "PENDING"} /\ scanning' \in {scanning, TRUE}
  BY DEF wifi_tick, Joined, GiveUp, Lost, Retry, Leave, wifi_join, WifiTypeOK
<1> QED BY <1>2, <1>3 DEF WifiTypeOK, Links

\* What a tick says of the connection is so at that moment, and a network that
\* is there is noticed by the tick unless a retry is waited for.
LEMMA WifiTickTrue ==
  ASSUME WifiTypeOK, NEW d \in {0, 1}, wifi_tick(d)
  PROVE  /\ wifi_state' = "WIFI_UP" => link = "UP"
         /\ link = "UP" /\ wifi_state # "WIFI_WAIT" => wifi_state' = "WIFI_UP"
BY DEF wifi_tick, Joined, GiveUp, Lost, Retry, Leave, wifi_join, WifiTypeOK, Broken

\* The boot ROM buys the running image or nothing, and touches the other slot
\* only to take it away.
LEMMA RomBuySlots ==
  ASSUME slot \in [Slots -> [content : Contents, bought : BOOLEAN]], running \in Slots, RomBuy
  PROVE  /\ slot' \in [Slots -> [content : Contents, bought : BOOLEAN]]
         /\ slot'[running].content = slot[running].content
         /\ slot' = slot \/ slot'[running].bought
<1>1. CASE slot' = slot
  BY <1>1
<1>2. ASSUME NEW other \in {[slot[Other(running)] EXCEPT !.content = "none"]}
                           \cup (IF running = "A" THEN {slot["B"]} ELSE {}),
             slot' = [slot EXCEPT ![running].bought = TRUE, ![Other(running)] = other]
      PROVE  /\ slot' \in [Slots -> [content : Contents, bought : BOOLEAN]]
             /\ slot'[running].content = slot[running].content /\ slot'[running].bought
  <2>1. Other(running) \in Slots /\ Other(running) # running /\ "B" \in Slots
    BY OtherSlot DEF Slots
  <2>2. other \in [content : Contents, bought : BOOLEAN]
    BY <2>1 DEF Contents
  <2>3. [slot[running] EXCEPT !.bought = TRUE] \in [content : Contents, bought : BOOLEAN]
    OBVIOUS
  <2> QED BY <1>2, <2>1, <2>2, <2>3
<1> QED BY <1>1, <1>2 DEF RomBuy
-----------------------------------------------------------------------------
(* The invariant is kept. *)

\* The resets and the USB load start the chip.
LEMMA ResetInv ==
  ASSUME BootInv, PowerCut \/ WatchdogReset \/ OrderedReset \/ UsbLoad
  PROVE  BootInv'
<1>1. slot \in [Slots -> [content : Contents, bought : BOOLEAN]] /\ scratch \in BOOLEAN
  BY DEF BootInv, TypeOK
<1>2. CASE PowerCut
  BY <1>1, <1>2, StartInv DEF PowerCut
<1>3. CASE WatchdogReset
  BY <1>1, <1>3, StartInv DEF WatchdogReset
<1>4. CASE OrderedReset
  BY <1>1, <1>4, StartInv DEF OrderedReset
<1>5. CASE UsbLoad
  <2>1. PICK s \in Slots \ {running} :
          /\ slot' = [slot EXCEPT ![s] = [content |-> "whole", bought |-> FALSE]]
          /\ UNCHANGED scratch
          /\ Start(IF scratch THEN "marked" ELSE "usb", s)
    BY <1>5 DEF UsbLoad
  <2>2. slot' \in [Slots -> [content : Contents, bought : BOOLEAN]]
    BY <1>1, <2>1, SlotTypes DEF Contents
  <2>3. CASE scratch
    BY <1>1, <2>1, <2>2, <2>3, StartInv
  <2>4. CASE ~scratch
    BY <1>1, <2>1, <2>2, <2>4, StartInv
  <2> QED BY <2>3, <2>4
<1> QED BY <1>2, <1>3, <1>4, <1>5

\* ota_init(): only an image started by an update is on its trial.
LEMMA OtaInitInv ==
  ASSUME BootInv, OtaInit
  PROVE  BootInv'
<1>1. /\ stage = "booted" /\ stage' = "on" /\ scratch' = FALSE
      /\ buy_pending' = ~slot[running].bought
      /\ via_update' = ViaUpdate
      /\ wifi_join
      /\ UNCHANGED <<slot, running, cause, phase, image, watchdog, driving, bt_ready, uptime>>
  BY DEF OtaInit, romVars, updateVars
<1>2. running \in Slots /\ slot[running].bought \in BOOLEAN
  BY <1>1 DEF BootInv, TypeOK
<1>3. WifiTypeOK'
  <2>1. since' \in 0 .. MAX_SINCE
    BY <1>1, Bounds DEF wifi_join
  <2> QED BY <1>1, <2>1 DEF wifi_join, BootInv, TypeOK, WifiTypeOK, Links
<1>4. Update!TypeOK'
  BY <1>1 DEF BootInv, TypeOK, Update!TypeOK
<1>5. TypeOK'
  <2>1. ViaUpdate \in BOOLEAN /\ buy_pending' \in BOOLEAN
    BY <1>1, <1>2 DEF ViaUpdate
  <2>2. \A b \in {scratch', driving', buy_pending', via_update', bt_ready'} : b \in BOOLEAN
    BY <1>1, <2>1 DEF BootInv, TypeOK
  <2>3. buy_pending' => ~slot'[running'].bought
    BY <1>1
  <2>4. running' \in Slots /\ running' # "none"
    BY <1>1, <1>2 DEF Slots
  <2>5. /\ slot' \in [Slots -> [content : Contents, bought : BOOLEAN]]
        /\ cause' \in {"normal", "update", "usb", "marked"}
        /\ watchdog' \in {"off", "rom", "car"} /\ uptime' \in 0 .. BUY_DEADLINE
    BY <1>1 DEF BootInv, TypeOK
  <2>6. stage' \in {"booted", "on", "update", "revert", "dead"} /\ stage' # "dead"
    BY <1>1
  <2> QED BY <1>3, <1>4, <2>2, <2>3, <2>4, <2>5, <2>6 DEF TypeOK
<1>6. TrialInv'
  BY <1>1 DEF BootInv, TypeOK, TrialInv, ViaUpdate, boot_type
<1> QED BY <1>1, <1>5, <1>6 DEF BootInv, RunsWhole, DrivesLater, WatchdogKept

\* The first frame, the end of the Bluetooth start-up, and the radio.
LEMMA RunLoopInv ==
  ASSUME BootInv, FirstFrame \/ BluetoothReady \/ Radio
  PROVE  BootInv'
<1>1. /\ stage = "on"
      /\ UNCHANGED <<slot, running, cause, buy_pending, via_update, phase, image, stage,
                     scratch, uptime, wifi_state, since>>
      /\ link' \in Links \cup {link} /\ scanning' \in {scanning, FALSE}
  BY DEF FirstFrame, BluetoothReady, Radio, LinkChanges, ScanEnds, wifiVars, romVars, buyVars,
         updateVars
<1>2. \/ driving' = TRUE /\ watchdog' = "car" /\ bt_ready' = bt_ready
      \/ UNCHANGED <<driving, watchdog>> /\ bt_ready' \in {bt_ready, TRUE}
  BY DEF FirstFrame, BluetoothReady, Radio
<1>3. WifiTypeOK' /\ Update!TypeOK'
  BY <1>1 DEF BootInv, TypeOK, WifiTypeOK, Update!TypeOK
<1>4. \A b \in {scratch', driving', buy_pending', via_update', bt_ready'} : b \in BOOLEAN
  BY <1>1, <1>2 DEF BootInv, TypeOK
<1>5. TypeOK'
  BY <1>1, <1>2, <1>3, <1>4 DEF BootInv, TypeOK
<1>6. RunsWhole' /\ TrialInv'
  BY <1>1 DEF BootInv, RunsWhole, TrialInv
<1>7. DrivesLater' /\ WatchdogKept'
  <2>1. stage' # "booted" /\ (driving => watchdog = "car") /\ driving \in BOOLEAN
    BY <1>1 DEF BootInv, TypeOK, WatchdogKept
  <2>2. driving' => watchdog' = "car"
    BY <1>2, <2>1
  <2> QED BY <2>1, <2>2 DEF DrivesLater, WatchdogKept
<1> QED BY <1>5, <1>6, <1>7 DEF BootInv

\* The callbacks of an upload: at most the slot that does not run changes.
LEMMA UploadSlots ==
  ASSUME BootInv, UploadStep
  PROVE  /\ slot' \in [Slots -> [content : Contents, bought : BOOLEAN]]
         /\ slot'[running] = slot[running] /\ running' = running /\ running \in Slots
         /\ Update!TypeOK'
<1>1. /\ stage = "on" /\ running' = running
      /\ slot \in [Slots -> [content : Contents, bought : BOOLEAN]] /\ running \in Slots
  BY DEF UploadStep, BootInv, TypeOK
<1>2. slot' = slot \/ WritePage
  BY DEF UploadStep
<1>3. ASSUME WritePage
      PROVE  /\ slot' \in [Slots -> [content : Contents, bought : BOOLEAN]]
             /\ slot'[running] = slot[running]
  <2>1. PICK s \in Target, c \in Contents :
          slot' = [slot EXCEPT ![s] = [content |-> c, bought |-> FALSE]]
    BY <1>3 DEF WritePage
  <2>2. s \in Slots /\ s # running
    BY <1>1, OtherSlot DEF Target
  <2> QED BY <1>1, <2>1, <2>2, SlotTypes
<1>4. Update!TypeOK'
  BY DEF UploadStep, WritePage, BootInv, TypeOK, Update!TypeOK, Update!Accept, Update!Refuse,
         Update!StopCar, Update!Write, Update!Finish, Update!Cancel
<1> QED BY <1>1, <1>2, <1>3, <1>4

\* The callbacks of an upload.
LEMMA UploadStepInv ==
  ASSUME BootInv, UploadStep
  PROVE  BootInv'
<1>1. /\ UNCHANGED <<wifi_state, since, link, scanning, buy_pending, via_update, running, cause,
                     stage, scratch, watchdog, driving, bt_ready, uptime>>
  BY DEF UploadStep, wifiVars, buyVars
<1>2. WifiTypeOK'
  BY <1>1 DEF BootInv, TypeOK, WifiTypeOK
<1>3. \A b \in {scratch', driving', buy_pending', via_update', bt_ready'} : b \in BOOLEAN
  BY <1>1 DEF BootInv, TypeOK
<1>4. TypeOK'
  BY <1>1, <1>2, <1>3, UploadSlots DEF BootInv, TypeOK
<1> QED BY <1>1, <1>4, UploadSlots
        DEF BootInv, RunsWhole, DrivesLater, WatchdogKept, TrialInv

\* What buy_tick() or a reboot into the update does to the slots, the watchdog
\* and the stage.
LEMMA TickOutcomes ==
  ASSUME BootInv, Tick
  PROVE  /\ stage = "on" /\ running \in Slots
         /\ UNCHANGED <<running, cause, via_update, driving, bt_ready, watchdog>>
         /\ \/ stage' = "update" /\ scratch' = TRUE /\ UNCHANGED <<slot, buy_pending>>
            \/ stage' = "on" /\ UNCHANGED <<scratch, slot, buy_pending>>
            \/ stage' = "revert" /\ UNCHANGED <<scratch, slot, buy_pending>>
            \/ stage' = "on" /\ UNCHANGED scratch /\ RomBuy /\ buy_pending' = FALSE
<1>1. PICK d \in {0, 1} : OnTick(d)
  BY DEF Tick
<1>2. stage = "on" /\ running \in Slots
      /\ UNCHANGED <<running, cause, via_update, driving, bt_ready>>
  BY <1>1 DEF OnTick, BootInv, TypeOK
<1>3. CASE RebootIntoUpdate
  BY <1>2, <1>3 DEF RebootIntoUpdate
<1>4. CASE buy_tick /\ UNCHANGED scratch
  BY <1>2, <1>4 DEF buy_tick, Buy
<1> QED BY <1>1, <1>2, <1>3, <1>4 DEF OnTick

\* on_tick()
LEMMA TickInv ==
  ASSUME BootInv, Tick
  PROVE  BootInv'
<1>1. PICK d \in {0, 1} : OnTick(d)
  BY DEF Tick
<1>2. WifiTypeOK'
  BY <1>1, WifiTickType DEF OnTick, BootInv, TypeOK
<1>3. uptime' \in 0 .. BUY_DEADLINE
  BY <1>1, Bounds, ElapsedType DEF OnTick, BootInv, TypeOK
<1>4. Update!TypeOK'
  BY <1>1 DEF OnTick, RebootIntoUpdate, upload_tick, updateVars, BootInv, TypeOK, Update!TypeOK,
              Update!Reboot, Update!Settle, Update!Refuse, Update!Cancel
<1>5. /\ slot' \in [Slots -> [content : Contents, bought : BOOLEAN]]
      /\ slot'[running].content = "whole"
      /\ buy_pending' \in BOOLEAN /\ (buy_pending' => ~slot'[running].bought)
  <2>1. /\ slot \in [Slots -> [content : Contents, bought : BOOLEAN]] /\ buy_pending \in BOOLEAN
        /\ (buy_pending => ~slot[running].bought) /\ running \in Slots /\ running # "none"
        /\ slot[running].content = "whole"
    BY TickOutcomes DEF BootInv, TypeOK, RunsWhole, Slots
  <2>2. CASE slot' = slot /\ buy_pending' = buy_pending
    BY <2>1, <2>2
  <2>3. CASE RomBuy /\ buy_pending' = FALSE
    <3>1. /\ slot' \in [Slots -> [content : Contents, bought : BOOLEAN]]
          /\ slot'[running].content = slot[running].content
      BY <2>1, <2>3, RomBuySlots
    <3>2. slot'[running].content = "whole"
      BY <2>1, <3>1
    <3> QED BY <2>3, <3>1, <3>2
  <2> QED BY <2>2, <2>3, TickOutcomes
<1>6. TypeOK'
  <2>1. \A b \in {scratch', driving', buy_pending', via_update', bt_ready'} : b \in BOOLEAN
    BY <1>5, TickOutcomes DEF BootInv, TypeOK
  <2>2. /\ stage' \in {"booted", "on", "update", "revert", "dead"} /\ stage' # "dead"
        /\ running' \in Slots /\ running' # "none"
        /\ cause' \in {"normal", "update", "usb", "marked"}
        /\ watchdog' \in {"off", "rom", "car"}
        /\ (buy_pending' => ~slot'[running'].bought)
    BY <1>5, TickOutcomes DEF BootInv, TypeOK, Slots
  <2> QED BY <1>2, <1>3, <1>4, <1>5, <2>1, <2>2 DEF TypeOK
<1>7. RunsWhole'
  BY <1>5, TickOutcomes DEF RunsWhole
<1>8. stage' # "booted" /\ stage = "on"
  BY TickOutcomes
<1>9. DrivesLater' /\ WatchdogKept'
  <2>1. (driving => watchdog = "car") /\ driving \in BOOLEAN
    BY <1>8 DEF BootInv, TypeOK, WatchdogKept
  <2>2. driving' => watchdog' = "car"
    BY <2>1, TickOutcomes
  <2> QED BY <1>8, <2>2 DEF DrivesLater, WatchdogKept
<1>10. TrialInv'
  <2>1. (via_update => cause \in {"update", "marked"}) /\ via_update \in BOOLEAN
    BY DEF BootInv, TypeOK, TrialInv
  <2>2. via_update' => cause' \in {"update", "marked"}
    BY <2>1, TickOutcomes
  <2> QED BY <1>8, <2>2 DEF TrialInv
<1> QED BY <1>6, <1>7, <1>9, <1>10 DEF BootInv

\* Nothing happens.
LEMMA BootStutterInv ==
  ASSUME BootInv, UNCHANGED vars
  PROVE  BootInv'
<1> USE DEF vars, wifiVars, romVars, buyVars, updateVars
<1>1. WifiTypeOK' /\ Update!TypeOK'
  BY DEF BootInv, TypeOK, WifiTypeOK, Update!TypeOK
<1>2. \A b \in {scratch', driving', buy_pending', via_update', bt_ready'} : b \in BOOLEAN
  BY DEF BootInv, TypeOK
<1>3. TypeOK'
  BY <1>1, <1>2 DEF BootInv, TypeOK
<1> QED BY <1>3 DEF BootInv, RunsWhole, DrivesLater, WatchdogKept, TrialInv

\* A car that was set up once.
LEMMA BootStart == Init => BootInv
<1> SUFFICES ASSUME Init PROVE BootInv
  OBVIOUS
<1>1. WifiTypeOK /\ Update!TypeOK
  BY Bounds DEF Init, RamZero, WifiZero, WifiTypeOK, Links, Update!Init, Update!TypeOK
<1>2. slot \in [Slots -> [content : Contents, bought : BOOLEAN]] /\ slot["A"].content = "whole"
  <2>1. slot = [A |-> [content |-> "whole", bought |-> TRUE],
                B |-> [content |-> "none", bought |-> FALSE]]
    BY DEF Init
  <2>2. DOMAIN slot = Slots
    BY <2>1 DEF Slots
  <2>3. /\ slot["A"] = [content |-> "whole", bought |-> TRUE]
        /\ slot["B"] = [content |-> "none", bought |-> FALSE]
    BY <2>1
  <2>4. \A s \in Slots : slot[s] \in [content : Contents, bought : BOOLEAN]
    <3>1. [content |-> "whole", bought |-> TRUE] \in [content : Contents, bought : BOOLEAN]
      BY DEF Contents
    <3>2. [content |-> "none", bought |-> FALSE] \in [content : Contents, bought : BOOLEAN]
      BY DEF Contents
    <3> QED BY <2>3, <3>1, <3>2 DEF Slots
  <2>5. slot = [s \in Slots |-> slot[s]]
    BY <2>1, <2>2
  <2> QED BY <2>3, <2>4, <2>5
<1>3. /\ scratch = FALSE /\ driving = FALSE /\ buy_pending = FALSE /\ via_update = FALSE
      /\ bt_ready = FALSE /\ uptime = 0 /\ running = "A" /\ stage = "booted" /\ cause = "normal"
      /\ watchdog = "off"
  BY DEF Init, RamZero
<1>4. TypeOK
  <2>1. \A b \in {scratch, driving, buy_pending, via_update, bt_ready} : b \in BOOLEAN
    BY <1>3
  <2>2. running \in Slots \cup {"none"} /\ (stage = "dead" <=> running = "none")
        /\ ~buy_pending /\ uptime \in 0 .. BUY_DEADLINE
    BY <1>3, Bounds DEF Slots
  <2> QED BY <1>1, <1>2, <1>3, <2>1, <2>2 DEF TypeOK
<1> QED BY <1>2, <1>3, <1>4 DEF BootInv, RunsWhole, DrivesLater, WatchdogKept, TrialInv

\* Every step keeps the invariant.
LEMMA BootNext ==
  ASSUME BootInv, [Next]_vars
  PROVE  BootInv'
BY ResetInv, OtaInitInv, RunLoopInv, UploadStepInv, TickInv, BootStutterInv DEF Next

-----------------------------------------------------------------------------
(* What a step may never do. *)

\* A bought image that runs is one to start.
LEMMA BoughtIsKept ==
  ASSUME NEW slots, NEW r \in Slots, slots[r].content = "whole", slots[r].bought
  PROVE  Kept(slots) # {}
BY DEF Kept, Whole

\* Uploads and USB loads write to the slot that does not run.
LEMMA LoadStep ==
  ASSUME BootInv, UploadStep \/ UsbLoad, Bought
  PROVE  Kept(slot') # {}
<1>1. /\ running \in Slots /\ slot[running].content = "whole" /\ slot[running].bought
      /\ slot \in [Slots -> [content : Contents, bought : BOOLEAN]]
  BY DEF Bought, BootInv, TypeOK, RunsWhole
<1>2. slot'[running] = slot[running]
  <2>1. CASE UploadStep
    BY <2>1, UploadSlots
  <2>2. CASE UsbLoad
    BY <1>1, <2>2 DEF UsbLoad
  <2> QED BY <2>1, <2>2
<1> QED BY <1>1, <1>2, BoughtIsKept

\* The image a purchase buys is one to start.
LEMMA BuyKeeps ==
  ASSUME BootInv, Tick
  PROVE  slot' = slot \/ Kept(slot') # {}
<1>1. /\ running \in Slots /\ running # "none"
      /\ slot \in [Slots -> [content : Contents, bought : BOOLEAN]]
      /\ slot[running].content = "whole"
  BY TickOutcomes DEF BootInv, TypeOK, RunsWhole, Slots
<1>2. slot' = slot \/ RomBuy
  BY TickOutcomes
<1>3. CASE RomBuy
  BY <1>1, <1>3, RomBuySlots, BoughtIsKept
<1> QED BY <1>2, <1>3

\* The last bought image goes only to what is loaded under an image that was
\* not bought.
LEMMA KeptStep ==
  ASSUME BootInv, [Next]_vars, Kept(slot) # {}, Kept(slot') = {}
  PROVE  ~Bought /\ (UploadStep \/ UsbLoad)
<1>1. slot' # slot
  BY DEF Kept, Whole
<1>2. ~Tick
  BY <1>1, BuyKeeps
<1>3. UploadStep \/ UsbLoad
  BY <1>1, <1>2 DEF Next, PowerCut, WatchdogReset, OrderedReset, OtaInit, FirstFrame,
                    BluetoothReady, Radio, romVars, vars
<1> QED BY <1>3, LoadStep

\* An image is bought by a tick that finds its radios working.
LEMMA BuyStep ==
  ASSUME BootInv, [Next]_vars, stage = "on", Buys
  PROVE  bt_ready /\ (via_update => link = "UP")
<1>1. /\ running \in Slots /\ slot' # slot /\ ~slot[running].bought /\ slot'[running].bought
      /\ slot \in [Slots -> [content : Contents, bought : BOOLEAN]]
  BY DEF Buys, Bought, BootInv, TypeOK, Slots
<1>2. ~UsbLoad
  <2> SUFFICES ASSUME UsbLoad PROVE FALSE
    OBVIOUS
  <2>1. PICK s \in Slots \ {running} :
          slot' = [slot EXCEPT ![s] = [content |-> "whole", bought |-> FALSE]]
    BY DEF UsbLoad
  <2>2. slot'[running] = slot[running]
    BY <1>1, <2>1
  <2> QED BY <1>1, <2>2
<1>3. ~UploadStep
  <2> SUFFICES ASSUME UploadStep PROVE FALSE
    OBVIOUS
  <2>1. slot'[running] = slot[running]
    BY UploadSlots
  <2> QED BY <1>1, <2>1
<1>4. Tick
  BY <1>1, <1>2, <1>3
     DEF Next, PowerCut, WatchdogReset, OrderedReset, OtaInit, FirstFrame, BluetoothReady,
         Radio, romVars, vars
<1>5. PICK d \in {0, 1} : OnTick(d)
  BY <1>4 DEF Tick
<1>6. wifi_tick(d) /\ buy_tick
  BY <1>1, <1>5 DEF OnTick, RebootIntoUpdate
<1>7. ota_buy_decide(bt_ready, wifi_state' = "WIFI_UP", uptime') = "NOW"
  BY <1>1, <1>6 DEF buy_tick
<1>8. wifi_state' = "WIFI_UP" => link = "UP"
  BY <1>6, WifiTickTrue DEF BootInv, TypeOK
<1> QED BY <1>7, <1>8 DEF ota_buy_decide

\* An image is given up by a tick that finds a radio not working.
LEMMA RevertStep ==
  ASSUME BootInv, [Next]_vars, stage = "on", stage' = "revert"
  PROVE  /\ cause \in {"update", "marked"} /\ ~slot[running].bought
         /\ ~(bt_ready /\ link = "UP" /\ wifi_state # "WIFI_WAIT")
<1>1. Tick
  BY DEF Next, PowerCut, WatchdogReset, OrderedReset, UsbLoad, Start, OtaInit, FirstFrame,
         BluetoothReady, Radio, UploadStep, vars
<1>2. PICK d \in {0, 1} : OnTick(d)
  BY <1>1 DEF Tick
<1>3. wifi_tick(d) /\ buy_tick
  BY <1>2 DEF OnTick, RebootIntoUpdate
<1>4. ota_buy_decide(bt_ready, wifi_state' = "WIFI_UP", uptime') = "REVERT"
  BY <1>3 DEF buy_tick, Buy
<1>5. buy_pending /\ via_update /\ ~(bt_ready /\ wifi_state' = "WIFI_UP")
  BY <1>4 DEF ota_buy_decide
<1>6. link = "UP" /\ wifi_state # "WIFI_WAIT" => wifi_state' = "WIFI_UP"
  BY <1>3, WifiTickTrue DEF BootInv, TypeOK
<1> QED BY <1>5, <1>6 DEF BootInv, TypeOK, TrialInv

-----------------------------------------------------------------------------
\* The slots, the boots, the trial and the watchdog agree at all times.
THEOREM BootInvariant == Spec => []BootInv
BY BootStart, BootNext, PTL DEF Spec

\* The types of all that boots, trials and the Wi-Fi join keep; only an image
\* that was not bought waits to be.
THEOREM BootTypes == Spec => []TypeOK
<1>1. BootInv => TypeOK
  BY DEF BootInv
<1> QED BY <1>1, BootInvariant, PTL

\* From the first frame on the car's own watchdog runs, a purchase by the boot
\* ROM in between notwithstanding.
THEOREM BootKeepsWatchdog == Spec => []WatchdogKept
<1>1. BootInv => WatchdogKept
  BY DEF BootInv
<1> QED BY <1>1, BootInvariant, PTL

\* The last bought image is lost only to an upload or a USB load under an
\* image that was not bought: no purchase and no reset takes it, and nothing
\* takes it from a car that runs a bought one.
THEOREM BootKeepsBought == Spec => BoughtKept
<1>1. BootInv /\ [Next]_vars =>
        [Kept(slot) # {} /\ Kept(slot') = {} => ~Bought /\ (UploadStep \/ UsbLoad)]_vars
  BY KeptStep
<1> QED BY <1>1, BootInvariant, PTL DEF Spec, BoughtKept

\* An image is bought only while Bluetooth is up and, if it came over the air,
\* the network there.
THEOREM BootBuysWhatWorks == Spec => BuyOnlyWhatWorks
<1>1. BootInv /\ [Next]_vars =>
        [stage = "on" /\ Buys => bt_ready /\ (via_update => link = "UP")]_vars
  BY BuyStep
<1> QED BY <1>1, BootInvariant, PTL DEF Spec, BuyOnlyWhatWorks

\* An image is given up only on its trial, and never with both its radios
\* working.
THEOREM BootRevertsUnhealthy == Spec => RevertOnlyUnhealthy
<1>1. BootInv /\ [Next]_vars =>
        [stage = "on" /\ stage' = "revert" =>
           /\ cause \in {"update", "marked"} /\ ~slot[running].bought
           /\ ~(bt_ready /\ link = "UP" /\ wifi_state # "WIFI_WAIT")]_vars
  BY RevertStep
<1> QED BY <1>1, BootInvariant, PTL DEF Spec, RevertOnlyUnhealthy
=============================================================================
