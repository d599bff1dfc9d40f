------------------------------- MODULE Upload --------------------------------
(***************************************************************************)
(* The update server of firmware/src/ota.c: one TCP client at a time sends *)
(* a header and the blocks of an image, which go to the flash slot the car *)
(* does not run from.                                                      *)
(*                                                                         *)
(* lwIP calls on_accept(), on_recv() and on_tcp_err(), the run loop calls  *)
(* on_tick() every TICK_MS, never two at once.  on_chunk() writes several  *)
(* blocks in one call: each is an action, and while the call lasts         *)
(* (handler = "on_chunk") nothing runs but a restart of the chip.          *)
(*                                                                         *)
(* External: what arrives from the network, when a close fails, which slot *)
(* the boot ROM picks, whether the flash takes a write, when power fails.  *)
(* Time is counted in ticks; a tick may be late.                           *)
(***************************************************************************)
EXTENDS OtaLogic, FiniteSets

CONSTANTS
  Headers,              \* headers a PC can send
  Blocks,               \* blocks a PC can send
  HEADER_SIZE,          \* pieces the header may be split into on the wire
  CHUNK_SIZE,           \* the same for a chunk, which is what the buffer holds
  CHUNK_BLOCKS,         \* blocks in a chunk
  SETTLE_TICKS,         \* STOP_SETTLE_MS in ticks
  IDLE_TICKS,           \* CLIENT_IDLE_MS
  REBOOT_TICKS,         \* REBOOT_AFTER_DONE_MS
  FLASH_SECTORS,        \* sectors of the flash
  Partitions            \* the A/B partitions: id -> first and last sector

ASSUME UploadAssumption ==
  /\ Headers \subseteq Header /\ Blocks \subseteq Block
  /\ HEADER_SIZE \in Nat \ {0} /\ CHUNK_SIZE \in Nat \ {0} /\ CHUNK_BLOCKS \in Nat \ {0}
  /\ HEADER_SIZE <= CHUNK_SIZE
  /\ SETTLE_TICKS \in Nat /\ IDLE_TICKS \in Nat /\ REBOOT_TICKS \in Nat
  /\ FLASH_SECTORS \in Nat /\ FLASH_SECTORS * OTA_FLASH_SECTOR < WORD
  /\ \A i \in DOMAIN Partitions :
       /\ i \in Nat
       /\ Partitions[i].first \in Nat /\ Partitions[i].last \in Nat
       /\ Partitions[i].first <= Partitions[i].last
       /\ Partitions[i].last < FLASH_SECTORS
       /\ OTA_XIP_BASE + (Partitions[i].last + 1) * OTA_FLASH_SECTOR < WORD
  /\ \A i, j \in DOMAIN Partitions :
       i # j => \/ Partitions[i].last < Partitions[j].first
                \/ Partitions[j].last < Partitions[i].first

VARIABLES
  up_state,
  client,               \* the client's connection is open and has our callbacks
  car_stopped,
  buf_len,
  age,                  \* ticks since set_state(): up_since_ms
  idle,                 \* ticks since data came: last_rx_ms
  rx,
  handler,              \* "on_chunk" while it writes blocks, else "none"
  left,                 \* blocks of the chunk it has not looked at
  off,                  \* rom_reboot() was called
  boot_partition,       \* -1: the flash has no partition table
  flash,                \* what each page holds, see PageStates
  callback              \* what the latest lwIP callback did: whether it aborted
                        \* the connection, and what it returned

serverVars == <<up_state, client, car_stopped, buf_len, age, idle>>
chunkVars == <<handler, left>>
vars == <<serverVars, chunkVars, rx, off, boot_partition, flash, callback>>

UpStates == {"UP_IDLE", "UP_HEADER", "UP_STOPPING", "UP_DATA", "UP_REBOOT"}

Pages == 0 .. (FLASH_SECTORS * OTA_FLASH_SECTOR) \div OTA_FLASH_PAGE - 1

\* old: as it was before this upload; blank: erased; new: a block of this
\* upload; bad: a write that failed; mixed: written without an erase.
PageStates == {"old", "blank", "new", "bad", "mixed"}

\* No upload has written yet: whatever the flash holds is old.
Untouched == [p \in Pages |-> "old"]

\* Ticks are counted no further than the longest timeout.
MAX_TICKS == SETTLE_TICKS + IDLE_TICKS + REBOOT_TICKS + 1

TypeOK ==
  /\ up_state \in UpStates
  /\ client \in BOOLEAN /\ car_stopped \in BOOLEAN /\ off \in BOOLEAN
  /\ buf_len \in 0 .. CHUNK_SIZE
  /\ age \in 0 .. MAX_TICKS /\ idle \in 0 .. MAX_TICKS
  /\ rx \in Rx
  /\ handler \in {"none", "on_chunk"} /\ left \in 0 .. CHUNK_BLOCKS
  /\ boot_partition \in DOMAIN Partitions \cup {-1}
  /\ flash \in [Pages -> PageStates]
  /\ callback \in [aborted : BOOLEAN, returned : {"ERR_OK", "ERR_ABRT"}]

NoCallback == [aborted |-> FALSE, returned |-> "ERR_OK"]

Init ==
  /\ up_state = "UP_IDLE" /\ client = FALSE /\ car_stopped = FALSE /\ buf_len = 0
  /\ age = 0 /\ idle = 0 /\ rx = RxZero /\ handler = "none" /\ left = 0 /\ off = FALSE
  /\ boot_partition \in DOMAIN Partitions \cup {-1}
  /\ callback = NoCallback /\ flash = Untouched

ota_active == car_stopped

Running == handler = "none" /\ ~off

-----------------------------------------------------------------------------
set_state(s) == up_state' = s /\ age' = 0

\* close_client(): tcp_close() may fail, then the connection is aborted.
close_client(aborted) ==
  /\ client' = FALSE
  /\ aborted => client

\* resume_car(): with controller_resume(), see module Car.
resume_car == car_stopped' = FALSE

Returned(aborted, err) == callback' = [aborted |-> aborted, returned |-> err]

\* fail(), with its return value: the client gets the error and is closed,
\* the car is free again.
fail(aborted) == close_client(aborted) /\ resume_car /\ set_state("UP_IDLE")

FailedCallback ==
  \E aborted \in BOOLEAN :
    fail(aborted) /\ Returned(aborted, IF aborted THEN "ERR_ABRT" ELSE "ERR_OK")

\* on_accept(): one upload at a time, a second client is aborted.  (Without
\* a connection it returns ERR_VAL and changes nothing.)
OnAccept ==
  /\ Running
  /\ IF client \/ up_state # "UP_IDLE"
     THEN /\ Returned(TRUE, "ERR_ABRT")
          /\ UNCHANGED serverVars
     ELSE /\ client' = TRUE /\ buf_len' = 0 /\ idle' = 0
          /\ set_state("UP_HEADER")
          /\ Returned(FALSE, "ERR_OK")
          /\ UNCHANGED car_stopped
  /\ UNCHANGED <<chunkVars, rx, off, boot_partition, flash>>

\* on_recv() without data: the PC closed the connection.  What close_client()
\* returns is dropped.
OnRecvClosed ==
  /\ Running /\ client
  /\ \E aborted \in BOOLEAN : close_client(aborted) /\ Returned(aborted, "ERR_OK")
  /\ IF up_state \notin {"UP_IDLE", "UP_REBOOT"}
     THEN resume_car /\ set_state("UP_IDLE")
     ELSE UNCHANGED <<car_stopped, up_state, age>>
  /\ UNCHANGED <<buf_len, idle, chunkVars, rx, off, boot_partition, flash>>

\* Faulty variant: a lost connection leaves the car stopped.
OnTcpErr_no_resume ==
  /\ Running /\ client
  /\ client' = FALSE
  /\ IF up_state \notin {"UP_IDLE", "UP_REBOOT"}
     THEN set_state("UP_IDLE")
     ELSE UNCHANGED <<up_state, age>>
  /\ UNCHANGED <<car_stopped, buf_len, idle, chunkVars, rx, off, boot_partition, flash, callback>>

\* on_tcp_err(): lwIP lost the connection and has freed it.
OnTcpErr ==
  /\ Running /\ client
  /\ client' = FALSE
  /\ IF up_state \notin {"UP_IDLE", "UP_REBOOT"}
     THEN resume_car /\ set_state("UP_IDLE")
     ELSE UNCHANGED <<car_stopped, up_state, age>>
  /\ UNCHANGED <<buf_len, idle, chunkVars, rx, off, boot_partition, flash, callback>>

\* How much data the server waits for.
Need ==
  IF up_state = "UP_HEADER" THEN HEADER_SIZE
  ELSE IF up_state = "UP_DATA" THEN CHUNK_SIZE
  ELSE 0

\* on_recv() with more than it asked for: the PC must wait for the reply.
RecvTooMuch(n) ==
  /\ buf_len + n > Need
  /\ FailedCallback
  /\ UNCHANGED <<buf_len, chunkVars, rx, flash>>

\* Faulty variant: data is copied without a look at the room left.
RecvPart_unchecked(n) ==
  /\ buf_len' = buf_len + n
  /\ Returned(FALSE, "ERR_OK")
  /\ UNCHANGED <<up_state, client, car_stopped, age, chunkVars, rx, flash>>

RecvPart(n) ==
  /\ buf_len + n < Need
  /\ buf_len' = buf_len + n
  /\ Returned(FALSE, "ERR_OK")
  /\ UNCHANGED <<up_state, client, car_stopped, age, chunkVars, rx, flash>>

SlotStart(i) == Partitions[i].first * OTA_FLASH_SECTOR
SlotSize(i) == (Partitions[i].last + 1 - Partitions[i].first) * OTA_FLASH_SECTOR

\* Faulty variant: the slot the car runs from is taken too.
find_slot_any(target) ==
  IF boot_partition = -1 \/ target = -1 THEN "OTA_ERR_PARTITION" ELSE "OTA_OK"

\* find_slot(): target is what the boot ROM picks, -1 if it finds none.
find_slot(target) ==
  IF boot_partition = -1 \/ target = -1 \/ target = boot_partition
  THEN "OTA_ERR_PARTITION"
  ELSE "OTA_OK"

\* on_header(): all checks, then the car stops.
RecvHeader(n, h, target) ==
  LET init == ota_rx_init(h, SlotStart(target), SlotSize(target))
      found == ota_header_parse(h) = "OTA_OK" /\ find_slot(target) = "OTA_OK"
  IN  /\ up_state = "UP_HEADER" /\ buf_len + n = Need
      /\ buf_len' = buf_len + n
      /\ rx' = IF found THEN init.rx ELSE rx
      /\ IF found /\ init.status = "OTA_OK"
         THEN /\ car_stopped' = TRUE
              /\ set_state("UP_STOPPING")
              /\ flash' = Untouched
              /\ Returned(FALSE, "ERR_OK")
              /\ UNCHANGED client
         ELSE FailedCallback /\ UNCHANGED flash
      /\ UNCHANGED chunkVars

\* on_chunk() begins.
RecvChunk(n) ==
  /\ up_state = "UP_DATA" /\ buf_len + n = Need
  /\ buf_len' = buf_len + n
  /\ handler' = "on_chunk" /\ left' = CHUNK_BLOCKS
  /\ UNCHANGED <<up_state, client, car_stopped, age, rx, flash, callback>>

\* on_recv() with n > 0 pieces of data.
OnRecv ==
  /\ Running /\ client
  /\ idle' = 0
  /\ \E n \in 1 .. HEADER_SIZE + CHUNK_SIZE :
       \/ RecvTooMuch(n) \/ RecvPart(n) \/ RecvChunk(n)
       \/ \E h \in Headers, target \in DOMAIN Partitions \cup {-1} : RecvHeader(n, h, target)
  /\ UNCHANGED <<off, boot_partition>>

-----------------------------------------------------------------------------
PageOf(offset) == offset \div OTA_FLASH_PAGE
SectorPages(offset) ==
  {p \in Pages : SectorOf(p * OTA_FLASH_PAGE) = offset}

\* flash_job(): erase if asked for, then write one page.
Erased(w) ==
  [p \in Pages |-> IF w.erase /\ p \in SectorPages(w.erase_offset) THEN "blank" ELSE flash[p]]
Written(w) ==
  [Erased(w) EXCEPT ![PageOf(w.offset)] = IF @ = "blank" THEN "new" ELSE "mixed"]
WriteFails(w) == [Erased(w) EXCEPT ![PageOf(w.offset)] = "bad"]

LeaveChunk == handler' = "none" /\ left' = 0

\* on_chunk(): a block that is refused, or that the flash does not take
\* (flash_safe_execute() timed out, or the page reads back wrong), ends the
\* upload.  The block is counted even then.
ChunkFails(block) ==
  /\ IF BlockStatus(rx, block) = "OTA_OK"
     THEN /\ flash' \in {flash, WriteFails(ota_write(rx, block))}
          /\ rx' = ota_rx_next(rx, block)
     ELSE UNCHANGED <<flash, rx>>
  /\ FailedCallback
  /\ LeaveChunk
  /\ UNCHANGED <<buf_len, idle>>

\* on_chunk(): one round of its loop.
ChunkWrites(block) ==
  /\ BlockStatus(rx, block) = "OTA_OK"
  /\ flash' = Written(ota_write(rx, block))
  /\ rx' = ota_rx_next(rx, block)
  /\ left' = left - 1
  /\ UNCHANGED <<serverVars, handler, callback>>

ChunkBlock ==
  /\ handler = "on_chunk" /\ left > 0 /\ ~ota_rx_done(rx)
  /\ \E block \in Blocks : ChunkFails(block) \/ ChunkWrites(block)
  /\ UNCHANGED <<off, boot_partition>>

\* Faulty variant: every chunk is taken for the last.
ChunkEnds_early ==
  /\ handler = "on_chunk" /\ (left = 0 \/ ota_rx_done(rx))
  /\ buf_len' = 0
  /\ set_state("UP_REBOOT")
  /\ \E aborted \in BOOLEAN :
       /\ close_client(aborted)
       /\ Returned(aborted, IF aborted THEN "ERR_ABRT" ELSE "ERR_OK")
  /\ LeaveChunk
  /\ UNCHANGED <<car_stopped, idle, rx, off, boot_partition, flash>>

\* Faulty variant: the buffer is not emptied after an ACK.
ChunkEnds_keeps_length ==
  /\ handler = "on_chunk" /\ (left = 0 \/ ota_rx_done(rx))
  /\ IF ota_rx_done(rx)
     THEN /\ set_state("UP_REBOOT")
          /\ \E aborted \in BOOLEAN :
               /\ close_client(aborted)
               /\ Returned(aborted, IF aborted THEN "ERR_ABRT" ELSE "ERR_OK")
     ELSE /\ Returned(FALSE, "ERR_OK")
          /\ UNCHANGED <<up_state, client, age>>
  /\ LeaveChunk
  /\ UNCHANGED <<car_stopped, buf_len, idle, rx, off, boot_partition, flash>>

\* on_chunk() after its loop: ACK, or with the whole image written DONE.
ChunkEnds ==
  /\ handler = "on_chunk" /\ (left = 0 \/ ota_rx_done(rx))
  /\ buf_len' = 0
  /\ IF ota_rx_done(rx)
     THEN /\ set_state("UP_REBOOT")
          /\ \E aborted \in BOOLEAN :
               /\ close_client(aborted)
               /\ Returned(aborted, IF aborted THEN "ERR_ABRT" ELSE "ERR_OK")
     ELSE /\ Returned(FALSE, "ERR_OK")
          /\ UNCHANGED <<up_state, client, age>>
  /\ LeaveChunk
  /\ UNCHANGED <<car_stopped, idle, rx, off, boot_partition, flash>>

-----------------------------------------------------------------------------
\* A timeout of t ticks, seen by the n-th tick after its start: ticks are
\* TICK_MS apart or more, so past t it has expired.  Before that it has if a
\* tick was late, by whatever the run loop was busy with.
MayWait(n, t) == n <= t

Later(n) == IF n < MAX_TICKS THEN n + 1 ELSE n

\* Faulty variant: the header stays in the buffer.
Settle_keeps_length ==
  /\ up_state = "UP_STOPPING"
  /\ idle' = 0
  /\ set_state("UP_DATA")
  /\ UNCHANGED <<buf_len, client, car_stopped, off>>

\* upload_tick(): the car had time to stop.
Settle ==
  /\ up_state = "UP_STOPPING"
  /\ buf_len' = 0 /\ idle' = 0
  /\ set_state("UP_DATA")
  /\ UNCHANGED <<client, car_stopped, off>>

\* Faulty variant: no timeout once the data flows.
Stall_header_only ==
  /\ up_state = "UP_HEADER"
  /\ \E aborted \in BOOLEAN : fail(aborted)
  /\ idle' = Later(idle)
  /\ UNCHANGED <<buf_len, off>>

\* upload_tick(): the upload stalled.
Stall ==
  /\ up_state \in {"UP_HEADER", "UP_DATA"}
  /\ \E aborted \in BOOLEAN : fail(aborted)
  /\ idle' = Later(idle)
  /\ UNCHANGED <<buf_len, off>>

\* upload_tick(): reboot_into_update().
Reboot ==
  /\ up_state = "UP_REBOOT"
  /\ off' = TRUE
  /\ UNCHANGED serverVars

\* upload_tick() with nothing due.
Wait ==
  /\ up_state = "UP_STOPPING" => MayWait(Later(age), SETTLE_TICKS)
  /\ up_state \in {"UP_HEADER", "UP_DATA"} => MayWait(Later(idle), IDLE_TICKS)
  /\ up_state = "UP_REBOOT" => MayWait(Later(age), REBOOT_TICKS)
  /\ age' = Later(age) /\ idle' = Later(idle)
  /\ UNCHANGED <<up_state, client, car_stopped, buf_len, off>>

OnTick ==
  /\ Running
  /\ Settle \/ Stall \/ Reboot \/ Wait
  /\ UNCHANGED <<chunkVars, rx, boot_partition, flash, callback>>

\* The chip restarts: after rom_reboot(), or after a power cut or the
\* watchdog at any point, a half-written chunk included; maybe from the other
\* partition, and with zeroed memory.
Restart ==
  /\ up_state' = "UP_IDLE" /\ client' = FALSE /\ car_stopped' = FALSE /\ buf_len' = 0
  /\ age' = 0 /\ idle' = 0 /\ rx' = RxZero /\ handler' = "none" /\ left' = 0 /\ off' = FALSE
  /\ boot_partition' \in DOMAIN Partitions \cup {-1}
  /\ callback' = NoCallback /\ flash' = Untouched

Next ==
  \/ OnAccept \/ OnRecv \/ OnRecvClosed \/ OnTcpErr
  \/ ChunkBlock \/ ChunkEnds \/ OnTick \/ Restart

\* The run loop keeps calling the timer, on_chunk() runs to its end, and a
\* chip told to reboot does.
Fairness ==
  /\ WF_vars(OnTick)
  /\ WF_vars(ChunkBlock \/ ChunkEnds)
  /\ WF_vars(off /\ Restart)

Spec == Init /\ [][Next]_vars /\ Fairness

-----------------------------------------------------------------------------
\* The car is stopped exactly while an upload has passed its header, and the
\* server holds a connection exactly while it waits for one: however an
\* upload ends, the car is not left stopped, nor the server deaf.
CarFollowsUpload ==
  /\ car_stopped <=> up_state \in {"UP_STOPPING", "UP_DATA", "UP_REBOOT"}
  /\ client <=> up_state \in {"UP_HEADER", "UP_STOPPING", "UP_DATA"}
  /\ handler = "on_chunk" => up_state = "UP_DATA"

NewPages == {p \in Pages : flash[p] = "new"}

\* The image in the slot is what was sent: one page for every block counted,
\* none of them erased again or written without an erase, and nothing is
\* written before the car had time to stop.
ImageIntact ==
  /\ up_state = "UP_STOPPING" => flash = Untouched
  /\ up_state \in {"UP_DATA", "UP_REBOOT"} =>
       /\ Cardinality(NewPages) = rx.next_block
       /\ \A p \in Pages : flash[p] \in {"old", "blank", "new"}
  /\ up_state = "UP_REBOOT" => rx.next_block = rx.num_blocks

\* Only pages of a partition the car does not run from are ever erased or
\* written: not the running image, not the partition table.
RunningImageUntouched ==
  \A p \in Pages :
    flash[p] # "old" =>
      \E i \in DOMAIN Partitions \ {boot_partition} :
        p * OTA_FLASH_PAGE \in SlotStart(i) .. SlotStart(i) + SlotSize(i) - 1

Phase ==
  IF off THEN "off"
  ELSE IF up_state = "UP_IDLE" THEN "idle"
  ELSE IF up_state = "UP_HEADER" THEN "connected"
  ELSE IF up_state = "UP_STOPPING" THEN "stopping"
  ELSE IF up_state = "UP_DATA" THEN "writing"
  ELSE "rebooting"

Image ==
  IF ~car_stopped \/ NewPages = {} THEN "none"
  ELSE IF Cardinality(NewPages) < rx.num_blocks THEN "part" ELSE "whole"

Update == INSTANCE UpdateSession WITH phase <- Phase, image <- Image

\* The server is the update the rest of the car counts on.
UpdateSpec == Update!Spec

\* Every upload ends, in a reboot or with the car free and the server ready
\* for the next: no PC that goes silent or sends its data drop by drop, and
\* no order of late ticks and data, keeps the car for ever.
UploadEnds == up_state # "UP_IDLE" ~> up_state = "UP_IDLE" /\ ~car_stopped

\* ota.c on close_client(): "Returns ERR_ABRT if the pcb was aborted (lwIP
\* callbacks must return that)."
AbortReported == callback.aborted => callback.returned = "ERR_ABRT"
=============================================================================
