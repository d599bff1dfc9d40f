------------------------------ MODULE OtaLogic ------------------------------
(***************************************************************************)
(* The pure half of an over-the-air update, firmware/src/ota_logic.c: the  *)
(* checks on the header and on every UF2 block, and the flash address each *)
(* block goes to.  No variables: ota_rx_t is the record rx.                *)
(*                                                                         *)
(* Addresses are uint32_t: they wrap at WORD.  The geometry of the flash   *)
(* is CONSTANT, so that TLC can check it on a few pages.                   *)
(***************************************************************************)
EXTENDS Integers

CONSTANTS
  WORD,                 \* 2^32
  OTA_XIP_BASE,         \* the address images are linked at
  OTA_FLASH_PAGE,       \* bytes of a page: what a block carries
  OTA_FLASH_SECTOR,     \* bytes of a sector: what is erased at once
  FAMILY,               \* OTA_FAMILY_RP2350_ARM_S
  OtherFamily           \* the ID of another chip

ASSUME OtaAssumption ==
  /\ OTA_FLASH_PAGE \in Nat \ {0}
  /\ OTA_FLASH_SECTOR \in Nat \ {0} /\ OTA_FLASH_SECTOR % OTA_FLASH_PAGE = 0
  /\ OTA_XIP_BASE \in Nat /\ OTA_XIP_BASE % OTA_FLASH_PAGE = 0
  /\ WORD \in Nat /\ OTA_XIP_BASE < WORD
  /\ FAMILY # OtherFamily

Families == {FAMILY, OtherFamily}

Words == 0 .. WORD - 1

\* ota_header_t and what ota_header_parse() checks before it: magic is "the
\* first 8 bytes are LEGOOTA1"; token is "the token field is OTA_TOKEN,
\* zero padded, and OTA_TOKEN is a token of 1..47 characters".
Header == [magic : BOOLEAN, token : BOOLEAN, family : Families, num_blocks : Words]

\* One UF2 block; valid: its magics, flags and payload size are right.
Block == [valid : BOOLEAN, family : Families, block_no : Words, num_blocks : Words,
          target : Words]

\* ota_rx_t
Rx == [slot_start : Words, slot_size : Words, family : Families \cup {0},
       num_blocks : Words, next_block : Words, next_addr : Words, erased_end : Words]

RxZero == [slot_start |-> 0, slot_size |-> 0, family |-> 0, num_blocks |-> 0,
           next_block |-> 0, next_addr |-> 0, erased_end |-> 0]

-----------------------------------------------------------------------------
ota_header_parse(h) ==
  IF ~h.magic THEN "OTA_ERR_MAGIC"
  ELSE IF ~h.token THEN "OTA_ERR_TOKEN"
  ELSE IF h.family # FAMILY THEN "OTA_ERR_FAMILY"
  ELSE IF h.num_blocks = 0 THEN "OTA_ERR_SIZE"
  ELSE "OTA_OK"

\* The receiver for a slot; the size is compared in 64 bits.  A header that
\* does not fit leaves a zeroed receiver behind.
ota_rx_init(h, slot_start, slot_size) ==
  IF h.num_blocks * OTA_FLASH_PAGE > slot_size
  THEN [status |-> "OTA_ERR_SIZE", rx |-> RxZero]
  ELSE [status |-> "OTA_OK",
        rx |-> [RxZero EXCEPT !.slot_start = slot_start, !.slot_size = slot_size,
                              !.family = h.family, !.num_blocks = h.num_blocks,
                              !.next_addr = OTA_XIP_BASE, !.erased_end = slot_start]]

ota_rx_done(rx) == rx.num_blocks > 0 /\ rx.next_block >= rx.num_blocks

\* The address a block asks for is in the slot, on a page and above all
\* addresses before it.
TargetOk(rx, target) ==
  /\ target >= rx.next_addr
  /\ target % OTA_FLASH_PAGE = 0
  /\ (target - OTA_XIP_BASE) % WORD <= (rx.slot_size - OTA_FLASH_PAGE) % WORD

BlockStatus(rx, block) ==
  IF ota_rx_done(rx) THEN "OTA_ERR_PROTOCOL"
  ELSE IF ~block.valid THEN "OTA_ERR_UF2"
  ELSE IF block.family # rx.family THEN "OTA_ERR_FAMILY"
  ELSE IF block.block_no # rx.next_block \/ block.num_blocks # rx.num_blocks
       THEN "OTA_ERR_ORDER"
  ELSE IF ~TargetOk(rx, block.target) THEN "OTA_ERR_ADDR"
  ELSE "OTA_OK"

\* The flash offset of a target address, and of the sector it lies in.
Offset(rx, target) == (rx.slot_start + target - OTA_XIP_BASE) % WORD
SectorOf(offset) == offset - (offset % OTA_FLASH_SECTOR)

\* What ota_rx_block() has the caller write: the page at offset, after the
\* erase of its sector if no block before touched that sector.
ota_write(rx, block) ==
  LET offset == Offset(rx, block.target)
  IN  [erase |-> offset >= rx.erased_end, erase_offset |-> SectorOf(offset), offset |-> offset]

\* Faulty variant: the erased part of the slot is not remembered.
ota_rx_next_erases_again(rx, block) ==
  [rx EXCEPT !.next_block = (@ + 1) % WORD,
             !.next_addr = (block.target + OTA_FLASH_PAGE) % WORD]

\* The receiver after a good block: counted before it is written.
ota_rx_next(rx, block) ==
  LET w == ota_write(rx, block)
  IN  [rx EXCEPT !.erased_end = IF w.erase
                                THEN (w.erase_offset + OTA_FLASH_SECTOR) % WORD
                                ELSE @,
                 !.next_block = (@ + 1) % WORD,
                 !.next_addr = (block.target + OTA_FLASH_PAGE) % WORD]
=============================================================================
