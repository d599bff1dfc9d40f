SPECIFICATION SSpec
CONSTANTS
  WORD = 64
  OTA_XIP_BASE = 16
  OTA_FLASH_PAGE = 2
  OTA_FLASH_SECTOR = 4
  FAMILY = FAMILY
  OtherFamily = OtherFamily
  Headers = {}
  Blocks = {}
  HEADER_SIZE = 2
  CHUNK_SIZE = 2
  CHUNK_BLOCKS = 2
  SETTLE_TICKS = 1
  IDLE_TICKS = 1
  REBOOT_TICKS = 1
  FLASH_SECTORS = 6
  Partitions <- MCPartitions
  NUM_BLOCKS = 3
  REPLY_SIZE = 2
INVARIANTS STypeOK LockStep VerdictTrue
PROPERTY RetrySucceeds
