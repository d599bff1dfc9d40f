SPECIFICATION Spec
CONSTANTS
  WORD = 64
  OTA_XIP_BASE = 16
  OTA_FLASH_PAGE = 2
  OTA_FLASH_SECTOR = 4
  FAMILY = FAMILY
  OtherFamily = OtherFamily
  Headers <- MCHeaders
  Blocks <- MCBlocks
  HEADER_SIZE = 2
  CHUNK_SIZE = 2
  CHUNK_BLOCKS = 2
  SETTLE_TICKS = 1
  IDLE_TICKS = 2
  REBOOT_TICKS = 2
  FLASH_SECTORS = 6
  Partitions <- MCPartitions
INVARIANT AbortReported
