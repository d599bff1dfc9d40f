SPECIFICATION Spec
CONSTANTS
  DRIVE_OUTPUT_CAP = 2
  DRIVE_LIMITED_MAX = 2
  DRIVE_FULL_MAX = 2
  DRIVE_NEUTRAL = 2
  DRIVE_MIN_OUTPUT = 1
  DRIVE_ARM_TRIGGER_MAX = 2
  RAMP_UP_STEP = 2
  RAMP_RELEASE_STEP = 1
  RAMP_REVERSE_STEP = 1
  RAMP_REVERSE_HOLD_FRAMES = 2
  NoPad = NoPad
  Devices = {c1, c2}
  Gamepads = {c1, c2}
  Reports <- MCReports
  SETTLE_FRAMES = 4
INVARIANTS TypeOK NoWriteWhileDriving PausedWhileUpdating
PROPERTIES StopsWithinAFrame DriveSpec
