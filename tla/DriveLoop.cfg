SPECIFICATION BSpec
CONSTANTS
  DRIVE_OUTPUT_CAP = 50
  DRIVE_LIMITED_MAX = 75
  DRIVE_FULL_MAX = 100
  DRIVE_NEUTRAL = 2
  DRIVE_MIN_OUTPUT = 10
  DRIVE_ARM_TRIGGER_MAX = 2
  RAMP_UP_STEP = 20
  RAMP_RELEASE_STEP = 2
  RAMP_REVERSE_STEP = 10
  RAMP_REVERSE_HOLD_FRAMES = 3
  NoPad = NoPad
  Inputs <- MCInputs
INVARIANTS HTypeOK DriveSafe HInv BridgeSafe
PROPERTIES SlewBounded RampProgress ArmNeedsFreshPress ReverseHold NoPlugging
