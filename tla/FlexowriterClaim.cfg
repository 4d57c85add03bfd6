SPECIFICATION BatchSpec
CONSTANTS
  MAGNITUDE = 1024
  BIT_WEIGHTS = {1, 2, 4, 8, 16, 32, 64, 128, 256, 512, 1024, 2048}
  TRACKS = 64
  SECTORS = 1
  ADDRESS_UNIT = 2
  OPCODE_UNIT = 128
  TICKS_PER_SECTOR = 1
  TICK_RANGE = 1
  INPUT_SHIFTS = 3
  DIGIT_WEIGHTS <- DigitWeights
  INPUT_STOP_CODE = 32
  Images <- EmptyDrum
  StartAddresses = {0}
  Tapes <- BatchTapes
  CAN_BLOCK = FALSE
  Files <- BatchFiles
  CommandLines <- BatchCommandLines
  DEFAULT_MAX_STEPS = 8
INVARIANTS
  DigitCodesEnterDigits
