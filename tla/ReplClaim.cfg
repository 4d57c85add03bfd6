SPECIFICATION ReplSpec
CONSTANTS
  MAGNITUDE = 64
  BIT_WEIGHTS = {1, 2, 4, 8, 16, 32, 64, 128}
  TRACKS = 2
  SECTORS = 2
  ADDRESS_UNIT = 2
  OPCODE_UNIT = 8
  TICKS_PER_SECTOR = 1
  TICK_RANGE = 2
  INPUT_SHIFTS = 2
  DIGIT_WEIGHTS <- DigitWeights
  INPUT_STOP_CODE = 32
  Images <- EmptyDrum
  StartAddresses = {0}
  Tapes <- NoTape
  CAN_BLOCK = FALSE
  Files <- ReplFiles
  MAX_RUN_STEPS = 4
PROPERTIES
  BreakpointStopsRun
