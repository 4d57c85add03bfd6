SPECIFICATION RoutineSpec
CONSTANTS
  MAGNITUDE = 1024
  BIT_WEIGHTS = {1, 2, 4, 8, 16, 32, 64, 128, 256, 512, 1024, 2048}
  TRACKS = 4
  SECTORS = 4
  ADDRESS_UNIT = 8
  OPCODE_UNIT = 128
  TICKS_PER_SECTOR = 1
  TICK_RANGE = 1024
  INPUT_SHIFTS = 3
  DIGIT_WEIGHTS <- DigitWeights
  INPUT_STOP_CODE = 32
  Images <- RoutineImages
  StartAddresses <- RoutineStarts
  Tapes <- RoutineTapes
  CAN_BLOCK = FALSE
  LOAD_ADDRESS = 12
INVARIANTS
  LoaderFillsMemory
PROPERTIES
  LoaderHaltsAtEnd
  CallsReturn
  InputTerminates
