SPECIFICATION ArithmeticSpec
CONSTANTS
  MAGNITUDE = 16
  BIT_WEIGHTS = {1, 2, 4, 8, 16, 32}
  TRACKS = 1
  SECTORS = 1
  ADDRESS_UNIT = 2
  OPCODE_UNIT = 2
PROPERTIES
  MMultiplyNeverOverflows
CHECK_DEADLOCK FALSE
