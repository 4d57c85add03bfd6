SPECIFICATION SpecWithHistory
CONSTANTS
  MAGNITUDE = 64
  BIT_WEIGHTS = {1, 2, 4, 8, 16, 32, 64, 128}
  TRACKS = 2
  SECTORS = 2
  ADDRESS_UNIT = 2
  OPCODE_UNIT = 8
  TICKS_PER_SECTOR = 3
  TICK_RANGE = 32
  INPUT_SHIFTS = 2
  DIGIT_WEIGHTS <- DigitWeights
  INPUT_STOP_CODE = 32
  Images <- SmallImages
  StartAddresses = {0, 3}
  Tapes <- SmallTapes
  CAN_BLOCK = TRUE
INVARIANTS
  TypeOK
  DrumSpacerClear
  InputProtocol
  MidWordAccounting
  OverflowIsEvident
PROPERTIES
  OnlyInputRaisesSpacer
  AddressStoresKeepOpcode
  DrumChargesEachAccess
  ReadsWholeWords
