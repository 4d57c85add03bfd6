SPECIFICATION TextSpec
CONSTANTS
  MAGNITUDE = 1024
  BIT_WEIGHTS = {1, 2, 4, 8, 16, 32, 64, 128, 256, 512, 1024, 2048}
  TRACKS = 16
  SECTORS = 4
  ADDRESS_UNIT = 2
  OPCODE_UNIT = 128
  Sources <- NoSource
  FIRST_CAPACITY = 1
  CAN_RUN_OUT = FALSE
  Texts <- SomeTexts
  LINE_CAPACITY = 24
INVARIANTS
  LinesMeanTheirText
  ErrorsPointAtTheirFields
  ImageIsSpelledByItsText
