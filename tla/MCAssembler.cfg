SPECIFICATION AsmImageSpec
CONSTANTS
  MAGNITUDE = 256
  BIT_WEIGHTS = {1, 2, 4, 8, 16, 32, 64, 128, 256, 512}
  TRACKS = 4
  SECTORS = 4
  ADDRESS_UNIT = 2
  OPCODE_UNIT = 32
  Sources <- ShortPrograms
  FIRST_CAPACITY = 1
  CAN_RUN_OUT = TRUE
  START_RANGE = 32
  OtherFiles <- ForeignFiles
INVARIANTS
  AsmTypeOK
  ErrorsFitTheirBuffer
  ImageHoldsAcceptedLines
  ImageHasNoSpacer
  EveryLineIsAccountedFor
  WholeImageRoundTrips
  CutImageIsAPart
  ReadsWhatTheFileSays
