CONSTANTS
  Blocks = 2
  Variants <- MCVariants
  Inputs <- MCInputs
  DcTable <- MCDcTable
  AcTable <- MCAcTable
SPECIFICATION ESpec
INVARIANTS
  EDTypeOK
  BitsMatchStream
  AcMatchesReference
  DcMatchesReference
  AlignedAtByte
CHECK_DEADLOCK FALSE
