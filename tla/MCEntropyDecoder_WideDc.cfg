CONSTANTS
  Blocks = 1
  Variants <- MCVariants
  Inputs <- MCWideInputs
  DcTable <- MCWideDcTable
  AcTable <- MCAcTable
SPECIFICATION ESpec
INVARIANT
  DcMatchesReference
CHECK_DEADLOCK FALSE
