CONSTANTS
  None = None
  Variants <- MCVariants
  Texts = {}
  MaxReads = 7
  Segments <- MCSegments
  Junk <- MCJunk
SPECIFICATION DSpec
INVARIANT UpsampleComplete
\* The decoder stops after Decode returns or throws.
CHECK_DEADLOCK FALSE
