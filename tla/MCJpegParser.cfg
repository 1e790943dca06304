CONSTANTS
  t1 = t1
  t2 = t2
  None = None
  Variants <- MCVariants
  MaxReads = 7
  Segments <- MCSegments
  Texts <- MCTexts
SPECIFICATION Spec
INVARIANT TypeOK
INVARIANT ScanMatchesFrame
PROPERTY ImplementsRawImage
\* The decoder stops after EOI or after the first exception.
CHECK_DEADLOCK FALSE
