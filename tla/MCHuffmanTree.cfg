CONSTANTS
  None = None
  ValuesSlack <- MCApiSlack
  Histograms <- MCHistograms
SPECIFICATION HSpec
INVARIANTS
  HTypeOK
  NoReadPastLengths
  BuildsCanonicalCode
  BuildAcceptsIffKraft
  DecodesAsCoded
PROPERTIES
  WalkEnds
CHECK_DEADLOCK FALSE
