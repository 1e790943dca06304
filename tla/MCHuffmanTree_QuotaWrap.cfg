CONSTANTS
  None = None
  ValuesSlack <- MCWrapSlack
  Histograms <- MCWrapHistograms
SPECIFICATION HSpec
INVARIANT
  BuildAcceptsIffKraft
CHECK_DEADLOCK FALSE
