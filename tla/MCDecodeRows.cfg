SPECIFICATION CheckSpec
CONSTANTS
  Legacies <- MCLegacies
  Rexes <- MCRexes
  ModRMs <- MCModRMs
  Sibs <- MCSibs
INVARIANT RowsComplete
CHECK_DEADLOCK FALSE
