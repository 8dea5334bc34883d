SPECIFICATION CheckSpec
CONSTANTS
  Legacies <- MCLegacies
  Rexes <- MCRexes
  ModRMs <- MCModRMs
  Sibs <- MCSibs
INVARIANTS LengthsRight FastPathsAgree LooksNoFurther
CHECK_DEADLOCK FALSE
