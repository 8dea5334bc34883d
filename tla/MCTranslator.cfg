SPECIFICATION Spec
CONSTANTS
  p = p
  q = q
  r = r
  PCs = {p, q, r}
  SizeOf <- MCSizeOf
  TSlot <- MCTSlot
  BSlot <- MCBSlot
  ArenaSize = 3
  None = None
INVARIANTS TypeOK TableIntact BlocksIntact
PROPERTIES RefinesTranslationMap
