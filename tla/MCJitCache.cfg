SPECIFICATION Spec
CONSTANTS
  p1 = p1
  p2 = p2
  p3 = p3
  PCs = {p1, p2, p3}
  NoPC = NoPC
  Slots = {0, 1}
  SlotOf <- MCSlotOf
  CacheSize = 4
  PageSize = 2
  BlockSizes = {1, 2}
  AllocSizes = {1}
  Alignments = {1, 2}
  Word = 64
  MaxBlocks = 2
  MaxHits = 1
INVARIANTS TypeOK CodeIntact RegionIntact
PROPERTIES NoRewindUnderCode RefinesTranslationMap
CHECK_DEADLOCK FALSE
