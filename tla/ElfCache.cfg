SPECIFICATION Spec
CONSTANTS
  Clients = {c1, c2}
  Files = {f1, f2}
  Binaries = {b1, b2, b3}
  CacheEntries = 2
  None = None
  MaxVersion = 2
INVARIANTS TypeOK HeldLive CachedLive EntriesDistinct
PROPERTIES RefinesFileHandles
CHECK_DEADLOCK FALSE
