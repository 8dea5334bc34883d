SPECIFICATION Spec
CONSTANTS
  Addrs = {1, 2, 3}
  Bytes <- MCBytes
  Memories <- MCMemories
  DecodeAt <- MCDecode
  Covers <- MCCovers
  SlotOf <- MCSlotOf
  Insertable <- MCInsertable
  None = None
  MaxCount = 3
INVARIANTS TypeOK CachedIsCurrent StatsAgree
