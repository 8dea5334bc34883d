SPECIFICATION Spec
CONSTANTS
  a = a
  b = b
  c = c
  p = p
  q = q
  Runners = {r1, r2}
  Binaries = {a, b, c}
  Entry <- MCEntry
  Slot <- MCSlot
  None = None
  Blank = Blank
PROPERTIES HitsRun
CHECK_DEADLOCK FALSE
