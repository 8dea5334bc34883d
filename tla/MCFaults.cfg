SPECIFICATION Spec
CONSTANTS
  Signals = {"SIGSEGV", "SIGFPE"}
  Types = {"TRAP", "DAT_ABORT", "FP"}
  Handlers = {fix, test}
  Answer <- MCAnswer
  Raising = {}
  HandlerFaults = {"SIGSEGV", "SIGFPE"}
  Addrs = {a}
  None = None
  MaxDepth = 3
  fix = fix
  test = test
INVARIANTS TypeOK InfoWhole NoReentry
PROPERTIES FaultEnds
CHECK_DEADLOCK FALSE
