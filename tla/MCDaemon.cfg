SPECIFICATION Spec
CONSTANTS
  Fds <- MCFds
  Stdin = 0
  Configs <- MCConfigs
  Stderr = 2
  Maps = {m1}
  Signals = {SIGSEGV, SIGABRT}
  Remaps = FALSE
  None = None
INVARIANTS TypeOK NothingLost ChannelsOpen
PROPERTIES ClosesItsOwn CrashReleases
CHECK_DEADLOCK FALSE
