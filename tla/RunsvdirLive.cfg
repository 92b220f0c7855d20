SPECIFICATION FairSpec
CONSTANTS
  Dirs = {"a", "b"}
  Pids = {1, 2, 3}
  IsInit = FALSE
  HasScript = FALSE
  Signals = {}
  Failures = {"statdir", "chdir", "opendir", "readdir", "realloc"}
  MaxFails = 1
  MaxChanges = 2
PROPERTIES
  Served
  RemovedStopped
INVARIANT KillsOwnChild
