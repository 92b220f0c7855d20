\* Two hosts, two addresses, the times of the code in seconds.
CONSTANTS
  Hosts = {h1, h2}
  NumAddrs = 2
  Ask = {0, 1}
  Quit = {FALSE, TRUE}
  PROBE_WAIT = 1  PROBE_MIN = 1  PROBE_MAX = 2  PROBE_NUM = 3
  ANNOUNCE_INTERVAL = 2  ANNOUNCE_NUM = 3
  CONFLICT_MULTIPLIER = 2  DEFEND_INTERVAL = 4
  ScriptTime = 1
  MaxConflicts = 1
  MaxLoss = 3
  Events = {"cut", "linkdown"}
  MaxEvents = 1
SPECIFICATION Spec
INVARIANTS NoDuplicate
PROPERTIES ConflictEnds GetsAddress
CHECK_DEADLOCK FALSE
