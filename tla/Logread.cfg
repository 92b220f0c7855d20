CONSTANTS
  Size = 6
  Lens = {2, 3}
  Readers = {r1}
  Options = {"", "f", "F"}
  MaxMsgs = 6
  MaxKills = 1
SPECIFICATION Spec
INVARIANTS TypeOK  PrintsWhole FollowsExactly
PROPERTIES  CatchesUp
CHECK_DEADLOCK FALSE
