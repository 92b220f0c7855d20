SPECIFICATION FairSpec
CONSTANTS
  LineMax = 2
  SizeMax = 4
  NMax = 3
  NMin = 2
  HasProcessor = TRUE
  Newlines = {TRUE}
  Outcomes = {"ok", "fail"}
  Events = {"crash", "HUP", "ALRM", "timer", "full", "fail"}
  MaxEvents = 2
  MaxInput = 6
CHECK_DEADLOCK FALSE
INVARIANTS
  Kept
  
  InOrder
  
PROPERTY TermServed
