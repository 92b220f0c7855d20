SPECIFICATION FairSpec
CONSTANTS
  HasLog = TRUE
  Pids = {1, 2}
  Commands = {"d", "x"}
  Scripts = {}
  FinishFile = {TRUE}
  Outcomes = {"ok"}
  Codes = {0}
  MaxFifo = 1
INVARIANTS
  ExitClean
  
PROPERTIES
  ExitServed
