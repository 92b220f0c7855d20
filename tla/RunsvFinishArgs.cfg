SPECIFICATION Spec
CONSTANTS
  HasLog = TRUE
  Pids = {1, 2}
  Commands = {"d"}
  Scripts = {}
  FinishFile = {TRUE}
  Outcomes = {"ok"}
  Codes = {0, 1}
  MaxFifo = 1
PROPERTY FinishStatusKept
