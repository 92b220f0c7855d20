SPECIFICATION Spec
CONSTANTS
  HasLog = FALSE
  Pids = {1, 2}
  Commands = {"d", "u", "t", "k"}
  Scripts = {"t"}
  FinishFile = {TRUE}
  Outcomes = {"ok", "nopid", "emptypid"}
  Codes = {0}
  MaxFifo = 1
INVARIANTS
  SignalsHitOwnChild
  
