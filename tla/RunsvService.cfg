SPECIFICATION FairSpec
CONSTANTS
  HasLog = FALSE
  Pids = {1, 2}
  Commands = {"d", "u", "x", "t", "p", "c", "o", "h"}
  Scripts = {}
  FinishFile = {TRUE, FALSE}
  Outcomes = {"ok"}
  Codes = {0}
  MaxFifo = 1
INVARIANTS
  TypeOK
  NoLostChild
  StatusAgrees
  Throttle
PROPERTIES
  LifecycleSpec
  UpServed
  ExitServed
  ZombieReaped
