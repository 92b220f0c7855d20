SPECIFICATION Spec
CONSTANTS
  m1 = m1
  m2 = m2
  Macs = {m1, m2}
  NumIps = 3
  Ask = {0, 3}
  CheckArp = TRUE
  ReleaseOnQuit = TRUE
  Retries = 2
  Pause = 1
  TryAgain = 3
  RenewMin = 2
  LeaseTime = 6
  QueueLen = 2
  Events = {"USR1", "USR2", "TERM", "loss", "arp", "save", "stop", "crash", "unsaved", "torn"}
  MaxEvents = 2
  MaxLeases = 2
  Unusable = {3}
  StaticMacs = {}
  StaticNip = 1
  OfferTime = 3
  DeclineTime = 3
  ConflictTime = 3
  StaleTime = 4
  Wrap = 100
  MaxTime = 8
SYMMETRY Symmetry
CHECK_DEADLOCK FALSE
INVARIANTS
  TypeOK
  TableUnique
  NoSharedAddress
  
  OfferHeld
