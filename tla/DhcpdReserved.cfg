SPECIFICATION Spec
CONSTANTS
  Macs = {"m1"}
  NumIps = 3
  Ask = {0}
  CheckArp = FALSE
  ReleaseOnQuit = TRUE
  Retries = 2
  Pause = 1
  TryAgain = 2
  RenewMin = 2
  LeaseTime = 6
  QueueLen = 2
  Events = {"arp", "stop"}
  MaxEvents = 3
  MaxLeases = 2
  Unusable = {}
  StaticMacs = {}
  StaticNip = 1
  OfferTime = 3
  DeclineTime = 3
  ConflictTime = 3
  StaleTime = 4
  Wrap = 100
  MaxTime = 9
CHECK_DEADLOCK FALSE
INVARIANT ReservationsLoaded
