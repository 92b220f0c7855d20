SPECIFICATION SvSpec
CONSTANTS
  HasLog = FALSE
  Pids = {1, 2}
  Commands = {"d", "u", "x", "t", "c", "o", "k"}
  Scripts = {}
  FinishFile = {FALSE}
  Outcomes = {"ok"}
  Codes = {0}
  MaxFifo = 1
  Actions = {"up", "once", "restart", "force-stop", "exit"}
  Verbose = {FALSE}
  CheckScript = {TRUE}
  WaitSec = 1
  MaxRuns = 2
INVARIANTS
  RestartIsNew
PROPERTIES
  DownObeyed
  UpObeyed
