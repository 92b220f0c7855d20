----------------------------- MODULE Lifecycle -----------------------------
(***************************************************************************)
(* What a supervisor promises about the processes of its service, without  *)
(* the loop, the files, the signals and the commands: the service has at   *)
(* most one process at any time, ./finish only follows a ./run that ended, *)
(* a new ./run is only started once everything of the last one is reaped,  *)
(* and the supervisor leaves nothing behind when it goes.                  *)
(***************************************************************************)
CONSTANT Pids

VARIABLES
  phase,   \* of the service, or "gone": the supervisor has exited
  kids,    \* the unreaped processes of the service (./run or ./finish)
  logger   \* the unreaped processes of the log service

vars == <<phase, kids, logger>>

Phases == {"down", "run", "ended", "finish", "gone"}

Init == phase = "down" /\ kids = {} /\ logger = {}

Start ==
  /\ phase = "down" /\ kids = {}
  /\ phase' = "run"
  /\ \E p \in Pids \ logger : kids' = {p}
  /\ UNCHANGED logger

(* ./run is reaped; it is "ended" when there is a ./finish to be run. *)
RunEnds ==
  /\ phase = "run"
  /\ phase' \in {"ended", "down"}
  /\ kids' = {}
  /\ UNCHANGED logger

StartFinish ==
  /\ phase = "ended" /\ kids = {}
  /\ phase' = "finish"
  /\ \E p \in Pids \ logger : kids' = {p}
  /\ UNCHANGED logger

FinishEnds ==
  /\ phase = "finish"
  /\ phase' = "down"
  /\ kids' = {}
  /\ UNCHANGED logger

StartLogger ==
  /\ phase # "gone" /\ logger = {}
  /\ \E p \in Pids \ kids : logger' = {p}
  /\ UNCHANGED <<phase, kids>>

LoggerEnds ==
  /\ phase # "gone" /\ logger # {}
  /\ logger' = {}
  /\ UNCHANGED <<phase, kids>>

Leave ==
  /\ phase = "down" /\ kids = {} /\ logger = {}
  /\ phase' = "gone"
  /\ UNCHANGED <<kids, logger>>

Next ==
  \/ Start \/ RunEnds \/ StartFinish \/ FinishEnds
  \/ StartLogger \/ LoggerEnds \/ Leave

Spec == Init /\ [][Next]_vars
=============================================================================
