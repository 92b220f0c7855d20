--------------------------------- MODULE Sv ---------------------------------
(***************************************************************************)
(* sv: the client of runsv.  It reads supervise/status, writes commands to *)
(* supervise/control, and, for the commands that wait, polls the status    *)
(* until it shows the effect or the time is over.                          *)
(* busybox-1.32.0/runit/sv.c, composed with Runsv, the other side of these *)
(* two files.                                                              *)
(*                                                                         *)
(* One user runs sv up to MaxRuns times for svd[0].  Reading the status    *)
(* and writing the fifo are separate steps; runsv runs in between.  The    *)
(* times in whole seconds that sv compares are kept as the truth values of *)
(* the comparisons.                                                        *)
(***************************************************************************)
EXTENDS Runsv

CONSTANTS
  Actions,     \* the commands sv is called with, as the user spells them
  Verbose,     \* option -v: a subset of BOOLEAN
  CheckScript, \* what ./check can say of a running service: a subset of BOOLEAN
  WaitSec,     \* the seconds to wait, 7 unless -w or SVWAIT says otherwise
  MaxRuns      \* bound: calls of sv

AllActions ==
  {"up", "down", "once", "pause", "cont", "hup", "term", "kill", "exit",
   "status", "check", "start", "stop", "reload", "restart", "try-restart",
   "shutdown", "force-stop", "force-reload", "force-restart", "force-shutdown"}

ASSUME SvAssumption ==
  /\ Actions \subseteq AllActions
  /\ Verbose \in (SUBSET BOOLEAN) \ {{}}
  /\ CheckScript \in (SUBSET BOOLEAN) \ {{}}
  /\ WaitSec \in Nat
  /\ MaxRuns \in Nat

VARIABLES
  svpc,        \* what sv does next, "idle" when it is not running
  action, waits, rc,   \* the command, cbk # NULL, and whether rc is not 0
  clock, diff, \* seconds since tstart, and as last read: tnow - tstart
  newstart,    \* svd[0].start >= tstart
  newtime,     \* the time in supervise/status >= tstart
  freshtime,   \* the time in supervise/status is the current second
  runsleft,    \* calls of sv still to come
  taken,       \* history: runsv has the command, see Control
  samesec,     \* history: svd[0].start was the second in which sv began
  started      \* history: ./run was started since sv began

timeVars == <<clock, diff, newstart, newtime>>
histVars == <<samesec, started>>
callVars == <<action, waits, runsleft>>
svVars == <<svpc, rc, taken, freshtime, timeVars, histVars, callVars>>
allVars == <<vars, svVars>>

-----------------------------------------------------------------------------
(* The switch on the action: the characters to send, whether sv waits for  *)
(* them to take effect, and whether it sends k when they do not.           *)

Acts(a) ==
  CASE a \in {"up", "start"}                                -> <<"u">>
    [] a \in {"down", "stop", "force-stop"}                 -> <<"d">>
    [] a \in {"exit", "shutdown", "force-shutdown"}         -> <<"x">>
    [] a \in {"restart", "force-restart"}                   -> <<"t", "c", "u">>
    [] a \in {"try-restart", "force-reload"}                -> <<"t", "c">>
    [] a \in {"hup", "reload"}                              -> <<"h">>
    [] a = "once"  -> <<"o">>
    [] a = "pause" -> <<"p">>
    [] a = "cont"  -> <<"c">>
    [] a = "term"  -> <<"t">>
    [] a = "kill"  -> <<"k">>
    [] a = "check" -> <<"C">>
    [] a = "status" -> <<"s">>

Kll(a) == a \in {"force-stop", "force-reload", "force-restart", "force-shutdown"}

HasCbk(a, v) ==
  \/ a \in {"check", "start", "stop", "reload", "restart", "try-restart", "shutdown"}
  \/ Kll(a)
  \/ v /\ a # "status"

(* runsv holds supervise/ok open for reading, from the end of its start-up *)
(* to its exit; otherwise open fails with ENXIO, which svstatus_get and    *)
(* control take for an error like any other: rc is increased.              *)
RunsvOk == pc # "exited" /\ ~ (pc = "startlog" /\ todo # <<>>)

(* control does not write a command that the status shows in force.        *)
BugSkipsUp(a) ==
  \/ Head(a) = "u" /\ status[0].state = S_RUN
  \/ Head(a) = "d" /\ status[0].want = "d" /\ status[0].got_term
Skips(a) == status[0].want = Head(a) /\ (Head(a) # "d" \/ status[0].got_term)

(* One character of check: the status shows what it asks for.              *)
BugShows(c) ==
  LET st == status[0] IN
  CASE c = "u" -> st.pid # 0 /\ st.state = S_RUN
    [] c = "t" -> (st.pid = 0 /\ st.want = "d") \/ (st.pid # 0 /\ ~ st.got_term)
    [] OTHER   -> TRUE
Shows(c) ==
  LET st == status[0]
      up == st.pid # 0 IN
  CASE c = "u" -> up /\ st.state = S_RUN /\ TRUE \in CheckScript
    [] c = "d" -> ~ up /\ st.state = S_DOWN
    [] c = "C" -> up => TRUE \in CheckScript
    [] c \in {"t", "k"} -> \/ ~ up /\ st.want = "d"
                           \/ newtime /\ up /\ ~ st.got_term /\ TRUE \in CheckScript
    [] c = "o" -> IF up THEN st.want = "d" ELSE newtime
    [] c = "p" -> up => st.paused
    [] c = "c" -> up => ~ st.paused
    [] c = "x" -> FALSE
    [] OTHER   -> TRUE

(* It does not show it, or ./check, run for a live service, denies it.     *)
Denies(c) ==
  \/ ~ Shows(c)
  \/ c \in {"u", "C", "t", "k"} /\ status[0].pid # 0 /\ FALSE \in CheckScript

-----------------------------------------------------------------------------
(* The steps of sv.  In each of them runsv stands still. *)

Begin(a, v) ==
  /\ svpc = "idle"
  /\ runsleft > 0
  /\ runsleft' = runsleft - 1
  /\ action' = a
  /\ waits' = HasCbk(a, v)
  /\ svpc' = IF a \in {"check", "status"} THEN "check" ELSE "control"
  /\ rc' = FALSE
  /\ clock' = 0 /\ diff' = 0
  /\ newstart' = fresh[0] /\ newtime' = freshtime
  /\ taken' = FALSE /\ started' = FALSE /\ samesec' = fresh[0]
  /\ UNCHANGED <<vars, freshtime>>

(* sv goes on, or ends with the given rc: its only service is "dead" now,  *)
(* and the times it compared are of no use any more.                       *)
GoesOn(place) == svpc' = place /\ UNCHANGED <<rc, timeVars>>
Ends(code) ==
  /\ svpc' = "idle" /\ rc' = code
  /\ clock' = 0 /\ diff' = 0 /\ newstart' = FALSE /\ newtime' = FALSE
AfterAct == IF waits THEN GoesOn("check") ELSE Ends(rc)

(* A skipped command counts as taken when it was in force, and nothing     *)
(* that runsv still had to read or to do could undo it.                    *)
Control ==
  /\ svpc = "control"
  /\ \/ /\ ~ RunsvOk
        /\ Ends(TRUE)
        /\ UNCHANGED taken
     \/ /\ RunsvOk
        /\ Skips(Acts(action))
        /\ AfterAct
        /\ taken' = (control[0] = <<>> /\ todo = <<>> /\ ~ status[0].paused)
     \/ /\ RunsvOk
        /\ ~ Skips(Acts(action))
        /\ GoesOn("write")
        /\ UNCHANGED taken
  /\ UNCHANGED <<vars, freshtime, histVars, callVars>>

WriteFifo(cs) ==
  /\ control' = [control EXCEPT ![0] = @ \o cs]
  /\ UNCHANGED <<svdVars, fileVars, mainVars, sigVars, todo, proc, starts>>

Write ==
  /\ svpc = "write"
  /\ \/ /\ pc = "exited"
        /\ Ends(TRUE)
        /\ UNCHANGED <<vars, taken>>
     \/ /\ pc # "exited"
        /\ WriteFifo(Acts(action))
        /\ AfterAct
        /\ taken' = TRUE
  /\ UNCHANGED <<freshtime, histVars, callVars>>

(* cbk = check; the status command, too, looks at the file once, and       *)
(* increases rc when there is no runsv.                                    *)
Check ==
  /\ svpc = "check"
  /\ \/ ~ RunsvOk /\ Ends(TRUE)
     \/ /\ RunsvOk
        /\ \A c \in Range(Acts(action)) : Shows(c)
        /\ Ends(FALSE)
     \/ /\ RunsvOk
        /\ \E c \in Range(Acts(action)) : Denies(c)
        /\ GoesOn(IF diff >= WaitSec THEN "late" ELSE "nap")
  /\ UNCHANGED <<vars, taken, freshtime, histVars, callVars>>

(* usleep, and time() again. *)
Nap ==
  /\ svpc = "nap"
  /\ svpc' = "check"
  /\ diff' = clock
  /\ UNCHANGED <<vars, rc, clock, newstart, newtime, taken, freshtime, histVars,
                 callVars>>

(* "timeout: " or "kill: ", rc is increased in any case. *)
Late ==
  /\ svpc = "late"
  /\ IF Kll(action) THEN GoesOn("kill") ELSE Ends(TRUE)
  /\ UNCHANGED <<vars, taken, freshtime, histVars, callVars>>

(* control("k"): the status never shows k, so it is written. *)
BugSendKill ==
  /\ svpc = "kill"
  /\ Ends(TRUE)
  /\ IF RunsvOk THEN WriteFifo(Acts(action)) ELSE UNCHANGED vars
  /\ UNCHANGED <<taken, freshtime, histVars, callVars>>
SendKill ==
  /\ svpc = "kill"
  /\ Ends(TRUE)
  /\ IF RunsvOk THEN WriteFifo(<<"k">>) ELSE UNCHANGED vars
  /\ UNCHANGED <<taken, freshtime, histVars, callVars>>

SvStep == Control \/ Write \/ Check \/ Nap \/ Late \/ SendKill

-----------------------------------------------------------------------------
(* runsv's steps, with what they do to the times sv compares.              *)

StartsRun == Calling("fork") /\ Head(todo).s = 0 /\ state[0] # S_FINISH
WritesStatus == Calling("update") /\ Head(todo).s = 0

(* update_status writes svd[0].start into the file; where it sets start, a *)
(* step makes it the current second, which is not before tstart.           *)
Stamps ==
  /\ newstart' = (svpc # "idle" /\ (newstart \/ fresh'[0]))
  /\ newtime' = IF WritesStatus THEN newstart ELSE newtime
  /\ freshtime' = IF WritesStatus THEN fresh[0] ELSE freshtime
  /\ started' = (started \/ (StartsRun /\ svpc # "idle"))
  /\ UNCHANGED <<svpc, rc, clock, diff, taken, callVars, samesec>>

RunsvTurn == Runsv /\ Stamps
RunsvTimeout == PollTimeout /\ Stamps
ChildEnds(p) == Terminate(p) /\ UNCHANGED svVars

(* A second passes; the clock of sv stops when there is nothing to wait    *)
(* for any more.                                                           *)
SecondPasses ==
  /\ Tick
  /\ freshtime' = FALSE
  /\ clock' = IF svpc # "idle" /\ clock < WaitSec THEN clock + 1 ELSE clock
  /\ UNCHANGED <<svpc, rc, diff, newstart, newtime, taken, histVars, callVars>>

SvInit ==
  /\ Init
  /\ svpc = "idle" /\ action = "status" /\ waits = FALSE /\ rc = FALSE
  /\ clock = 0 /\ diff = 0
  /\ newstart = FALSE /\ newtime = FALSE /\ freshtime = FALSE
  /\ runsleft = MaxRuns
  /\ taken = FALSE /\ samesec = FALSE /\ started = FALSE

SvNext ==
  \/ \E a \in Actions, v \in Verbose : Begin(a, v)
  \/ SvStep
  \/ RunsvTurn \/ RunsvTimeout
  \/ \E p \in Pids : ChildEnds(p)
  \/ SecondPasses

(* sv and runsv are processes that the kernel schedules, and time passes;  *)
(* users need not call sv.  Here a service may ignore SIGTERM: only        *)
(* SIGKILL is sure to end it, and ./finish ends by itself.                 *)
SureToEnd(p) == "KILL" \in proc[p].sig \/ proc[p].role = "finish"

SvSpec ==
  /\ SvInit /\ [][SvNext]_allVars
  /\ WF_allVars(SvStep)
  /\ WF_allVars(RunsvTurn)
  /\ WF_allVars(SecondPasses)
  /\ \A p \in Pids : WF_allVars(SureToEnd(p) /\ ChildEnds(p))

-----------------------------------------------------------------------------
(* Properties. *)

(* The type invariant of the variables this module adds.                   *)
SvTypeOK ==
  /\ svpc \in {"idle", "control", "write", "check", "nap", "late", "kill"}
  /\ action \in Actions \cup {"status"}
  /\ {waits, rc, newstart, newtime, freshtime, taken, samesec, started} \subseteq BOOLEAN
  /\ clock \in 0..WaitSec /\ diff \in 0..clock
  /\ runsleft \in 0..MaxRuns

(* The call of sv was the last one, and runsv has got its command.         *)
LastWord(c) == svpc = "idle" /\ runsleft = 0 /\ taken /\ Head(Acts(action)) = c

(* A down, written or skipped because the status shows it in force, has    *)
(* the last word: no process is left but one that has been sent SIGTERM,   *)
(* and not even that after a force-stop that timed out and sent kill.      *)
DownObeyed ==
  LastWord("d") ~> [](\A p \in Pids : Alive(p) => proc[p].sig # {} /\ ~ rc)

(* An up has the last word: the service runs, and again after every end.   *)
UpObeyed == LastWord("u") ~> (pc = "exited" \/ \E p \in Pids : Running(p))

(* restart reports success only when ./run has been started since, if the  *)
(* old one is not of the very second in which sv was called.               *)
RestartIsNew ==
  (svpc = "idle" /\ action \in {"restart", "force-restart"} /\ ~ rc /\ ~ samesec)
     => started

(* "If the service is not running, start it. If the service stops, restart *)
(* it": a successful up, the last command there is, leaves the service     *)
(* wanted up.                                                              *)
UpSucceeds ==
  (svpc = "idle" /\ runsleft = 0 /\ action = "up" /\ ~ rc) ~> sd_want[0] = W_UP

(* A shutdown that ends because runsv is gone has taken effect: sv exits 0 *)
ShutdownSucceeds ==
  [][svpc = "check" /\ action = "shutdown" /\ taken /\ svpc' = "idle" => ~ rc']_allVars
=============================================================================
