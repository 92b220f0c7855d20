------------------------------ MODULE SvProofs ------------------------------
(***************************************************************************)
(* Theorems about sv and runsv together, for every set of commands,        *)
(* process ids and results of ./check, and every time to wait: what a      *)
(* successful restart has seen is a new process.                           *)
(***************************************************************************)
EXTENDS Sv, SequenceTheorems, TLAPS

-----------------------------------------------------------------------------
(* The inductive invariant. *)

(* svd[] and the status files are there for both services.                 *)
Shape ==
  /\ DOMAIN pid = Svd /\ DOMAIN state = Svd /\ DOMAIN fresh = Svd /\ DOMAIN status = Svd

(* The times that sv compares: one in the status file of this very second  *)
(* is that of svd[0].start, and a start of this second is not before       *)
(* tstart.                                                                 *)
TimesInv ==
  /\ freshtime => fresh[0]
  /\ svpc # "idle" /\ fresh[0] => newstart

(* A ./run that was started after tstart was started before the eyes of    *)
(* sv, and so was one that the status file shows with such a time; all     *)
(* this unless the old start was in the second of tstart.                  *)
LiveInv ==
  svpc # "idle" /\ newstart /\ ~ samesec /\ pid[0] # 0 /\ state[0] = S_RUN => started
ShownInv ==
  svpc # "idle" /\ newtime /\ ~ samesec /\ status[0].pid # 0 /\ status[0].state = S_RUN
    => started

Restarts == {"restart", "force-restart"}
RestartInv ==
  /\ Shape /\ TimesInv /\ LiveInv /\ ShownInv /\ RestartIsNew
  /\ action \in Restarts => waits

-----------------------------------------------------------------------------
(* What the steps of runsv do to svd[0]. *)

(* It keeps its process and its start, loses the process, or starts one.   *)
SvdStep ==
  \/ pid'[0] = pid[0] /\ fresh'[0] = fresh[0] /\ state'[0] \in {state[0], S_DOWN}
  \/ pid'[0] = 0 /\ fresh'[0] \in {fresh[0], TRUE}
  \/ StartsRun /\ fresh'[0] = TRUE
  \/ state'[0] = S_FINISH /\ fresh'[0] = fresh[0]

(* The calls that leave the status file alone.                             *)
LEMMA QuietStep ==
  ASSUME Shape, pid' = pid, fresh' = fresh, state' = state, status' = status
  PROVE  Shape' /\ SvdStep
BY DEF Shape, SvdStep

LEMMA UpdateFacts ==
  ASSUME Outcomes = {"ok"}, Shape, UpdateStatus
  PROVE  /\ Shape' /\ SvdStep
         /\ status'[0] = IF WritesStatus THEN Snapshot(0) ELSE status[0]
<1>1. pid' = pid /\ fresh' = fresh /\ state' = state /\ Calling("update")
  BY DEF UpdateStatus, svdVars
<1>2. status' = [status EXCEPT ![Head(todo).s] = Snapshot(Head(todo).s)]
  <2>1. \E o \in Outcomes :
          status' = IF (o = "nopid" /\ pidchanged) \/ o = "nostatus"
                    THEN status ELSE [status EXCEPT ![Head(todo).s] = Snapshot(Head(todo).s)]
    BY DEF UpdateStatus
  <2> QED
    BY <2>1
<1>3. 0 \in Svd
  BY DEF Svd
<1>4. status'[0] = IF Head(todo).s = 0 THEN Snapshot(0) ELSE status[0]
  BY <1>2, <1>3 DEF Shape
<1>5. status'[0] = IF WritesStatus THEN Snapshot(0) ELSE status[0]
  BY <1>1, <1>4 DEF WritesStatus
<1>6. Shape' /\ SvdStep
  BY <1>1, <1>2 DEF Shape, SvdStep
<1> QED
  BY <1>5, <1>6

LEMMA ForkStep ==
  ASSUME Shape, StartServiceFork
  PROVE  Shape' /\ SvdStep /\ status' = status
<1>1. PICK p \in Pids : Fork(Head(todo).s, p)
  BY DEF StartServiceFork
<1>2. PICK s : s = Head(todo).s
  OBVIOUS
<1>3. status' = status /\ Calling("fork")
  BY DEF StartServiceFork
<1>4. /\ pid' = [pid EXCEPT ![s] = p]
      /\ \/ state[s] = S_FINISH /\ state' = state /\ fresh' = fresh
         \/ /\ state[s] # S_FINISH
            /\ state' = [state EXCEPT ![s] = S_RUN]
            /\ fresh' = [fresh EXCEPT ![s] = TRUE]
  BY <1>1, <1>2 DEF Fork
<1>5. Shape'
  BY <1>3, <1>4 DEF Shape
<1>6. 0 \in Svd
  BY DEF Svd
<1>7. SvdStep
  <2>1. CASE s # 0
    BY <2>1, <1>4, <1>6 DEF SvdStep, Shape
  <2>2. CASE s = 0 /\ state[s] = S_FINISH
    BY <2>2, <1>4 DEF SvdStep
  <2>3. CASE s = 0 /\ state[s] # S_FINISH
    <3>1. StartsRun
      BY <2>3, <1>2, <1>3 DEF StartsRun
    <3>2. fresh'[0] = TRUE
      BY <2>3, <1>4, <1>6 DEF Shape
    <3> QED
      BY <3>1, <3>2 DEF SvdStep
  <2> QED
    BY <2>1, <2>2, <2>3
<1> QED
  BY <1>3, <1>5, <1>7

LEMMA ReapStep ==
  ASSUME Shape, NEW p \in Pids, ReapSvc(p) \/ ReapLog(p) \/ ReapOther(p)
  PROVE  Shape' /\ SvdStep /\ status' = status
<1>0. 0 \in Svd
  BY DEF Svd
<1>1. CASE ReapSvc(p)
  <2>1. /\ pid' = [pid EXCEPT ![0] = 0] /\ status' = status
        /\ state' \in {[state EXCEPT ![0] = S_FINISH], [state EXCEPT ![0] = S_DOWN]}
        /\ fresh' \in {fresh, [fresh EXCEPT ![0] = TRUE]}
    BY <1>1 DEF ReapSvc, Reaped, NowDown
  <2> QED
    BY <2>1, <1>0 DEF Shape, SvdStep
<1>2. CASE ReapLog(p)
  <2>1. /\ pid' = [pid EXCEPT ![1] = 0] /\ status' = status
        /\ state' = [state EXCEPT ![1] = S_DOWN] /\ fresh' = [fresh EXCEPT ![1] = TRUE]
    BY <1>2 DEF ReapLog, Reaped, NowDown
  <2> QED
    BY <2>1, <1>0 DEF Shape, SvdStep
<1>3. CASE ReapOther(p)
  <2>1. pid' = pid /\ fresh' = fresh /\ state' = state /\ status' = status
    BY <1>3 DEF ReapOther, svdVars, fileVars
  <2> QED
    BY <2>1, QuietStep
<1> QED
  BY <1>1, <1>2, <1>3

LEMMA CtrlState ==
  ASSUME NEW s, NEW c, Ctrl(s, c)
  PROVE  state' \in {state, [state EXCEPT ![s] = S_DOWN]}
BY DEF Ctrl, CtrlDown, CtrlUp, CtrlExit, CtrlTerm, CtrlKill, CtrlPause, CtrlCont,
       CtrlOnce, CtrlSignal, Order

LEMMA CommandStep ==
  ASSUME Shape, ReadControlSvc \/ ReadControlLog \/ TakeSigterm
  PROVE  Shape' /\ SvdStep /\ status' = status
<1>1. pid' = pid /\ fresh' = fresh /\ status' = status
  BY DEF ReadControlSvc, ReadControlLog, ReadControl, TakeSigterm, fileVars
<1>2. PICK s : state' \in {state, [state EXCEPT ![s] = S_DOWN]}
  BY CtrlState DEF ReadControlSvc, ReadControlLog, ReadControl, TakeSigterm
<1>3. 0 \in Svd
  BY DEF Svd
<1> QED
  BY <1>1, <1>2, <1>3 DEF Shape, SvdStep

LEMMA RunsvFacts ==
  ASSUME Outcomes = {"ok"}, Shape, Runsv \/ PollTimeout
  PROVE  /\ Shape' /\ SvdStep
         /\ status'[0] = IF WritesStatus THEN Snapshot(0) ELSE status[0]
<1>1. CASE UpdateStatus
  BY <1>1, UpdateFacts
<1>2. CASE StopService \/ StopServiceCont \/ StartService \/ Sleep
  <2>1. pid' = pid /\ fresh' = fresh /\ state' = state /\ status' = status
    BY <1>2 DEF StopService, StopServiceCont, StartService, Sleep, svdVars, fileVars
  <2>2. ~ WritesStatus
    BY <1>2 DEF StopService, StopServiceCont, StartService, Sleep, WritesStatus, Calling
  <2> QED
    BY <2>1, <2>2, QuietStep
<1>3. CASE StartServiceFork
  <2>1. ~ WritesStatus
    BY <1>3 DEF StartServiceFork, WritesStatus, Calling
  <2> QED
    BY <1>3, <2>1, ForkStep
<1>4. CASE \/ StartLog \/ StartSvc \/ SigChild \/ SigTerm \/ PollReady \/ PollTimeout
           \/ ReapDone \/ Exit \/ CloseLog \/ ClosePipe \/ StayUp
  <2>1. pid' = pid /\ fresh' = fresh /\ state' = state /\ status' = status
    BY <1>4 DEF StartLog, StartSvc, SigChild, SigTerm, PollReady, PollTimeout, ReapDone,
                Exit, CloseLog, ClosePipe, StayUp, Goto, svdVars, fileVars
  <2>2. todo = <<>>
    BY <1>4 DEF StartLog, StartSvc, SigChild, SigTerm, PollReady, PollTimeout, ReapDone,
                Exit, CloseLog, ClosePipe, StayUp, At
  <2> QED
    BY <2>1, <2>2, QuietStep DEF WritesStatus, Calling
<1>5. ASSUME NEW p \in Pids, ReapSvc(p) \/ ReapLog(p) \/ ReapOther(p)
      PROVE  /\ Shape' /\ SvdStep
             /\ status'[0] = IF WritesStatus THEN Snapshot(0) ELSE status[0]
  <2>1. todo = <<>>
    BY <1>5 DEF ReapSvc, ReapLog, ReapOther, At
  <2> QED
    BY <1>5, <2>1, ReapStep DEF WritesStatus, Calling
<1>6. CASE ReadControlSvc \/ ReadControlLog \/ TakeSigterm
  <2>1. todo = <<>>
    BY <1>6 DEF ReadControlSvc, ReadControlLog, ReadControl, TakeSigterm, At
  <2> QED
    BY <1>6, <2>1, CommandStep DEF WritesStatus, Calling
<1> QED
  BY <1>1, <1>2, <1>3, <1>4, <1>5, <1>6 DEF Runsv

-----------------------------------------------------------------------------
(* The steps of runsv and of the clock keep the invariant. *)

LEMMA StampsKeep ==
  ASSUME RestartInv, Stamps, Shape', SvdStep,
         status'[0] = IF WritesStatus THEN Snapshot(0) ELSE status[0]
  PROVE  RestartInv'
<1>0. /\ TimesInv /\ LiveInv /\ ShownInv /\ RestartIsNew /\ (action \in Restarts => waits)
  BY DEF RestartInv
<1>1. /\ newstart' = (svpc # "idle" /\ (newstart \/ fresh'[0]))
      /\ newtime' = (IF WritesStatus THEN newstart ELSE newtime)
      /\ freshtime' = (IF WritesStatus THEN fresh[0] ELSE freshtime)
      /\ started' = (started \/ (StartsRun /\ svpc # "idle"))
      /\ svpc' = svpc /\ rc' = rc /\ samesec' = samesec /\ action' = action /\ waits' = waits
  BY DEF Stamps, callVars
<1>2. TimesInv'
  <2>1. freshtime' => fresh'[0]
    <3>1. freshtime' => fresh[0]
      BY <1>0, <1>1 DEF TimesInv
    <3>2. fresh[0] => fresh'[0]
      BY DEF SvdStep
    <3> QED
      BY <3>1, <3>2
  <2>2. svpc' # "idle" /\ fresh'[0] => newstart'
    BY <1>1
  <2> QED
    BY <2>1, <2>2 DEF TimesInv
<1>3. LiveInv'
  <2>1. SUFFICES ASSUME svpc # "idle", newstart', ~ samesec, pid'[0] # 0, state'[0] = S_RUN
                 PROVE  started'
    BY <1>1 DEF LiveInv
  <2>2. CASE StartsRun
    BY <2>1, <2>2, <1>1
  <2>3. CASE ~ StartsRun
    <3>1. pid'[0] = pid[0] /\ fresh'[0] = fresh[0] /\ state[0] = S_RUN
      BY <2>1, <2>3 DEF SvdStep, S_RUN, S_DOWN, S_FINISH
    <3>2. newstart
      BY <2>1, <3>1, <1>0, <1>1 DEF TimesInv
    <3>3. started
      BY <2>1, <3>1, <3>2, <1>0 DEF LiveInv
    <3> QED
      BY <3>3, <1>1
  <2> QED
    BY <2>2, <2>3
<1>4. ShownInv'
  <2>1. SUFFICES ASSUME svpc # "idle", newtime', ~ samesec, status'[0].pid # 0,
                        status'[0].state = S_RUN
                 PROVE  started'
    BY <1>1 DEF ShownInv
  <2>2. CASE WritesStatus
    <3>1. newstart /\ status'[0] = Snapshot(0)
      BY <2>1, <2>2, <1>1
    <3>2. pid[0] # 0 /\ state[0] = S_RUN
      BY <2>1, <3>1 DEF Snapshot
    <3>3. started
      BY <2>1, <3>1, <3>2, <1>0 DEF LiveInv
    <3> QED
      BY <3>3, <1>1
  <2>3. CASE ~ WritesStatus
    <3>1. newtime /\ status'[0] = status[0]
      BY <2>1, <2>3, <1>1
    <3>2. status[0].pid # 0 /\ status[0].state = S_RUN
      BY <2>1, <3>1
    <3>3. started
      BY <2>1, <3>1, <3>2, <1>0 DEF ShownInv
    <3> QED
      BY <3>3, <1>1
  <2> QED
    BY <2>2, <2>3
<1>5. RestartIsNew'
  BY <1>0, <1>1 DEF RestartIsNew
<1> QED
  BY <1>0, <1>1, <1>2, <1>3, <1>4, <1>5 DEF RestartInv, Restarts

LEMMA ChildEndsKeep ==
  ASSUME NEW p \in Pids, ChildEnds(p), RestartInv
  PROVE  RestartInv'
<1>1. pid' = pid /\ fresh' = fresh /\ state' = state /\ status' = status
  BY DEF ChildEnds, Terminate, svdVars, fileVars
<1>2. UNCHANGED svVars
  BY DEF ChildEnds
<1> QED
  BY <1>1, <1>2 DEF RestartInv, Shape, TimesInv, LiveInv, ShownInv, RestartIsNew, Restarts,
                    svVars, timeVars, histVars, callVars

LEMMA SecondKeeps ==
  ASSUME SecondPasses, RestartInv
  PROVE  RestartInv'
<1>1. /\ pid' = pid /\ state' = state /\ status' = status /\ fresh' = [s \in Svd |-> FALSE]
      /\ freshtime' = FALSE /\ svpc' = svpc /\ rc' = rc /\ newstart' = newstart
      /\ newtime' = newtime /\ samesec' = samesec /\ started' = started
      /\ action' = action /\ waits' = waits
  BY DEF SecondPasses, Tick, fileVars, histVars, callVars
<1>2. ~ fresh'[0] /\ DOMAIN fresh' = Svd
  BY <1>1 DEF Svd
<1> QED
  BY <1>1, <1>2 DEF RestartInv, Shape, TimesInv, LiveInv, ShownInv, RestartIsNew, Restarts

-----------------------------------------------------------------------------
(* The steps of sv keep it. *)

LEMMA BeginKeeps ==
  ASSUME NEW a \in Actions, NEW v \in Verbose, Begin(a, v), RestartInv
  PROVE  RestartInv'
<1>1. /\ action' = a /\ waits' = HasCbk(a, v) /\ svpc' \in {"check", "control"}
      /\ newstart' = fresh[0] /\ newtime' = freshtime /\ samesec' = fresh[0]
      /\ freshtime' = freshtime /\ UNCHANGED vars
  BY DEF Begin
<1>2. pid' = pid /\ fresh' = fresh /\ state' = state /\ status' = status
  BY <1>1 DEF vars, svdVars, fileVars
<1>3. Shape' /\ TimesInv'
  BY <1>1, <1>2 DEF RestartInv, Shape, TimesInv
<1>4. LiveInv'
  BY <1>1 DEF LiveInv
<1>5. ShownInv'
  BY <1>1 DEF RestartInv, TimesInv, ShownInv
<1>6. RestartIsNew'
  BY <1>1 DEF RestartIsNew
<1>7. action' \in Restarts => waits'
  BY <1>1 DEF Restarts, HasCbk, Kll
<1> QED
  BY <1>3, <1>4, <1>5, <1>6, <1>7 DEF RestartInv, Restarts

(* A step of sv that goes on, or ends with an error or unsuccessful.       *)
LEMMA SvKeeps ==
  ASSUME RestartInv, svpc # "idle", pid' = pid, fresh' = fresh, state' = state, status' = status,
         freshtime' = freshtime, UNCHANGED <<histVars, callVars>>,
         \/ svpc' # "idle" /\ newstart' = newstart /\ newtime' = newtime
         \/ svpc' = "idle" /\ rc'
         \/ svpc' = "idle" /\ action \notin Restarts
         \/ svpc' = "idle" /\ (~ samesec => started)
  PROVE  RestartInv'
<1>1. samesec' = samesec /\ started' = started /\ action' = action /\ waits' = waits
  BY DEF histVars, callVars
<1>2. Shape'
  BY DEF RestartInv, Shape
<1> QED
  BY <1>1, <1>2 DEF RestartInv, TimesInv, LiveInv, ShownInv, RestartIsNew, Restarts

LEMMA AfterActKeeps ==
  ASSUME RestartInv, svpc # "idle", pid' = pid, fresh' = fresh, state' = state, status' = status,
         freshtime' = freshtime, UNCHANGED <<histVars, callVars>>,
         AfterAct \/ Ends(TRUE) \/ \E place \in {"write", "check", "nap", "late", "kill"} : GoesOn(place)
  PROVE  RestartInv'
<1>1. CASE AfterAct
  <2>1. CASE waits
    <3>1. svpc' # "idle" /\ newstart' = newstart /\ newtime' = newtime
      BY <1>1, <2>1 DEF AfterAct, GoesOn, timeVars
    <3> QED
      BY <3>1, SvKeeps
  <2>2. CASE ~ waits
    <3>1. svpc' = "idle" /\ action \notin Restarts
      BY <1>1, <2>2 DEF AfterAct, Ends, RestartInv
    <3> QED
      BY <3>1, SvKeeps
  <2> QED
    BY <2>1, <2>2
<1>2. CASE Ends(TRUE)
  <2>1. svpc' = "idle" /\ rc'
    BY <1>2 DEF Ends
  <2> QED
    BY <2>1, SvKeeps
<1>3. CASE \E place \in {"write", "check", "nap", "late", "kill"} : GoesOn(place)
  <2>1. svpc' # "idle" /\ newstart' = newstart /\ newtime' = newtime
    BY <1>3 DEF GoesOn, timeVars
  <2> QED
    BY <2>1, SvKeeps
<1> QED
  BY <1>1, <1>2, <1>3

(* check: what a restart waits for is a live ./run of a time not before    *)
(* tstart.                                                                 *)
LEMMA RestartShown ==
  ASSUME action \in Restarts, \A c \in Range(Acts(action)) : Shows(c)
  PROVE  newtime /\ status[0].pid # 0 /\ status[0].state = S_RUN
<1>1. Acts(action) = <<"t", "c", "u">>
  BY DEF Acts, Restarts
<1>2. "t" \in Range(<<"t", "c", "u">>) /\ "u" \in Range(<<"t", "c", "u">>)
  <2>1. DOMAIN <<"t", "c", "u">> = 1..3 /\ <<"t", "c", "u">>[1] = "t" /\ <<"t", "c", "u">>[3] = "u"
    OBVIOUS
  <2> QED
    BY <2>1 DEF Range
<1>3. Shows("t") /\ Shows("u")
  BY <1>1, <1>2
<1>4. status[0].pid # 0 /\ status[0].state = S_RUN
  BY <1>3 DEF Shows
<1>5. newtime
  BY <1>3, <1>4 DEF Shows
<1> QED
  BY <1>4, <1>5

LEMMA SvStepKeeps ==
  ASSUME SvStep, RestartInv
  PROVE  RestartInv'
<1>1. /\ pid' = pid /\ fresh' = fresh /\ state' = state /\ status' = status
      /\ freshtime' = freshtime /\ UNCHANGED <<histVars, callVars>> /\ svpc # "idle"
  BY DEF SvStep, Control, Write, Check, Nap, Late, SendKill, WriteFifo, vars, svdVars, fileVars
<1>2. CASE Control \/ Write \/ Late \/ SendKill
  <2>1. AfterAct \/ Ends(TRUE) \/ \E place \in {"write", "check", "nap", "late", "kill"} : GoesOn(place)
    BY <1>2 DEF Control, Write, Late, SendKill
  <2> QED
    BY <1>1, <2>1, AfterActKeeps
<1>3. CASE Nap
  <2>1. svpc' # "idle" /\ newstart' = newstart /\ newtime' = newtime
    BY <1>3 DEF Nap
  <2> QED
    BY <1>1, <2>1, SvKeeps
<1>4. CASE Check
  <2>1. CASE (\A c \in Range(Acts(action)) : Shows(c)) /\ Ends(FALSE)
    <3>1. svpc' = "idle"
      BY <2>1 DEF Ends
    <3>2. CASE action \notin Restarts
      BY <1>1, <3>1, <3>2, SvKeeps
    <3>3. CASE action \in Restarts
      <4>1. newtime /\ status[0].pid # 0 /\ status[0].state = S_RUN
        BY <2>1, <3>3, RestartShown
      <4>2. ~ samesec => started
        BY <1>1, <4>1 DEF RestartInv, ShownInv
      <4> QED
        BY <1>1, <3>1, <4>2, SvKeeps
    <3> QED
      BY <3>2, <3>3
  <2>2. CASE Ends(TRUE) \/ \E place \in {"late", "nap"} : GoesOn(place)
    BY <1>1, <2>2, AfterActKeeps
  <2> QED
    BY <1>4, <2>1, <2>2 DEF Check
<1> QED
  BY <1>2, <1>3, <1>4 DEF SvStep

-----------------------------------------------------------------------------
LEMMA RestartInit == SvInit => RestartInv
<1> SUFFICES ASSUME SvInit PROVE RestartInv
  OBVIOUS
<1>1. /\ pid = [s \in Svd |-> 0] /\ state = [s \in Svd |-> S_DOWN]
      /\ fresh = [s \in Svd |-> TRUE] /\ status = [s \in Svd |-> OldStatus]
      /\ svpc = "idle" /\ action = "status" /\ freshtime = FALSE
  BY DEF SvInit, Init
<1> QED
  BY <1>1 DEF RestartInv, Shape, TimesInv, LiveInv, ShownInv, RestartIsNew, Restarts

LEMMA RestartStep ==
  ASSUME Outcomes = {"ok"}, RestartInv, [SvNext]_allVars
  PROVE  RestartInv'
<1>0. Shape
  BY DEF RestartInv
<1>1. ASSUME NEW a \in Actions, NEW v \in Verbose, Begin(a, v) PROVE RestartInv'
  BY <1>1, BeginKeeps
<1>2. CASE SvStep
  BY <1>2, SvStepKeeps
<1>3. CASE RunsvTurn \/ RunsvTimeout
  <2>1. Stamps /\ (Runsv \/ PollTimeout)
    BY <1>3 DEF RunsvTurn, RunsvTimeout
  <2>2. /\ Shape' /\ SvdStep
        /\ status'[0] = IF WritesStatus THEN Snapshot(0) ELSE status[0]
    BY <1>0, <2>1, RunsvFacts
  <2> QED
    BY <2>1, <2>2, StampsKeep
<1>4. ASSUME NEW p \in Pids, ChildEnds(p) PROVE RestartInv'
  BY <1>4, ChildEndsKeep
<1>5. CASE SecondPasses
  BY <1>5, SecondKeeps
<1>6. CASE UNCHANGED allVars
  BY <1>6 DEF allVars, vars, svdVars, fileVars, svVars, timeVars, histVars, callVars,
              RestartInv, Shape, TimesInv, LiveInv, ShownInv, RestartIsNew, Restarts
<1> QED
  BY <1>1, <1>2, <1>3, <1>4, <1>5, <1>6 DEF SvNext

(* restart and force-restart report success only for a ./run that runsv    *)
(* has started since sv was called, if the old one was not started in that *)
(* very second; whatever else runsv is told, and however its deaths and    *)
(* updates of supervise/status fall between the looks that sv takes.  The  *)
(* status file can be written.                                             *)
THEOREM RestartsAreNew ==
  ASSUME Outcomes = {"ok"}
  PROVE  SvSpec => []RestartIsNew
<1>1. SvSpec => SvInit /\ [][SvNext]_allVars
  BY PTL DEF SvSpec
<1>2. SvInit => RestartInv
  BY RestartInit
<1>3. RestartInv /\ [SvNext]_allVars => RestartInv'
  BY RestartStep
<1>4. RestartInv => RestartIsNew
  BY DEF RestartInv
<1> QED
  BY <1>1, <1>2, <1>3, <1>4, PTL
=============================================================================
