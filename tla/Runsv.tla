------------------------------- MODULE Runsv -------------------------------
(***************************************************************************)
(* runsv: starts and monitors one service (svd[0]) and, optionally, its    *)
(* appendant log service (svd[1]).  busybox-1.32.0/runit/runsv.c.          *)
(*                                                                         *)
(* The supervisor is one thread.  `pc` is its place in the for(;;) loop of *)
(* runsv_main and `todo` is the stack of calls the current place has still *)
(* to make (startservice, stopservice, update_status, sleep): every        *)
(* element is one step, so that the death of a child, a command written to *)
(* the control fifo, or a reader of the status file can come in between    *)
(* any two of them.                                                        *)
(*                                                                         *)
(* Around it, marked external: the kernel's process table and signals, the *)
(* service's own processes, the users who write commands, and the clock.   *)
(***************************************************************************)
EXTENDS Integers, Sequences, FiniteSets, Functions

CONSTANTS
  HasLog,      \* the directory ./log exists
  Pids,        \* process ids the kernel can hand out (0 is no process)
  Commands,    \* command characters users write to the control fifos
  Scripts,     \* commands c whose script control/c may exist and succeed
  FinishFile,  \* can open("finish") succeed: a subset of BOOLEAN
  Outcomes,    \* how a call of update_status may end, see UpdateStatus
  Codes,       \* exit statuses of the children, as wait reports them
  MaxFifo      \* bound: commands waiting in a control fifo

AllCommands == {"d", "u", "x", "t", "k", "p", "c", "o", "h"}
AllOutcomes == {"ok", "nopid", "emptypid", "nostatus"}

ASSUME RunsvAssumption ==
  /\ HasLog \in BOOLEAN
  /\ Pids \subseteq Nat \ {0}
  /\ Commands \subseteq AllCommands
  /\ Scripts \subseteq AllCommands
  /\ FinishFile \in (SUBSET BOOLEAN) \ {{}}
  /\ Outcomes \in (SUBSET AllOutcomes) \ {{}}
  /\ Codes \subseteq Nat /\ 0 \in Codes
  /\ MaxFifo \in Nat \ {0}

VARIABLES
  pid, state, ctrl, sd_want,   \* the fields of svd[0] and svd[1]
  fresh,       \* fresh[s]: svd[s].start.tv_sec is the current second
  wstat,       \* svd[0].wstat
  pidchanged, sigterm,         \* the globals of the same names
  logpipe,     \* the log pipe is still open in runsv
  pidfile, status,             \* supervise/pid and supervise/status
  pc, todo,    \* place in the main loop, calls still to be made from there
  selfpipe,    \* there is a byte in the self-pipe
  pending,     \* signals sent to runsv and not yet delivered
  control,     \* the contents of the control fifos
  proc,        \* runsv's children in the kernel's process table
  starts       \* history: ./run starts of s in this second, capped at 2

svdVars  == <<pid, state, ctrl, sd_want, fresh, wstat>>
fileVars == <<pidchanged, pidfile, status>>
mainVars == <<pc, sigterm, logpipe>>
sigVars  == <<selfpipe, pending>>
vars == <<svdVars, fileVars, mainVars, sigVars, todo, control, proc, starts>>

Svd == {0, 1}
Svds == IF HasLog THEN {0, 1} ELSE {0}

S_DOWN == "down"
S_RUN == "run"
S_FINISH == "finish"
W_UP == "up"
W_DOWN == "down"
W_EXIT == "exit"
C_TERM == "TERM"
C_PAUSE == "PAUSE"

States == {S_DOWN, S_RUN, S_FINISH}
Wants == {W_UP, W_DOWN, W_EXIT}

(* A pending call of one of the C functions for svd[s]. *)
Call(f, s) == [op |-> f, s |-> s]
Ops == {"start", "fork", "stop", "cont", "update", "sleep"}
Calls == [op : Ops, s : Svd]

(* The next call is one of f. *)
Calling(f) == todo # <<>> /\ Head(todo).op = f

-----------------------------------------------------------------------------
(* The process table.  A child is running, stopped by SIGSTOP, or a zombie *)
(* waiting to be reaped; `sig` holds the fatal signals sent to it.         *)

Free == [st |-> "free", role |-> "none", sig |-> {}, code |-> 0]
Procs == [st : {"free", "running", "stopped", "zombie"},
          role : {"none", "run", "finish", "log"},
          sig : SUBSET {"TERM", "KILL"}, code : Codes]

Alive(p) == proc[p].st \in {"running", "stopped"}

(* kill(p, sg), for a child p that has not been reaped. *)
Signalled(r, sg) ==
  IF r.st \notin {"running", "stopped"} THEN r
  ELSE CASE sg = "STOP" -> [r EXCEPT !.st = "stopped"]
         [] sg = "CONT" -> [r EXCEPT !.st = "running"]
         [] OTHER       -> [r EXCEPT !.sig = r.sig \cup {sg}]
Kill(p, sg) == [proc EXCEPT ![p] = Signalled(proc[p], sg)]

(* What custom(s, c) can return: control/c is only looked for when s is    *)
(* not the log service, and its exit status is its own business.           *)
Custom(s, c) == IF s = 0 /\ c \in Scripts THEN BOOLEAN ELSE {FALSE}

-----------------------------------------------------------------------------
(* update_status *)

(* The 20 bytes of supervise/status: W_DOWN and W_EXIT both become 'd'.    *)
BugSnapshot(s) ==
  [pid |-> pid[s], state |-> state[s], paused |-> C_PAUSE \in ctrl[s],
   got_term |-> C_TERM \in ctrl[s], want |-> sd_want[s]]
Snapshot(s) ==
  [pid      |-> pid[s],
   state    |-> state[s],
   paused   |-> C_PAUSE \in ctrl[s],
   got_term |-> C_TERM \in ctrl[s],
   want     |-> IF sd_want[s] = W_UP THEN "u" ELSE "d"]

(* The file that a runsv leaves when it exits in the ordinary way.         *)
OldStatus == [pid |-> 0, state |-> S_DOWN, paused |-> FALSE,
              got_term |-> FALSE, want |-> "d"]

Statuses == [pid : Pids \cup {0}, state : States, paused : BOOLEAN,
             got_term : BOOLEAN, want : {"u", "d"}]

(* The pid file is only written when pidchanged is set.  "nopid": pid.new  *)
(* cannot be opened or renamed, and the flag stays set; "emptypid": the    *)
(* write into it fails, which is not looked at.                            *)
BugWritePid(s, o) ==
  /\ pidchanged' = FALSE
  /\ pidfile' = IF o = "nopid" THEN pidfile ELSE [pidfile EXCEPT ![s] = pid[s]]
WritePid(s, o) ==
  /\ pidchanged' = (o = "nopid")
  /\ pidfile' = CASE o = "nopid"    -> pidfile
                  [] o = "emptypid" -> [pidfile EXCEPT ![s] = 0]
                  [] OTHER          -> [pidfile EXCEPT ![s] = pid[s]]

(* update_status returns early on "nopid"; "nostatus": status.new cannot   *)
(* be written.                                                             *)
UpdateStatus ==
  /\ Calling("update")
  /\ todo' = Tail(todo)
  /\ LET s == Head(todo).s IN
     \E o \in Outcomes :
       /\ IF pidchanged THEN WritePid(s, o)
                        ELSE UNCHANGED <<pidchanged, pidfile>>
       /\ status' = IF (o = "nopid" /\ pidchanged) \/ o = "nostatus"
                    THEN status ELSE [status EXCEPT ![s] = Snapshot(s)]
  /\ UNCHANGED <<svdVars, mainVars, sigVars, control, proc, starts>>

-----------------------------------------------------------------------------
(* stopservice: SIGTERM unless control/t took care of it, update_status,   *)
(* and SIGCONT when the service is not wanted up.                          *)

StopService ==
  /\ Calling("stop")
  /\ LET s == Head(todo).s IN
     \E done \in Custom(s, "t") :
       LET term == pid[s] # 0 /\ ~ done IN
       /\ proc' = IF term THEN Kill(pid[s], "TERM") ELSE proc
       /\ ctrl' = IF term THEN [ctrl EXCEPT ![s] = @ \cup {C_TERM}] ELSE ctrl
       /\ todo' = (IF term THEN <<Call("update", s), Call("cont", s)>>
                           ELSE <<Call("cont", s)>>) \o Tail(todo)
  /\ UNCHANGED <<pid, state, sd_want, fresh, wstat, fileVars, mainVars,
                 sigVars, control, starts>>

BugNeedsCont(s) == sd_want[s] = W_DOWN
NeedsCont(s) == sd_want[s] \in {W_DOWN, W_EXIT}

StopServiceCont ==
  /\ Calling("cont")
  /\ todo' = Tail(todo)
  /\ LET s == Head(todo).s IN
     proc' = IF NeedsCont(s) THEN Kill(pid[s], "CONT") ELSE proc
  /\ UNCHANGED <<svdVars, fileVars, mainVars, sigVars, control, starts>>

-----------------------------------------------------------------------------
(* startservice *)

StartService ==
  /\ Calling("start")
  /\ LET s == Head(todo).s IN
     todo' = (IF pid[s] # 0 THEN <<Call("stop", s), Call("fork", s)>>
                            ELSE <<Call("fork", s)>>) \o Tail(todo)
  /\ UNCHANGED <<svdVars, fileVars, mainVars, sigVars, control, proc, starts>>

(* With a log service the child first moves its end of the log pipe to     *)
(* stdout or stdin; when runsv has closed the pipe, the child dies at once *)
Stillborn == HasLog /\ ~ logpipe

Role(s) ==
  CASE state[s] = S_FINISH -> "finish"
    [] state[s] # S_FINISH /\ s = 0 -> "run"
    [] state[s] # S_FINISH /\ s = 1 -> "log"

Child(s, code) ==
  [st |-> IF Stillborn THEN "zombie" ELSE "running", role |-> Role(s),
   sig |-> {}, code |-> code]

Fork(s, p) ==
  /\ proc[p].st = "free"
  /\ \E code \in IF Stillborn THEN Codes ELSE {0} :
       proc' = [proc EXCEPT ![p] = Child(s, code)]
  /\ pending' = IF Stillborn THEN pending \cup {"CHLD"} ELSE pending
  /\ pid' = [pid EXCEPT ![s] = p]
  /\ pidchanged' = TRUE
  /\ ctrl' = [ctrl EXCEPT ![s] = {}]
  /\ todo' = <<Call("update", s)>> \o Tail(todo)
  /\ \/ /\ state[s] = S_FINISH
        /\ UNCHANGED <<state, fresh, starts>>
     \/ /\ state[s] # S_FINISH
        /\ state' = [state EXCEPT ![s] = S_RUN]
        /\ fresh' = [fresh EXCEPT ![s] = TRUE]
        /\ starts' = [starts EXCEPT ![s] = IF @ = 0 THEN 1 ELSE 2]

(* vfork is retried until there is a free process id. *)
StartServiceFork ==
  /\ Calling("fork")
  /\ \E p \in Pids : Fork(Head(todo).s, p)
  /\ UNCHANGED <<sd_want, wstat, pidfile, status, mainVars, selfpipe, control>>

(* The sleep(1) that follows a death in the second of the start.           *)
Sleep ==
  /\ Calling("sleep")
  /\ ~ fresh[Head(todo).s]
  /\ todo' = Tail(todo)
  /\ UNCHANGED <<svdVars, fileVars, mainVars, sigVars, control, proc, starts>>

-----------------------------------------------------------------------------
(* ctrl(s, c): one operator per case of the switch.  They say what becomes *)
(* of sd_want, state, ctrl, proc and todo; the caller adds the rest.       *)

StopIfRunning(s) == IF state[s] = S_RUN THEN <<Call("stop", s)>> ELSE <<>>
StartIfDown(s) == IF state[s] = S_DOWN THEN <<Call("start", s)>> ELSE <<>>

(* Record what is wanted, update_status, then the calls given.             *)
BugOrder(s, want, calls) ==
  /\ sd_want' = [sd_want EXCEPT ![s] = want]
  /\ todo' = calls
  /\ UNCHANGED <<state, ctrl, proc>>
Order(s, want, calls) ==
  /\ sd_want' = [sd_want EXCEPT ![s] = want]
  /\ todo' = <<Call("update", s)>> \o calls
  /\ UNCHANGED <<state, ctrl, proc>>

(* Signal sg to a running service, unless control/c has done the job.      *)
Signal(s, c, sg) ==
  \E done \in Custom(s, c) :
    proc' = IF state[s] = S_RUN /\ ~ done THEN Kill(pid[s], sg) ELSE proc

BugCtrlDown(s) == Order(s, W_DOWN, <<Call("stop", s)>>)
CtrlDown(s) == Order(s, W_DOWN, StopIfRunning(s))

BugCtrlUp(s) == Order(s, W_UP, <<Call("start", s)>>)
CtrlUp(s) == Order(s, W_UP, StartIfDown(s))

BugCtrlOnce(s) ==
  Order(s, W_DOWN, IF state[s] # S_RUN THEN <<Call("start", s)>> ELSE <<>>)
CtrlOnce(s) == Order(s, W_DOWN, StartIfDown(s))

CtrlTerm(s) ==
  /\ todo' = StopIfRunning(s)
  /\ UNCHANGED <<sd_want, state, ctrl, proc>>

CtrlExit(s) ==
  \/ /\ s = 1                              \* ignored by the log service
     /\ todo' = <<>>
     /\ UNCHANGED <<sd_want, state, ctrl, proc>>
  \/ /\ s = 0
     /\ Order(s, W_EXIT, StopIfRunning(s))

CtrlKill(s) ==
  /\ Signal(s, "k", "KILL")
  /\ state' = [state EXCEPT ![s] = S_DOWN]
  /\ todo' = <<>>
  /\ UNCHANGED <<sd_want, ctrl>>

CtrlPause(s) ==
  /\ Signal(s, "p", "STOP")
  /\ ctrl' = [ctrl EXCEPT ![s] = @ \cup {C_PAUSE}]
  /\ todo' = <<Call("update", s)>>
  /\ UNCHANGED <<sd_want, state>>

CtrlCont(s) ==
  /\ Signal(s, "c", "CONT")
  /\ ctrl' = [ctrl EXCEPT ![s] = @ \ {C_PAUSE}]
  /\ todo' = <<Call("update", s)>>
  /\ UNCHANGED <<sd_want, state>>

(* hup, alarm, interrupt, quit, 1, 2: the signal is the service's affair,  *)
(* which may end or go on (Terminate).                                     *)
CtrlSignal(s) ==
  /\ todo' = <<>>
  /\ UNCHANGED <<sd_want, state, ctrl, proc>>

Ctrl(s, c) ==
  \/ c = "d" /\ CtrlDown(s)
  \/ c = "u" /\ CtrlUp(s)
  \/ c = "x" /\ CtrlExit(s)
  \/ c = "t" /\ CtrlTerm(s)
  \/ c = "k" /\ CtrlKill(s)
  \/ c = "p" /\ CtrlPause(s)
  \/ c = "c" /\ CtrlCont(s)
  \/ c = "o" /\ CtrlOnce(s)
  \/ c = "h" /\ CtrlSignal(s)

-----------------------------------------------------------------------------
(* runsv_main *)

(* The two services as the initialization sets them up, with or without    *)
(* the files ./down and log/down, up to the update_status calls of         *)
(* open_control, which come first in the todo.  The status and pid files   *)
(* are those that an earlier runsv in this directory left.                 *)
Init ==
  /\ pid = [s \in Svd |-> 0]
  /\ state = [s \in Svd |-> S_DOWN]
  /\ ctrl = [s \in Svd |-> {}]
  /\ sd_want \in {w \in [Svd -> {W_UP, W_DOWN}] : HasLog \/ w[1] = W_UP}
  /\ fresh = [s \in Svd |-> TRUE]
  /\ wstat = 0
  /\ pidchanged = TRUE
  /\ sigterm = FALSE
  /\ logpipe = HasLog
  /\ pidfile \in {f \in [Svd -> Pids \cup {0}] : HasLog \/ f[1] = 0}
  /\ status = [s \in Svd |-> OldStatus]
  /\ pc = "startlog"
  /\ todo = IF HasLog THEN <<Call("update", 0), Call("update", 1)>>
                      ELSE <<Call("update", 0)>>
  /\ selfpipe = FALSE
  /\ pending = {}
  /\ control = [s \in Svd |-> <<>>]
  /\ proc = [p \in Pids |-> Free]
  /\ starts = [s \in Svd |-> 0]

At(place) == pc = place /\ todo = <<>>

(* Go on at the given place, where the calls are made first. *)
Goto(place, calls) ==
  /\ pc' = place
  /\ todo' = calls
  /\ UNCHANGED <<svdVars, fileVars, sigterm, logpipe, sigVars, control, proc,
                 starts>>

LogIsDue == HasLog /\ pid[1] = 0 /\ sd_want[1] = W_UP

StartLog ==
  /\ At("startlog")
  /\ Goto("startsvc", IF LogIsDue THEN <<Call("start", 1)>> ELSE <<>>)

BugSvcIsDue == pid[0] = 0 /\ sd_want[0] = W_UP /\ state[0] = S_DOWN
SvcIsDue == pid[0] = 0 /\ (sd_want[0] = W_UP \/ state[0] = S_FINISH)

StartSvc ==
  /\ At("startsvc")
  /\ Goto("poll", IF SvcIsDue THEN <<Call("start", 0)>> ELSE <<>>)

(* Signals are only delivered around poll, where they are unblocked, and   *)
(* one that is pending there is delivered before poll returns.             *)
BugSigChild ==
  /\ At("poll")
  /\ "CHLD" \in pending
  /\ pending' = pending \ {"CHLD"}
  /\ UNCHANGED <<svdVars, fileVars, mainVars, selfpipe, todo, control, proc,
                 starts>>
SigChild ==
  /\ At("poll")
  /\ "CHLD" \in pending
  /\ pending' = pending \ {"CHLD"}
  /\ selfpipe' = TRUE
  /\ UNCHANGED <<svdVars, fileVars, mainVars, todo, control, proc, starts>>

SigTerm ==
  /\ At("poll")
  /\ "TERM" \in pending
  /\ pending' = pending \ {"TERM"}
  /\ sigterm' = TRUE
  /\ selfpipe' = TRUE
  /\ UNCHANGED <<svdVars, fileVars, pc, logpipe, todo, control, proc, starts>>

(* poll returns because a descriptor is readable; the self-pipe is drained *)
PollReady ==
  /\ At("poll")
  /\ pending = {}
  /\ selfpipe \/ \E s \in Svds : control[s] # <<>>
  /\ selfpipe' = FALSE
  /\ pc' = "reap"
  /\ UNCHANGED <<svdVars, fileVars, sigterm, logpipe, pending, todo, control,
                 proc, starts>>

(* ... or because the hour is over. *)
PollTimeout ==
  /\ At("poll")
  /\ pending = {}
  /\ ~ selfpipe
  /\ \A s \in Svds : control[s] = <<>>
  /\ Goto("reap", <<>>)

Zombie(p) == proc[p].st = "zombie"

(* What reaping p, the process of svd[s], does in both cases; the exit     *)
(* status goes to svd[0].wstat even when s is the log service.             *)
BugReaped(s, p) ==
  /\ proc' = [proc EXCEPT ![p] = Free]
  /\ wstat' = proc[p].code
  /\ pid' = [pid EXCEPT ![s] = 0]
  /\ ctrl' = [ctrl EXCEPT ![s] = @ \ {C_TERM}]
  /\ UNCHANGED pidchanged
Reaped(s, p) ==
  /\ proc' = [proc EXCEPT ![p] = Free]
  /\ wstat' = proc[p].code
  /\ pid' = [pid EXCEPT ![s] = 0]
  /\ ctrl' = [ctrl EXCEPT ![s] = @ \ {C_TERM}]
  /\ pidchanged' = TRUE

(* svd[s] is down: its start becomes the current time, and runsv sleeps if *)
(* the last start was less than a second ago.                              *)
BugNowDown(s) ==
  /\ state' = [state EXCEPT ![s] = S_DOWN]
  /\ fresh' = [fresh EXCEPT ![s] = TRUE]
  /\ todo' = <<Call("update", s)>>
NowDown(s) ==
  /\ state' = [state EXCEPT ![s] = S_DOWN]
  /\ fresh' = [fresh EXCEPT ![s] = TRUE]
  /\ todo' = <<Call("update", s)>>
               \o (IF fresh[s] THEN <<Call("sleep", s)>> ELSE <<>>)

ReapSvc(p) ==
  /\ At("reap")
  /\ Zombie(p)
  /\ p = pid[0]
  /\ Reaped(0, p)
  /\ \/ /\ state[0] # S_FINISH
        /\ TRUE \in FinishFile
        /\ state' = [state EXCEPT ![0] = S_FINISH]
        /\ todo' = <<Call("update", 0)>>
        /\ UNCHANGED fresh
     \/ /\ state[0] = S_FINISH \/ FALSE \in FinishFile
        /\ NowDown(0)
  /\ UNCHANGED <<sd_want, pidfile, status, mainVars, sigVars, control, starts>>

ReapLog(p) ==
  /\ At("reap")
  /\ Zombie(p)
  /\ HasLog
  /\ p = pid[1]
  /\ Reaped(1, p)
  /\ NowDown(1)
  /\ UNCHANGED <<sd_want, pidfile, status, mainVars, sigVars, control, starts>>

(* A child that is neither svd[0].pid nor svd[1].pid is reaped and ignored *)
ReapOther(p) ==
  /\ At("reap")
  /\ Zombie(p)
  /\ p \notin {pid[0], pid[1]}
  /\ proc' = [proc EXCEPT ![p] = Free]
  /\ UNCHANGED <<svdVars, fileVars, mainVars, sigVars, todo, control, starts>>

ReapDone ==
  /\ At("reap")
  /\ \A p \in Pids : ~ Zombie(p)
  /\ Goto("control0", <<>>)

(* One byte is read from each control fifo per turn of the loop. *)
ReadControl(s, place, next) ==
  /\ At(place)
  /\ pc' = next
  /\ \/ /\ control[s] = <<>>
        /\ UNCHANGED <<sd_want, state, ctrl, proc, todo, control>>
     \/ /\ control[s] # <<>>
        /\ control' = [control EXCEPT ![s] = Tail(@)]
        /\ Ctrl(s, Head(control[s]))
  /\ UNCHANGED <<pid, fresh, wstat, fileVars, sigterm, logpipe, sigVars, starts>>

ReadControlSvc == ReadControl(0, "control0", IF HasLog THEN "control1" ELSE "term")
ReadControlLog == ReadControl(1, "control1", "term")

TakeSigterm ==
  /\ At("term")
  /\ pc' = "exit"
  /\ sigterm' = FALSE
  /\ \/ /\ sigterm
        /\ Ctrl(0, "x")
     \/ /\ ~ sigterm
        /\ UNCHANGED <<sd_want, state, ctrl, proc, todo>>
  /\ UNCHANGED <<pid, fresh, wstat, fileVars, logpipe, sigVars, control, starts>>

MayExit == sd_want[0] = W_EXIT /\ state[0] = S_DOWN

BugExit == At("exit") /\ MayExit /\ Goto("exited", <<>>)
Exit == At("exit") /\ MayExit /\ pid[1] = 0 /\ Goto("exited", <<>>)

(* The service is down for good: let the log service end, too.  The status *)
(* is updated first, then the log pipe is closed.                          *)
CloseLog ==
  /\ At("exit")
  /\ MayExit
  /\ pid[1] # 0
  /\ sd_want[1] # W_EXIT
  /\ sd_want' = [sd_want EXCEPT ![1] = W_EXIT]
  /\ todo' = <<Call("update", 1)>>
  /\ pc' = "close"
  /\ UNCHANGED <<pid, state, ctrl, fresh, wstat, fileVars, sigterm, logpipe,
                 sigVars, control, proc, starts>>

BugClosePipe == At("close") /\ Goto("startlog", <<>>)
ClosePipe ==
  /\ At("close")
  /\ logpipe' = FALSE
  /\ pc' = "startlog"
  /\ UNCHANGED <<svdVars, fileVars, sigterm, sigVars, todo, control, proc, starts>>

StayUp ==
  /\ At("exit")
  /\ ~ MayExit \/ (pid[1] # 0 /\ sd_want[1] = W_EXIT)
  /\ Goto("startlog", <<>>)

Runsv ==
  \/ UpdateStatus \/ StopService \/ StopServiceCont
  \/ StartService \/ StartServiceFork \/ Sleep
  \/ StartLog \/ StartSvc
  \/ SigChild \/ SigTerm \/ PollReady
  \/ \E p \in Pids : ReapSvc(p) \/ ReapLog(p) \/ ReapOther(p)
  \/ ReapDone
  \/ ReadControlSvc \/ ReadControlLog \/ TakeSigterm
  \/ Exit \/ CloseLog \/ ClosePipe \/ StayUp

-----------------------------------------------------------------------------
(* External: the children, the users and the clock. *)

CanDie(p) ==
  \/ proc[p].st = "running"
  \/ proc[p].st = "stopped" /\ "KILL" \in proc[p].sig

(* A child ends, of itself or by a signal, and its parent gets SIGCHLD.    *)
Terminate(p) ==
  /\ CanDie(p)
  /\ \E code \in Codes :
       proc' = [proc EXCEPT ![p] = [st |-> "zombie", role |-> proc[p].role,
                                    sig |-> {}, code |-> code]]
  /\ pending' = pending \cup {"CHLD"}
  /\ UNCHANGED <<svdVars, fileVars, mainVars, selfpipe, todo, control, starts>>

(* A user writes a command to a control fifo (sv), or sends SIGTERM; one   *)
(* more SIGTERM makes no difference while sigterm is set and runsv is      *)
(* about to look at it.                                                    *)
SendCommand(s, c) ==
  /\ pc # "exited"
  /\ Len(control[s]) < MaxFifo
  /\ control' = [control EXCEPT ![s] = Append(@, c)]
  /\ UNCHANGED <<svdVars, fileVars, mainVars, sigVars, todo, proc, starts>>

SendTerm ==
  /\ pc # "exited"
  /\ "x" \in Commands
  /\ ~ (At("poll") /\ sigterm)
  /\ pending' = pending \cup {"TERM"}
  /\ UNCHANGED <<svdVars, fileVars, mainVars, selfpipe, todo, control, proc,
                 starts>>

(* A second passes. *)
Tick ==
  /\ fresh' = [s \in Svd |-> FALSE]
  /\ starts' = [s \in Svd |-> 0]
  /\ UNCHANGED <<pid, state, ctrl, sd_want, wstat, fileVars, mainVars, sigVars,
                 todo, control, proc>>

Environment ==
  \/ \E p \in Pids : Terminate(p)
  \/ \E s \in Svds, c \in Commands : SendCommand(s, c)
  \/ SendTerm
  \/ Tick

Next == Runsv \/ PollTimeout \/ Environment

Spec == Init /\ [][Next]_vars

(* Fairness.  runsv is one process the kernel schedules: it does not stop  *)
(* at a step it can take.  The hourly timeout of poll is not needed.  Time *)
(* passes.  A child that is sent SIGTERM or SIGKILL and is not stopped     *)
(* ends, so does ./finish, and so does a log service whose standard input  *)
(* is at its end; ./run need not end by itself.                            *)
AtEOF == ~ logpipe /\ \A q \in Pids : Alive(q) => proc[q].role = "log"

MustEnd(p) ==
  \/ proc[p].sig # {}
  \/ proc[p].role = "finish"
  \/ proc[p].role = "log" /\ AtEOF

Fairness ==
  /\ WF_vars(Runsv)
  /\ WF_vars(Tick)
  /\ \A p \in Pids : WF_vars(MustEnd(p) /\ Terminate(p))

FairSpec == Spec /\ Fairness

-----------------------------------------------------------------------------
(* Properties. *)

Places == {"startlog", "startsvc", "poll", "reap", "control0", "control1",
           "term", "exit", "close", "exited"}

(* The type invariant: every variable, the fields of both struct svdir and *)
(* the pending calls included, stays within its type.                      *)
TypeOK ==
  /\ pid \in [Svd -> Pids \cup {0}]
  /\ state \in [Svd -> States]
  /\ ctrl \in [Svd -> SUBSET {C_TERM, C_PAUSE}]
  /\ sd_want \in [Svd -> Wants]
  /\ fresh \in [Svd -> BOOLEAN]
  /\ wstat \in Codes
  /\ pidchanged \in BOOLEAN
  /\ sigterm \in BOOLEAN
  /\ logpipe \in BOOLEAN
  /\ pidfile \in [Svd -> Pids \cup {0}]
  /\ status \in [Svd -> Statuses]
  /\ pc \in Places
  /\ todo \in Seq(Calls)
  /\ selfpipe \in BOOLEAN
  /\ pending \subseteq {"CHLD", "TERM"}
  /\ control \in [Svd -> Seq(Commands)]
  /\ proc \in [Pids -> Procs]
  /\ starts \in [Svd -> 0..2]

(* kill() in ctrl and stopservice only ever reaches runsv's own child: the *)
(* pid of a running service, or of one about to be stopped, is not 0 (its  *)
(* own process group) and has not been reaped (a process id that belongs   *)
(* to somebody else by now), and the two services never share one.         *)
SignalsHitOwnChild ==
  /\ \A s \in Svd : state[s] = S_RUN => pid[s] # 0
  /\ \A c \in Range(todo) : c.op \in {"stop", "cont"} => pid[c.s] # 0
  /\ \A s \in Svd : pid[s] # 0 => proc[pid[s]].st # "free"
  /\ pid[0] # 0 => pid[0] # pid[1]

(* startservice never runs over a live pid: every child that exists is one *)
(* of the two in svd[], so a signal, a reap or an exit can still reach it. *)
NoLostChild == \A p \in Pids : proc[p].st # "free" => p \in {pid[0], pid[1]}

(* runsv exits only after its service, ./finish and log service are gone,  *)
(* or at least have been sent SIGKILL.                                     *)
ExitClean ==
  pc = "exited" => \A p \in Pids : Alive(p) => "KILL" \in proc[p].sig

(* Whenever runsv has made all its calls, in particular when it waits in   *)
(* poll and after its exit, supervise/status says what svd[] says.         *)
StatusAgrees == todo = <<>> => \A s \in Svds : status[s] = Snapshot(s)

(* At the same moments the pid files name the children, though one flag,   *)
(* pidchanged, serves both of them.                                        *)
PidFileAgrees ==
  todo = <<>> => /\ pidfile[0] = pid[0]
                 /\ pid[1] # 0 => pidfile[1] = pid[1]

(* A pid file that could not be replaced is replaced by the next           *)
(* update_status: whichever of its steps fail, the file never goes on      *)
(* naming a process that is not the service's.  (No log service here.)     *)
StalePidNoticed ==
  pidfile[0] \notin {0, pid[0]} => pidchanged \/ Call("update", 0) \in Range(todo)

(* The sleep(1) after an early death works: whatever the order of deaths,  *)
(* commands and restarts, no service is started twice within a second.     *)
Throttle == \A s \in Svds : starts[s] <= 1

(* The arguments of ./finish: from the reaping of ./run to the start of    *)
(* ./finish svd[0].wstat is left alone.                                    *)
FinishStatusKept ==
  [][state[0] = S_FINISH /\ pid[0] = 0 => wstat' = wstat]_vars

(* "should never happen": startservice is not called for a service that    *)
(* has a process.                                                          *)
StartFindsNone ==
  todo # <<>> /\ Head(todo).op = "start" => pid[Head(todo).s] = 0

(* The processes of the service and of the log service behave as Lifecycle *)
(* says: no second ./run beside ./run or ./finish, nothing left behind.    *)
Kids == {p \in Pids : proc[p].st # "free" /\ proc[p].role # "log"}
Logger == {p \in Pids : proc[p].st # "free" /\ proc[p].role = "log"}
Phase ==
  CASE pc = "exited" -> "gone"
    [] state[0] = S_DOWN /\ pc # "exited" -> "down"
    [] state[0] = S_RUN /\ pc # "exited" -> "run"
    [] state[0] = S_FINISH /\ pid[0] = 0 /\ pc # "exited" -> "ended"
    [] state[0] = S_FINISH /\ pid[0] # 0 /\ pc # "exited" -> "finish"

L == INSTANCE Lifecycle WITH phase <- Phase, kids <- Kids, logger <- Logger

LifecycleSpec == L!Spec

(* No wakeup is lost between the SIGCHLD handler, the self-pipe and poll:  *)
(* as long as runsv runs, a child that ended is reaped.                    *)
ZombieReaped ==
  \A p \in Pids : Zombie(p) ~> (~ Zombie(p) \/ pc = "exited")

(* A service that is wanted up is run, again and again if it has to be.    *)
Running(p) == p = pid[0] /\ Alive(p) /\ proc[p].role = "run"
UpServed ==
  sd_want[0] = W_UP ~> (sd_want[0] # W_UP \/ \E p \in Pids : Running(p))

(* An exit command is carried out, for a paused service too, unless        *)
(* another command comes behind it.                                        *)
ExitServed ==
  (At("control0") /\ control[0] = <<"x">>)
     ~> (pc = "exited" \/ (control[0] # <<>> /\ control[0] # <<"x">>))
=============================================================================
