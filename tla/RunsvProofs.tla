---------------------------- MODULE RunsvProofs ----------------------------
(***************************************************************************)
(* Proofs about runsv, for every set of process ids, commands, scripts and *)
(* exit statuses, and any bound on the control fifos.                      *)
(***************************************************************************)
EXTENDS Runsv, SequenceTheorems, TLAPS

-----------------------------------------------------------------------------
(* The todo as a sequence of calls. *)

(* startservice, its fork and the sleep are the last call of a todo. *)
Enders == {"start", "fork", "sleep"}
EndsWell(t) == \A i \in 1..Len(t) : t[i].op \in Enders => i = Len(t)

(* The todos of at most two calls that ctrl, the reaping and the main loop *)
(* build.                                                                  *)
LEMMA EmptyTodo == <<>> \in Seq(Calls) /\ Range(<<>>) = {} /\ EndsWell(<<>>)
  BY DEF Range, EndsWell

LEMMA OneCall ==
  ASSUME NEW c \in Calls
  PROVE  /\ <<c>> \in Seq(Calls) /\ Range(<<c>>) = {c} /\ EndsWell(<<c>>)
         /\ <<c>> \o <<>> = <<c>>
<1>1. <<c>> \in Seq(Calls)
  OBVIOUS
<1>2. Len(<<c>>) = 1 /\ DOMAIN <<c>> = 1..1 /\ <<c>>[1] = c
  OBVIOUS
<1>3. Range(<<c>>) = {c}
  BY <1>2 DEF Range
<1>4. EndsWell(<<c>>)
  BY <1>2 DEF EndsWell
<1>5. <<c>> \o <<>> = <<c>>
  BY <1>1
<1> QED
  BY <1>1, <1>3, <1>4, <1>5

LEMMA TwoCalls ==
  ASSUME NEW c \in Calls, NEW d \in Calls
  PROVE  /\ <<c>> \o <<d>> = <<c, d>>
         /\ <<c, d>> \in Seq(Calls) /\ Range(<<c, d>>) = {c, d}
         /\ c.op \notin Enders => EndsWell(<<c, d>>)
<1>1. <<c, d>> \in Seq(Calls)
  OBVIOUS
<1>2. /\ Len(<<c, d>>) = 2 /\ DOMAIN <<c, d>> = 1..2
      /\ <<c, d>>[1] = c /\ <<c, d>>[2] = d
  OBVIOUS
<1>3. Range(<<c, d>>) = {c, d}
  BY <1>2 DEF Range
<1>4. c.op \notin Enders => EndsWell(<<c, d>>)
  BY <1>2 DEF EndsWell
<1>5. <<c>> \o <<d>> = <<c, d>>
  <2>1. /\ <<c>> \in Seq(Calls) /\ Len(<<c>>) = 1 /\ <<c>>[1] = c
        /\ <<d>> \in Seq(Calls) /\ Len(<<d>>) = 1 /\ <<d>>[1] = d
    OBVIOUS
  <2>2. /\ <<c>> \o <<d>> \in Seq(Calls) /\ Len(<<c>> \o <<d>>) = 2
        /\ (<<c>> \o <<d>>)[1] = c /\ (<<c>> \o <<d>>)[2] = d
    BY <2>1, ConcatProperties
  <2>3. \A i \in 1..2 : (<<c>> \o <<d>>)[i] = <<c, d>>[i]
    BY <1>2, <2>2
  <2> QED
    BY <1>1, <1>2, <2>2, <2>3, SeqEqual, Zenon
<1> QED
  BY <1>1, <1>3, <1>4, <1>5

(* Making the first call of a todo leaves the others, and none is left     *)
(* after startservice, its fork or the sleep.                              *)
LEMMA TailTodo ==
  ASSUME NEW t \in Seq(Calls), t # <<>>
  PROVE  /\ Head(t) \in Calls /\ Tail(t) \in Seq(Calls)
         /\ Range(t) = {Head(t)} \cup Range(Tail(t))
         /\ EndsWell(t) => /\ EndsWell(Tail(t))
                           /\ Head(t).op \in Enders => Tail(t) = <<>>
<1>1. /\ Head(t) \in Calls /\ Tail(t) \in Seq(Calls)
      /\ Head(t) = t[1] /\ Len(t) \in Nat \ {0} /\ Len(Tail(t)) = Len(t) - 1
      /\ \A i \in 1..Len(Tail(t)) : Tail(t)[i] = t[i+1]
      /\ DOMAIN t = 1..Len(t) /\ DOMAIN Tail(t) = 1..Len(Tail(t))
  BY HeadTailProperties, LenProperties, EmptySeq
<1>2. Range(t) = {Head(t)} \cup Range(Tail(t))
  <2>1. ASSUME NEW x \in Range(t) PROVE x \in {Head(t)} \cup Range(Tail(t))
    <3>1. PICK i \in 1..Len(t) : x = t[i]
      BY <1>1, <2>1 DEF Range
    <3>2. i # 1 => i - 1 \in 1..Len(Tail(t)) /\ x = Tail(t)[i-1]
      BY <1>1, <3>1
    <3> QED
      BY <1>1, <3>1, <3>2 DEF Range
  <2>2. ASSUME NEW x \in Range(Tail(t)) PROVE x \in Range(t)
    BY <1>1, <2>2 DEF Range
  <2>3. Head(t) \in Range(t)
    BY <1>1 DEF Range
  <2> QED
    BY <2>1, <2>2, <2>3
<1>3. ASSUME EndsWell(t) PROVE EndsWell(Tail(t))
  <2> SUFFICES ASSUME NEW i \in 1..Len(Tail(t)), Tail(t)[i].op \in Enders
               PROVE  i = Len(Tail(t))
    BY DEF EndsWell
  <2>1. i + 1 \in 1..Len(t) /\ t[i+1].op \in Enders
    BY <1>1
  <2>2. i + 1 = Len(t)
    BY <1>3, <2>1 DEF EndsWell
  <2>3. Len(t) \in Nat /\ Len(Tail(t)) = Len(t) - 1
    BY <1>1
  <2> QED
    BY <2>2, <2>3
<1>4. ASSUME EndsWell(t), Head(t).op \in Enders PROVE Tail(t) = <<>>
  <2>1. 1 \in 1..Len(t) /\ t[1].op \in Enders
    BY <1>1, <1>4
  <2>2. Len(t) = 1
    BY <1>4, <2>1 DEF EndsWell
  <2>3. Len(Tail(t)) = 0
    BY <1>1, <2>2
  <2> QED
    BY <1>1, <2>3, EmptySeq
<1> QED
  BY <1>1, <1>2, <1>3, <1>4

(* A call put in front of a todo.                                          *)
LEMMA ConsTodo ==
  ASSUME NEW t \in Seq(Calls), NEW c \in Calls
  PROVE  /\ <<c>> \o t \in Seq(Calls)
         /\ Range(<<c>> \o t) = {c} \cup Range(t)
         /\ EndsWell(t) /\ c.op \notin Enders => EndsWell(<<c>> \o t)
<1> DEFINE u == <<c>> \o t
<1>1. /\ u \in Seq(Calls) /\ Len(t) \in Nat /\ Len(u) = Len(t) + 1
      /\ u[1] = c /\ \A i \in 1..Len(t) : u[i+1] = t[i]
      /\ \A i \in 2..Len(u) : i - 1 \in 1..Len(t) /\ u[i] = t[i-1]
      /\ DOMAIN t = 1..Len(t) /\ DOMAIN u = 1..Len(u)
  <2>1. <<c>> \in Seq(Calls) /\ Len(<<c>>) = 1 /\ <<c>>[1] = c
    BY OneCall
  <2>2. /\ u \in Seq(Calls) /\ Len(u) = Len(<<c>>) + Len(t)
        /\ \A i \in 1..(Len(<<c>>) + Len(t)) :
             u[i] = IF i <= Len(<<c>>) THEN <<c>>[i] ELSE t[i - Len(<<c>>)]
    BY <2>1, ConcatProperties
  <2> QED
    BY <2>1, <2>2, LenProperties
<1> HIDE DEF u
<1>2. Range(u) = {c} \cup Range(t)
  <2>1. ASSUME NEW x \in Range(u) PROVE x \in {c} \cup Range(t)
    <3>1. PICK i \in 1..Len(u) : x = u[i]
      BY <1>1, <2>1 DEF Range
    <3>2. i # 1 => i \in 2..Len(u)
      BY <1>1
    <3> QED
      BY <1>1, <3>1, <3>2 DEF Range
  <2>2. ASSUME NEW x \in Range(t) PROVE x \in Range(u)
    <3>1. PICK i \in 1..Len(t) : x = t[i]
      BY <1>1, <2>2 DEF Range
    <3> QED
      BY <1>1, <3>1 DEF Range
  <2>3. c \in Range(u)
    BY <1>1 DEF Range
  <2> QED
    BY <2>1, <2>2, <2>3
<1>3. ASSUME EndsWell(t), c.op \notin Enders PROVE EndsWell(u)
  <2> SUFFICES ASSUME NEW i \in 1..Len(u), u[i].op \in Enders
               PROVE  i = Len(u)
    BY DEF EndsWell
  <2>1. i \in 2..Len(u)
    BY <1>1, <1>3
  <2>2. i - 1 \in 1..Len(t) /\ t[i-1].op \in Enders
    BY <1>1, <2>1
  <2>3. i - 1 = Len(t)
    BY <1>3, <2>2 DEF EndsWell
  <2> QED
    BY <1>1, <2>1, <2>3
<1> QED
  BY <1>1, <1>2, <1>3 DEF u

-----------------------------------------------------------------------------
(* What kill and ctrl leave alone. *)

LEMMA CallFacts ==
  ASSUME NEW f \in Ops, NEW s \in Svd
  PROVE  Call(f, s) \in Calls /\ Call(f, s).op = f /\ Call(f, s).s = s
  BY DEF Call, Calls

(* A signal neither frees a process nor changes what it runs.              *)
SameKids ==
  \A p \in Pids : /\ proc'[p].st = "free" <=> proc[p].st = "free"
                  /\ proc'[p].role = proc[p].role

LEMMA KillKeeps ==
  ASSUME proc \in [Pids -> Procs], NEW q,
         NEW sg \in {"TERM", "KILL", "STOP", "CONT"}, proc' = Kill(q, sg)
  PROVE  proc' \in [Pids -> Procs] /\ SameKids
<1>1. ASSUME NEW p \in Pids
      PROVE  LET r == Signalled(proc[p], sg)
             IN  /\ r \in Procs /\ r.role = proc[p].role
                 /\ r.st = "free" <=> proc[p].st = "free"
  BY DEF Signalled, Procs
<1> QED
  BY <1>1 DEF Kill, SameKids

LEMMA SignalKeeps ==
  ASSUME proc \in [Pids -> Procs], NEW s, NEW c,
         NEW sg \in {"TERM", "KILL", "STOP", "CONT"}, Signal(s, c, sg)
  PROVE  proc' \in [Pids -> Procs] /\ SameKids
  BY KillKeeps DEF Signal, SameKids

(* The calls ctrl(s, c) can leave behind.                                  *)
CtrlCalls(s) ==
  /\ todo' \in Seq(Calls) /\ EndsWell(todo')
  /\ \A d \in Range(todo') :
       \/ d = Call("update", s)
       \/ d = Call("stop", s) /\ state[s] = S_RUN
       \/ d = Call("start", s) /\ state[s] = S_DOWN

LEMMA OrderCalls ==
  ASSUME NEW s \in Svd, NEW w \in Wants, NEW calls,
         \/ calls = <<>>
         \/ calls = <<Call("stop", s)>> /\ state[s] = S_RUN
         \/ calls = <<Call("start", s)>> /\ state[s] = S_DOWN,
         Order(s, w, calls)
  PROVE  /\ CtrlCalls(s) /\ Call("update", s) \in Range(todo')
<1>1. /\ Call("update", s) \in Calls /\ Call("update", s).op \notin Enders
      /\ Call("stop", s) \in Calls /\ Call("start", s) \in Calls
  BY CallFacts DEF Ops, Enders
<1>2. CASE calls = <<>>
  BY <1>1, <1>2, OneCall DEF Order, CtrlCalls
<1>3. CASE calls = <<Call("stop", s)>> /\ state[s] = S_RUN
  <2>1. todo' = <<Call("update", s), Call("stop", s)>>
    BY <1>1, <1>3, TwoCalls DEF Order
  <2>2. /\ todo' \in Seq(Calls) /\ EndsWell(todo')
        /\ Range(todo') = {Call("update", s), Call("stop", s)}
    BY <1>1, <2>1, TwoCalls
  <2> QED
    BY <1>3, <2>2 DEF CtrlCalls
<1>4. CASE calls = <<Call("start", s)>> /\ state[s] = S_DOWN
  <2>1. todo' = <<Call("update", s), Call("start", s)>>
    BY <1>1, <1>4, TwoCalls DEF Order
  <2>2. /\ todo' \in Seq(Calls) /\ EndsWell(todo')
        /\ Range(todo') = {Call("update", s), Call("start", s)}
    BY <1>1, <2>1, TwoCalls
  <2> QED
    BY <1>4, <2>2 DEF CtrlCalls
<1> QED
  BY <1>2, <1>3, <1>4

(* What a command can change.                                              *)
CtrlEffect(s, c) ==
  /\ sd_want' \in [Svd -> Wants]
  /\ ctrl' \in [Svd -> SUBSET {C_TERM, C_PAUSE}]
  /\ proc' \in [Pids -> Procs] /\ SameKids
  /\ state' = IF c = "k" THEN [state EXCEPT ![s] = S_DOWN] ELSE state
  /\ CtrlCalls(s)
  /\ \A t \in Svd \ {s} : sd_want'[t] = sd_want[t] /\ ctrl'[t] = ctrl[t]
  /\ \/ Call("update", s) \in Range(todo')
     \/ c = "k"
     \/ sd_want' = sd_want /\ ctrl' = ctrl

LEMMA CtrlKeeps ==
  ASSUME TypeOK, NEW s \in Svd, NEW c, Ctrl(s, c)
  PROVE  CtrlEffect(s, c)
<1>0. /\ Call("update", s) \in Calls /\ Call("stop", s) \in Calls
      /\ <<>> \in Seq(Calls) /\ Range(<<>>) = {} /\ EndsWell(<<>>)
  BY CallFacts, EmptyTodo DEF Ops
<1>1. ASSUME NEW w \in Wants, NEW calls, Order(s, w, calls), c # "k",
             calls \in {StopIfRunning(s), StartIfDown(s)}
      PROVE  CtrlEffect(s, c)
  <2>1. CtrlCalls(s) /\ Call("update", s) \in Range(todo')
    BY <1>1, OrderCalls DEF StopIfRunning, StartIfDown
  <2> QED
    BY <1>1, <2>1 DEF Order, CtrlEffect, TypeOK, SameKids
<1>2. CASE c = "d" /\ CtrlDown(s)
  BY <1>1, <1>2 DEF CtrlDown, Wants
<1>3. CASE c = "u" /\ CtrlUp(s)
  BY <1>1, <1>3 DEF CtrlUp, Wants
<1>4. CASE c = "o" /\ CtrlOnce(s)
  BY <1>1, <1>4 DEF CtrlOnce, Wants
<1>5. CASE c = "x" /\ CtrlExit(s)
  <2>1. CASE s = 0 /\ Order(s, W_EXIT, StopIfRunning(s))
    BY <1>1, <1>5, <2>1 DEF Wants
  <2>2. CASE todo' = <<>> /\ UNCHANGED <<sd_want, state, ctrl, proc>>
    BY <1>0, <1>5, <2>2 DEF CtrlEffect, CtrlCalls, TypeOK, SameKids
  <2> QED
    BY <1>5, <2>1, <2>2 DEF CtrlExit
<1>6. CASE c = "t" /\ CtrlTerm(s)
  <2>1. CtrlCalls(s)
    BY <1>0, <1>6, OneCall DEF CtrlTerm, StopIfRunning, CtrlCalls
  <2> QED
    BY <1>6, <2>1 DEF CtrlTerm, CtrlEffect, TypeOK, SameKids
<1>7. CASE c = "k" /\ CtrlKill(s)
  <2>1. proc' \in [Pids -> Procs] /\ SameKids
    BY <1>7, SignalKeeps DEF CtrlKill, TypeOK
  <2> QED
    BY <1>0, <1>7, <2>1 DEF CtrlKill, CtrlEffect, CtrlCalls, TypeOK
<1>8. CASE c = "p" /\ CtrlPause(s)
  <2>1. proc' \in [Pids -> Procs] /\ SameKids
    BY <1>8, SignalKeeps DEF CtrlPause, TypeOK
  <2>2. CtrlCalls(s) /\ Call("update", s) \in Range(todo')
    BY <1>0, <1>8, OneCall DEF CtrlPause, CtrlCalls
  <2> QED
    BY <1>8, <2>1, <2>2 DEF CtrlPause, CtrlEffect, TypeOK
<1>9. CASE c = "c" /\ CtrlCont(s)
  <2>1. proc' \in [Pids -> Procs] /\ SameKids
    BY <1>9, SignalKeeps DEF CtrlCont, TypeOK
  <2>2. CtrlCalls(s) /\ Call("update", s) \in Range(todo')
    BY <1>0, <1>9, OneCall DEF CtrlCont, CtrlCalls
  <2> QED
    BY <1>9, <2>1, <2>2 DEF CtrlCont, CtrlEffect, TypeOK
<1>10. CASE c = "h" /\ CtrlSignal(s)
  BY <1>0, <1>10 DEF CtrlSignal, CtrlEffect, CtrlCalls, TypeOK, SameKids
<1> QED
  BY <1>2, <1>3, <1>4, <1>5, <1>6, <1>7, <1>8, <1>9, <1>10 DEF Ctrl

-----------------------------------------------------------------------------
(* Type correctness. *)

LEMMA InitType == Init => TypeOK
<1> SUFFICES ASSUME Init PROVE TypeOK
  OBVIOUS
<1>1. todo \in Seq(Calls)
  BY CallFacts DEF Init, Ops, Svd
<1>2. \A s \in Svd : OldStatus \in Statuses
  BY DEF OldStatus, Statuses, States, S_DOWN
<1>3. Free \in Procs
  BY RunsvAssumption DEF Free, Procs
<1> QED
  <2>1. /\ pid \in [Svd -> Pids \cup {0}] /\ state \in [Svd -> States]
        /\ ctrl \in [Svd -> SUBSET {C_TERM, C_PAUSE}]
        /\ sd_want \in [Svd -> Wants] /\ fresh \in [Svd -> BOOLEAN]
    BY DEF Init, States, Wants
  <2>2. /\ pidfile \in [Svd -> Pids \cup {0}] /\ status \in [Svd -> Statuses]
        /\ control \in [Svd -> Seq(Commands)] /\ proc \in [Pids -> Procs]
        /\ starts \in [Svd -> 0..2]
    BY <1>2, <1>3 DEF Init
  <2>3. /\ wstat \in Codes /\ pidchanged \in BOOLEAN /\ sigterm \in BOOLEAN
        /\ logpipe \in BOOLEAN /\ pc \in Places /\ selfpipe \in BOOLEAN
        /\ pending \subseteq {"CHLD", "TERM"}
    BY RunsvAssumption DEF Init, Places
  <2> QED
    BY <1>1, <2>1, <2>2, <2>3 DEF TypeOK

LEMMA InitTodo ==
  ASSUME Init
  PROVE  /\ EndsWell(todo) /\ \A c \in Range(todo) : c.op = "update"
         /\ \A s \in Svds : Call("update", s) \in Range(todo)
<1>1. \A s \in Svd : /\ Call("update", s) \in Calls
                     /\ Call("update", s).op = "update"
                     /\ Call("update", s).op \notin Enders
  BY CallFacts DEF Ops, Enders
<1>2. 0 \in Svd /\ 1 \in Svd
  BY DEF Svd
<1>3. CASE HasLog
  <2>1. todo = <<Call("update", 0), Call("update", 1)>>
    BY <1>3 DEF Init
  <2>2. EndsWell(todo) /\ Range(todo) = {Call("update", 0), Call("update", 1)}
    BY <1>1, <1>2, <2>1, TwoCalls
  <2> QED
    BY <1>1, <1>2, <2>2 DEF Svds
<1>4. CASE ~ HasLog
  <2>1. todo = <<Call("update", 0)>>
    BY <1>4 DEF Init
  <2>2. EndsWell(todo) /\ Range(todo) = {Call("update", 0)}
    BY <1>1, <1>2, <2>1, OneCall
  <2> QED
    BY <1>1, <1>2, <1>4, <2>2 DEF Svds
<1> QED
  BY <1>3, <1>4

(* The snapshot that update_status writes is one that sv can read.         *)
LEMMA SnapshotType ==
  ASSUME TypeOK, NEW s \in Svd
  PROVE  Snapshot(s) \in Statuses
  BY DEF TypeOK, Snapshot, Statuses

LEMMA GotoType ==
  ASSUME TypeOK, NEW place \in Places, NEW calls \in Seq(Calls),
         Goto(place, calls)
  PROVE  TypeOK'
  BY DEF Goto, TypeOK, svdVars, fileVars, sigVars

LEMMA UpdateStatusType == TypeOK /\ UpdateStatus => TypeOK'
<1> SUFFICES ASSUME TypeOK, UpdateStatus PROVE TypeOK'
  OBVIOUS
<1> DEFINE s == Head(todo).s
<1>1. s \in Svd /\ todo' \in Seq(Calls)
  BY TailTodo DEF TypeOK, UpdateStatus, Calling, Calls
<1>2. Snapshot(s) \in Statuses
  BY <1>1, SnapshotType
<1>3. status' \in [Svd -> Statuses]
  BY <1>1, <1>2 DEF TypeOK, UpdateStatus
<1>4. pidchanged' \in BOOLEAN /\ pidfile' \in [Svd -> Pids \cup {0}]
  BY <1>1 DEF TypeOK, UpdateStatus, WritePid
<1> QED
  BY <1>1, <1>3, <1>4
  DEF TypeOK, UpdateStatus, svdVars, mainVars, sigVars

LEMMA StopServiceType == TypeOK /\ StopService => TypeOK'
<1> SUFFICES ASSUME TypeOK, StopService PROVE TypeOK'
  OBVIOUS
<1> DEFINE s == Head(todo).s
<1>1. s \in Svd /\ Tail(todo) \in Seq(Calls)
  BY TailTodo DEF TypeOK, StopService, Calling, Calls
<1>2. proc' \in [Pids -> Procs]
  BY KillKeeps DEF TypeOK, StopService
<1>3. ctrl' \in [Svd -> SUBSET {C_TERM, C_PAUSE}]
  BY <1>1 DEF TypeOK, StopService
<1>4. todo' \in Seq(Calls)
  <2>1. Call("update", s) \in Calls /\ Call("cont", s) \in Calls
    BY <1>1, CallFacts DEF Ops
  <2>2. /\ <<Call("cont", s)>> \in Seq(Calls)
        /\ <<Call("update", s), Call("cont", s)>> \in Seq(Calls)
    BY <2>1
  <2> QED
    BY <1>1, <2>2, ConcatProperties DEF StopService
<1> QED
  BY <1>2, <1>3, <1>4
  DEF TypeOK, StopService, fileVars, mainVars, sigVars

LEMMA StopServiceContType == TypeOK /\ StopServiceCont => TypeOK'
<1> SUFFICES ASSUME TypeOK, StopServiceCont PROVE TypeOK'
  OBVIOUS
<1>1. todo' \in Seq(Calls)
  BY TailTodo DEF TypeOK, StopServiceCont, Calling
<1>2. proc' \in [Pids -> Procs]
  BY KillKeeps DEF TypeOK, StopServiceCont
<1> QED
  BY <1>1, <1>2
  DEF TypeOK, StopServiceCont, svdVars, fileVars, mainVars, sigVars

LEMMA StartServiceType == TypeOK /\ StartService => TypeOK'
<1> SUFFICES ASSUME TypeOK, StartService PROVE TypeOK'
  OBVIOUS
<1> DEFINE s == Head(todo).s
<1>1. s \in Svd /\ Tail(todo) \in Seq(Calls)
  BY TailTodo DEF TypeOK, StartService, Calling, Calls
<1>2. Call("stop", s) \in Calls /\ Call("fork", s) \in Calls
  BY <1>1, CallFacts DEF Ops
<1>3. /\ <<Call("fork", s)>> \in Seq(Calls)
      /\ <<Call("stop", s), Call("fork", s)>> \in Seq(Calls)
  BY <1>2
<1>4. todo' \in Seq(Calls)
  BY <1>1, <1>3, ConcatProperties DEF StartService
<1> QED
  BY <1>4 DEF TypeOK, StartService, svdVars, fileVars, mainVars, sigVars

LEMMA StartServiceForkType == TypeOK /\ StartServiceFork => TypeOK'
<1> SUFFICES ASSUME TypeOK, StartServiceFork PROVE TypeOK'
  OBVIOUS
<1> DEFINE s == Head(todo).s
<1>1. s \in Svd /\ Tail(todo) \in Seq(Calls)
  BY TailTodo DEF TypeOK, StartServiceFork, Calling, Calls
<1>2. PICK p \in Pids : Fork(s, p)
  BY DEF StartServiceFork
<1>3. todo' \in Seq(Calls)
  BY <1>1, <1>2, CallFacts, ConsTodo DEF Fork, Ops
<1>4. proc' \in [Pids -> Procs]
  <2>1. \A code \in Codes : Child(s, code) \in Procs
    BY <1>1 DEF Child, Role, Procs, Svd
  <2> QED
    BY <1>2, <2>1, RunsvAssumption DEF Fork, TypeOK
<1>5. /\ pid' \in [Svd -> Pids \cup {0}]
      /\ ctrl' \in [Svd -> SUBSET {C_TERM, C_PAUSE}]
      /\ state' \in [Svd -> States] /\ fresh' \in [Svd -> BOOLEAN]
  BY <1>1, <1>2 DEF Fork, TypeOK, States
<1>6. starts' \in [Svd -> 0..2]
  <2>1. \/ starts' = starts
        \/ \E n \in 0..2 : starts' = [starts EXCEPT ![s] = n]
    BY <1>2 DEF Fork
  <2>2. starts \in [Svd -> 0..2]
    BY DEF TypeOK
  <2> QED
    BY <1>1, <2>1, <2>2
<1>7. pidchanged' \in BOOLEAN /\ pending' \subseteq {"CHLD", "TERM"}
  BY <1>2 DEF Fork, TypeOK
<1> QED
  BY <1>3, <1>4, <1>5, <1>6, <1>7
  DEF TypeOK, StartServiceFork, mainVars

LEMMA ReapType ==
  ASSUME TypeOK, NEW p \in Pids, ReapSvc(p) \/ ReapLog(p) \/ ReapOther(p)
  PROVE  TypeOK'
<1>1. Free \in Procs
  BY RunsvAssumption DEF Free, Procs
<1>2. ASSUME NEW s \in Svd, Reaped(s, p)
      PROVE  /\ proc' \in [Pids -> Procs] /\ wstat' \in Codes
             /\ pid' \in [Svd -> Pids \cup {0}] /\ pidchanged' \in BOOLEAN
             /\ ctrl' \in [Svd -> SUBSET {C_TERM, C_PAUSE}]
  BY <1>1, <1>2 DEF TypeOK, Reaped, Procs
<1>3. ASSUME NEW s \in Svd
      PROVE  /\ Call("update", s) \in Calls /\ Call("sleep", s) \in Calls
             /\ <<Call("update", s)>> \in Seq(Calls)
  BY CallFacts DEF Ops
<1>4. ASSUME NEW s \in Svd, NowDown(s)
      PROVE  /\ state' \in [Svd -> States] /\ fresh' \in [Svd -> BOOLEAN]
             /\ todo' \in Seq(Calls)
  BY <1>3, <1>4, OneCall, TwoCalls DEF TypeOK, NowDown, States
<1>5. CASE ReapSvc(p)
  <2>1. 0 \in Svd
    BY DEF Svd
  <2>2. CASE NowDown(0)
    BY <1>2, <1>4, <1>5, <2>1, <2>2 DEF ReapSvc, TypeOK, mainVars, sigVars
  <2>3. CASE /\ state' = [state EXCEPT ![0] = S_FINISH]
             /\ todo' = <<Call("update", 0)>> /\ UNCHANGED fresh
    BY <1>2, <1>3, <1>5, <2>1, <2>3
    DEF ReapSvc, TypeOK, States, mainVars, sigVars
  <2> QED
    BY <1>5, <2>2, <2>3 DEF ReapSvc
<1>6. CASE ReapLog(p)
  <2>1. 1 \in Svd
    BY DEF Svd
  <2> QED
    BY <1>2, <1>4, <1>6, <2>1 DEF ReapLog, TypeOK, mainVars, sigVars
<1>7. CASE ReapOther(p)
  BY <1>1, <1>7
  DEF ReapOther, TypeOK, svdVars, fileVars, mainVars, sigVars
<1> QED
  BY <1>5, <1>6, <1>7

LEMMA ReadControlType ==
  ASSUME TypeOK, NEW s \in Svd, NEW place, NEW next \in Places,
         ReadControl(s, place, next)
  PROVE  TypeOK'
<1>1. CASE control[s] = <<>> /\ UNCHANGED <<sd_want, state, ctrl, proc, todo, control>>
  BY <1>1 DEF ReadControl, TypeOK, fileVars, sigVars
<1>2. CASE control[s] # <<>> /\ Ctrl(s, Head(control[s]))
           /\ control' = [control EXCEPT ![s] = Tail(@)]
  <2>1. CtrlEffect(s, Head(control[s]))
    BY <1>2, CtrlKeeps
  <2>2. state' \in [Svd -> States]
    BY <2>1 DEF CtrlEffect, TypeOK, States
  <2>3. control' \in [Svd -> Seq(Commands)]
    BY <1>2, HeadTailProperties DEF TypeOK
  <2> QED
    BY <2>1, <2>2, <2>3
    DEF CtrlEffect, CtrlCalls, ReadControl, TypeOK, fileVars, sigVars
<1> QED
  BY <1>1, <1>2 DEF ReadControl

LEMMA TakeSigtermType == TypeOK /\ TakeSigterm => TypeOK'
<1> SUFFICES ASSUME TypeOK, TakeSigterm PROVE TypeOK'
  OBVIOUS
<1>1. CASE UNCHANGED <<sd_want, state, ctrl, proc, todo>>
  BY <1>1 DEF TakeSigterm, TypeOK, Places, fileVars, sigVars
<1>2. CASE Ctrl(0, "x")
  <2>1. CtrlEffect(0, "x")
    BY <1>2, CtrlKeeps DEF Svd
  <2> QED
    BY <2>1
    DEF CtrlEffect, CtrlCalls, TakeSigterm, TypeOK, Places, fileVars, sigVars
<1> QED
  BY <1>1, <1>2 DEF TakeSigterm

(* A step of the environment: it touches the children, the fifos, the      *)
(* signals and the clock, and nothing that runsv itself keeps.             *)
LEMMA EnvironmentType == TypeOK /\ Environment => TypeOK'
<1> SUFFICES ASSUME TypeOK, Environment PROVE TypeOK'
  OBVIOUS
<1>1. ASSUME NEW p \in Pids, Terminate(p) PROVE TypeOK'
  <2>1. proc' \in [Pids -> Procs]
    BY <1>1 DEF Terminate, TypeOK, Procs
  <2> QED
    BY <1>1, <2>1 DEF Terminate, TypeOK, svdVars, fileVars, mainVars
<1>2. ASSUME NEW s \in Svds, NEW c \in Commands, SendCommand(s, c) PROVE TypeOK'
  <2>1. s \in Svd
    BY DEF Svd, Svds
  <2>2. control' \in [Svd -> Seq(Commands)]
    BY <1>2, <2>1, AppendProperties DEF SendCommand, TypeOK
  <2> QED
    BY <1>2, <2>2 DEF SendCommand, TypeOK, svdVars, fileVars, mainVars, sigVars
<1>3. CASE SendTerm
  BY <1>3 DEF SendTerm, TypeOK, svdVars, fileVars, mainVars
<1>4. CASE Tick
  BY <1>4 DEF Tick, TypeOK, fileVars, mainVars, sigVars
<1> QED
  BY <1>1, <1>2, <1>3, <1>4 DEF Environment

LEMMA LoopType ==
  ASSUME TypeOK,
         StartLog \/ StartSvc \/ PollTimeout \/ ReapDone \/ Exit \/ StayUp
  PROVE  TypeOK'
<1>1. \A s \in Svd : <<Call("start", s)>> \in Seq(Calls)
  BY CallFacts DEF Ops
<1>2. 0 \in Svd /\ 1 \in Svd /\ <<>> \in Seq(Calls)
  BY DEF Svd
<1>3. CASE StartLog
  BY <1>1, <1>2, <1>3, GotoType DEF StartLog, Places
<1>4. CASE StartSvc
  BY <1>1, <1>2, <1>4, GotoType DEF StartSvc, Places
<1>5. CASE PollTimeout
  BY <1>2, <1>5, GotoType DEF PollTimeout, Places
<1>6. CASE ReapDone
  BY <1>2, <1>6, GotoType DEF ReapDone, Places
<1>7. CASE Exit
  BY <1>2, <1>7, GotoType DEF Exit, Places
<1>8. CASE StayUp
  BY <1>2, <1>8, GotoType DEF StayUp, Places
<1> QED
  BY <1>3, <1>4, <1>5, <1>6, <1>7, <1>8

LEMMA TypeStep == TypeOK /\ [Next]_vars => TypeOK'
<1> SUFFICES ASSUME TypeOK, [Next]_vars PROVE TypeOK'
  OBVIOUS
<1>1. 0 \in Svd /\ 1 \in Svd
  BY DEF Svd
<1>2. CASE Sleep
  BY <1>2, TailTodo
  DEF Sleep, Calling, TypeOK, svdVars, fileVars, mainVars, sigVars
<1>3. CASE SigChild
  BY <1>3 DEF SigChild, TypeOK, svdVars, fileVars, mainVars
<1>4. CASE SigTerm
  BY <1>4 DEF SigTerm, TypeOK, svdVars, fileVars
<1>5. CASE PollReady
  BY <1>5 DEF PollReady, TypeOK, Places, svdVars, fileVars
<1>6. CASE ReadControlSvc
  BY <1>1, <1>6, ReadControlType DEF ReadControlSvc, Places
<1>7. CASE ReadControlLog
  BY <1>1, <1>7, ReadControlType DEF ReadControlLog, Places
<1>8. CASE CloseLog
  <2>1. todo' \in Seq(Calls)
    BY <1>1, <1>8, CallFacts DEF CloseLog, Ops
  <2> QED
    BY <1>1, <1>8, <2>1
    DEF CloseLog, TypeOK, Wants, Places, fileVars, sigVars
<1>9. CASE UNCHANGED vars
  BY <1>9 DEF vars, TypeOK, svdVars, fileVars, mainVars, sigVars
<1>10. CASE ClosePipe
  BY <1>10 DEF ClosePipe, TypeOK, Places, svdVars, fileVars, sigVars
<1> QED
  BY <1>2, <1>3, <1>4, <1>5, <1>6, <1>7, <1>8, <1>9, <1>10, UpdateStatusType,
     StopServiceType, StopServiceContType, StartServiceType,
     StartServiceForkType, ReapType, TakeSigtermType, EnvironmentType, LoopType
  DEF Next, Runsv

(* Every variable of runsv stays within its type, for all constants.       *)
THEOREM TypeCorrect == Spec => []TypeOK
  BY InitType, TypeStep, PTL DEF Spec

-----------------------------------------------------------------------------
(* The todo that a call of stopservice, startservice or vfork leaves. *)

LEMMA NextCall ==
  ASSUME TypeOK, todo # <<>>
  PROVE  /\ Head(todo) \in Calls /\ Head(todo).s \in Svd
         /\ Head(todo) = Call(Head(todo).op, Head(todo).s)
         /\ Tail(todo) \in Seq(Calls)
         /\ Range(todo) = {Head(todo)} \cup Range(Tail(todo))
         /\ EndsWell(todo) => /\ EndsWell(Tail(todo))
                              /\ Head(todo).op \in Enders => Tail(todo) = <<>>
  BY TailTodo DEF TypeOK, Calls, Call

LEMMA TodoCalls == TypeOK => Range(todo) \subseteq Calls
<1> SUFFICES ASSUME TypeOK, NEW c \in Range(todo) PROVE c \in Calls
  OBVIOUS
<1>1. todo \in Seq(Calls) /\ DOMAIN todo = 1..Len(todo)
  BY LenProperties DEF TypeOK
<1>2. PICK i \in 1..Len(todo) : c = todo[i]
  BY <1>1 DEF Range
<1> QED
  BY <1>1, <1>2, ElementOfSeq

LEMMA StopTodo ==
  ASSUME TypeOK, StopService
  PROVE  LET s == Head(todo).s IN
         /\ Range(todo') \subseteq
              {Call("update", s), Call("cont", s)} \cup Range(Tail(todo))
         /\ Range(Tail(todo)) \subseteq Range(todo')
         /\ EndsWell(todo) => EndsWell(todo')
         /\ Call("update", s) \in Range(todo') \/ UNCHANGED ctrl
<1> DEFINE s == Head(todo).s
           cont == <<Call("cont", s)>> \o Tail(todo)
           both == <<Call("update", s)>> \o cont
<1>1. /\ s \in Svd /\ Tail(todo) \in Seq(Calls)
      /\ EndsWell(todo) => EndsWell(Tail(todo))
  BY NextCall DEF StopService, Calling
<1>2. /\ Call("update", s) \in Calls /\ Call("update", s).op \notin Enders
      /\ Call("cont", s) \in Calls /\ Call("cont", s).op \notin Enders
  BY <1>1, CallFacts DEF Ops, Enders
<1>3. /\ cont \in Seq(Calls) /\ Range(cont) = {Call("cont", s)} \cup Range(Tail(todo))
      /\ EndsWell(todo) => EndsWell(cont)
  BY <1>1, <1>2, ConsTodo
<1>4. /\ Range(both) = {Call("update", s)} \cup Range(cont)
      /\ EndsWell(todo) => EndsWell(both)
  BY <1>2, <1>3, ConsTodo
<1>5. <<Call("update", s), Call("cont", s)>> \o Tail(todo) = both
  BY <1>1, <1>2, TwoCalls, OneCall, ConcatAssociative
<1>6. (todo' = cont /\ UNCHANGED ctrl) \/ todo' = both
  BY <1>5 DEF StopService
<1> HIDE DEF cont, both
<1> QED
  BY <1>3, <1>4, <1>6

(* vfork succeeds with a process id p that was free.                       *)
ForkEffect(s, p) ==
  /\ proc[p].st = "free" /\ proc'[p].st # "free" /\ proc'[p].role = Role(s)
  /\ \A q \in Pids \ {p} : proc'[q] = proc[q]
  /\ pid' = [pid EXCEPT ![s] = p]
  /\ state' = IF state[s] = S_FINISH THEN state ELSE [state EXCEPT ![s] = S_RUN]
  /\ Range(todo') = {Call("update", s)} \cup Range(Tail(todo))
  /\ EndsWell(todo) => EndsWell(todo')

LEMMA ForkFacts ==
  ASSUME TypeOK, todo # <<>>, NEW p \in Pids, Fork(Head(todo).s, p)
  PROVE  ForkEffect(Head(todo).s, p)
<1> DEFINE s == Head(todo).s
<1>1. /\ s \in Svd /\ Tail(todo) \in Seq(Calls)
      /\ EndsWell(todo) => EndsWell(Tail(todo))
  BY NextCall
<1>2. Call("update", s) \in Calls /\ Call("update", s).op \notin Enders
  BY <1>1, CallFacts DEF Ops, Enders
<1>3. todo' = <<Call("update", s)>> \o Tail(todo)
  BY DEF Fork
<1>4. /\ Range(todo') = {Call("update", s)} \cup Range(Tail(todo))
      /\ EndsWell(todo) => EndsWell(todo')
  BY <1>1, <1>2, <1>3, ConsTodo
<1>5. /\ proc'[p].st # "free" /\ proc'[p].role = Role(s)
      /\ \A q \in Pids \ {p} : proc'[q] = proc[q]
  BY DEF Fork, Child, TypeOK
<1>6. state' = IF state[s] = S_FINISH THEN state ELSE [state EXCEPT ![s] = S_RUN]
  BY DEF Fork
<1>7. proc[p].st = "free" /\ pid' = [pid EXCEPT ![s] = p]
  BY DEF Fork
<1> QED
  BY <1>4, <1>5, <1>6, <1>7 DEF ForkEffect

-----------------------------------------------------------------------------
(* Signals.  Given the types, SignalsHitOwnChild is inductive. *)

StopsHitChild(calls) ==
  \A c \in calls : c.op \in {"stop", "cont"} => pid[c.s] # 0

LEMMA SignalKept ==
  ASSUME TypeOK, SignalsHitOwnChild, UNCHANGED pid, SameKids,
         \A s \in Svd : state'[s] = S_RUN => state[s] = S_RUN,
         StopsHitChild(Range(todo'))
  PROVE  SignalsHitOwnChild'
  BY DEF SignalsHitOwnChild, SameKids, StopsHitChild, TypeOK

LEMMA SignalCalls ==
  ASSUME TypeOK, SignalsHitOwnChild,
         UpdateStatus \/ StopService \/ StopServiceCont \/ StartService \/ Sleep
  PROVE  SignalsHitOwnChild'
<1> DEFINE s == Head(todo).s
<1>1. /\ todo # <<>> /\ Head(todo) \in Calls /\ s \in Svd
      /\ Tail(todo) \in Seq(Calls)
      /\ Range(todo) = {Head(todo)} \cup Range(Tail(todo))
  BY TailTodo
  DEF TypeOK, Calling, UpdateStatus, StopService, StopServiceCont,
      StartService, Sleep, Calls
<1>2. StopsHitChild(Range(Tail(todo)))
  BY <1>1 DEF SignalsHitOwnChild, StopsHitChild
<1>3. \A f \in Ops : Call(f, s) \in Calls /\ Call(f, s).op = f /\ Call(f, s).s = s
  BY <1>1, CallFacts
<1>4. CASE UpdateStatus \/ Sleep
  <2>1. todo' = Tail(todo) /\ UNCHANGED <<pid, state, proc>>
    BY <1>4 DEF UpdateStatus, Sleep, svdVars
  <2> QED
    BY <1>2, <2>1, SignalKept DEF SameKids
<1>5. CASE StopServiceCont
  <2>1. todo' = Tail(todo) /\ UNCHANGED <<pid, state>>
    BY <1>5 DEF StopServiceCont, svdVars
  <2>2. SameKids
    BY <1>5, KillKeeps DEF StopServiceCont, TypeOK, SameKids
  <2> QED
    BY <1>2, <2>1, <2>2, SignalKept
<1>6. CASE StopService
  <2>1. pid[s] # 0 /\ UNCHANGED <<pid, state>>
    BY <1>1, <1>6 DEF StopService, Calling, SignalsHitOwnChild
  <2>2. SameKids
    BY <1>6, KillKeeps DEF StopService, TypeOK, SameKids
  <2>3. Range(todo') \subseteq
          {Call("update", s), Call("cont", s)} \cup Range(Tail(todo))
    BY <1>6, StopTodo
  <2>4. StopsHitChild(Range(todo'))
    BY <1>2, <1>3, <2>1, <2>3 DEF StopsHitChild, Ops
  <2> QED
    BY <2>1, <2>2, <2>4, SignalKept
<1>7. CASE StartService
  <2>1. UNCHANGED <<pid, state, proc>>
    BY <1>7 DEF StartService, svdVars
  <2>2. CASE pid[s] = 0
    <3>1. Range(todo') = {Call("fork", s)} \cup Range(Tail(todo))
      BY <1>1, <1>3, <1>7, <2>2, ConsTodo DEF StartService, Ops
    <3>2. StopsHitChild(Range(todo'))
      BY <1>2, <1>3, <3>1 DEF StopsHitChild, Ops
    <3> QED
      BY <2>1, <3>2, SignalKept DEF SameKids
  <2>3. CASE pid[s] # 0
    <3>1. todo' = <<Call("stop", s)>> \o (<<Call("fork", s)>> \o Tail(todo))
      BY <1>1, <1>3, <1>7, <2>3, TwoCalls, OneCall, ConcatAssociative
      DEF StartService, Ops
    <3>2. /\ <<Call("fork", s)>> \o Tail(todo) \in Seq(Calls)
          /\ Range(<<Call("fork", s)>> \o Tail(todo))
               = {Call("fork", s)} \cup Range(Tail(todo))
      BY <1>1, <1>3, ConsTodo DEF Ops
    <3>3. Range(todo') = {Call("stop", s)} \cup ({Call("fork", s)} \cup Range(Tail(todo)))
      BY <1>3, <3>1, <3>2, ConsTodo DEF Ops
    <3>4. StopsHitChild(Range(todo'))
      BY <1>2, <1>3, <2>3, <3>3 DEF StopsHitChild, Ops
    <3> QED
      BY <2>1, <3>4, SignalKept DEF SameKids
  <2> QED
    BY <2>2, <2>3
<1> QED
  BY <1>4, <1>5, <1>6, <1>7

LEMMA SignalFork ==
  ASSUME TypeOK, SignalsHitOwnChild, StartServiceFork
  PROVE  SignalsHitOwnChild'
<1> DEFINE s == Head(todo).s
<1>1. PICK p \in Pids : ForkEffect(s, p)
  BY ForkFacts DEF StartServiceFork, Calling
<1>2. /\ s \in Svd /\ Range(Tail(todo)) \subseteq Range(todo)
      /\ Call("update", s).op = "update" /\ 0 \notin Pids
  BY NextCall, CallFacts, RunsvAssumption DEF StartServiceFork, Calling, Ops
<1>3. \A t \in Svd : pid'[t] = IF t = s THEN p ELSE pid[t]
  BY <1>1, <1>2 DEF ForkEffect, TypeOK
<1>4. \A t \in Svd : state'[t] = S_RUN => pid'[t] # 0
  BY <1>1, <1>2, <1>3 DEF ForkEffect, TypeOK, SignalsHitOwnChild
<1>5. \A c \in Range(todo') : c.op \in {"stop", "cont"} => pid'[c.s] # 0
  <2> SUFFICES ASSUME NEW c \in Range(todo'), c.op \in {"stop", "cont"}
               PROVE  pid'[c.s] # 0
    OBVIOUS
  <2>1. c \in Range(todo) /\ c.s \in Svd
    BY <1>1, <1>2, TodoCalls DEF ForkEffect, Calls
  <2> QED
    BY <1>2, <1>3, <2>1 DEF SignalsHitOwnChild
<1>6. \A t \in Svd : pid'[t] # 0 => proc'[pid'[t]].st # "free"
  <2>1. \A t \in Svd : pid[t] # 0 => pid[t] \in Pids \ {p}
    BY <1>1 DEF ForkEffect, TypeOK, SignalsHitOwnChild
  <2> QED
    BY <1>1, <1>3, <2>1 DEF ForkEffect, SignalsHitOwnChild
<1>7. pid'[0] # 0 => pid'[0] # pid'[1]
  BY <1>1, <1>3 DEF ForkEffect, TypeOK, SignalsHitOwnChild, Svd
<1> QED
  BY <1>4, <1>5, <1>6, <1>7 DEF SignalsHitOwnChild

(* The calls made after a reaping are update_status and sleep.             *)
LEMMA ReapTodo ==
  ASSUME NEW s \in Svd, NowDown(s) \/ todo' = <<Call("update", s)>>
  PROVE  /\ todo' \in Seq(Calls) /\ EndsWell(todo')
         /\ Call("update", s) \in Range(todo')
         /\ Range(todo') \subseteq {Call("update", s), Call("sleep", s)}
<1>1. /\ Call("update", s) \in Calls /\ Call("update", s).op \notin Enders
      /\ Call("sleep", s) \in Calls
  BY CallFacts DEF Ops, Enders
<1>2. CASE todo' = <<Call("update", s)>>
  BY <1>1, <1>2, OneCall
<1>3. CASE todo' = <<Call("update", s), Call("sleep", s)>>
  BY <1>1, <1>3, TwoCalls
<1> QED
  BY <1>1, <1>2, <1>3, OneCall, TwoCalls DEF NowDown

LEMMA SignalReap ==
  ASSUME TypeOK, SignalsHitOwnChild, NEW p \in Pids,
         ReapSvc(p) \/ ReapLog(p) \/ ReapOther(p)
  PROVE  SignalsHitOwnChild'
<1>1. ASSUME NEW s \in Svd, p = pid[s], Reaped(s, p),
             \E w \in {S_DOWN, S_FINISH} : state' = [state EXCEPT ![s] = w],
             NowDown(s) \/ todo' = <<Call("update", s)>>
      PROVE  SignalsHitOwnChild'
  <2>1. \A t \in Svd : pid'[t] = IF t = s THEN 0 ELSE pid[t]
    BY <1>1 DEF Reaped, TypeOK
  <2>2. \A t \in Svd : state'[t] = S_RUN => t # s /\ state[t] = S_RUN
    BY <1>1 DEF TypeOK, S_RUN, S_DOWN, S_FINISH
  <2>3. \A c \in Range(todo') : c.op \in {"update", "sleep"}
    BY <1>1, ReapTodo, CallFacts DEF Ops
  <2>4. \A q \in Pids \ {p} : proc'[q] = proc[q]
    BY <1>1 DEF Reaped, TypeOK
  <2>5. \A t \in Svd : pid'[t] # 0 => pid'[t] \in Pids \ {p}
    BY <1>1, <2>1 DEF SignalsHitOwnChild, TypeOK, Svd
  <2> QED
    BY <2>1, <2>2, <2>3, <2>4, <2>5 DEF SignalsHitOwnChild, Svd
<1>2. 0 \in Svd /\ 1 \in Svd
  BY DEF Svd
<1>3. CASE ReapSvc(p)
  BY <1>1, <1>2, <1>3 DEF ReapSvc, NowDown
<1>4. CASE ReapLog(p)
  BY <1>1, <1>2, <1>4 DEF ReapLog, NowDown
<1>5. CASE ReapOther(p)
  <2>1. \A s \in Svd : pid[s] # p
    BY <1>5 DEF ReapOther, Svd
  <2> QED
    BY <1>5, <2>1
    DEF ReapOther, SignalsHitOwnChild, TypeOK, Free, svdVars
<1> QED
  BY <1>3, <1>4, <1>5

LEMMA SignalControl ==
  ASSUME TypeOK, SignalsHitOwnChild,
         \/ ReadControlSvc \/ ReadControlLog \/ TakeSigterm
  PROVE  SignalsHitOwnChild'
<1>1. UNCHANGED pid
  BY DEF ReadControlSvc, ReadControlLog, ReadControl, TakeSigterm
<1>2. ASSUME NEW s \in Svd, NEW c, Ctrl(s, c) PROVE SignalsHitOwnChild'
  <2>1. CtrlEffect(s, c)
    BY <1>2, CtrlKeeps
  <2>2. \A t \in Svd : state'[t] = S_RUN => state[t] = S_RUN
    BY <2>1 DEF CtrlEffect, TypeOK, S_RUN, S_DOWN
  <2>3. StopsHitChild(Range(todo'))
    BY <2>1, CallFacts
    DEF CtrlEffect, CtrlCalls, StopsHitChild, SignalsHitOwnChild, Ops
  <2> QED
    BY <1>1, <2>1, <2>2, <2>3, SignalKept DEF CtrlEffect
<1>3. CASE UNCHANGED <<state, proc, todo>>
  BY <1>1, <1>3 DEF SignalsHitOwnChild
<1> QED
  BY <1>2, <1>3
  DEF ReadControlSvc, ReadControlLog, ReadControl, TakeSigterm, Svd

LEMMA EnvironmentKids ==
  ASSUME TypeOK, Environment
  PROVE  SameKids
<1>1. ASSUME NEW p \in Pids, Terminate(p) PROVE SameKids
  <2>1. proc[p].st # "free"
    BY <1>1 DEF Terminate, CanDie
  <2>2. proc'[p].st # "free" /\ proc'[p].role = proc[p].role
    BY <1>1 DEF Terminate, TypeOK
  <2>3. \A q \in Pids \ {p} : proc'[q] = proc[q]
    BY <1>1 DEF Terminate, TypeOK
  <2> QED
    BY <2>1, <2>2, <2>3 DEF SameKids
<1> QED
  BY <1>1 DEF Environment, SendCommand, SendTerm, Tick, SameKids

LEMMA SignalStep == TypeOK /\ SignalsHitOwnChild /\ [Next]_vars => SignalsHitOwnChild'
<1> SUFFICES ASSUME TypeOK, SignalsHitOwnChild, [Next]_vars
             PROVE  SignalsHitOwnChild'
  OBVIOUS
<1>1. \A s \in Svd : /\ Range(<<Call("start", s)>>) = {Call("start", s)}
                     /\ Range(<<Call("update", s)>>) = {Call("update", s)}
                     /\ Call("start", s).op = "start"
                     /\ Call("update", s).op = "update"
  BY CallFacts, OneCall DEF Ops
<1>2. Range(<<>>) = {} /\ 0 \in Svd /\ 1 \in Svd
  BY EmptyTodo DEF Svd
<1>3. CASE StartLog \/ StartSvc \/ PollTimeout \/ ReapDone \/ Exit \/ StayUp \/ CloseLog
  <2>1. StopsHitChild(Range(todo'))
    BY <1>1, <1>2, <1>3
    DEF StopsHitChild, StartLog, StartSvc, PollTimeout, ReapDone, Exit, StayUp,
        CloseLog, Goto
  <2>2. UNCHANGED <<pid, state, proc>>
    BY <1>3
    DEF StartLog, StartSvc, PollTimeout, ReapDone, Exit, StayUp, CloseLog,
        Goto, svdVars
  <2> QED
    BY <2>1, <2>2, SignalKept DEF SameKids
<1>4. CASE SigChild \/ SigTerm \/ PollReady \/ ClosePipe
  BY <1>4 DEF SigChild, SigTerm, PollReady, ClosePipe, SignalsHitOwnChild, svdVars
<1>5. CASE Environment
  <2>1. UNCHANGED <<pid, state, todo>>
    BY <1>5 DEF Environment, Terminate, SendCommand, SendTerm, Tick, svdVars
  <2>2. SameKids
    BY <1>5, EnvironmentKids
  <2> QED
    BY <2>1, <2>2, SignalKept DEF SignalsHitOwnChild, StopsHitChild
<1>6. CASE UNCHANGED vars
  BY <1>6 DEF vars, SignalsHitOwnChild, svdVars
<1> QED
  BY <1>3, <1>4, <1>5, <1>6, SignalCalls, SignalFork, SignalReap, SignalControl
  DEF Next, Runsv

(* runsv never signals its own process group or a process id that it has   *)
(* already reaped, whatever commands come, kill included.                  *)
THEOREM SignalSafety == Spec => []SignalsHitOwnChild
<1>1. Init => SignalsHitOwnChild
  <2> SUFFICES ASSUME Init PROVE SignalsHitOwnChild
    OBVIOUS
  <2>1. \A c \in Range(todo) : c.op = "update"
    BY InitTodo
  <2> QED
    BY <2>1 DEF Init, SignalsHitOwnChild, S_DOWN, S_RUN, Svd
<1> QED
  BY <1>1, TypeCorrect, SignalStep, PTL DEF Spec

-----------------------------------------------------------------------------
(* Children.  NoLostChild is not inductive: that startservice finds no     *)
(* process has to be known from the moment ctrl or the main loop decides   *)
(* to call it.                                                             *)

DownIsGone == \A s \in Svd : state[s] = S_DOWN => pid[s] = 0

StartsFindNone == \A c \in Range(todo) : c.op \in {"start", "fork"} => pid[c.s] = 0

RolesFit ==
  /\ \A p \in Pids : proc[p].st # "free" => (proc[p].role = "log" <=> p = pid[1])
  /\ state[1] # S_FINISH

ExitedIsDown == pc = "exited" => todo = <<>> /\ state[0] = S_DOWN /\ pid[1] = 0

ChildInv ==
  /\ DownIsGone
  /\ StartsFindNone
  /\ EndsWell(todo)
  /\ NoLostChild
  /\ RolesFit
  /\ ExitedIsDown

(* The steps that make one of the pending calls, except the fork.          *)
PlainCall == UpdateStatus \/ StopService \/ StopServiceCont \/ StartService \/ Sleep

LEMMA PlainCallFacts ==
  ASSUME TypeOK, PlainCall
  PROVE  /\ todo # <<>> /\ UNCHANGED <<pid, state, sd_want, fresh, starts, pc>>
         /\ SameKids
<1>1. todo # <<>> /\ UNCHANGED <<pid, state, sd_want, fresh, starts, pc>>
  BY DEF PlainCall, UpdateStatus, StopService, StopServiceCont, StartService,
         Sleep, Calling, svdVars, mainVars
<1>2. SameKids
  BY KillKeeps DEF PlainCall, UpdateStatus, StopService, StopServiceCont,
                   StartService, Sleep, SameKids, TypeOK
<1> QED
  BY <1>1, <1>2

(* Such a step drops its own call and adds none but update_status and the  *)
(* parts of stopservice and startservice.                                  *)
LEMMA PlainCallTodo ==
  ASSUME TypeOK, EndsWell(todo), StartsFindNone, PlainCall
  PROVE  LET s == Head(todo).s IN
         /\ EndsWell(todo')
         /\ Range(Tail(todo)) \subseteq Range(todo')
         /\ \A c \in Range(todo') :
              \/ c \in Range(Tail(todo))
              \/ c \in {Call("update", s), Call("cont", s)}
              \/ c = Call("fork", s) /\ pid[s] = 0
<1> DEFINE s == Head(todo).s
<1>1. /\ todo # <<>> /\ s \in Svd /\ Tail(todo) \in Seq(Calls)
      /\ Head(todo) \in Range(todo)
      /\ EndsWell(Tail(todo))
      /\ Head(todo).op \in Enders => Tail(todo) = <<>>
  BY PlainCallFacts, NextCall
<1>2. CASE StopService
  BY <1>2, StopTodo
<1>3. CASE StartService
  <2>1. pid[s] = 0 /\ Tail(todo) = <<>>
    BY <1>1, <1>3 DEF StartService, Calling, StartsFindNone, Enders
  <2>2. Call("fork", s) \in Calls
    BY <1>1, CallFacts DEF Ops
  <2>3. todo' = <<Call("fork", s)>>
    BY <1>3, <2>1, <2>2, OneCall DEF StartService
  <2>4. EndsWell(todo') /\ Range(todo') = {Call("fork", s)}
    BY <2>2, <2>3, OneCall
  <2> QED
    BY <2>1, <2>4, EmptyTodo
<1>4. CASE UpdateStatus \/ StopServiceCont \/ Sleep
  <2>1. todo' = Tail(todo)
    BY <1>4 DEF UpdateStatus, StopServiceCont, Sleep
  <2> QED
    BY <1>1, <2>1
<1> QED
  BY <1>2, <1>3, <1>4 DEF PlainCall

LEMMA ChildKept ==
  ASSUME TypeOK, ChildInv, UNCHANGED <<pid, state>>, SameKids, EndsWell(todo'),
         \A c \in Range(todo') : c.op \in {"start", "fork"} => pid[c.s] = 0,
         ExitedIsDown'
  PROVE  ChildInv'
<1>1. DownIsGone' /\ StartsFindNone'
  BY DEF ChildInv, DownIsGone, StartsFindNone
<1>2. NoLostChild' /\ RolesFit'
  BY DEF ChildInv, NoLostChild, RolesFit, SameKids
<1> QED
  BY <1>1, <1>2 DEF ChildInv

LEMMA ChildPlainCall ==
  ASSUME TypeOK, ChildInv, PlainCall
  PROVE  ChildInv'
<1> DEFINE s == Head(todo).s
<1>1. /\ EndsWell(todo')
      /\ \A c \in Range(todo') :
           \/ c \in Range(Tail(todo))
           \/ c \in {Call("update", s), Call("cont", s)}
           \/ c = Call("fork", s) /\ pid[s] = 0
  BY PlainCallTodo DEF ChildInv
<1>2. /\ todo # <<>> /\ UNCHANGED <<pid, state, pc>> /\ SameKids
  BY PlainCallFacts
<1>3. s \in Svd /\ Range(Tail(todo)) \subseteq Range(todo)
  BY <1>2, NextCall
<1>4. \A f \in Ops : Call(f, s).op = f /\ Call(f, s).s = s
  BY <1>3, CallFacts
<1>5. \A c \in Range(todo') : c.op \in {"start", "fork"} => pid[c.s] = 0
  BY <1>1, <1>3, <1>4 DEF ChildInv, StartsFindNone, Ops
<1>6. ExitedIsDown'
  BY <1>2 DEF ChildInv, ExitedIsDown
<1> QED
  BY <1>1, <1>2, <1>5, <1>6, ChildKept

LEMMA ForkLast ==
  ASSUME TypeOK, SignalsHitOwnChild, ChildInv, StartServiceFork
  PROVE  LET s == Head(todo).s IN
         /\ todo # <<>> /\ s \in Svd /\ pid[s] = 0 /\ state[s] # S_RUN
         /\ Range(todo) = {Call("fork", s)}
         /\ \E p \in Pids : Fork(s, p) /\ ForkEffect(s, p)
         /\ Range(todo') = {Call("update", s)} /\ EndsWell(todo')
<1> DEFINE s == Head(todo).s
<1>1. /\ todo # <<>> /\ s \in Svd /\ Head(todo) \in Range(todo)
      /\ Head(todo) = Call("fork", s) /\ Head(todo).op = "fork"
      /\ Range(todo) = {Head(todo)} \cup Range(Tail(todo))
      /\ Tail(todo) = <<>>
  BY NextCall DEF StartServiceFork, Calling, ChildInv, Enders
<1>2. pid[s] = 0
  BY <1>1 DEF ChildInv, StartsFindNone
<1>3. state[s] # S_RUN
  BY <1>1, <1>2 DEF SignalsHitOwnChild
<1>4. PICK p \in Pids : Fork(s, p)
  BY DEF StartServiceFork
<1>5. ForkEffect(s, p)
  BY <1>1, <1>4, ForkFacts
<1> QED
  BY <1>1, <1>2, <1>3, <1>4, <1>5, EmptyTodo DEF ForkEffect, ChildInv

LEMMA ChildFork ==
  ASSUME TypeOK, SignalsHitOwnChild, ChildInv, StartServiceFork
  PROVE  ChildInv'
<1> DEFINE s == Head(todo).s
<1>1. /\ todo # <<>> /\ s \in Svd /\ pid[s] = 0 /\ state[s] # S_RUN
      /\ Range(todo') = {Call("update", s)} /\ EndsWell(todo')
  BY ForkLast
<1>2. PICK p \in Pids : ForkEffect(s, p)
  BY ForkLast
<1>3. /\ \A t \in Svd : pid'[t] = IF t = s THEN p ELSE pid[t]
      /\ pid'[0] = IF s = 0 THEN p ELSE pid[0]
      /\ pid'[1] = IF s = 1 THEN p ELSE pid[1]
  BY <1>1, <1>2 DEF ForkEffect, TypeOK, Svd
<1>4. DownIsGone'
  BY <1>1, <1>2, <1>3
  DEF ForkEffect, ChildInv, DownIsGone, TypeOK, States, S_RUN, S_DOWN, S_FINISH
<1>5. StartsFindNone'
  BY <1>1, CallFacts DEF StartsFindNone, Ops
<1>6. NoLostChild'
  <2> SUFFICES ASSUME NEW q \in Pids, proc'[q].st # "free", q # p
               PROVE  q \in {pid'[0], pid'[1]}
    BY <1>1, <1>3 DEF NoLostChild, Svd
  <2>1. q \in {pid[0], pid[1]}
    BY <1>2 DEF ForkEffect, ChildInv, NoLostChild
  <2> QED
    BY <1>1, <1>3, <2>1, RunsvAssumption
<1>7. RolesFit'
  <2>1. state'[1] # S_FINISH
    BY <1>1, <1>2
    DEF ForkEffect, ChildInv, RolesFit, TypeOK, S_RUN, S_FINISH, Svd
  <2>2. proc'[p].role = "log" <=> p = pid'[1]
    <3>1. CASE s = 0
      <4>1. proc'[p].role # "log"
        BY <1>2, <3>1 DEF ForkEffect, Role
      <4>2. pid[1] # p
        BY <1>2, RunsvAssumption DEF ForkEffect, SignalsHitOwnChild, Svd
      <4> QED
        BY <1>3, <3>1, <4>1, <4>2
    <3>2. CASE s = 1
      BY <1>2, <1>3, <3>2 DEF ForkEffect, Role, ChildInv, RolesFit
    <3> QED
      BY <1>1, <3>1, <3>2 DEF Svd
  <2>3. ASSUME NEW q \in Pids, q # p, proc'[q].st # "free"
        PROVE  proc'[q].role = "log" <=> q = pid'[1]
    <3>1. proc[q].st # "free" /\ proc'[q] = proc[q]
      BY <1>2, <2>3 DEF ForkEffect
    <3>2. proc[q].role = "log" <=> q = pid[1]
      BY <3>1 DEF ChildInv, RolesFit
    <3>3. s = 1 => pid[1] = 0
      BY <1>1
    <3> QED
      BY <1>3, <2>3, <3>1, <3>2, <3>3, RunsvAssumption
  <2> QED
    BY <2>1, <2>2, <2>3 DEF RolesFit
<1>8. ExitedIsDown'
  BY <1>1 DEF ChildInv, ExitedIsDown, StartServiceFork, mainVars
<1> QED
  BY <1>1, <1>4, <1>5, <1>6, <1>7, <1>8 DEF ChildInv

LEMMA ChildReap ==
  ASSUME TypeOK, SignalsHitOwnChild, ChildInv, NEW p \in Pids,
         ReapSvc(p) \/ ReapLog(p) \/ ReapOther(p)
  PROVE  ChildInv'
<1>1. ~ ReapOther(p)
  BY DEF ReapOther, Zombie, ChildInv, NoLostChild
<1>2. ASSUME NEW s \in Svd, p = pid[s], Reaped(s, p),
             \/ state' = [state EXCEPT ![s] = S_DOWN]
             \/ s = 0 /\ state' = [state EXCEPT ![s] = S_FINISH],
             NowDown(s) \/ todo' = <<Call("update", s)>>,
             pc' = "reap"
      PROVE  ChildInv'
  <2>1. /\ \A t \in Svd : pid'[t] = IF t = s THEN 0 ELSE pid[t]
        /\ pid'[0] = IF s = 0 THEN 0 ELSE pid[0]
        /\ pid'[1] = IF s = 1 THEN 0 ELSE pid[1]
    BY <1>2 DEF Reaped, TypeOK, Svd
  <2>2. proc'[p].st = "free" /\ \A q \in Pids \ {p} : proc'[q] = proc[q]
    BY <1>2 DEF Reaped, TypeOK, Free
  <2>3. DownIsGone'
    BY <1>2, <2>1 DEF ChildInv, DownIsGone, TypeOK, S_DOWN, S_FINISH
  <2>4. /\ EndsWell(todo')
        /\ Range(todo') \subseteq {Call("update", s), Call("sleep", s)}
    BY <1>2, ReapTodo
  <2>5. StartsFindNone'
    BY <2>4, CallFacts DEF StartsFindNone, Ops
  <2>6. NoLostChild'
    BY <1>2, <2>1, <2>2 DEF ChildInv, NoLostChild, Svd
  <2>7. RolesFit'
    <3>1. state'[1] # S_FINISH
      BY <1>2 DEF ChildInv, RolesFit, TypeOK, Svd, S_DOWN, S_FINISH
    <3>2. ASSUME NEW q \in Pids, proc'[q].st # "free"
          PROVE  proc'[q].role = "log" <=> q = pid'[1]
      <4>1. q # p /\ proc'[q] = proc[q] /\ (proc[q].role = "log" <=> q = pid[1])
        BY <2>2, <3>2 DEF ChildInv, RolesFit
      <4>2. s = 1 => q # pid[1] /\ q # pid'[1]
        BY <1>2, <2>1, <4>1, RunsvAssumption
      <4> QED
        BY <1>2, <2>1, <4>1, <4>2 DEF Svd
    <3> QED
      BY <3>1, <3>2 DEF RolesFit
  <2>8. ExitedIsDown'
    BY <1>2 DEF ExitedIsDown
  <2> QED
    BY <2>3, <2>4, <2>5, <2>6, <2>7, <2>8 DEF ChildInv
<1>3. 0 \in Svd /\ 1 \in Svd
  BY DEF Svd
<1>4. CASE ReapSvc(p)
  BY <1>2, <1>3, <1>4 DEF ReapSvc, NowDown, At, mainVars
<1>5. CASE ReapLog(p)
  BY <1>2, <1>3, <1>5 DEF ReapLog, NowDown, At, mainVars
<1> QED
  BY <1>1, <1>4, <1>5

(* Without the kill command, ctrl does not touch state.                    *)
LEMMA ChildControl ==
  ASSUME "k" \notin Commands, TypeOK, ChildInv,
         ReadControlSvc \/ ReadControlLog \/ TakeSigterm
  PROVE  ChildInv'
<1>1. UNCHANGED pid /\ pc' # "exited" /\ todo = <<>>
  BY DEF ReadControlSvc, ReadControlLog, ReadControl, TakeSigterm, At
<1>2. ASSUME NEW s \in Svd, NEW c, c # "k", Ctrl(s, c) PROVE ChildInv'
  <2>1. CtrlEffect(s, c)
    BY <1>2, CtrlKeeps
  <2>2. UNCHANGED state /\ SameKids /\ EndsWell(todo')
    BY <1>2, <2>1 DEF CtrlEffect, CtrlCalls
  <2>3. \A d \in Range(todo') : d.op \in {"start", "fork"} => pid[d.s] = 0
    BY <2>1, CallFacts DEF CtrlEffect, CtrlCalls, ChildInv, DownIsGone, Ops
  <2> QED
    BY <1>1, <2>2, <2>3, ChildKept DEF ExitedIsDown
<1>3. CASE UNCHANGED <<state, proc, todo>>
  BY <1>1, <1>3, ChildKept
  DEF SameKids, ChildInv, StartsFindNone, ExitedIsDown
<1>4. \A s \in Svd : control[s] # <<>> => Head(control[s]) \in Commands
  BY HeadTailProperties DEF TypeOK
<1>5. CASE ReadControlSvc \/ ReadControlLog
  BY <1>2, <1>3, <1>4, <1>5
  DEF ReadControlSvc, ReadControlLog, ReadControl, Svd
<1>6. CASE TakeSigterm
  BY <1>2, <1>3, <1>6 DEF TakeSigterm, Svd
<1> QED
  BY <1>5, <1>6

LEMMA ChildLoop ==
  ASSUME TypeOK, SignalsHitOwnChild, ChildInv,
         \/ StartLog \/ StartSvc \/ PollTimeout \/ ReapDone \/ Exit \/ StayUp
         \/ CloseLog
  PROVE  ChildInv'
<1>1. \A s \in Svd : /\ Range(<<Call("start", s)>>) = {Call("start", s)}
                     /\ EndsWell(<<Call("start", s)>>)
                     /\ Range(<<Call("update", s)>>) = {Call("update", s)}
                     /\ EndsWell(<<Call("update", s)>>)
                     /\ Call("start", s).s = s
                     /\ Call("update", s).op = "update"
  BY CallFacts, OneCall DEF Ops
<1>2. Range(<<>>) = {} /\ EndsWell(<<>>) /\ 0 \in Svd /\ 1 \in Svd
  BY EmptyTodo DEF Svd
<1>3. UNCHANGED <<pid, state, proc>> /\ SameKids
  BY DEF StartLog, StartSvc, PollTimeout, ReapDone, Exit, StayUp, CloseLog,
         Goto, svdVars, SameKids
<1>4. EndsWell(todo')
  BY <1>1, <1>2
  DEF StartLog, StartSvc, PollTimeout, ReapDone, Exit, StayUp, CloseLog, Goto
<1>5. \A c \in Range(todo') : c.op \in {"start", "fork"} => pid[c.s] = 0
  <2>1. CASE StartLog
    <3>1. todo' = <<>> \/ (pid[1] = 0 /\ todo' = <<Call("start", 1)>>)
      BY <2>1 DEF StartLog, Goto, LogIsDue
    <3> QED
      BY <1>1, <1>2, <3>1
  <2>2. CASE StartSvc
    BY <1>1, <1>2, <2>2 DEF StartSvc, Goto, SvcIsDue
  <2>3. CASE PollTimeout \/ ReapDone \/ Exit \/ StayUp \/ CloseLog
    BY <1>1, <1>2, <2>3 DEF PollTimeout, ReapDone, Exit, StayUp, CloseLog, Goto
  <2> QED
    BY <2>1, <2>2, <2>3
<1>6. ExitedIsDown'
  BY DEF ExitedIsDown, StartLog, StartSvc, PollTimeout, ReapDone, Exit, StayUp,
         CloseLog, Goto, MayExit, svdVars
<1> QED
  BY <1>3, <1>4, <1>5, <1>6, ChildKept

LEMMA ChildStep ==
  ASSUME "k" \notin Commands, TypeOK, SignalsHitOwnChild, ChildInv, [Next]_vars
  PROVE  ChildInv'
<1>1. CASE SigChild \/ SigTerm \/ PollReady \/ ClosePipe
  <2>1. UNCHANGED <<pid, state, proc, todo>> /\ pc' # "exited"
    BY <1>1 DEF SigChild, SigTerm, PollReady, ClosePipe, At, svdVars, mainVars
  <2> QED
    BY <2>1, ChildKept DEF SameKids, ChildInv, StartsFindNone, ExitedIsDown
<1>2. CASE Environment
  <2>1. UNCHANGED <<pid, state, todo, pc>>
    BY <1>2
    DEF Environment, Terminate, SendCommand, SendTerm, Tick, svdVars, mainVars
  <2>2. SameKids
    BY <1>2, EnvironmentKids
  <2> QED
    BY <2>1, <2>2, ChildKept DEF ChildInv, StartsFindNone, ExitedIsDown
<1>3. CASE UNCHANGED vars
  <2>1. UNCHANGED <<pid, state, proc, todo, pc>>
    BY <1>3 DEF vars, svdVars, mainVars
  <2> QED
    BY <2>1, ChildKept DEF SameKids, ChildInv, StartsFindNone, ExitedIsDown
<1> QED
  BY <1>1, <1>2, <1>3, ChildPlainCall, ChildFork, ChildReap, ChildControl, ChildLoop
  DEF Next, Runsv, PlainCall

LEMMA ChildInit == Init => ChildInv
<1> SUFFICES ASSUME Init PROVE ChildInv
  OBVIOUS
<1>1. EndsWell(todo) /\ \A c \in Range(todo) : c.op = "update"
  BY InitTodo
<1> QED
  BY <1>1
  DEF Init, ChildInv, DownIsGone, StartsFindNone, NoLostChild, RolesFit,
      ExitedIsDown, Free, Svd, S_DOWN, S_FINISH

(* The inductive invariant holds in every reachable state.                 *)
LEMMA ChildInvariant ==
  ASSUME "k" \notin Commands
  PROVE  Spec => [](TypeOK /\ SignalsHitOwnChild /\ ChildInv)
<1>1. TypeOK /\ SignalsHitOwnChild /\ ChildInv /\ [Next]_vars => ChildInv'
  BY ChildStep
<1> QED
  BY <1>1, ChildInit, TypeCorrect, SignalSafety, PTL DEF Spec

(* startservice never runs over a live pid, as long as nobody sends kill:  *)
(* no child of runsv is ever out of its reach.                             *)
THEOREM NoChildIsLost ==
  ASSUME "k" \notin Commands
  PROVE  Spec => []NoLostChild
<1>1. ChildInv => NoLostChild
  BY DEF ChildInv
<1> QED
  BY <1>1, ChildInvariant, PTL

(* runsv exits only when its service, ./finish and log service are gone.   *)
THEOREM ExitIsClean ==
  ASSUME "k" \notin Commands
  PROVE  Spec => []ExitClean
<1>1. TypeOK /\ ChildInv => ExitClean
  BY RunsvAssumption
  DEF TypeOK, ChildInv, ExitedIsDown, DownIsGone, NoLostChild, ExitClean, Alive, Svd
<1> QED
  BY <1>1, ChildInvariant, PTL

-----------------------------------------------------------------------------
(* Refinement: runsv implements Lifecycle. *)

ReachInv == TypeOK /\ SignalsHitOwnChild /\ ChildInv

(* The two services are mapped to their one process, or none.              *)
KidsArePids ==
  /\ Kids = IF pid[0] = 0 THEN {} ELSE {pid[0]}
  /\ Logger = IF pid[1] = 0 THEN {} ELSE {pid[1]}

LEMMA KidsAre == ReachInv => KidsArePids
<1> SUFFICES ASSUME ReachInv PROVE KidsArePids
  OBVIOUS
<1>1. /\ 0 \notin Pids /\ 0 \in Svd /\ 1 \in Svd
      /\ pid[0] \in Pids \cup {0} /\ pid[1] \in Pids \cup {0}
  BY RunsvAssumption DEF ReachInv, TypeOK, Svd
<1>2. /\ pid[0] # 0 => proc[pid[0]].st # "free" /\ pid[0] # pid[1]
      /\ pid[1] # 0 => proc[pid[1]].st # "free"
  BY <1>1 DEF ReachInv, SignalsHitOwnChild
<1>3. \A p \in Pids : proc[p].st # "free" =>
        /\ p = pid[0] \/ p = pid[1]
        /\ proc[p].role = "log" <=> p = pid[1]
  BY DEF ReachInv, ChildInv, NoLostChild, RolesFit
<1>4. Kids = IF pid[0] = 0 THEN {} ELSE {pid[0]}
  BY <1>1, <1>2, <1>3 DEF Kids
<1>5. Logger = IF pid[1] = 0 THEN {} ELSE {pid[1]}
  BY <1>1, <1>2, <1>3 DEF Logger
<1> QED
  BY <1>4, <1>5 DEF KidsArePids

LEMMA KidsAreNext == ReachInv' => KidsArePids'
  BY KidsAre, PTL

LEMMA RefineStutter ==
  ASSUME ReachInv, ReachInv', UNCHANGED <<pid, state>>,
         pc' = "exited" <=> pc = "exited"
  PROVE  UNCHANGED L!vars
<1>1. Kids' = Kids /\ Logger' = Logger
  BY KidsAre, KidsAreNext DEF KidsArePids
<1>2. Phase' = Phase
  BY DEF Phase
<1> QED
  BY <1>1, <1>2 DEF L!vars

LEMMA RefineFork ==
  ASSUME ReachInv, ReachInv', StartServiceFork
  PROVE  L!Next
<1> DEFINE s == Head(todo).s
<1>1. /\ todo # <<>> /\ s \in Svd /\ pid[s] = 0 /\ state[s] # S_RUN
  BY ForkLast DEF ReachInv
<1>2. PICK p \in Pids : ForkEffect(s, p)
  BY ForkLast DEF ReachInv
<1>3. /\ pid'[0] = IF s = 0 THEN p ELSE pid[0]
      /\ pid'[1] = IF s = 1 THEN p ELSE pid[1]
      /\ p # 0 /\ p # pid[0] /\ p # pid[1]
  BY <1>1, <1>2, RunsvAssumption
  DEF ForkEffect, ReachInv, TypeOK, SignalsHitOwnChild, Svd
<1>4. /\ Kids = IF pid[0] = 0 THEN {} ELSE {pid[0]}
      /\ Logger = IF pid[1] = 0 THEN {} ELSE {pid[1]}
      /\ Kids' = IF pid'[0] = 0 THEN {} ELSE {pid'[0]}
      /\ Logger' = IF pid'[1] = 0 THEN {} ELSE {pid'[1]}
  BY KidsAre, KidsAreNext DEF KidsArePids
<1>5. pc' = pc /\ pc # "exited"
  BY <1>1 DEF StartServiceFork, mainVars, ReachInv, ChildInv, ExitedIsDown
<1>6. CASE s = 0 /\ state[0] = S_DOWN
  <2>1. Phase = "down" /\ Phase' = "run"
    BY <1>2, <1>5, <1>6
    DEF Phase, ForkEffect, ReachInv, TypeOK, S_DOWN, S_RUN, S_FINISH, Svd
  <2>2. pid[0] = 0 /\ pid'[0] = p /\ pid'[1] = pid[1] /\ p \in Pids
    BY <1>1, <1>3, <1>6
  <2>3. Kids = {} /\ Kids' = {p} /\ Logger' = Logger /\ p \notin Logger
    BY <1>3, <1>4, <2>2
  <2> QED
    BY <2>1, <2>2, <2>3 DEF L!Next, L!Start
<1>7. CASE s = 0 /\ state[0] = S_FINISH
  <2>1. Phase = "ended" /\ Phase' = "finish"
    BY <1>1, <1>2, <1>3, <1>5, <1>7
    DEF Phase, ForkEffect, ReachInv, TypeOK, S_DOWN, S_RUN, S_FINISH, Svd
  <2>2. pid[0] = 0 /\ pid'[0] = p /\ pid'[1] = pid[1] /\ p \in Pids
    BY <1>1, <1>3, <1>7
  <2>3. Kids = {} /\ Kids' = {p} /\ Logger' = Logger /\ p \notin Logger
    BY <1>3, <1>4, <2>2
  <2> QED
    BY <2>1, <2>2, <2>3 DEF L!Next, L!StartFinish
<1>8. CASE s = 1
  <2>1. state'[0] = state[0] /\ pid'[0] = pid[0]
    BY <1>2, <1>3, <1>8 DEF ForkEffect, ReachInv, TypeOK, Svd
  <2>2. Phase' = Phase /\ Phase # "gone"
    BY <1>5, <2>1 DEF Phase, ReachInv, TypeOK, States, Svd, S_DOWN, S_RUN, S_FINISH
  <2>3. pid[1] = 0 /\ pid'[1] = p /\ pid'[0] = pid[0] /\ p \in Pids
    BY <1>1, <1>3, <1>8
  <2>4. Logger = {} /\ Logger' = {p} /\ Kids' = Kids /\ p \notin Kids
    BY <1>3, <1>4, <2>3
  <2> QED
    BY <2>2, <2>3, <2>4 DEF L!Next, L!StartLogger
<1> QED
  BY <1>1, <1>6, <1>7, <1>8 DEF ReachInv, TypeOK, States, Svd

LEMMA RefineReap ==
  ASSUME ReachInv, ReachInv', NEW p \in Pids, ReapSvc(p) \/ ReapLog(p)
  PROVE  L!Next
<1>1. /\ Kids = IF pid[0] = 0 THEN {} ELSE {pid[0]}
      /\ Logger = IF pid[1] = 0 THEN {} ELSE {pid[1]}
      /\ Kids' = IF pid'[0] = 0 THEN {} ELSE {pid'[0]}
      /\ Logger' = IF pid'[1] = 0 THEN {} ELSE {pid'[1]}
  BY KidsAre, KidsAreNext DEF KidsArePids
<1>2. p # 0 /\ pc = "reap" /\ pc' = "reap"
  BY RunsvAssumption DEF ReapSvc, ReapLog, At, mainVars
<1>3. CASE ReapSvc(p)
  <2>1. pid[0] = p /\ pid'[0] = 0 /\ pid'[1] = pid[1]
    BY <1>3 DEF ReapSvc, Reaped, ReachInv, TypeOK, Svd
  <2>2. state[0] \in {S_RUN, S_FINISH}
    BY <1>2, <2>1 DEF ReachInv, TypeOK, States, ChildInv, DownIsGone, Svd
  <2>3. \/ state'[0] = S_DOWN
        \/ state'[0] = S_FINISH /\ state[0] # S_FINISH
    BY <1>3 DEF ReapSvc, NowDown, ReachInv, TypeOK, Svd
  <2>4. CASE state[0] = S_RUN
    <3>1. Phase = "run" /\ Phase' \in {"ended", "down"}
      BY <1>2, <2>1, <2>3, <2>4 DEF Phase, S_DOWN, S_RUN, S_FINISH
    <3> QED
      BY <1>1, <2>1, <3>1 DEF L!Next, L!RunEnds
  <2>5. CASE state[0] = S_FINISH
    <3>1. Phase = "finish" /\ Phase' = "down"
      BY <1>2, <2>1, <2>3, <2>5 DEF Phase, S_DOWN, S_RUN, S_FINISH
    <3> QED
      BY <1>1, <2>1, <3>1 DEF L!Next, L!FinishEnds
  <2> QED
    BY <2>2, <2>4, <2>5
<1>4. CASE ReapLog(p)
  <2>1. pid[1] = p /\ pid'[1] = 0 /\ pid'[0] = pid[0] /\ state'[0] = state[0]
    BY <1>4 DEF ReapLog, Reaped, NowDown, ReachInv, TypeOK, Svd
  <2>2. Phase' = Phase /\ Phase # "gone"
    BY <1>2, <2>1 DEF Phase, ReachInv, TypeOK, States, Svd, S_DOWN, S_RUN, S_FINISH
  <2> QED
    BY <1>1, <1>2, <2>1, <2>2 DEF L!Next, L!LoggerEnds
<1> QED
  BY <1>3, <1>4

LEMMA RefineExit ==
  ASSUME ReachInv, ReachInv', Exit
  PROVE  L!Next
<1>1. /\ Kids = IF pid[0] = 0 THEN {} ELSE {pid[0]}
      /\ Logger = IF pid[1] = 0 THEN {} ELSE {pid[1]}
      /\ Kids' = IF pid'[0] = 0 THEN {} ELSE {pid'[0]}
      /\ Logger' = IF pid'[1] = 0 THEN {} ELSE {pid'[1]}
  BY KidsAre, KidsAreNext DEF KidsArePids
<1>2. /\ pc = "exit" /\ pc' = "exited" /\ state[0] = S_DOWN /\ pid[1] = 0
      /\ UNCHANGED <<pid, state>>
  BY DEF Exit, At, MayExit, Goto, svdVars
<1>3. pid[0] = 0
  BY <1>2 DEF ReachInv, ChildInv, DownIsGone, Svd
<1>4. Phase = "down" /\ Phase' = "gone"
  BY <1>2 DEF Phase, S_DOWN, S_RUN, S_FINISH
<1> QED
  BY <1>1, <1>2, <1>3, <1>4 DEF L!Next, L!Leave

LEMMA RefineStep ==
  ASSUME "k" \notin Commands, ReachInv, ReachInv', [Next]_vars
  PROVE  [L!Next]_(L!vars)
<1>1. CASE PlainCall
  <2>1. UNCHANGED <<pid, state, pc>>
    BY <1>1, PlainCallFacts DEF ReachInv
  <2> QED
    BY <2>1, RefineStutter
<1>2. CASE \/ StartLog \/ StartSvc \/ PollTimeout \/ ReapDone \/ StayUp \/ CloseLog
           \/ SigChild \/ SigTerm \/ PollReady \/ ClosePipe
  <2>1. UNCHANGED <<pid, state>> /\ pc # "exited" /\ pc' # "exited"
    BY <1>2
    DEF StartLog, StartSvc, PollTimeout, ReapDone, StayUp, CloseLog, SigChild,
        SigTerm, PollReady, ClosePipe, At, Goto, svdVars, mainVars
  <2> QED
    BY <2>1, RefineStutter
<1>3. CASE ReadControlSvc \/ ReadControlLog \/ TakeSigterm
  <2>1. UNCHANGED pid /\ pc # "exited" /\ pc' # "exited"
    BY <1>3 DEF ReadControlSvc, ReadControlLog, ReadControl, TakeSigterm, At
  <2>2. ASSUME NEW s \in Svd, NEW c, c # "k", Ctrl(s, c) PROVE UNCHANGED state
    BY <2>2, CtrlKeeps DEF CtrlEffect, ReachInv
  <2>3. \A s \in Svd : control[s] # <<>> => Head(control[s]) \in Commands
    BY HeadTailProperties DEF ReachInv, TypeOK
  <2>4. UNCHANGED state
    BY <1>3, <2>2, <2>3
    DEF ReadControlSvc, ReadControlLog, ReadControl, TakeSigterm, Svd
  <2> QED
    BY <2>1, <2>4, RefineStutter
<1>4. CASE Environment
  <2>1. UNCHANGED <<pid, state, pc>>
    BY <1>4
    DEF Environment, Terminate, SendCommand, SendTerm, Tick, svdVars, mainVars
  <2> QED
    BY <2>1, RefineStutter
<1>5. CASE UNCHANGED vars
  <2>1. UNCHANGED <<pid, state, pc>>
    BY <1>5 DEF vars, svdVars, mainVars
  <2> QED
    BY <2>1, RefineStutter
<1>6. \A p \in Pids : ~ ReapOther(p)
  BY DEF ReapOther, Zombie, ReachInv, ChildInv, NoLostChild
<1> QED
  BY <1>1, <1>2, <1>3, <1>4, <1>5, <1>6, RefineFork, RefineReap, RefineExit
  DEF Next, Runsv, PlainCall

(* Without the kill command runsv implements Lifecycle: never two          *)
(* processes of a service, ./finish only after ./run, nothing left behind. *)
THEOREM ImplementsLifecycle ==
  ASSUME "k" \notin Commands
  PROVE  Spec => LifecycleSpec
<1>1. Init => L!Init
  <2> SUFFICES ASSUME Init PROVE L!Init
    OBVIOUS
  <2>1. Kids = {} /\ Logger = {}
    BY DEF Init, Kids, Logger, Free
  <2>2. Phase = "down"
    BY DEF Init, Phase, Svd, S_DOWN, S_RUN, S_FINISH
  <2> QED
    BY <2>1, <2>2 DEF L!Init
<1>2. ReachInv /\ ReachInv' /\ [Next]_vars => [L!Next]_(L!vars)
  BY RefineStep
<1>3. Spec => []ReachInv
  BY ChildInvariant DEF ReachInv
<1> QED
  BY <1>1, <1>2, <1>3, PTL DEF Spec, LifecycleSpec, L!Spec

-----------------------------------------------------------------------------
(* What is still to be done: the restart throttle (a sleep is pending), the *)
(* status file and the pid files (an update_status is pending).  The first *)
(* two use ReachInv, hence that nobody sends the kill command; the pid     *)
(* files do not need it.                                                   *)

(* What is known of a pending call after one call has been made.           *)
LEMMA PendingKept ==
  ASSUME ReachInv, PlainCall, NEW c \in Range(todo), c # Head(todo)
  PROVE  c \in Range(todo')
<1>1. Range(todo) = {Head(todo)} \cup Range(Tail(todo))
  BY PlainCallFacts, NextCall DEF ReachInv
<1>2. Range(Tail(todo)) \subseteq Range(todo')
  BY PlainCallTodo DEF ReachInv, ChildInv
<1> QED
  BY <1>1, <1>2

(* The places of the main loop where nothing but pc and todo changes, and  *)
(* the signal handlers.                                                    *)
LoopStep ==
  \/ StartLog \/ StartSvc \/ PollTimeout \/ ReapDone \/ Exit \/ StayUp
  \/ SigChild \/ SigTerm \/ PollReady \/ ClosePipe

LEMMA LoopStepFacts ==
  ASSUME LoopStep
  PROVE  todo = <<>> /\ UNCHANGED <<pid, state, ctrl, sd_want, fresh, starts, status>>
  BY DEF LoopStep, StartLog, StartSvc, PollTimeout, ReapDone, Exit, StayUp,
         SigChild, SigTerm, PollReady, ClosePipe, At, Goto, svdVars, fileVars

ControlStep == ReadControlSvc \/ ReadControlLog \/ TakeSigterm

(* A turn of ctrl, or none: what the status file shows only changes with   *)
(* an update_status ahead.                                                 *)
LEMMA ControlFacts ==
  ASSUME "k" \notin Commands, TypeOK, ControlStep
  PROVE  /\ todo = <<>> /\ UNCHANGED <<pid, state, fresh, starts, status>>
         /\ \A t \in Svd : \/ Call("update", t) \in Range(todo')
                           \/ sd_want'[t] = sd_want[t] /\ ctrl'[t] = ctrl[t]
<1>1. todo = <<>> /\ UNCHANGED <<pid, fresh, starts, status>>
  BY DEF ControlStep, ReadControlSvc, ReadControlLog, ReadControl, TakeSigterm,
         At, fileVars
<1>2. ASSUME NEW s \in Svd, NEW c, c # "k", Ctrl(s, c)
      PROVE  /\ UNCHANGED state
             /\ \A t \in Svd : \/ Call("update", t) \in Range(todo')
                               \/ sd_want'[t] = sd_want[t] /\ ctrl'[t] = ctrl[t]
  BY <1>2, CtrlKeeps DEF CtrlEffect
<1>3. \A s \in Svd : control[s] # <<>> => Head(control[s]) \in Commands
  BY HeadTailProperties DEF TypeOK
<1>4. CASE ReadControlSvc \/ ReadControlLog
  BY <1>1, <1>2, <1>3, <1>4
  DEF ReadControlSvc, ReadControlLog, ReadControl, Svd
<1>5. CASE TakeSigterm
  BY <1>1, <1>2, <1>5 DEF TakeSigterm, Svd
<1> QED
  BY <1>4, <1>5 DEF ControlStep

(* The cases of a step from a state in the inductive invariant: a child    *)
(* that is reaped is always one of the two.                                *)
LEMMA StepCases ==
  ASSUME ReachInv, [Next]_vars
  PROVE  \/ PlainCall \/ StartServiceFork \/ LoopStep \/ ControlStep \/ CloseLog
         \/ \E p \in Pids : ReapSvc(p) \/ ReapLog(p)
         \/ Environment
         \/ UNCHANGED vars
<1>1. \A p \in Pids : ~ ReapOther(p)
  BY DEF ReapOther, Zombie, ReachInv, ChildInv, NoLostChild
<1> QED
  BY <1>1 DEF Next, Runsv, PlainCall, LoopStep, ControlStep

-----------------------------------------------------------------------------
(* The throttle. *)

(* A service started in this second is not down yet, or the sleep is still *)
(* ahead.                                                                  *)
ThrottleInv ==
  \A s \in Svd :
    starts[s] # 0 => /\ starts[s] = 1
                     /\ fresh[s]
                     /\ state[s] = S_DOWN => Call("sleep", s) \in Range(todo)

LEMMA ThrottleKept ==
  ASSUME ThrottleInv, UNCHANGED <<state, fresh, starts>>,
         \A s \in Svd : starts[s] # 0 /\ Call("sleep", s) \in Range(todo)
                          => Call("sleep", s) \in Range(todo')
  PROVE  ThrottleInv'
  BY DEF ThrottleInv

LEMMA ThrottleCall ==
  ASSUME ReachInv, ThrottleInv, PlainCall
  PROVE  ThrottleInv'
<1>1. UNCHANGED <<state, fresh, starts>>
  BY PlainCallFacts DEF ReachInv
<1>2. ASSUME NEW s \in Svd, starts[s] # 0, Call("sleep", s) \in Range(todo)
      PROVE  Call("sleep", s) # Head(todo)
  <2>1. SUFFICES ASSUME Head(todo) = Call("sleep", s) PROVE FALSE
    OBVIOUS
  <2>2. Head(todo).op = "sleep" /\ Head(todo).s = s
    BY <2>1, CallFacts DEF Ops
  <2>3. Sleep
    BY <2>2
    DEF PlainCall, UpdateStatus, StopService, StopServiceCont, StartService, Calling
  <2> QED
    BY <1>2, <2>2, <2>3 DEF Sleep, ThrottleInv
<1> QED
  BY <1>1, <1>2, PendingKept, ThrottleKept

LEMMA ThrottleFork ==
  ASSUME ReachInv, ThrottleInv, StartServiceFork
  PROVE  ThrottleInv'
<1> DEFINE s == Head(todo).s
<1>1. s \in Svd /\ Range(todo) = {Call("fork", s)}
  BY ForkLast DEF ReachInv
<1>2. \A t \in Svd : Call("sleep", t) \notin Range(todo)
  BY <1>1, CallFacts DEF Ops
<1>3. \A t \in Svd : state[t] = S_DOWN => starts[t] = 0
  BY <1>2 DEF ThrottleInv
<1>4. state[s] # S_RUN
  BY ForkLast DEF ReachInv
<1>5. PICK p \in Pids : Fork(s, p)
  BY ForkLast DEF ReachInv
<1>6. CASE state[s] = S_FINISH
  <2>1. UNCHANGED <<state, fresh, starts>>
    BY <1>5, <1>6 DEF Fork
  <2> QED
    BY <1>2, <2>1, ThrottleKept
<1>7. CASE state[s] = S_DOWN
  <2>1. /\ state' = [state EXCEPT ![s] = S_RUN]
        /\ fresh' = [fresh EXCEPT ![s] = TRUE]
        /\ starts' = [starts EXCEPT ![s] = 1]
    BY <1>1, <1>3, <1>5, <1>7 DEF Fork, S_DOWN, S_FINISH
  <2>2. \A t \in Svd : /\ state'[t] = IF t = s THEN S_RUN ELSE state[t]
                       /\ fresh'[t] = IF t = s THEN TRUE ELSE fresh[t]
                       /\ starts'[t] = IF t = s THEN 1 ELSE starts[t]
    BY <1>1, <2>1 DEF ReachInv, TypeOK
  <2> QED
    BY <1>3, <2>2 DEF ThrottleInv, S_RUN, S_DOWN
<1> QED
  BY <1>1, <1>4, <1>6, <1>7 DEF ReachInv, TypeOK, States

(* The sleep is among the calls of a service that died too early.          *)
LEMMA EarlyDeathSleeps ==
  ASSUME NEW s \in Svd, NowDown(s), fresh[s]
  PROVE  Call("sleep", s) \in Range(todo')
<1>1. Call("update", s) \in Calls /\ Call("sleep", s) \in Calls
  BY CallFacts DEF Ops
<1>2. todo' = <<Call("update", s), Call("sleep", s)>>
  BY <1>1, TwoCalls DEF NowDown
<1> QED
  BY <1>1, <1>2, TwoCalls

LEMMA ThrottleReap ==
  ASSUME ReachInv, ThrottleInv, NEW p \in Pids, ReapSvc(p) \/ ReapLog(p)
  PROVE  ThrottleInv'
<1>1. todo = <<>> /\ UNCHANGED starts
  BY DEF ReapSvc, ReapLog, At
<1>2. \A t \in Svd : state[t] = S_DOWN => starts[t] = 0
  BY <1>1, EmptyTodo DEF ThrottleInv
<1>3. ASSUME NEW s \in Svd, NowDown(s) PROVE ThrottleInv'
  <2>1. starts[s] # 0 => Call("sleep", s) \in Range(todo')
    BY <1>3, EarlyDeathSleeps DEF ThrottleInv
  <2>2. \A t \in Svd : /\ state'[t] = IF t = s THEN S_DOWN ELSE state[t]
                       /\ fresh'[t] = IF t = s THEN TRUE ELSE fresh[t]
    BY <1>3 DEF NowDown, ReachInv, TypeOK
  <2> QED
    BY <1>1, <1>2, <2>1, <2>2 DEF ThrottleInv
<1>4. CASE UNCHANGED fresh /\ state' = [state EXCEPT ![0] = S_FINISH]
  <2>1. \A t \in Svd : state'[t] = IF t = 0 THEN S_FINISH ELSE state[t]
    BY <1>4 DEF ReachInv, TypeOK, Svd
  <2> QED
    BY <1>1, <1>2, <1>4, <2>1 DEF ThrottleInv, S_DOWN, S_FINISH
<1> QED
  BY <1>3, <1>4 DEF ReapSvc, ReapLog, Svd

LEMMA ThrottleStep ==
  ASSUME "k" \notin Commands, ReachInv, ThrottleInv, [Next]_vars
  PROVE  ThrottleInv'
<1>1. CASE todo = <<>> /\ UNCHANGED <<state, fresh, starts>>
  BY <1>1, EmptyTodo, ThrottleKept
<1>2. CASE LoopStep \/ ControlStep
  BY <1>1, <1>2, LoopStepFacts, ControlFacts DEF ReachInv
<1>3. CASE CloseLog
  BY <1>1, <1>3 DEF CloseLog, At
<1>4. CASE Tick
  BY <1>4 DEF Tick, ThrottleInv
<1>5. CASE UNCHANGED <<state, fresh, starts, todo>>
  BY <1>5, ThrottleKept
<1>6. CASE Environment
  <2>1. CASE ~ Tick
    <3>1. UNCHANGED <<state, fresh, starts, todo>>
      BY <1>6, <2>1 DEF Environment, Terminate, SendCommand, SendTerm, svdVars
    <3> QED
      BY <1>5, <3>1
  <2> QED
    BY <1>4, <2>1
<1>7. CASE UNCHANGED vars
  BY <1>5, <1>7 DEF vars, svdVars
<1> QED
  BY <1>2, <1>3, <1>6, <1>7, StepCases, ThrottleCall, ThrottleFork, ThrottleReap

(* Without the kill command no service is started twice within a second,   *)
(* whatever the order of deaths, commands and restarts.                    *)
THEOREM RestartsAreThrottled ==
  ASSUME "k" \notin Commands
  PROVE  Spec => []Throttle
<1>1. Init => ThrottleInv
  BY DEF Init, ThrottleInv
<1>2. ReachInv /\ ThrottleInv /\ [Next]_vars => ThrottleInv'
  BY ThrottleStep
<1>3. Spec => []ReachInv
  BY ChildInvariant DEF ReachInv
<1>4. ReachInv /\ ThrottleInv => Throttle
  BY DEF ReachInv, TypeOK, ThrottleInv, Throttle, Svds, Svd
<1> QED
  BY <1>1, <1>2, <1>3, <1>4, PTL DEF Spec

-----------------------------------------------------------------------------
(* The status file. *)

(* A status file that is behind has an update_status ahead of it.          *)
StatusInv ==
  \A s \in Svds : status[s] = Snapshot(s) \/ Call("update", s) \in Range(todo)

(* The fields the file shows are all that Snapshot depends on.             *)
LEMMA SnapshotKept ==
  ASSUME NEW s \in Svd, pid'[s] = pid[s], state'[s] = state[s],
         sd_want'[s] = sd_want[s], ctrl'[s] = ctrl[s]
  PROVE  Snapshot(s)' = Snapshot(s)
  BY DEF Snapshot

(* A step from a place where no call is pending.                           *)
LEMMA StatusIdle ==
  ASSUME StatusInv, todo = <<>>, UNCHANGED status,
         \A t \in Svds : \/ Call("update", t) \in Range(todo')
                         \/ /\ pid'[t] = pid[t] /\ state'[t] = state[t]
                            /\ sd_want'[t] = sd_want[t] /\ ctrl'[t] = ctrl[t]
  PROVE  StatusInv'
<1>1. \A t \in Svds : t \in Svd /\ status[t] = Snapshot(t)
  BY EmptyTodo DEF StatusInv, Svds, Svd
<1> QED
  BY <1>1, SnapshotKept DEF StatusInv

LEMMA StatusCall ==
  ASSUME Outcomes = {"ok"}, ReachInv, StatusInv, PlainCall
  PROVE  StatusInv'
<1> DEFINE s == Head(todo).s
<1>1. /\ todo # <<>> /\ s \in Svd /\ Head(todo) = Call(Head(todo).op, s)
      /\ UNCHANGED <<pid, state, sd_want>>
  BY PlainCallFacts, NextCall DEF ReachInv
<1>2. \A t \in Svds : t \in Svd /\ Call("update", t).op = "update"
                     /\ Call("update", t).s = t
  BY CallFacts DEF Svds, Svd, Ops
<1>3. CASE UpdateStatus
  <2>1. UNCHANGED ctrl
    BY <1>3 DEF UpdateStatus, svdVars
  <2>2. status' = [status EXCEPT ![s] = Snapshot(s)]
    BY <1>3 DEF UpdateStatus
  <2>3. ASSUME NEW t \in Svds
        PROVE  status'[t] = Snapshot(t)' \/ Call("update", t) \in Range(todo')
    <3>1. Snapshot(t)' = Snapshot(t)
      BY <1>1, <1>2, <2>1, SnapshotKept
    <3>2. CASE t = s
      BY <1>1, <2>2, <3>1, <3>2 DEF ReachInv, TypeOK
    <3>3. CASE t # s
      <4>1. status'[t] = status[t]
        BY <1>2, <2>2, <3>3 DEF ReachInv, TypeOK
      <4>2. Call("update", t) # Head(todo)
        BY <1>2, <3>3
      <4> QED
        BY <3>1, <4>1, <4>2, PendingKept DEF StatusInv
    <3> QED
      BY <3>2, <3>3
  <2> QED
    BY <2>3 DEF StatusInv
<1>4. CASE ~ UpdateStatus
  <2>1. /\ Head(todo).op # "update" /\ UNCHANGED status
        /\ StopService \/ UNCHANGED ctrl
    BY <1>4
    DEF PlainCall, StopService, StopServiceCont, StartService, Sleep, Calling,
        svdVars, fileVars
  <2>2. \A t \in Svd \ {s} : ctrl'[t] = ctrl[t]
    BY <1>4
    DEF PlainCall, StopService, StopServiceCont, StartService, Sleep, svdVars,
        ReachInv, TypeOK
  <2>3. Call("update", s) \in Range(todo') \/ UNCHANGED ctrl
    BY <2>1, StopTodo DEF ReachInv
  <2>4. ASSUME NEW t \in Svds
        PROVE  status'[t] = Snapshot(t)' \/ Call("update", t) \in Range(todo')
    <3>1. CASE Call("update", t) \in Range(todo)
      BY <1>2, <2>1, <3>1, PendingKept
    <3>2. CASE status[t] = Snapshot(t)
      <4>1. Call("update", t) \in Range(todo') \/ ctrl'[t] = ctrl[t]
        BY <1>2, <2>2, <2>3
      <4> QED
        BY <1>1, <1>2, <2>1, <3>2, <4>1, SnapshotKept
    <3> QED
      BY <3>1, <3>2 DEF StatusInv
  <2> QED
    BY <2>4 DEF StatusInv
<1> QED
  BY <1>3, <1>4

LEMMA StatusFork ==
  ASSUME ReachInv, StatusInv, StartServiceFork
  PROVE  StatusInv'
<1> DEFINE s == Head(todo).s
<1>1. /\ s \in Svd /\ Range(todo) = {Call("fork", s)}
      /\ Call("update", s) \in Range(todo')
  BY ForkLast DEF ReachInv
<1>2. PICK p \in Pids : Fork(s, p)
  BY ForkLast DEF ReachInv
<1>3. ASSUME NEW t \in Svds, t # s PROVE status'[t] = Snapshot(t)'
  <2>1. t \in Svd /\ Call("update", t).op = "update" /\ Call("fork", s).op = "fork"
    BY <1>1, CallFacts DEF Svds, Svd, Ops
  <2>2. status[t] = Snapshot(t)
    BY <1>1, <2>1 DEF StatusInv
  <2>3. /\ pid'[t] = pid[t] /\ state'[t] = state[t] /\ ctrl'[t] = ctrl[t]
        /\ sd_want'[t] = sd_want[t] /\ status'[t] = status[t]
    BY <1>2, <1>3, <2>1 DEF StartServiceFork, Fork, ReachInv, TypeOK
  <2> QED
    BY <2>1, <2>2, <2>3, SnapshotKept
<1> QED
  BY <1>1, <1>3 DEF StatusInv

LEMMA StatusReap ==
  ASSUME ReachInv, StatusInv, NEW p \in Pids, ReapSvc(p) \/ ReapLog(p)
  PROVE  StatusInv'
<1>1. todo = <<>> /\ UNCHANGED <<status, sd_want>> /\ 0 \in Svd /\ 1 \in Svd
  BY DEF ReapSvc, ReapLog, At, Svd
<1>2. ASSUME NEW s \in Svd, Reaped(s, p), Call("update", s) \in Range(todo'),
             NEW v, state' = [state EXCEPT ![s] = v]
      PROVE  StatusInv'
  <2>1. \A t \in Svds : t \in Svd
    BY DEF Svds, Svd
  <2>2. \A t \in Svd \ {s} : /\ pid'[t] = pid[t] /\ state'[t] = state[t]
                             /\ ctrl'[t] = ctrl[t]
    BY <1>2 DEF Reaped, ReachInv, TypeOK
  <2> QED
    BY <1>1, <1>2, <2>1, <2>2, StatusIdle
<1>3. CASE ReapSvc(p)
  <2>1. Call("update", 0) \in Range(todo')
    BY <1>1, <1>3, ReapTodo DEF ReapSvc
  <2> QED
    BY <1>1, <1>2, <1>3, <2>1 DEF ReapSvc, NowDown
<1>4. CASE ReapLog(p)
  <2>1. Call("update", 1) \in Range(todo')
    BY <1>1, <1>4, ReapTodo DEF ReapLog
  <2> QED
    BY <1>1, <1>2, <1>4, <2>1 DEF ReapLog, NowDown
<1> QED
  BY <1>3, <1>4

LEMMA StatusStep ==
  ASSUME Outcomes = {"ok"}, "k" \notin Commands, ReachInv, StatusInv, [Next]_vars
  PROVE  StatusInv'
<1>1. CASE LoopStep
  BY <1>1, LoopStepFacts, StatusIdle
<1>2. CASE ControlStep
  <2>1. \A t \in Svds : t \in Svd
    BY DEF Svds, Svd
  <2> QED
    BY <1>2, <2>1, ControlFacts, StatusIdle DEF ReachInv
<1>3. CASE CloseLog
  <2>1. todo' = <<Call("update", 1)>> /\ todo = <<>> /\ 1 \in Svd
    BY <1>3 DEF CloseLog, At, Svd
  <2>2. Call("update", 1) \in Range(todo')
    BY <2>1, CallFacts, OneCall DEF Ops
  <2>3. UNCHANGED <<pid, state, ctrl, status>> /\ sd_want'[0] = sd_want[0]
    BY <1>3 DEF CloseLog, fileVars, ReachInv, TypeOK, Svd
  <2> QED
    BY <2>1, <2>2, <2>3, StatusIdle DEF Svds
<1>4. CASE UNCHANGED <<pid, state, ctrl, sd_want, status, todo>>
  BY <1>4 DEF StatusInv, Snapshot
<1>5. CASE Environment
  BY <1>4, <1>5
  DEF Environment, Terminate, SendCommand, SendTerm, Tick, svdVars, fileVars
<1>6. CASE UNCHANGED vars
  BY <1>4, <1>6 DEF vars, svdVars, fileVars
<1> QED
  BY <1>1, <1>2, <1>3, <1>5, <1>6, StepCases, StatusCall, StatusFork, StatusReap

(* Without the kill command, and as long as the files can be written,      *)
(* supervise/status says what svd[] says whenever runsv has made all its   *)
(* calls: update_status is forgotten on no path through the code.          *)
THEOREM StatusIsCurrent ==
  ASSUME "k" \notin Commands, Outcomes = {"ok"}
  PROVE  Spec => []StatusAgrees
<1>1. Init => StatusInv
  BY InitTodo DEF StatusInv
<1>2. ReachInv /\ StatusInv /\ [Next]_vars => StatusInv'
  BY StatusStep
<1>3. Spec => []ReachInv
  BY ChildInvariant DEF ReachInv
<1>4. StatusInv => StatusAgrees
  BY EmptyTodo DEF StatusInv, StatusAgrees
<1> QED
  BY <1>1, <1>2, <1>3, <1>4, PTL DEF Spec


-----------------------------------------------------------------------------
(* The pid files. *)

(* One flag serves two files: pidchanged is only set while the next call   *)
(* is an update_status, and a file that is behind is the one it is for.    *)
(* The pid file of a log service that does not run may be anything.        *)
NextIs(c) == todo # <<>> /\ Head(todo) = c

PidInv ==
  /\ pidchanged => NextIs(Call("update", 0)) \/ NextIs(Call("update", 1))
  /\ \A s \in Svd : s = 0 \/ pid[s] # 0 =>
       pidfile[s] = pid[s] \/ (pidchanged /\ NextIs(Call("update", s)))

LEMMA ConsHead ==
  ASSUME NEW c \in Calls, NEW t \in Seq(Calls), NEW r, r = <<c>> \o t
  PROVE  r # <<>> /\ Head(r) = c
<1>1. <<c>> \in Seq(Calls) /\ Len(<<c>>) = 1 /\ <<c>>[1] = c
  OBVIOUS
<1>2. Len(r) = 1 + Len(t) /\ r \in Seq(Calls) /\ r[1] = c /\ Len(t) \in Nat
  BY <1>1, ConcatProperties, LenProperties
<1> QED
  BY <1>2

(* Nothing happens to the pids and their files.                            *)
LEMMA PidKept ==
  ASSUME PidInv, UNCHANGED <<pid, pidchanged, pidfile>>,
         todo' = todo \/ todo = <<>> \/ Head(todo).op # "update"
  PROVE  PidInv'
<1>1. Call("update", 0).op = "update" /\ Call("update", 1).op = "update"
  BY CallFacts DEF Ops, Svd
<1>2. CASE todo' = todo
  BY <1>2 DEF PidInv, NextIs
<1>3. CASE todo = <<>> \/ Head(todo).op # "update"
  <2>1. ~ pidchanged
    BY <1>1, <1>3 DEF PidInv, NextIs
  <2> QED
    BY <2>1 DEF PidInv
<1> QED
  BY <1>2, <1>3

(* A new pid, and an update_status for its service next.                   *)
LEMMA PidNew ==
  ASSUME TypeOK, PidInv, ~ pidchanged, NEW s \in Svd, NEW p, pid' = [pid EXCEPT ![s] = p],
         pidchanged', UNCHANGED pidfile, NextIs(Call("update", s))'
  PROVE  PidInv'
<1>1. \A t \in Svd \ {s} : pid'[t] = pid[t]
  BY DEF TypeOK
<1> QED
  BY <1>1 DEF PidInv, NextIs, Svd

LEMMA PidUpdate ==
  ASSUME Outcomes = {"ok"}, TypeOK, PidInv, UpdateStatus
  PROVE  PidInv'
<1>1. PICK s \in Svd : Head(todo) = Call("update", s) /\ todo # <<>> /\ Head(todo).s = s
  BY NextCall DEF UpdateStatus, Calling
<1>2. UNCHANGED pid /\ pidchanged' = FALSE
  BY DEF UpdateStatus, svdVars, WritePid, TypeOK
<1>3. pidfile' = IF pidchanged THEN [pidfile EXCEPT ![s] = pid[s]] ELSE pidfile
  BY <1>1 DEF UpdateStatus, WritePid
<1>4. \A t \in Svd \ {s} : Call("update", t) # Call("update", s)
  BY CallFacts DEF Ops
<1>5. ASSUME NEW t \in Svd, t = 0 \/ pid[t] # 0
      PROVE  pidfile'[t] = pid[t]
  <2>1. CASE t = s
    <3>1. pidchanged \/ pidfile[s] = pid[s]
      BY <1>5, <2>1 DEF PidInv
    <3> QED
      BY <1>3, <2>1, <3>1 DEF TypeOK
  <2>2. CASE t # s
    <3>1. pidfile[t] = pid[t]
      BY <1>1, <1>4, <1>5, <2>2 DEF PidInv, NextIs
    <3> QED
      BY <1>3, <2>2, <3>1 DEF TypeOK
  <2> QED
    BY <2>1, <2>2
<1> QED
  BY <1>2, <1>5 DEF PidInv

LEMMA PidFork ==
  ASSUME TypeOK, PidInv, StartServiceFork
  PROVE  PidInv'
<1>1. PICK s \in Svd : Head(todo).s = s /\ todo # <<>> /\ Head(todo).op = "fork"
  BY NextCall DEF StartServiceFork, Calling
<1>2. PICK p \in Pids : Fork(s, p)
  BY <1>1 DEF StartServiceFork
<1>3. ~ pidchanged
  BY <1>1, CallFacts DEF PidInv, NextIs, Ops, Svd
<1>4. Call("update", s) \in Calls /\ Tail(todo) \in Seq(Calls)
  BY <1>1, CallFacts, NextCall DEF Ops
<1>5. NextIs(Call("update", s))'
  BY <1>2, <1>4, ConsHead DEF NextIs, Fork
<1>6. pid' = [pid EXCEPT ![s] = p] /\ pidchanged' /\ UNCHANGED pidfile
  BY <1>2 DEF Fork, StartServiceFork
<1> QED
  BY <1>3, <1>5, <1>6, PidNew

LEMMA PidReap ==
  ASSUME TypeOK, PidInv, NEW p \in Pids, ReapSvc(p) \/ ReapLog(p)
  PROVE  PidInv'
<1>1. todo = <<>> /\ UNCHANGED pidfile
  BY DEF ReapSvc, ReapLog, At
<1>2. ~ pidchanged
  BY <1>1 DEF PidInv, NextIs
<1>3. PICK s \in Svd : Reaped(s, p) /\ (NowDown(s) \/ todo' = <<Call("update", s)>>)
  BY DEF ReapSvc, ReapLog, Svd
<1>4. NextIs(Call("update", s))'
  <2>1. /\ Call("update", s) \in Calls /\ Call("sleep", s) \in Calls
        /\ <<Call("sleep", s)>> \in Seq(Calls) /\ <<>> \in Seq(Calls)
    BY CallFacts, OneCall, EmptyTodo DEF Ops
  <2>2. \/ todo' = <<Call("update", s)>> \o <<Call("sleep", s)>>
        \/ todo' = <<Call("update", s)>> \o <<>>
    BY <1>3, <2>1, OneCall DEF NowDown
  <2> QED
    BY <2>1, <2>2, ConsHead DEF NextIs
<1> QED
  BY <1>1, <1>2, <1>3, <1>4, PidNew DEF Reaped

LEMMA PidStep ==
  ASSUME Outcomes = {"ok"}, TypeOK, PidInv, [Next]_vars
  PROVE  PidInv'
<1>1. CASE LoopStep \/ ControlStep \/ CloseLog
  <2>1. todo = <<>> /\ UNCHANGED <<pid, pidchanged, pidfile>>
    BY <1>1
    DEF LoopStep, StartLog, StartSvc, PollTimeout, ReapDone, Exit, StayUp, SigChild, SigTerm,
        PollReady, ClosePipe, ControlStep, ReadControlSvc, ReadControlLog, ReadControl,
        TakeSigterm, CloseLog, At, Goto, svdVars, fileVars
  <2> QED
    BY <2>1, PidKept
<1>2. CASE StopService \/ StopServiceCont \/ StartService \/ Sleep
  <2>1. Head(todo).op # "update" /\ UNCHANGED <<pid, pidchanged, pidfile>>
    BY <1>2
    DEF StopService, StopServiceCont, StartService, Sleep, Calling, svdVars, fileVars
  <2> QED
    BY <2>1, PidKept
<1>3. CASE Environment \/ (\E p \in Pids : ReapOther(p)) \/ UNCHANGED vars
  <2>1. UNCHANGED <<pid, pidchanged, pidfile, todo>>
    BY <1>3
    DEF Environment, Terminate, SendCommand, SendTerm, Tick, ReapOther, vars, svdVars, fileVars
  <2> QED
    BY <2>1, PidKept
<1> QED
  BY <1>1, <1>2, <1>3, PidUpdate, PidFork, PidReap DEF Next, Runsv, LoopStep, ControlStep

(* As long as the files can be written, and whatever commands come, kill   *)
(* included: when runsv has made all its calls, supervise/pid names the    *)
(* process of the service, and log/supervise/pid that of a log service     *)
(* that runs.  The one flag is enough because startservice and the reaping *)
(* are followed by the update_status of the same service at once.          *)
THEOREM PidFilesAreCurrent ==
  ASSUME Outcomes = {"ok"}
  PROVE  Spec => []PidFileAgrees
<1>1. Init => PidInv
  <2> SUFFICES ASSUME Init PROVE PidInv
    OBVIOUS
  <2>1. todo # <<>> /\ Head(todo) = Call("update", 0) /\ pidchanged
    BY DEF Init
  <2>2. pid[1] = 0
    BY DEF Init, Svd
  <2> QED
    BY <2>1, <2>2 DEF PidInv, NextIs, Svd
<1>2. TypeOK /\ PidInv /\ [Next]_vars => PidInv'
  BY PidStep
<1>3. PidInv => PidFileAgrees
  BY DEF PidInv, NextIs, PidFileAgrees, Svd
<1> QED
  BY <1>1, <1>2, <1>3, TypeCorrect, PTL DEF Spec

-----------------------------------------------------------------------------
(* The pid file when steps of update_status fail. *)

(* Without a log directory nothing is ever done for svd[1].                *)
NoLogInv ==
  /\ pc \notin {"control1", "close"} /\ pid[1] = 0
  /\ \A c \in Range(todo) : c.s = 0

(* A pid file that is neither empty nor right is due.                      *)
StalePidInv == pidfile[0] \notin {0, pid[0]} => pidchanged

LEMMA NoLogCalls ==
  ASSUME TypeOK, ~ HasLog, NoLogInv, todo # <<>>,
         UpdateStatus \/ StopService \/ StopServiceCont \/ StartService \/ StartServiceFork
         \/ Sleep
  PROVE  NoLogInv' /\ Head(todo).s = 0
<1>1. /\ Head(todo).s = 0 /\ 0 \in Svd /\ Tail(todo) \in Seq(Calls)
      /\ \A c \in Range(Tail(todo)) : c.s = 0
  BY NextCall DEF NoLogInv, Svd
<1>2. \A f \in Ops : Call(f, 0) \in Calls /\ Call(f, 0).s = 0
  BY <1>1, CallFacts
<1>3. \A c \in Range(todo') : c.s = 0
  <2>1. CASE UpdateStatus \/ StopServiceCont \/ Sleep
    BY <1>1, <2>1 DEF UpdateStatus, StopServiceCont, Sleep
  <2>2. CASE StopService
    BY <1>1, <1>2, <2>2, StopTodo DEF Ops
  <2>3. CASE StartServiceFork
    <3>1. PICK p \in Pids : Fork(Head(todo).s, p)
      BY <2>3 DEF StartServiceFork
    <3> QED
      BY <1>1, <1>2, <3>1, ForkFacts DEF ForkEffect, Ops
  <2>4. CASE StartService
    <3>1. /\ Call("stop", 0) \in Calls /\ Call("fork", 0) \in Calls
          /\ Call("stop", 0).s = 0 /\ Call("fork", 0).s = 0
      BY <1>2 DEF Ops
    <3> DEFINE fork == <<Call("fork", 0)>> \o Tail(todo)
    <3>2. fork \in Seq(Calls) /\ Range(fork) = {Call("fork", 0)} \cup Range(Tail(todo))
      BY <1>1, <3>1, ConsTodo
    <3>3. Range(<<Call("stop", 0)>> \o fork) = {Call("stop", 0)} \cup Range(fork)
      BY <3>1, <3>2, ConsTodo
    <3>4. <<Call("stop", 0), Call("fork", 0)>> \o Tail(todo) = <<Call("stop", 0)>> \o fork
      BY <1>1, <3>1, TwoCalls, OneCall, ConcatAssociative
    <3>5. todo' = fork \/ todo' = <<Call("stop", 0)>> \o fork
      BY <1>1, <2>4, <3>4 DEF StartService
    <3> HIDE DEF fork
    <3> QED
      BY <1>1, <3>1, <3>2, <3>3, <3>5
  <2> QED
    BY <2>1, <2>2, <2>3, <2>4
<1>4. UNCHANGED pc /\ pid'[1] = pid[1]
  <2>1. UNCHANGED pc
    BY DEF UpdateStatus, StopService, StopServiceCont, StartService, StartServiceFork, Sleep,
           mainVars
  <2>2. UNCHANGED pid \/ StartServiceFork
    BY DEF UpdateStatus, StopService, StopServiceCont, StartService, Sleep, svdVars
  <2>3. ASSUME NEW p \in Pids, Fork(Head(todo).s, p)
        PROVE  pid'[1] = pid[1]
    BY <1>1, <2>3 DEF Fork, TypeOK, Svd
  <2> QED
    BY <2>1, <2>2, <2>3 DEF StartServiceFork
<1> QED
  BY <1>1, <1>3, <1>4 DEF NoLogInv


LEMMA NoLogLoop ==
  ASSUME TypeOK, ~ HasLog, NoLogInv, LoopStep \/ ControlStep
  PROVE  NoLogInv'
<1>1. /\ Range(<<>>) = {} /\ 0 \in Svd
      /\ \A f \in Ops : Call(f, 0).s = 0 /\ Range(<<Call(f, 0)>>) = {Call(f, 0)}
  BY EmptyTodo, CallFacts, OneCall DEF Svd
<1>2. todo = <<>> /\ UNCHANGED pid
  BY DEF LoopStep, StartLog, StartSvc, PollTimeout, ReapDone, Exit, StayUp, SigChild, SigTerm,
         PollReady, ClosePipe, ControlStep, ReadControlSvc, ReadControlLog, ReadControl,
         TakeSigterm, At, Goto, svdVars
<1>3. CASE LoopStep
  <2>1. pc' \notin {"control1", "close"}
    BY <1>3
    DEF LoopStep, StartLog, StartSvc, PollTimeout, ReapDone, Exit, StayUp, SigChild, SigTerm,
        PollReady, ClosePipe, At, Goto, mainVars
  <2>2. todo' = <<>> \/ todo' = <<Call("start", 0)>>
    BY <1>2, <1>3
    DEF LoopStep, StartLog, StartSvc, PollTimeout, ReapDone, Exit, StayUp, SigChild, SigTerm,
        PollReady, ClosePipe, Goto, LogIsDue
  <2> QED
    BY <1>1, <1>2, <2>1, <2>2 DEF NoLogInv, Ops
<1>4. CASE ControlStep
  <2>1. ~ ReadControlLog
    BY DEF ReadControlLog, ReadControl, At, NoLogInv
  <2>2. pc' \notin {"control1", "close"}
    BY <1>4, <2>1 DEF ControlStep, ReadControlSvc, ReadControl, TakeSigterm
  <2>3. ASSUME NEW c, Ctrl(0, c)
        PROVE  \A d \in Range(todo') : d.s = 0
    BY <1>1, <2>3, CtrlKeeps DEF CtrlEffect, CtrlCalls, Ops
  <2>4. \A d \in Range(todo') : d.s = 0
    BY <1>1, <1>2, <1>4, <2>1, <2>3
    DEF ControlStep, ReadControlSvc, ReadControl, TakeSigterm
  <2> QED
    BY <1>2, <2>2, <2>4 DEF NoLogInv
<1> QED
  BY <1>3, <1>4

LEMMA NoLogStep ==
  ASSUME TypeOK, ~ HasLog, NoLogInv, [Next]_vars
  PROVE  NoLogInv'
<1>1. CASE UpdateStatus \/ StopService \/ StopServiceCont \/ StartService \/ StartServiceFork
           \/ Sleep
  <2>1. todo # <<>>
    BY <1>1
    DEF UpdateStatus, StopService, StopServiceCont, StartService, StartServiceFork, Sleep,
        Calling
  <2> QED
    BY <1>1, <2>1, NoLogCalls
<1>2. ASSUME NEW p \in Pids, ReapSvc(p)
      PROVE  NoLogInv'
  <2>1. UNCHANGED pc /\ pid'[1] = pid[1]
    BY <1>2 DEF ReapSvc, Reaped, mainVars, TypeOK, Svd
  <2>2. Range(todo') \subseteq {Call("update", 0), Call("sleep", 0)}
    BY <1>2, ReapTodo DEF ReapSvc, Svd
  <2>3. Call("update", 0).s = 0 /\ Call("sleep", 0).s = 0
    BY CallFacts DEF Ops, Svd
  <2> QED
    BY <2>1, <2>2, <2>3 DEF NoLogInv
<1>3. ~ CloseLog /\ \A p \in Pids : ~ ReapLog(p)
  BY DEF CloseLog, ReapLog, NoLogInv
<1>4. CASE Environment \/ (\E p \in Pids : ReapOther(p)) \/ UNCHANGED vars
  <2>1. UNCHANGED <<pid, pc, todo>>
    BY <1>4
    DEF Environment, Terminate, SendCommand, SendTerm, Tick, ReapOther, vars, svdVars, mainVars
  <2> QED
    BY <2>1 DEF NoLogInv
<1> QED
  BY <1>1, <1>2, <1>3, <1>4, NoLogLoop DEF Next, Runsv, LoopStep, ControlStep

LEMMA StalePidStep ==
  ASSUME TypeOK, ~ HasLog, NoLogInv, StalePidInv, [Next]_vars
  PROVE  StalePidInv'
<1>1. CASE UpdateStatus
  <2>1. UNCHANGED pid /\ todo # <<>>
    BY <1>1 DEF UpdateStatus, svdVars, Calling
  <2>2. Head(todo).s = 0 /\ 0 \in Svd
    BY <1>1, <2>1, NoLogCalls DEF Svd
  <2>3. \/ UNCHANGED <<pidchanged, pidfile>>
        \/ \E o \in Outcomes : WritePid(0, o)
    BY <1>1, <2>2 DEF UpdateStatus
  <2>4. ASSUME NEW o, WritePid(0, o)
        PROVE  StalePidInv'
    <3>1. CASE o = "nopid"
      BY <2>4, <3>1 DEF WritePid, StalePidInv
    <3>2. CASE o # "nopid"
      <4>1. pidfile'[0] \in {0, pid[0]}
        BY <2>2, <2>4, <3>2 DEF WritePid, TypeOK
      <4> QED
        BY <2>1, <4>1 DEF StalePidInv
    <3> QED
      BY <3>1, <3>2
  <2> QED
    BY <2>1, <2>3, <2>4 DEF StalePidInv
<1>2. CASE StartServiceFork
  BY <1>2 DEF StartServiceFork, Fork, StalePidInv
<1>3. CASE \E p \in Pids : ReapSvc(p)
  BY <1>3 DEF ReapSvc, Reaped, StalePidInv
<1>4. \A p \in Pids : ~ ReapLog(p)
  BY DEF ReapLog
<1>5. CASE UNCHANGED <<pid, pidchanged, pidfile>>
  BY <1>5 DEF StalePidInv
<1>6. CASE LoopStep \/ ControlStep \/ CloseLog
  BY <1>5, <1>6
  DEF LoopStep, StartLog, StartSvc, PollTimeout, ReapDone, Exit, StayUp, SigChild, SigTerm,
      PollReady, ClosePipe, ControlStep, ReadControlSvc, ReadControlLog, ReadControl,
      TakeSigterm, CloseLog, Goto, svdVars, fileVars
<1>7. CASE StopService \/ StopServiceCont \/ StartService \/ Sleep
  BY <1>5, <1>7 DEF StopService, StopServiceCont, StartService, Sleep, svdVars, fileVars
<1>8. CASE Environment \/ (\E p \in Pids : ReapOther(p)) \/ UNCHANGED vars
  BY <1>5, <1>8
  DEF Environment, Terminate, SendCommand, SendTerm, Tick, ReapOther, vars, svdVars, fileVars
<1> QED
  BY <1>1, <1>2, <1>3, <1>4, <1>6, <1>7, <1>8 DEF Next, Runsv, LoopStep, ControlStep

(* For a service without a log service, whatever commands come and in      *)
(* whichever way the calls of update_status fail: a pid file that still    *)
(* names another process is not taken for current, the next update_status  *)
(* tries to replace it.                                                    *)
THEOREM StalePidIsNoticed ==
  ASSUME ~ HasLog
  PROVE  Spec => []StalePidNoticed
<1>1. Init => NoLogInv /\ StalePidInv
  <2> SUFFICES ASSUME Init PROVE NoLogInv /\ StalePidInv
    OBVIOUS
  <2>1. Range(todo) = {Call("update", 0)} /\ Call("update", 0).s = 0
    BY CallFacts, OneCall DEF Init, Ops, Svd
  <2>2. pc = "startlog" /\ pid[1] = 0 /\ pidchanged
    BY DEF Init, Svd
  <2> QED
    BY <2>1, <2>2 DEF NoLogInv, StalePidInv
<1>2. TypeOK /\ NoLogInv /\ StalePidInv /\ [Next]_vars => (NoLogInv /\ StalePidInv)'
  BY NoLogStep, StalePidStep
<1>3. StalePidInv => StalePidNoticed
  BY DEF StalePidInv, StalePidNoticed
<1> QED
  BY <1>1, <1>2, <1>3, TypeCorrect, PTL DEF Spec
=============================================================================
