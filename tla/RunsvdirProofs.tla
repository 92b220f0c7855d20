--------------------------- MODULE RunsvdirProofs ---------------------------
(***************************************************************************)
(* Theorems about runsvdir: type correctness, that every runsv which was   *)
(* not told to end is found in the entry of its directory, and, without    *)
(* the option -s, that kill() only reaches runsvdir's own children.        *)
(***************************************************************************)
EXTENDS Runsvdir, SequenceTheorems, TLAPS

ProcType == [st : {"free", "running", "zombie"},
             dir : {{}} \cup {{d} : d \in Dirs}, termed : BOOLEAN]

-----------------------------------------------------------------------------
(* The operators. *)

(* A function on 1..n whose values are entries is an array of entries.     *)
LEMMA SvArray ==
  ASSUME NEW n \in Nat, NEW f \in [1..n -> Entries]
  PROVE  f \in Seq(Entries) /\ Len(f) = n /\ DOMAIN f = 1..n
<1>1. Seq(Entries) = UNION {[1..m -> Entries] : m \in Nat}
  BY SeqDef
<1>2. f \in Seq(Entries)
  BY <1>1
<1>3. DOMAIN f = 1..Len(f) /\ Len(f) \in Nat
  BY <1>2, LenProperties
<1>4. DOMAIN f = 1..n
  OBVIOUS
<1> QED
  BY <1>2, <1>3, <1>4

(* sv as a function. *)
LEMMA SvFacts ==
  ASSUME sv \in Seq(Entries)
  PROVE  svnum \in Nat /\ sv \in [1..svnum -> Entries] /\ DOMAIN sv = 1..svnum
  BY LenProperties DEF svnum

(* Forgetting a reaped child, in sv.                                       *)
LEMMA ForgetFacts ==
  ASSUME sv \in Seq(Entries), NEW p \in Pids
  PROVE  /\ Forget(p) \in Seq(Entries)
         /\ Len(Forget(p)) = svnum
         /\ \A k \in 1..svnum : /\ Forget(p)[k].ino = sv[k].ino
                                /\ Forget(p)[k].pid = IF sv[k].pid = p THEN 0 ELSE sv[k].pid
<1>1. svnum \in Nat /\ sv \in [1..svnum -> Entries]
  BY SvFacts
<1>2. Forget(p) \in [1..svnum -> Entries]
  BY <1>1 DEF Forget, Entries
<1>3. \A k \in 1..svnum : /\ Forget(p)[k].ino = sv[k].ino
                          /\ Forget(p)[k].pid = IF sv[k].pid = p THEN 0 ELSE sv[k].pid
  BY <1>1 DEF Forget, Entries
<1> QED
  BY <1>1, <1>2, <1>3, SvArray

(* kill(p, SIGTERM) changes nothing but `termed`, of running children.     *)
LEMMA TermFacts ==
  ASSUME proc \in [Pids -> ProcType], NEW ps
  PROVE  /\ Term(ps) \in [Pids -> ProcType]
         /\ \A p \in Pids : /\ Term(ps)[p].st = proc[p].st
                            /\ Term(ps)[p].dir = proc[p].dir
                            /\ proc[p].termed => Term(ps)[p].termed
                            /\ p \notin ps => Term(ps)[p] = proc[p]
                            /\ p \in ps /\ proc[p].st = "running" => Term(ps)[p].termed
  BY DEF Term, ProcType

(* A failing call is counted, up to the bound. *)
LEMMA FailsCounted ==
  ASSUME RunsvdirAssumption, fails \in 0..MaxFails,
         (\E f \in AllFailures : Fails(f)) \/ Works
  PROVE  fails' \in 0..MaxFails
  BY DEF RunsvdirAssumption, Fails, Works

-----------------------------------------------------------------------------
(* The two ways do_rescan changes the table. *)

(* runsv() for an entry: the entry is d's, and its pid is that of a child  *)
(* just forked, or 0.                                                      *)
LEMMA RunFacts ==
  ASSUME TypeOK, NEW d \in Dirs, NEW k \in 1..svnum + 1, RunIthSv(k, d)
  PROVE  /\ sv' \in Seq(Entries)
         /\ proc' \in [Pids -> ProcType]
         /\ fails' \in 0..MaxFails
         /\ svnum' = IF k = svnum + 1 THEN svnum + 1 ELSE svnum
         /\ sv'[k].ino = d
         /\ \A n \in 1..svnum : n # k => sv'[n] = sv[n]
         /\ \/ sv'[k].pid = 0 /\ proc' = proc
            \/ \E p \in Pids : /\ proc[p].st = "free"
                               /\ proc' = [proc EXCEPT ![p] = Child(d)]
                               /\ sv'[k].pid = p
<1> DEFINE N == IF k = svnum + 1 THEN svnum + 1 ELSE svnum
           Set(p) == sv' = [n \in 1..svnum \cup {k} |->
                         IF n = k THEN [ino |-> d, pid |-> p, isgone |-> FALSE]
                                  ELSE sv[n]]
<1>1. svnum \in Nat /\ sv \in [1..svnum -> Entries]
  BY SvFacts DEF TypeOK
<1>2. 1..svnum \cup {k} = 1..N /\ N \in Nat /\ k \in 1..N
  BY <1>1
<1>3. ASSUME NEW p \in Pids \cup {0}, Set(p)
      PROVE  /\ sv' \in Seq(Entries) /\ svnum' = N
             /\ sv'[k].ino = d /\ sv'[k].pid = p
             /\ \A n \in 1..svnum : n # k => sv'[n] = sv[n]
  <2>1. sv' \in [1..N -> Entries]
    BY <1>1, <1>2, <1>3 DEF Entries
  <2>2. sv' \in Seq(Entries) /\ Len(sv') = N
    BY <1>2, <2>1, SvArray
  <2>3. sv'[k] = [ino |-> d, pid |-> p, isgone |-> FALSE]
    BY <1>2, <1>3
  <2>4. \A n \in 1..svnum : n # k => sv'[n] = sv[n]
    BY <1>3
  <2> QED
    BY <2>2, <2>3, <2>4 DEF svnum
<1>4. \/ RunsvFails /\ Set(0) /\ UNCHANGED proc
      \/ /\ bb_got_signal = "none" /\ Works
         /\ \E p \in Pids : /\ proc[p].st = "free"
                            /\ proc' = [proc EXCEPT ![p] = Child(d)]
                            /\ Set(p)
  BY DEF RunIthSv, NoRunsv
<1>5. CASE RunsvFails /\ Set(0) /\ UNCHANGED proc
  <2>1. fails' \in 0..MaxFails
    BY <1>5, FailsCounted, RunsvdirAssumption DEF TypeOK, RunsvFails, AllFailures
  <2> QED
    BY <1>3, <1>5, <2>1 DEF TypeOK, ProcType
<1>6. CASE /\ bb_got_signal = "none" /\ Works
           /\ \E p \in Pids : /\ proc[p].st = "free"
                              /\ proc' = [proc EXCEPT ![p] = Child(d)]
                              /\ Set(p)
  <2>1. fails' \in 0..MaxFails
    BY <1>6 DEF Works, TypeOK
  <2>2. PICK p \in Pids : /\ proc[p].st = "free"
                          /\ proc' = [proc EXCEPT ![p] = Child(d)]
                          /\ Set(p)
    BY <1>6
  <2>3. Child(d) \in ProcType
    BY DEF Child, ProcType
  <2>4. proc' \in [Pids -> ProcType]
    BY <2>2, <2>3 DEF TypeOK, ProcType
  <2> QED
    BY <1>3, <2>1, <2>2, <2>4
<1> QED
  BY <1>4, <1>5, <1>6

(* An entry is dropped: the last one takes its place. *)
LEMMA DropFacts ==
  ASSUME TypeOK, i \in 1..svnum, Drop
  PROVE  /\ sv' \in Seq(Entries)
         /\ proc' = Term({sv[i].pid})
         /\ svnum' = svnum - 1
         /\ \A n \in 1..svnum - 1 : sv'[n] = IF n = i THEN sv[svnum] ELSE sv[n]
         /\ i' = i
<1>1. svnum \in Nat /\ sv \in [1..svnum -> Entries]
  BY SvFacts DEF TypeOK
<1>2. svnum - 1 \in Nat /\ sv' \in [1..svnum - 1 -> Entries]
  BY <1>1 DEF Drop, TypeOK
<1>3. sv' \in Seq(Entries) /\ Len(sv') = svnum - 1
  BY <1>2, SvArray
<1> QED
  BY <1>1, <1>3 DEF Drop, svnum

-----------------------------------------------------------------------------
(* Type correctness. *)

(* The loop of do_rescan that drops entries counts from the first one.     *)
DirInv == TypeOK /\ i # 0

(* What the actions that leave the table and the processes alone do to     *)
(* everything else.                                                        *)
LEMMA TypeKept ==
  ASSUME DirInv, UNCHANGED <<sv, proc>>,
         \/ CollectDone \/ NotDue \/ Check \/ Wait \/ ReadDone \/ PurgeDone
         \/ Sleep \/ ClearSignal \/ ScriptDone
         \/ \E d \in Dirs : AddDir(d) \/ RemoveDir(d)
         \/ \E sg \in Signals : SendSignal(sg)
         \/ Tick
         \/ UNCHANGED vars
  PROVE  DirInv'
<1> USE RunsvdirAssumption DEF DirInv, TypeOK, Places, timeVars, sigVars, dirVars, Goto
<1>1. CASE CollectDone \/ NotDue \/ Wait \/ PurgeDone \/ ScriptDone
  BY <1>1 DEF CollectDone, NotDue, Wait, PurgeDone, ScriptDone
<1>2. CASE Check
  <2>1. fails' \in 0..MaxFails
    BY <1>2, FailsCounted DEF Check, AllFailures
  <2> QED
    BY <1>2, <2>1 DEF Check
<1>3. CASE ReadDone
  <2>1. fails' \in 0..MaxFails
    BY <1>3, FailsCounted DEF ReadDone, AllFailures
  <2>2. unread' \in {{}, unread} /\ need_rescan' \in {TRUE, need_rescan} /\ i' \in {1, i}
    BY <1>3 DEF ReadDone
  <2>3. pc' \in Places
    BY <1>3 DEF ReadDone
  <2>4. unread' \subseteq Dirs
    BY <2>2
  <2>5. need_rescan' \in BOOLEAN
    BY <2>2
  <2>6. i' \in Nat \ {0}
    BY <2>2
  <2>7. UNCHANGED <<sv, timeVars, sigVars, dirVars, proc>>
    BY <1>3 DEF ReadDone
  <2> QED
    BY <2>1, <2>3, <2>4, <2>5, <2>6, <2>7
<1>4. CASE Sleep \/ ClearSignal
  BY <1>4 DEF Sleep, ClearSignal
<1>5. CASE \E d \in Dirs : AddDir(d) \/ RemoveDir(d)
  <2>1. Touch
    BY <1>5 DEF AddDir, RemoveDir
  <2>4. changes' \in 0..MaxChanges /\ mtimeNow' = TRUE
    BY <2>1 DEF Touch, RunsvdirAssumption
  <2>5. changed' \in BOOLEAN
    BY <2>1 DEF Touch
  <2>2. dirs' \subseteq Dirs /\ unread' \subseteq Dirs
    BY <1>5 DEF AddDir, RemoveDir
  <2>3. UNCHANGED <<sv, need_rescan, lastNow, due, sigVars, pc, i, proc, fails>>
    BY <1>5 DEF AddDir, RemoveDir
  <2> QED
    BY <2>2, <2>3, <2>4, <2>5
<1>6. CASE \E sg \in Signals : SendSignal(sg)
  BY <1>6 DEF SendSignal
<1>7. CASE Tick
  BY <1>7 DEF Tick
<1>8. CASE UNCHANGED vars
  BY <1>8 DEF vars
<1> QED
  BY <1>1, <1>2, <1>3, <1>4, <1>5, <1>6, <1>7, <1>8

(* Every step keeps the types; only Collect, OpenDir, ReadEntry and Purge  *)
(* write the table.                                                        *)
LEMMA TypeStep ==
  ASSUME DirInv, [Next]_vars
  PROVE  DirInv'
<1> USE DEF DirInv
<1>0. TypeOK /\ i \in Nat \ {0}
  BY DEF TypeOK
<1>1. ASSUME NEW p \in Pids, Collect(p)
      PROVE  DirInv'
  <2>1. sv' \in Seq(Entries)
    BY <1>1, ForgetFacts DEF Collect, TypeOK
  <2>2. proc' \in [Pids -> ProcType]
    BY <1>1 DEF Collect, TypeOK, Free, ProcType
  <2> QED
    BY <1>1, <2>1, <2>2 DEF Collect, TypeOK, ProcType, timeVars, sigVars, dirVars
<1>2. ASSUME NEW p \in Pids, ScriptReap(p)
      PROVE  DirInv'
  <2>1. proc' \in [Pids -> ProcType]
    BY <1>2 DEF ScriptReap, TypeOK, Free, ProcType
  <2> QED
    BY <1>2, <2>1 DEF ScriptReap, TypeOK, ProcType, timeVars, sigVars, dirVars
<1>3. CASE OpenDir
  <2>1. fails' \in 0..MaxFails
    BY <1>3, FailsCounted, RunsvdirAssumption DEF OpenDir, AllFailures, TypeOK
  <2>2. svnum \in Nat /\ sv \in [1..svnum -> Entries]
    BY SvFacts DEF TypeOK
  <2>3. [k \in 1..svnum |-> [sv[k] EXCEPT !.isgone = TRUE]] \in [1..svnum -> Entries]
    BY <2>2 DEF Entries
  <2>4. sv' \in Seq(Entries)
    BY <1>3, <2>2, <2>3, SvArray DEF OpenDir, TypeOK
  <2> QED
    BY <1>3, <2>1, <2>4 DEF OpenDir, TypeOK, Places, Goto, timeVars, sigVars, dirVars
<1>4. ASSUME NEW d \in Dirs, ReadEntry(d)
      PROVE  DirInv'
  <2>1. /\ sv' \in Seq(Entries) /\ proc' \in [Pids -> ProcType]
        /\ fails' \in 0..MaxFails /\ need_rescan' \in BOOLEAN
    <3>1. CASE NotSeen(d)
      <4>1. fails' \in 0..MaxFails
        BY <3>1, FailsCounted, RunsvdirAssumption DEF NotSeen, AllFailures, TypeOK
      <4> QED
        BY <3>1, <4>1 DEF NotSeen, TypeOK, ProcType
    <3>2. CASE SeenAgain(d)
      <4>1. PICK k \in 1..svnum :
                \/ /\ sv' = [sv EXCEPT ![k].isgone = FALSE]
                   /\ Works /\ UNCHANGED proc
                \/ RunIthSv(k, d)
        BY <3>2 DEF SeenAgain, Listed
      <4>2. CASE sv' = [sv EXCEPT ![k].isgone = FALSE] /\ Works /\ UNCHANGED proc
        <5>1. svnum \in Nat /\ sv \in [1..svnum -> Entries]
          BY SvFacts DEF TypeOK
        <5>2. sv' \in [1..svnum -> Entries]
          BY <4>2, <5>1 DEF Entries
        <5> QED
          BY <3>2, <4>2, <5>1, <5>2, SvArray DEF SeenAgain, TypeOK, Works, ProcType
      <4>3. CASE RunIthSv(k, d)
        BY <3>2, <4>3, RunFacts, SvFacts DEF SeenAgain, TypeOK
      <4> QED
        BY <4>1, <4>2, <4>3
    <3>3. CASE SeenFirst(d)
      <4>1. CASE Fails("realloc") /\ need_rescan' = TRUE /\ UNCHANGED <<sv, proc>>
        <5>1. fails' \in 0..MaxFails
          BY <4>1, FailsCounted, RunsvdirAssumption DEF AllFailures, TypeOK
        <5> QED
          BY <4>1, <5>1 DEF TypeOK, ProcType
      <4>2. CASE RunIthSv(svnum + 1, d) /\ UNCHANGED need_rescan
        <5>1. svnum + 1 \in 1..svnum + 1
          BY SvFacts DEF TypeOK
        <5> QED
          BY <4>2, <5>1, RunFacts DEF TypeOK
      <4> QED
        BY <3>3, <4>1, <4>2 DEF SeenFirst
    <3> QED
      BY <1>4, <3>1, <3>2, <3>3 DEF ReadEntry
  <2> QED
    BY <1>4, <2>1 DEF ReadEntry, TypeOK, ProcType, timeVars, sigVars, dirVars
<1>5. CASE Purge
  <2>1. sv' \in Seq(Entries) /\ proc' \in [Pids -> ProcType] /\ i' \in Nat \ {0}
    <3>1. CASE sv[i].isgone /\ Drop
      <4>1. i \in 1..svnum
        BY <1>5, SvFacts DEF Purge, TypeOK
      <4>2. sv' \in Seq(Entries) /\ proc' = Term({sv[i].pid}) /\ i' = i
        BY <3>1, <4>1, DropFacts, <1>0
      <4>3. proc \in [Pids -> ProcType]
        BY <1>0 DEF TypeOK, ProcType
      <4>4. Term({sv[i].pid}) \in [Pids -> ProcType]
        BY <4>3, TermFacts
      <4>5. i \in Nat \ {0}
        BY <1>0
      <4> QED
        BY <4>2, <4>4, <4>5
    <3>2. CASE i' = i + 1 /\ UNCHANGED <<sv, proc>>
      BY <3>2 DEF TypeOK, ProcType
    <3> QED
      BY <1>5, <3>1, <3>2 DEF Purge
  <2> QED
    BY <1>5, <2>1 DEF Purge, TypeOK, ProcType, timeVars, sigVars, dirVars
<1>6. CASE Act
  <2>1. proc' \in [Pids -> ProcType]
    BY <1>6, TermFacts DEF Act, TypeOK, ProcType
  <2> QED
    BY <1>6, <2>1 DEF Act, TypeOK, ProcType, Places, Goto, timeVars, sigVars, dirVars
<1>7. ASSUME NEW p \in Pids, Die(p)
      PROVE  DirInv'
  <2>1. proc' \in [Pids -> ProcType]
    BY <1>7 DEF Die, TypeOK, ProcType
  <2> QED
    BY <1>7, <2>1 DEF Die, TypeOK, ProcType, timeVars, sigVars, dirVars
<1>8. CASE UNCHANGED <<sv, proc>>
  BY <1>1, <1>2, <1>3, <1>4, <1>5, <1>6, <1>7, <1>8, TypeKept
  DEF Next, Runsvdir, Environment
<1>9. CASE ~ UNCHANGED <<sv, proc>>
  <2>1. ~ (\/ CollectDone \/ NotDue \/ Check \/ Wait \/ ReadDone \/ PurgeDone
           \/ Sleep \/ ClearSignal \/ ScriptDone \/ Tick \/ UNCHANGED vars)
    BY <1>9 DEF CollectDone, NotDue, Check, Wait, ReadDone, PurgeDone, Sleep,
                ClearSignal, ScriptDone, Tick, vars
  <2>2. \A d \in Dirs : ~ AddDir(d) /\ ~ RemoveDir(d)
    BY <1>9 DEF AddDir, RemoveDir
  <2>3. \A sg \in Signals : ~ SendSignal(sg)
    BY <1>9 DEF SendSignal
  <2> QED
    BY <1>1, <1>2, <1>3, <1>4, <1>5, <1>6, <1>7, <2>1, <2>2, <2>3
    DEF Next, Runsvdir, Environment
<1> QED
  BY <1>8, <1>9

LEMMA InitDir ==
  ASSUME Init
  PROVE  DirInv
<1>1. sv \in Seq(Entries)
  BY DEF Init
<1>2. proc \in [Pids -> ProcType]
  BY DEF Init, Free, ProcType
<1>3. fails \in 0..MaxFails /\ changes \in 0..MaxChanges
  BY RunsvdirAssumption DEF Init, RunsvdirAssumption
<1>4. i \in Nat /\ i # 0 /\ unread \subseteq Dirs /\ dirs \subseteq Dirs
  BY DEF Init
<1> QED
  BY <1>1, <1>2, <1>3, <1>4 DEF Init, DirInv, TypeOK, Places, ProcType

(* Whatever fails and however the services directory changes, sv stays an  *)
(* array of entries and every variable keeps its type (runsvdir.c).        *)
THEOREM RunsvdirTypeCorrect == Spec => []TypeOK
<1>1. Init => DirInv
  BY InitDir
<1>2. DirInv /\ [Next]_vars => DirInv'
  BY TypeStep
<1>3. DirInv => TypeOK
  BY DEF DirInv
<1> QED
  BY <1>1, <1>2, <1>3, PTL DEF Spec

-----------------------------------------------------------------------------
(* Every runsv is tracked, and only runsvdir's own children are signalled. *)

(* The table and the processes are changed by these steps only.            *)
TableStep ==
  \/ \E p \in Pids : Collect(p) \/ ScriptReap(p) \/ Die(p)
  \/ OpenDir \/ Purge \/ Act
  \/ \E d \in Dirs : ReadEntry(d)

LEMMA TableSteps ==
  ASSUME [Next]_vars
  PROVE  TableStep \/ UNCHANGED <<sv, proc>>
  BY DEF Next, Runsvdir, Environment, TableStep, CollectDone, NotDue, Check, Wait,
         ReadDone, PurgeDone, Sleep, ClearSignal, ScriptDone, Tick, vars, AddDir,
         RemoveDir, SendSignal

(* A directory read by do_rescan: the table and the processes stay as they *)
(* are, or one entry becomes d's: one of d's that had no process, or a new *)
(* one when d had none.                                                    *)
LEMMA ReadCases ==
  ASSUME DirInv, NEW d \in Dirs, ReadEntry(d)
  PROVE  \/ /\ UNCHANGED proc
            /\ svnum' = svnum
            /\ \A k \in 1..svnum : sv'[k].pid = sv[k].pid /\ sv'[k].ino = sv[k].ino
         \/ \E k \in 1..svnum : sv[k].ino = d /\ sv[k].pid = 0 /\ RunIthSv(k, d)
         \/ Listed(d) = {} /\ RunIthSv(svnum + 1, d)
<1>1. svnum \in Nat /\ sv \in [1..svnum -> Entries] /\ DOMAIN sv = 1..svnum
  BY SvFacts DEF DirInv, TypeOK
<1>2. ASSUME NEW k \in 1..svnum, sv' = [sv EXCEPT ![k].isgone = FALSE]
      PROVE  /\ svnum' = svnum
             /\ \A n \in 1..svnum : sv'[n].pid = sv[n].pid /\ sv'[n].ino = sv[n].ino
  <2>1. sv' \in [1..svnum -> Entries]
    BY <1>1, <1>2 DEF Entries
  <2>2. Len(sv') = svnum
    BY <1>1, <2>1, SvArray
  <2>3. \A n \in 1..svnum : sv'[n].pid = sv[n].pid /\ sv'[n].ino = sv[n].ino
    BY <1>1, <1>2 DEF Entries
  <2> QED
    BY <2>2, <2>3 DEF svnum
<1>3. CASE NotSeen(d) \/ (UNCHANGED <<sv, proc>>)
  BY <1>3 DEF NotSeen, svnum
<1>4. CASE SeenAgain(d)
  BY <1>2, <1>4 DEF SeenAgain, Listed
<1>5. CASE SeenFirst(d)
  BY <1>3, <1>5 DEF SeenFirst
<1> QED
  BY <1>3, <1>4, <1>5 DEF ReadEntry

(* The table of d's entries and runsv's stays right when an entry without  *)
(* a process, or a new one, becomes that of d.                             *)
LEMMA TrackedRun ==
  ASSUME DirInv, EachRunsvTracked, NEW d \in Dirs, NEW k \in 1..svnum + 1, RunIthSv(k, d),
         k \in 1..svnum => sv[k].ino = d /\ sv[k].pid = 0,
         k = svnum + 1 => Listed(d) = {}
  PROVE  EachRunsvTracked'
<1>1. svnum \in Nat
  BY SvFacts DEF DirInv, TypeOK
<1>2. TypeOK
  BY DEF DirInv
<1>3. /\ svnum' = IF k = svnum + 1 THEN svnum + 1 ELSE svnum
      /\ sv'[k].ino = d
      /\ \A n \in 1..svnum : n # k => sv'[n] = sv[n]
      /\ \/ sv'[k].pid = 0 /\ proc' = proc
         \/ \E p \in Pids : /\ proc[p].st = "free"
                            /\ proc' = [proc EXCEPT ![p] = Child(d)]
                            /\ sv'[k].pid = p
  BY <1>2, RunFacts
<1>4. 1..svnum \subseteq 1..svnum' /\ k \in 1..svnum'
  BY <1>1, <1>3
<1>5. \A n \in 1..svnum' : n = k \/ (n \in 1..svnum /\ n # k)
  BY <1>1, <1>3
<1>6. ASSUME NEW p \in Pids, proc'[p].st = "running", ~ proc'[p].termed
      PROVE  \E n \in 1..svnum' : sv'[n].pid = p /\ proc'[p].dir = {sv'[n].ino}
  <2>1. CASE proc'[p] = proc[p]
    <3>1. PICK n \in 1..svnum : sv[n].pid = p /\ proc[p].dir = {sv[n].ino}
      BY <1>6, <2>1 DEF EachRunsvTracked
    <3>2. n # k
      BY <3>1, RunsvdirAssumption DEF RunsvdirAssumption
    <3> QED
      BY <1>3, <1>4, <2>1, <3>1, <3>2
  <2>2. CASE proc'[p] # proc[p]
    <3>1. sv'[k].pid = p /\ proc'[p] = Child(d)
      BY <1>2, <1>3, <2>2 DEF TypeOK
    <3> QED
      BY <1>3, <1>4, <3>1 DEF Child
  <2> QED
    BY <2>1, <2>2
<1>7. ASSUME NEW m \in 1..svnum', NEW n \in 1..svnum', sv'[m].ino = sv'[n].ino
      PROVE  m = n
  <2>1. ASSUME NEW l \in 1..svnum, l # k
        PROVE  sv'[l].ino = sv[l].ino /\ sv[l].ino # d
    <3>1. CASE k \in 1..svnum
      BY <1>3, <2>1, <3>1 DEF EachRunsvTracked
    <3>2. CASE k = svnum + 1
      BY <1>3, <2>1, <3>2 DEF Listed
    <3> QED
      BY <1>1, <3>1, <3>2
  <2> QED
    BY <1>3, <1>5, <1>7, <2>1 DEF EachRunsvTracked
<1> QED
  BY <1>6, <1>7 DEF EachRunsvTracked

(* Dropping an entry ends its runsv, and moves at most the last entry.     *)
LEMMA TrackedDrop ==
  ASSUME DirInv, EachRunsvTracked, i <= svnum, Drop
  PROVE  EachRunsvTracked'
<1>1. svnum \in Nat /\ i \in 1..svnum /\ TypeOK
  BY SvFacts DEF DirInv, TypeOK
<1>2. /\ proc' = Term({sv[i].pid})
      /\ svnum' = svnum - 1
      /\ \A n \in 1..svnum - 1 : sv'[n] = IF n = i THEN sv[svnum] ELSE sv[n]
  BY <1>1, DropFacts
<1>3. \A p \in Pids : /\ proc'[p].st = proc[p].st
                      /\ proc'[p].dir = proc[p].dir
                      /\ proc[p].termed => proc'[p].termed
                      /\ p = sv[i].pid /\ proc[p].st = "running" => proc'[p].termed
  BY <1>1, <1>2, TermFacts DEF TypeOK, ProcType
<1>4. ASSUME NEW p \in Pids, proc'[p].st = "running", ~ proc'[p].termed
      PROVE  \E n \in 1..svnum' : sv'[n].pid = p /\ proc'[p].dir = {sv'[n].ino}
  <2>1. PICK n \in 1..svnum : sv[n].pid = p /\ proc[p].dir = {sv[n].ino}
    BY <1>3, <1>4 DEF EachRunsvTracked
  <2>2. n # i
    BY <1>3, <1>4, <2>1
  <2>3. CASE n = svnum
    <3>1. i \in 1..svnum - 1
      BY <1>1, <2>2, <2>3
    <3> QED
      BY <1>2, <1>3, <2>1, <2>3, <3>1
  <2>4. CASE n # svnum
    <3>1. n \in 1..svnum - 1
      BY <1>1, <2>4
    <3> QED
      BY <1>2, <1>3, <2>1, <2>2, <3>1
  <2> QED
    BY <2>3, <2>4
<1>5. \A m, n \in 1..svnum' : sv'[m].ino = sv'[n].ino => m = n
  <2> DEFINE was(n) == IF n = i THEN svnum ELSE n
  <2>1. \A n \in 1..svnum - 1 : was(n) \in 1..svnum /\ sv'[n] = sv[was(n)]
    BY <1>1, <1>2
  <2>2. \A m, n \in 1..svnum - 1 : was(m) = was(n) => m = n
    BY <1>1
  <2> HIDE DEF was
  <2> QED
    BY <1>2, <2>1, <2>2 DEF EachRunsvTracked
<1> QED
  BY <1>4, <1>5 DEF EachRunsvTracked

(* Steps that keep the entries' directories and, for the runsv's that run  *)
(* on, the entries' pids.                                                  *)
LEMMA TrackedKept ==
  ASSUME EachRunsvTracked, svnum' = svnum,
         \A k \in 1..svnum : sv'[k].ino = sv[k].ino,
         \A p \in Pids : proc'[p].st = "running" /\ ~ proc'[p].termed =>
             /\ proc[p].st = "running" /\ ~ proc[p].termed
             /\ proc'[p].dir = proc[p].dir
             /\ \A k \in 1..svnum : sv[k].pid = p => sv'[k].pid = p
  PROVE  EachRunsvTracked'
  BY DEF EachRunsvTracked

LEMMA TrackedStep ==
  ASSUME DirInv, EachRunsvTracked, [Next]_vars
  PROVE  EachRunsvTracked'
<1>1. TypeOK /\ svnum \in Nat /\ sv \in [1..svnum -> Entries]
  BY SvFacts DEF DirInv, TypeOK
<1>2. ASSUME NEW p \in Pids, Collect(p)
      PROVE  EachRunsvTracked'
  <2>1. svnum' = svnum
    BY <1>1, <1>2, ForgetFacts DEF Collect, TypeOK, svnum
  <2>2. \A k \in 1..svnum : /\ sv'[k].ino = sv[k].ino
                            /\ sv'[k].pid = IF sv[k].pid = p THEN 0 ELSE sv[k].pid
    BY <1>1, <1>2, ForgetFacts DEF Collect, TypeOK
  <2>3. \A q \in Pids : proc'[q] = IF q = p THEN Free ELSE proc[q]
    BY <1>1, <1>2 DEF Collect, TypeOK
  <2> QED
    BY <2>1, <2>2, <2>3, TrackedKept DEF Free
<1>3. ASSUME NEW p \in Pids, ScriptReap(p) \/ Die(p)
      PROVE  EachRunsvTracked'
  <2>1. UNCHANGED sv /\ svnum' = svnum
    BY <1>3 DEF ScriptReap, Die, svnum
  <2>2. \A q \in Pids : q # p => proc'[q] = proc[q]
    BY <1>1, <1>3 DEF ScriptReap, Die, TypeOK
  <2>3. proc'[p].st # "running"
    BY <1>1, <1>3 DEF ScriptReap, Die, TypeOK, Free
  <2> QED
    BY <2>1, <2>2, <2>3, TrackedKept
<1>4. CASE OpenDir
  <2>1. UNCHANGED proc
    BY <1>4 DEF OpenDir
  <2>2. CASE UNCHANGED sv
    BY <2>1, <2>2, TrackedKept DEF svnum
  <2>3. CASE sv' = [k \in 1..svnum |-> [sv[k] EXCEPT !.isgone = TRUE]]
    <3>1. sv' \in [1..svnum -> Entries]
      BY <1>1, <2>3 DEF Entries
    <3>2. svnum' = svnum
      BY <1>1, <3>1, SvArray DEF svnum
    <3>3. \A k \in 1..svnum : sv'[k].ino = sv[k].ino /\ sv'[k].pid = sv[k].pid
      BY <1>1, <2>3 DEF Entries
    <3> QED
      BY <2>1, <3>2, <3>3, TrackedKept
  <2> QED
    BY <1>4, <2>2, <2>3 DEF OpenDir
<1>5. ASSUME NEW d \in Dirs, ReadEntry(d)
      PROVE  EachRunsvTracked'
  <2>1. CASE /\ UNCHANGED proc
             /\ svnum' = svnum
             /\ \A k \in 1..svnum : sv'[k].pid = sv[k].pid /\ sv'[k].ino = sv[k].ino
    BY <2>1, TrackedKept
  <2>2. CASE \E k \in 1..svnum : sv[k].ino = d /\ sv[k].pid = 0 /\ RunIthSv(k, d)
    <3>1. PICK k \in 1..svnum : sv[k].ino = d /\ sv[k].pid = 0 /\ RunIthSv(k, d)
      BY <2>2
    <3>2. k \in 1..svnum + 1 /\ k # svnum + 1
      BY <1>1
    <3> QED
      BY <3>1, <3>2, TrackedRun
  <2>3. CASE Listed(d) = {} /\ RunIthSv(svnum + 1, d)
    <3>1. svnum + 1 \in 1..svnum + 1 /\ svnum + 1 \notin 1..svnum
      BY <1>1
    <3> QED
      BY <2>3, <3>1, TrackedRun
  <2> QED
    BY <1>5, <2>1, <2>2, <2>3, ReadCases
<1>6. CASE Purge
  BY <1>6, TrackedDrop, TrackedKept DEF Purge, svnum
<1>7. CASE Act
  <2>1. UNCHANGED sv /\ svnum' = svnum
    BY <1>7 DEF Act, svnum
  <2>2. \A p \in Pids : /\ proc'[p].st = proc[p].st
                        /\ proc'[p].dir = proc[p].dir
                        /\ proc[p].termed => proc'[p].termed
    BY <1>1, <1>7, TermFacts DEF Act, TypeOK, ProcType
  <2> QED
    BY <2>1, <2>2, TrackedKept
<1>8. CASE UNCHANGED <<sv, proc>>
  BY <1>8, TrackedKept DEF svnum
<1> QED
  BY <1>2, <1>3, <1>4, <1>5, <1>6, <1>7, <1>8, TableSteps DEF TableStep

(* For any number of directories and processes, any failures and with or   *)
(* without -s: every runsv that was not sent SIGTERM is the one in the     *)
(* entry of its directory, and a directory has one entry, so do_rescan     *)
(* starts no second runsv for a directory and loses none (runsvdir.c).     *)
THEOREM RunsvsAreTracked == Spec => []EachRunsvTracked
<1>1. Init => DirInv /\ EachRunsvTracked
  <2>1. SUFFICES ASSUME Init PROVE EachRunsvTracked
    BY InitDir
  <2>2. \A p \in Pids : proc[p].st = "free"
    BY <2>1 DEF Init, Free
  <2>3. svnum = 0
    BY <2>1 DEF Init, svnum
  <2> QED
    BY <2>2, <2>3 DEF EachRunsvTracked
<1>2. DirInv /\ EachRunsvTracked /\ [Next]_vars => DirInv' /\ EachRunsvTracked'
  BY TypeStep, TrackedStep
<1> QED
  BY <1>1, <1>2, PTL DEF Spec

-----------------------------------------------------------------------------
(* Without -s no child is reaped behind the table's back. *)

OwnInv == pc # "script" /\ KillsOwnChild

(* Entries keep their pids, or are cleared, and no process is reaped whose *)
(* pid an entry keeps.                                                     *)
LEMMA OwnKept ==
  ASSUME KillsOwnChild, TypeOK,
         svnum' = svnum,
         \A k \in 1..svnum : sv'[k].pid = sv[k].pid \/ sv'[k].pid = 0,
         \A p \in Pids : proc'[p].st = "free" =>
             proc[p].st = "free" \/ \A k \in 1..svnum : sv'[k].pid # p
  PROVE  KillsOwnChild'
<1>1. \A k \in 1..svnum : sv[k].pid \in Pids \cup {0}
  BY SvFacts DEF TypeOK, Entries
<1> QED
  BY <1>1 DEF KillsOwnChild

LEMMA OwnRun ==
  ASSUME DirInv, KillsOwnChild, NEW d \in Dirs, NEW k \in 1..svnum + 1, RunIthSv(k, d)
  PROVE  KillsOwnChild'
<1>1. svnum \in Nat /\ TypeOK
  BY SvFacts DEF DirInv, TypeOK
<1>2. /\ svnum' = IF k = svnum + 1 THEN svnum + 1 ELSE svnum
      /\ \A n \in 1..svnum : n # k => sv'[n] = sv[n]
      /\ \/ sv'[k].pid = 0 /\ proc' = proc
         \/ \E p \in Pids : /\ proc[p].st = "free"
                            /\ proc' = [proc EXCEPT ![p] = Child(d)]
                            /\ sv'[k].pid = p
  BY <1>1, RunFacts
<1>3. \A p \in Pids : proc'[p].st # "free" \/ proc'[p] = proc[p]
  BY <1>1, <1>2 DEF TypeOK, Child
<1>4. sv'[k].pid # 0 => proc'[sv'[k].pid].st # "free"
  BY <1>1, <1>2 DEF TypeOK, Child
<1>5. \A n \in 1..svnum : sv[n].pid \in Pids \cup {0}
  BY <1>1, SvFacts DEF TypeOK, Entries
<1>6. \A n \in 1..svnum' : n = k \/ (n \in 1..svnum /\ n # k)
  BY <1>1, <1>2
<1> QED
  BY <1>2, <1>3, <1>4, <1>5, <1>6 DEF KillsOwnChild

LEMMA OwnDrop ==
  ASSUME DirInv, KillsOwnChild, i <= svnum, Drop
  PROVE  KillsOwnChild'
<1>1. svnum \in Nat /\ i \in 1..svnum /\ TypeOK
  BY SvFacts DEF DirInv, TypeOK
<1>2. /\ proc' = Term({sv[i].pid})
      /\ svnum' = svnum - 1
      /\ \A n \in 1..svnum - 1 : sv'[n] = IF n = i THEN sv[svnum] ELSE sv[n]
  BY <1>1, DropFacts
<1>3. \A p \in Pids : proc'[p].st = proc[p].st
  BY <1>1, <1>2, TermFacts DEF TypeOK, ProcType
<1>4. \A n \in 1..svnum : sv[n].pid \in Pids \cup {0}
  BY <1>1, SvFacts DEF TypeOK, Entries
<1>5. \A n \in 1..svnum' : \E m \in 1..svnum : sv'[n] = sv[m]
  BY <1>1, <1>2
<1> QED
  BY <1>3, <1>4, <1>5 DEF KillsOwnChild

LEMMA OwnStep ==
  ASSUME ~ HasScript, DirInv, OwnInv, [Next]_vars
  PROVE  OwnInv'
<1>1. TypeOK /\ svnum \in Nat /\ sv \in [1..svnum -> Entries] /\ KillsOwnChild
  BY SvFacts DEF DirInv, TypeOK, OwnInv
<1>2. pc' # "script"
  BY DEF OwnInv, Next, Runsvdir, Environment, Collect, ScriptReap, CollectDone, NotDue,
         Check, Wait, OpenDir, ReadDone, Purge, PurgeDone, ReadEntry, Sleep,
         ClearSignal, ScriptDone, Act, AddDir, RemoveDir, Die, SendSignal, Tick,
         Goto, vars
<1> SUFFICES KillsOwnChild'
  BY <1>2 DEF OwnInv
<1>3. ASSUME NEW p \in Pids, Collect(p)
      PROVE  KillsOwnChild'
  <2>1. svnum' = svnum
    BY <1>1, <1>3, ForgetFacts DEF Collect, TypeOK, svnum
  <2>2. \A k \in 1..svnum : sv'[k].pid = IF sv[k].pid = p THEN 0 ELSE sv[k].pid
    BY <1>1, <1>3, ForgetFacts DEF Collect, TypeOK
  <2>3. \A q \in Pids : q # p => proc'[q] = proc[q]
    BY <1>1, <1>3 DEF Collect, TypeOK
  <2>4. \A k \in 1..svnum : sv'[k].pid # p
    BY <2>2, RunsvdirAssumption DEF RunsvdirAssumption
  <2> QED
    BY <1>1, <2>1, <2>2, <2>3, <2>4, OwnKept
<1>4. ASSUME NEW p \in Pids, Die(p)
      PROVE  KillsOwnChild'
  <2>1. UNCHANGED sv /\ svnum' = svnum
    BY <1>4 DEF Die, svnum
  <2>2. \A q \in Pids : q # p => proc'[q] = proc[q]
    BY <1>1, <1>4 DEF Die, TypeOK
  <2>3. proc'[p].st # "free"
    BY <1>1, <1>4 DEF Die, TypeOK
  <2> QED
    BY <1>1, <2>1, <2>2, <2>3, OwnKept
<1>5. CASE OpenDir
  <2>1. UNCHANGED proc
    BY <1>5 DEF OpenDir
  <2>2. CASE UNCHANGED sv
    BY <1>1, <2>1, <2>2, OwnKept DEF svnum
  <2>3. CASE sv' = [k \in 1..svnum |-> [sv[k] EXCEPT !.isgone = TRUE]]
    <3>1. sv' \in [1..svnum -> Entries]
      BY <1>1, <2>3 DEF Entries
    <3>2. svnum' = svnum
      BY <1>1, <3>1, SvArray DEF svnum
    <3>3. \A k \in 1..svnum : sv'[k].pid = sv[k].pid
      BY <1>1, <2>3 DEF Entries
    <3> QED
      BY <1>1, <2>1, <3>2, <3>3, OwnKept
  <2> QED
    BY <1>5, <2>2, <2>3 DEF OpenDir
<1>6. ASSUME NEW d \in Dirs, ReadEntry(d)
      PROVE  KillsOwnChild'
  <2>1. CASE /\ UNCHANGED proc
             /\ svnum' = svnum
             /\ \A k \in 1..svnum : sv'[k].pid = sv[k].pid /\ sv'[k].ino = sv[k].ino
    BY <1>1, <2>1, OwnKept
  <2>2. CASE \E k \in 1..svnum + 1 : RunIthSv(k, d)
    BY <1>1, <2>2, OwnRun
  <2>3. 1..svnum \subseteq 1..svnum + 1 /\ svnum + 1 \in 1..svnum + 1
    BY <1>1
  <2> QED
    BY <1>6, <2>1, <2>2, <2>3, ReadCases
<1>7. CASE Purge
  BY <1>1, <1>7, OwnDrop, OwnKept DEF Purge, svnum
<1>8. CASE Act
  <2>1. UNCHANGED sv /\ svnum' = svnum
    BY <1>8 DEF Act, svnum
  <2>2. \A p \in Pids : proc'[p].st = proc[p].st
    BY <1>1, <1>8, TermFacts DEF Act, TypeOK, ProcType
  <2> QED
    BY <1>1, <2>1, <2>2, OwnKept
<1>9. CASE UNCHANGED <<sv, proc>>
  BY <1>1, <1>9, OwnKept DEF svnum
<1>10. \A p \in Pids : ~ ScriptReap(p)
  BY DEF OwnInv, ScriptReap
<1> QED
  BY <1>3, <1>4, <1>5, <1>6, <1>7, <1>8, <1>9, <1>10, TableSteps DEF TableStep

(* Without the option -s a pid in the table is that of a child not reaped  *)
(* yet, so the SIGTERM of do_rescan, and of SIGHUP, cannot hit a stranger  *)
(* that was given a dead child's pid.  With -s, wait() for the script may  *)
(* reap any child without a word to the table: hence the assumption.       *)
THEOREM OnlyOwnChildrenKilled == ASSUME ~ HasScript PROVE Spec => []KillsOwnChild
<1>1. Init => DirInv /\ OwnInv
  <2>1. SUFFICES ASSUME Init PROVE OwnInv
    BY InitDir
  <2>2. svnum = 0 /\ pc = "collect"
    BY <2>1 DEF Init, svnum
  <2> QED
    BY <2>2 DEF OwnInv, KillsOwnChild
<1>2. DirInv /\ OwnInv /\ [Next]_vars => DirInv' /\ OwnInv'
  BY TypeStep, OwnStep
<1>3. OwnInv => KillsOwnChild
  BY DEF OwnInv
<1> QED
  BY <1>1, <1>2, <1>3, PTL DEF Spec
=============================================================================
