------------------------------ MODULE Runsvdir ------------------------------
(***************************************************************************)
(* runsvdir: keeps one runsv running for each subdirectory of a services   *)
(* directory.  busybox-1.32.0/runit/runsvdir.c, with the feature           *)
(* RUNSVDIR_LOG off, as in .config.                                        *)
(*                                                                         *)
(* `pc` is the place in the for(;;) loop of runsvdir_main or in do_rescan; *)
(* directories come and go, children die, signals arrive and seconds pass  *)
(* between any two steps.  A directory stands for its inode number: that   *)
(* is all do_rescan compares.                                              *)
(*                                                                         *)
(* Times are kept as the comparisons the code makes on them: `changed` is  *)
(* st_mtime # last_mtime, `mtimeNow` is st_mtime = time(NULL), `lastNow`   *)
(* is last_mtime = time(NULL), `due` is now - stampcheck >= 0.             *)
(***************************************************************************)
EXTENDS Integers, Sequences, FiniteSets

CONSTANTS
  Dirs,        \* directories that can appear in the services directory
  Pids,        \* process ids for the children (0 is no process)
  IsInit,      \* i_am_init: runsvdir is process 1
  HasScript,   \* option -s
  Signals,     \* signals users send to runsvdir
  Failures,    \* calls that may fail, see Fails
  MaxFails,    \* bound: how many calls fail
  MaxChanges   \* bound: how often the services directory changes

AllSignals == {"HUP", "TERM"}
AllFailures == {"statdir", "chdir", "opendir", "readdir", "stat", "realloc", "vfork"}

ASSUME RunsvdirAssumption ==
  /\ 0 \notin Pids
  /\ IsInit \in BOOLEAN /\ HasScript \in BOOLEAN
  /\ Signals \subseteq AllSignals
  /\ Failures \subseteq AllFailures
  /\ MaxFails \in Nat /\ MaxChanges \in Nat

VARIABLES
  sv,            \* the array sv[0 .. svnum-1], here sv[1] .. sv[svnum]
  need_rescan,   \* of runsvdir_main; of do_rescan, while that is running
  changed, lastNow, due,   \* comparisons with last_mtime and stampcheck
  bb_got_signal, sig,
  pc, unread, i, \* place; entries readdir has still to return; loop index
  dirs, mtimeNow,          \* the services directory
  proc,          \* runsvdir's children in the kernel's process table
  fails, changes \* how often a call failed, how often the directory changed

timeVars == <<changed, lastNow, due>>
sigVars == <<bb_got_signal, sig>>
dirVars == <<dirs, mtimeNow, changes>>
vars == <<sv, need_rescan, timeVars, sigVars, pc, unread, i, dirVars, proc, fails>>

Entries == [ino : Dirs, pid : Pids \cup {0}, isgone : BOOLEAN]
Free == [st |-> "free", dir |-> {}, termed |-> FALSE]

svnum == Len(sv)

(* The system call f fails. *)
Fails(f) == f \in Failures /\ fails < MaxFails /\ fails' = fails + 1
Works == UNCHANGED fails

Zombie(p) == proc[p].st = "zombie"

(* kill(p, SIGTERM) for every p in the set; no effect on a zombie.         *)
Term(ps) ==
  [p \in Pids |-> IF p \in ps /\ proc[p].st = "running"
                  THEN [proc[p] EXCEPT !.termed = TRUE] ELSE proc[p]]

Init ==
  /\ sv = <<>>
  /\ need_rescan = TRUE
  /\ changed = TRUE /\ lastNow = FALSE /\ due = TRUE
  /\ bb_got_signal = "none" /\ sig = "none"
  /\ pc = "collect" /\ unread = {} /\ i = 1
  /\ dirs \in SUBSET Dirs /\ mtimeNow \in BOOLEAN
  /\ proc = [p \in Pids |-> Free]
  /\ fails = 0 /\ changes = 0

Goto(place) == pc' = place

-----------------------------------------------------------------------------
(* runsvdir_main, first part *)

(* A dead child is reaped, and its entry, if it still has one, is marked.  *)
BugForget(p) == sv
Forget(p) == [k \in 1..svnum |-> IF sv[k].pid = p THEN [sv[k] EXCEPT !.pid = 0]
                                                  ELSE sv[k]]

Collect(p) ==
  /\ pc = "collect"
  /\ Zombie(p)
  /\ proc' = [proc EXCEPT ![p] = Free]
  /\ sv' = Forget(p)
  /\ need_rescan' = (need_rescan \/ \E k \in 1..svnum : sv[k].pid = p)
  /\ UNCHANGED <<timeVars, sigVars, pc, unread, i, dirVars, fails>>

CollectDone ==
  /\ pc = "collect"
  /\ \A p \in Pids : ~ Zombie(p)
  /\ Goto("check")
  /\ UNCHANGED <<sv, need_rescan, timeVars, sigVars, unread, i, dirVars, proc, fails>>

NotDue ==
  /\ pc = "check"
  /\ ~ due
  /\ Goto("sleep")
  /\ UNCHANGED <<sv, need_rescan, timeVars, sigVars, unread, i, dirVars, proc, fails>>

(* stat(svdir); a rescan is only begun when there is a reason for one, and *)
(* then last_mtime becomes the st_mtime that stat has just returned.       *)
Check ==
  /\ pc = "check"
  /\ due
  /\ due' = FALSE
  /\ \/ /\ Fails("statdir") \/ (Works /\ ~ need_rescan /\ ~ changed)
                            \/ ((need_rescan \/ changed) /\ Fails("chdir"))
        /\ Goto("sleep")
        /\ UNCHANGED <<changed, lastNow>>
     \/ /\ need_rescan \/ changed
        /\ Works
        /\ changed' = FALSE
        /\ lastNow' = mtimeNow
        /\ Goto("wait")
  /\ UNCHANGED <<sv, need_rescan, sigVars, unread, i, dirVars, proc>>

(* More changes within the second of last_mtime could not be told from the *)
(* last one, so the scan waits for the next second.                        *)
BugSecondIsOver == TRUE
SecondIsOver == ~ lastNow

Wait ==
  /\ pc = "wait"
  /\ SecondIsOver
  /\ Goto("scan")
  /\ UNCHANGED <<sv, need_rescan, timeVars, sigVars, unread, i, dirVars, proc, fails>>

-----------------------------------------------------------------------------
(* do_rescan *)

OpenDir ==
  /\ pc = "scan"
  /\ \/ /\ Fails("opendir")
        /\ need_rescan' = TRUE
        /\ Goto("sleep")
        /\ UNCHANGED <<sv, unread>>
     \/ /\ Works
        /\ need_rescan' = FALSE
        /\ sv' = [k \in 1..svnum |-> [sv[k] EXCEPT !.isgone = TRUE]]
        /\ unread' = dirs
        /\ Goto("read")
  /\ UNCHANGED <<timeVars, sigVars, i, dirVars, proc>>

(* runsv(name) returns the pid of a new child, or 0 when a signal has come *)
(* or vfork fails.                                                         *)
RunsvFails == (bb_got_signal # "none" /\ Works) \/ Fails("vfork")

Child(d) == [st |-> "running", dir |-> {d}, termed |-> FALSE]

(* What runsv(name) returns when it has started nothing.                   *)
BugNoRunsv == -1
NoRunsv == 0

(* sv[k].pid = runsv(name); sv[k].isgone = 0, k possibly a new entry.      *)
RunIthSv(k, d) ==
  LET Set(p) == sv' = [n \in 1..svnum \cup {k} |->
                         IF n = k THEN [ino |-> d, pid |-> p, isgone |-> FALSE]
                                  ELSE sv[n]]
  IN \/ RunsvFails /\ Set(NoRunsv) /\ UNCHANGED proc
     \/ /\ bb_got_signal = "none" /\ Works
        /\ \E p \in Pids : /\ proc[p].st = "free"
                           /\ proc' = [proc EXCEPT ![p] = Child(d)]
                           /\ Set(p)

(* The entry of d: "Do we have this service listed already?"               *)
Listed(d) == {k \in 1..svnum : sv[k].ino = d}

NotSeen(d) ==
  /\ (d \notin dirs /\ Works) \/ Fails("stat")
  /\ UNCHANGED <<sv, need_rescan, proc>>

SeenAgain(d) ==
  /\ d \in dirs
  /\ UNCHANGED need_rescan
  /\ \E k \in Listed(d) :
       \/ /\ sv[k].pid # 0
          /\ sv' = [sv EXCEPT ![k].isgone = FALSE]
          /\ Works
          /\ UNCHANGED proc
       \/ /\ sv[k].pid = 0
          /\ RunIthSv(k, d)

SeenFirst(d) ==
  /\ d \in dirs
  /\ Listed(d) = {}
  /\ \/ /\ Fails("realloc")
        /\ need_rescan' = TRUE
        /\ UNCHANGED <<sv, proc>>
     \/ /\ RunIthSv(svnum + 1, d)
        /\ UNCHANGED need_rescan

ReadEntry(d) ==
  /\ pc = "read"
  /\ d \in unread
  /\ unread' = unread \ {d}
  /\ NotSeen(d) \/ SeenAgain(d) \/ SeenFirst(d)
  /\ UNCHANGED <<timeVars, sigVars, pc, i, dirVars>>

ReadDone ==
  /\ pc = "read"
  /\ \/ /\ unread = {} /\ Works
        /\ i' = 1
        /\ Goto("purge")
        /\ UNCHANGED <<need_rescan, unread>>
     \/ /\ Fails("readdir")
        /\ need_rescan' = TRUE
        /\ unread' = {}
        /\ Goto("sleep")
        /\ UNCHANGED i
  /\ UNCHANGED <<sv, timeVars, sigVars, dirVars, proc>>

(* One turn of the last loop: SIGTERM for the runsv of a directory that is *)
(* gone; the last entry takes its place and is looked at next.             *)
BugDrop ==
  /\ proc' = proc
  /\ sv' = [k \in 1..svnum - 1 |-> IF k = i THEN sv[svnum] ELSE sv[k]]
  /\ UNCHANGED i
BugDropNext ==
  /\ proc' = Term({sv[i].pid})
  /\ sv' = [k \in 1..svnum - 1 |-> IF k = i THEN sv[svnum] ELSE sv[k]]
  /\ i' = i + 1
Drop ==
  /\ proc' = Term({sv[i].pid})
  /\ sv' = [k \in 1..svnum - 1 |-> IF k = i THEN sv[svnum] ELSE sv[k]]
  /\ UNCHANGED i

Purge ==
  /\ pc = "purge"
  /\ i <= svnum
  /\ \/ /\ sv[i].isgone
        /\ Drop
     \/ /\ ~ sv[i].isgone
        /\ i' = i + 1
        /\ UNCHANGED <<sv, proc>>
  /\ UNCHANGED <<need_rescan, timeVars, sigVars, pc, unread, dirVars, fails>>

PurgeDone ==
  /\ pc = "purge"
  /\ i > svnum
  /\ Goto("sleep")
  /\ UNCHANGED <<sv, need_rescan, timeVars, sigVars, unread, i, dirVars, proc, fails>>

-----------------------------------------------------------------------------
(* runsvdir_main, second part *)

(* sleep(1) or sleep(5); a signal may cut it short, a child's death not.   *)
Sleep ==
  /\ pc = "sleep"
  /\ due \/ bb_got_signal # "none"
  /\ sig' = bb_got_signal
  /\ Goto(IF bb_got_signal = "none" THEN "collect" ELSE "clear")
  /\ UNCHANGED <<sv, need_rescan, timeVars, bb_got_signal, unread, i, dirVars,
                 proc, fails>>

(* A signal that has come since sig was read is lost. *)
ClearSignal ==
  /\ pc = "clear"
  /\ bb_got_signal' = "none"
  /\ Goto(IF HasScript THEN "script" ELSE "act")
  /\ UNCHANGED <<sv, need_rescan, timeVars, sig, unread, i, dirVars, proc, fails>>

(* wait(NULL) until the script has ended: any child is reaped, and no      *)
(* entry of sv is told.                                                    *)
ScriptReap(p) ==
  /\ pc = "script"
  /\ Zombie(p)
  /\ proc' = [proc EXCEPT ![p] = Free]
  /\ UNCHANGED <<sv, need_rescan, timeVars, sigVars, pc, unread, i, dirVars, fails>>

ScriptDone ==
  /\ pc = "script"
  /\ Goto("act")
  /\ UNCHANGED <<sv, need_rescan, timeVars, sigVars, unread, i, dirVars, proc, fails>>

Act ==
  /\ pc = "act"
  /\ proc' = IF sig = "HUP" THEN Term({sv[k].pid : k \in 1..svnum}) ELSE proc
  /\ Goto(IF IsInit THEN "collect" ELSE "exited")
  /\ UNCHANGED <<sv, need_rescan, timeVars, sigVars, unread, i, dirVars, fails>>

Runsvdir ==
  \/ \E p \in Pids : Collect(p) \/ ScriptReap(p)
  \/ CollectDone \/ NotDue \/ Check \/ Wait
  \/ OpenDir \/ ReadDone \/ Purge \/ PurgeDone
  \/ \E d \in Dirs : ReadEntry(d)
  \/ Sleep \/ ClearSignal \/ ScriptDone \/ Act

-----------------------------------------------------------------------------
(* External: the services directory, the children, the users, the clock.   *)

(* The directory's st_mtime becomes the current second.                    *)
Touch ==
  /\ changes < MaxChanges
  /\ changes' = changes + 1
  /\ mtimeNow' = TRUE
  /\ changed' = ~ lastNow

(* readdir may or may not return an entry that came after opendir.         *)
AddDir(d) ==
  /\ d \notin dirs
  /\ dirs' = dirs \cup {d}
  /\ Touch
  /\ unread' \in {unread} \cup (IF pc = "read" THEN {unread \cup {d}} ELSE {})
  /\ UNCHANGED <<sv, need_rescan, lastNow, due, sigVars, pc, i, proc, fails>>

RemoveDir(d) ==
  /\ d \in dirs
  /\ dirs' = dirs \ {d}
  /\ Touch
  /\ UNCHANGED <<sv, need_rescan, lastNow, due, sigVars, pc, unread, i, proc, fails>>

Die(p) ==
  /\ proc[p].st = "running"
  /\ proc' = [proc EXCEPT ![p].st = "zombie"]
  /\ UNCHANGED <<sv, need_rescan, timeVars, sigVars, pc, unread, i, dirVars, fails>>

(* record_signo: the last signal wins. *)
SendSignal(sg) ==
  /\ pc # "exited"
  /\ bb_got_signal' = sg
  /\ UNCHANGED <<sv, need_rescan, timeVars, sig, pc, unread, i, dirVars, proc, fails>>

Tick ==
  /\ due' = TRUE
  /\ mtimeNow' = FALSE
  /\ lastNow' = FALSE
  /\ UNCHANGED <<sv, need_rescan, changed, sigVars, pc, unread, i, dirs, changes,
                 proc, fails>>

Environment ==
  \/ \E d \in Dirs : AddDir(d) \/ RemoveDir(d)
  \/ \E p \in Pids : Die(p)
  \/ \E sg \in Signals : SendSignal(sg)
  \/ Tick

Next == Runsvdir \/ Environment

Spec == Init /\ [][Next]_vars

(* Fairness.  runsvdir is scheduled, its sleeps end because time passes,   *)
(* the script returns, and a runsv that is sent SIGTERM ends some time.    *)
Fairness ==
  /\ WF_vars(Runsvdir)
  /\ WF_vars(ScriptDone)
  /\ WF_vars(Tick)
  /\ \A p \in Pids : WF_vars(proc[p].termed /\ Die(p))

FairSpec == Spec /\ Fairness

-----------------------------------------------------------------------------
(* Properties. *)

Places == {"collect", "check", "wait", "scan", "read", "purge", "sleep",
           "clear", "script", "act", "exited"}

(* The type invariant; in particular sv stays an array of entries.         *)
TypeOK ==
  /\ sv \in Seq(Entries)
  /\ need_rescan \in BOOLEAN
  /\ changed \in BOOLEAN /\ lastNow \in BOOLEAN /\ due \in BOOLEAN
  /\ bb_got_signal \in Signals \cup {"none"}
  /\ sig \in Signals \cup {"none"}
  /\ pc \in Places
  /\ unread \subseteq Dirs
  /\ i \in Nat
  /\ dirs \subseteq Dirs /\ mtimeNow \in BOOLEAN
  /\ proc \in [Pids -> [st : {"free", "running", "zombie"},
                        dir : {{}} \cup {{d} : d \in Dirs}, termed : BOOLEAN]]
  /\ fails \in 0..MaxFails /\ changes \in 0..MaxChanges

(* kill() in do_rescan and after SIGHUP only ever reaches runsvdir's own   *)
(* children: an entry's pid has not been reaped yet.                       *)
KillsOwnChild == \A k \in 1..svnum : sv[k].pid # 0 => proc[sv[k].pid].st # "free"

(* Whatever fails in a rescan, and however entries are moved about by it,  *)
(* every runsv that was not told to end is the one in the entry of its     *)
(* directory, and a directory has one entry: no directory gets two runsv,  *)
(* and none is forgotten.                                                  *)
EachRunsvTracked ==
  /\ \A p \in Pids : proc[p].st = "running" /\ ~ proc[p].termed =>
       \E k \in 1..svnum : sv[k].pid = p /\ proc[p].dir = {sv[k].ino}
  /\ \A k, n \in 1..svnum : sv[k].ino = sv[n].ino => k = n

RunsvOf(d) == {p \in Pids : proc[p].st = "running" /\ proc[p].dir = {d}}

(* "Start a runsv process for each subdirectory. If it exits, restart it." *)
(* However late in a second a directory appears, its runsv is started.     *)
Served ==
  \A d \in Dirs : d \in dirs ~> (d \notin dirs \/ RunsvOf(d) # {} \/ pc = "exited")

(* The runsv of a directory that is removed for good is ended.             *)
RemovedStopped ==
  \A d \in Dirs : d \notin dirs ~> (d \in dirs \/ RunsvOf(d) = {} \/ pc = "exited")
=============================================================================
