------------------------------- MODULE Svlogd -------------------------------
(***************************************************************************)
(* svlogd: copies its standard input to log/current, rotates that file to  *)
(* log/@<time>.s or, for a processor to work on, log/@<time>.u, keeps a    *)
(* number of old files, and survives being killed.                         *)
(* busybox-1.32.0/runit/svlogd.c, for one log directory.                   *)
(*                                                                         *)
(* The input is a stream of units of bytes, numbered from 1 as svlogd      *)
(* reads them; a file is the sequence of its units.  The time in a file's  *)
(* name is a number that grows.  As in Runsv, `pc` is the place in the     *)
(* main loop and `todo` the system calls still to be made from there, one  *)
(* step each: svlogd can be killed between any two of them, and signals    *)
(* and the processor go on around them.                                    *)
(***************************************************************************)
EXTENDS Integers, Sequences, FiniteSets, Functions

CONSTANTS
  LineMax, SizeMax,  \* linemax and the sNUM of the config, in units
  NMax, NMin,        \* nNUM and NMIN of the config
  HasProcessor,      \* the config has a !processor line
  Newlines,          \* can what read returns end in a newline: subset of BOOLEAN
  Outcomes,          \* how a processor can end, see ProcessorEnds
  Events,            \* which of AllEvents happen
  MaxEvents,         \* bound: on their number
  MaxInput           \* bound: units of input

AllEvents == {"crash", "HUP", "ALRM", "timer", "full", "fail"}

ASSUME SvlogdAssumption ==
  /\ LineMax \in Nat \ {0} /\ SizeMax \in Nat /\ NMax \in Nat /\ NMin \in Nat
  /\ HasProcessor \in BOOLEAN
  /\ Newlines \in (SUBSET BOOLEAN) \ {{}}
  /\ Outcomes \in (SUBSET {"ok", "fail", "killed"}) \ {{}}
  /\ Events \subseteq AllEvents
  /\ MaxEvents \in Nat /\ MaxInput \in Nat

VARIABLES
  pc, todo,          \* place in svlogd_main, calls still to be made from there
  line, nl, partial, \* what was read, does it end in a newline, is it a tail
  buf,               \* units in the stdio buffer of filecur
  current, xbit,     \* log/current (<<>> also if there is none), its S_IXUSR
  size,              \* ld->size
  files,             \* names of old files, <<time, "s" or "u" or "t">>
  data, short,       \* what the files of each time hold, and those whose .s is
                     \* incomplete
  fnsave,            \* the time in ld->fnsave
  ppid, wstat,       \* the time of the file that ld->ppid works on, or 0
  processors,        \* processors by their file's time: running or ended
  orphans,           \* those whose parent is not this svlogd
  exitasap, rotateasap, reopenasap,
  pending,           \* signals sent and not yet delivered
  nread,             \* units read so far
  events,            \* events so far
  disturbed,         \* history: svlogd has been killed, or a write has failed
  gone, lost,        \* history: units deleted as the oldest, lost in a crash
  slipped            \* history: units cut off, or lost with current sealed

lineVars == <<line, nl, partial>>
curVars  == <<buf, current, xbit, size>>
oldVars  == <<files, data, short, fnsave>>
procVars == <<ppid, wstat, processors, orphans>>
flagVars == <<exitasap, rotateasap, reopenasap, pending>>
lossVars == <<disturbed, lost, slipped>>
vars == <<pc, todo, lineVars, curVars, oldVars, procVars, flagVars, nread, events, gone, lossVars>>

MaxTime == MaxInput + MaxEvents + 1   \* bound: names
Times == 1..MaxTime

At(place) == pc = place /\ todo = <<>>
Calling(f) == todo # <<>> /\ Head(todo) = f

Happens(e) == e \in Events /\ events < MaxEvents /\ events' = events + 1

-----------------------------------------------------------------------------
(* Old files. *)

Kinds == {"s", "t", "u"}
Exists(n, k) == <<n, k>> \in files
Units(s) == Range(s) \ {0}       \* 0 is the newline that svlogd adds

(* The units that some file besides current holds. *)
OldUnits(fs, sh) ==
  UNION {Units(data[f[1]]) : f \in {g \in fs : g[2] = "u" \/ (g[2] = "s" /\ g[1] \notin sh)}}

(* Names are compared as strings: by time, then by the last letter. *)
Older(f, g) ==
  \/ f[1] < g[1]
  \/ f[1] = g[1] /\ \E i, j \in 1..3 : i < j /\ <<"s", "t", "u">>[i] = f[2]
                                             /\ <<"s", "t", "u">>[j] = g[2]
BugOldest(fs) == {f \in fs : \A g \in fs \ {f} : Older(g, f)}
Oldest(fs) == {f \in fs : \A g \in fs \ {f} : Older(f, g)}

(* Files are unlinked; what no other file holds is gone. *)
Remove(fs) ==
  /\ files' = files \ fs
  /\ gone' = gone \cup (OldUnits(files, short) \ OldUnits(files \ fs, short))

(* rmoldest: leftovers of processors, and one old file too many. *)
RmOldest ==
  /\ Calling("rmoldest")
  /\ todo' = Tail(todo)
  /\ LET left == {f \in files : f[2] = "t"}
         kept == files \ left IN
     Remove(left \cup (IF NMax > 0 /\ Cardinality(kept) > NMax THEN Oldest(kept) ELSE {}))
  /\ UNCHANGED <<pc, lineVars, curVars, data, short, fnsave, procVars, flagVars,
                 nread, events, lossVars>>

-----------------------------------------------------------------------------
(* The processor. *)

(* processorstart: the child opens fnsave (.u) and creates .t. *)
Started ==
  /\ ppid' = fnsave
  /\ processors' = [processors EXCEPT ![fnsave] = IF Exists(fnsave, "u") THEN "run" ELSE "fail"]
  /\ pending' = IF Exists(fnsave, "u") THEN pending ELSE pending \cup {"CHLD"}

ProcessorStart ==
  /\ Calling("start")
  /\ todo' = Tail(todo)
  /\ IF HasProcessor /\ ppid = 0
     THEN /\ Started
          /\ files' = IF Exists(fnsave, "u") THEN files \cup {<<fnsave, "t">>} ELSE files
     ELSE UNCHANGED <<ppid, processors, pending, files>>
  /\ UNCHANGED <<pc, lineVars, curVars, data, short, fnsave, wstat, orphans,
                 exitasap, rotateasap, reopenasap, nread, events, gone, lossVars>>

(* while (!processorstop(ld)): wait for it, look at the result, and again  *)
(* if it was started anew.                                                 *)
ProcessorWait ==
  /\ Calling("stop")
  /\ \/ /\ ppid = 0
        /\ todo' = Tail(todo)
        /\ UNCHANGED procVars
     \/ /\ ppid # 0
        /\ processors[ppid] # "run"
        /\ wstat' = processors[ppid]
        /\ processors' = [processors EXCEPT ![ppid] = "none"]
        /\ ppid' = 0
        /\ todo' = <<"result">> \o todo
        /\ UNCHANGED orphans
  /\ UNCHANGED <<pc, lineVars, curVars, oldVars, flagVars, nread, events, gone, lossVars>>

(* WEXITSTATUS is 0 for a processor that was killed by a signal, too. *)
BugFailed == FALSE
Failed == wstat = "fail"

(* The rest of processorstop.  rename is tried until it succeeds. *)
ProcessorFailed ==
  /\ Calling("result")
  /\ Failed
  /\ todo' = <<"start">> \o Tail(todo)
  /\ files' = files \ {<<fnsave, "t">>}
  /\ UNCHANGED <<pc, lineVars, curVars, data, short, fnsave, procVars, flagVars,
                 nread, events, gone, lossVars>>

ProcessorDone ==
  /\ Calling("result")
  /\ ~ Failed
  /\ Exists(fnsave, "t")
  /\ todo' = <<"unlinku">> \o Tail(todo)
  /\ files' = (files \ {<<fnsave, "t">>}) \cup {<<fnsave, "s">>}
  /\ short' = IF wstat = "ok" THEN short ELSE short \cup {fnsave}
  /\ UNCHANGED <<pc, lineVars, curVars, data, fnsave, procVars, flagVars, nread,
                 events, gone, lossVars>>

UnlinkUnprocessed ==
  /\ Calling("unlinku")
  /\ todo' = Tail(todo)
  /\ files' = files \ {<<fnsave, "u">>}
  /\ UNCHANGED <<pc, lineVars, curVars, data, short, fnsave, procVars, flagVars,
                 nread, events, gone, lossVars>>

-----------------------------------------------------------------------------
(* rotate, logdir_close, logdir_open *)

(* The calls of rotate when current has sz units. *)
RotateCalls(sz) ==
  <<"stop">> \o (IF sz > 0 THEN <<"seal", "rename", "create", "rmoldest", "start">>
                           ELSE <<>>)

(* fflush, fsync, chmod 0744 and fclose, in rotate and in logdir_close. *)
Seal ==
  /\ Calling("seal")
  /\ todo' = Tail(todo)
  /\ current' = current \o buf
  /\ buf' = <<>>
  /\ xbit' = TRUE
  /\ UNCHANGED <<pc, lineVars, size, oldVars, procVars, flagVars, nread, events, gone, lossVars>>

(* A new name, of a time that was not used before, for current.            *)
RenameTo(kind) ==
  /\ todo' = Tail(todo)
  /\ fnsave' = Len(data) + 1 /\ fnsave' <= MaxTime
  /\ files' = files \cup {<<fnsave', kind>>}
  /\ data' = Append(data, current)
  /\ current' = <<>>
  /\ UNCHANGED <<pc, lineVars, buf, xbit, size, short, procVars, flagVars, nread,
                 events, gone, lossVars>>

Rename == Calling("rename") /\ RenameTo(IF HasProcessor THEN "u" ELSE "s")
Recover == Calling("recover") /\ RenameTo("u")

(* open(O_CREAT|O_APPEND) and chmod 0644; size is what current holds.      *)
Create ==
  /\ Calling("create")
  /\ todo' = Tail(todo)
  /\ size' = IF Len(current) > SizeMax THEN SizeMax ELSE Len(current)
  /\ xbit' = FALSE
  /\ UNCHANGED <<pc, lineVars, buf, current, oldVars, procVars, flagVars, nread,
                 events, gone, lossVars>>

(* logdir_open forgets a processor, if there is one, and puts a current    *)
(* aside that has not been closed.                                         *)
BugIsDirty == FALSE
IsDirty == current # <<>> /\ ~ xbit

Open ==
  /\ Calling("open")
  /\ ppid' = 0
  /\ todo' = (IF IsDirty THEN <<"recover", "rmoldest", "create">> ELSE <<"create">>)
               \o Tail(todo)
  /\ UNCHANGED <<pc, lineVars, curVars, oldVars, wstat, processors, orphans,
                 flagVars, nread, events, gone, lossVars>>

-----------------------------------------------------------------------------
(* buffer_pread *)

Fill(calls) ==
  /\ todo' = calls
  /\ UNCHANGED <<pc, lineVars, curVars, oldVars, procVars, exitasap, pending, nread,
                 gone, lossVars>>

FillRotate ==
  /\ At("fill") /\ ~ exitasap /\ rotateasap
  /\ Fill(RotateCalls(size))
  /\ rotateasap' = FALSE
  /\ UNCHANGED <<reopenasap, events>>

FillReopen ==
  /\ At("fill") /\ ~ exitasap /\ ~ rotateasap /\ reopenasap
  /\ Fill(<<"seal", "open">>)
  /\ reopenasap' = FALSE
  /\ UNCHANGED <<rotateasap, events>>

(* The tNUM of the config: current is old enough. *)
FillTimed ==
  /\ At("fill") /\ ~ exitasap /\ ~ rotateasap /\ ~ reopenasap
  /\ Happens("timer")
  /\ Fill(RotateCalls(size))
  /\ UNCHANGED <<rotateasap, reopenasap>>

Poll ==
  /\ At("fill") /\ ~ exitasap /\ ~ rotateasap /\ ~ reopenasap
  /\ pc' = "poll"
  /\ UNCHANGED <<todo, lineVars, curVars, oldVars, procVars, flagVars, nread, events, gone, lossVars>>

(* The handlers; signals are blocked outside poll. *)
SigFlag ==
  /\ At("poll")
  /\ pending \cap {"TERM", "ALRM", "HUP"} # {}
  /\ exitasap' = (exitasap \/ "TERM" \in pending)
  /\ rotateasap' = (rotateasap \/ "ALRM" \in pending)
  /\ reopenasap' = (reopenasap \/ "HUP" \in pending)
  /\ pending' = pending \cap {"CHLD"}
  /\ UNCHANGED <<pc, todo, lineVars, curVars, oldVars, procVars, nread, events, gone, lossVars>>

(* Every child that has ended is waited for; processorstop is called for   *)
(* the one that this svlogd knows of.                                      *)
Ended == {n \in Times : n \notin orphans /\ processors[n] \notin {"none", "run"}}
SigChild ==
  /\ At("poll")
  /\ "CHLD" \in pending
  /\ pending' = pending \ {"CHLD"}
  /\ processors' = [n \in Times |-> IF n \in Ended THEN "none" ELSE processors[n]]
  /\ \/ /\ ppid \in Ended
        /\ wstat' = processors[ppid]
        /\ ppid' = 0
        /\ todo' = <<"result">>
     \/ /\ ppid \notin Ended
        /\ UNCHANGED <<wstat, ppid, todo>>
  /\ UNCHANGED <<pc, lineVars, curVars, oldVars, orphans, exitasap, rotateasap,
                 reopenasap, nread, events, gone, lossVars>>

(* read returns up to linemax bytes. *)
Read ==
  /\ At("poll") /\ pending = {}
  /\ \E k \in 1..LineMax :
       /\ nread + k <= MaxInput
       /\ nread' = nread + k
       /\ line' = [i \in 1..k |-> nread + i]
  /\ nl' \in Newlines
  /\ pc' = "write"
  /\ UNCHANGED <<todo, partial, curVars, oldVars, procVars, flagVars, events, gone, lossVars>>

(* EAGAIN: again, unless exitasap. *)
ReadNothing ==
  /\ At("poll") /\ pending = {} /\ ~ exitasap
  /\ pc' = "fill"
  /\ UNCHANGED <<todo, lineVars, curVars, oldVars, procVars, flagVars, nread, events, gone, lossVars>>

(* End of file, or EAGAIN and exitasap, or exitasap was set on the way     *)
(* back.  A line that has begun is ended; otherwise svlogd exits.          *)
EndOfInput ==
  /\ exitasap' = TRUE
  /\ IF partial
     THEN line' = <<0>> /\ nl' = TRUE /\ pc' = "write" /\ UNCHANGED todo
     ELSE pc' = "exit" /\ todo' = <<"stop", "seal">> /\ UNCHANGED <<line, nl>>
  /\ UNCHANGED <<partial, curVars, oldVars, procVars, rotateasap, reopenasap, pending,
                 nread, events, gone, lossVars>>

ReadEnd ==
  \/ At("poll") /\ pending = {} /\ EndOfInput
  \/ At("fill") /\ exitasap /\ EndOfInput

-----------------------------------------------------------------------------
(* buffer_pwrite *)

WriteRotate ==
  /\ At("write")
  /\ SizeMax > 0 /\ size >= SizeMax
  /\ todo' = RotateCalls(size)
  /\ UNCHANGED <<pc, lineVars, curVars, oldVars, procVars, flagVars, nread, events, gone, lossVars>>

(* No more than fits into current is written, and what is left of the line *)
(* is not looked at again.                                                 *)
Fits == IF SizeMax > 0 /\ Len(line) > SizeMax - size THEN SizeMax - size ELSE Len(line)

(* The last byte written is a newline, and a line of the maximal length    *)
(* may not fit any more; sizemax - linemax is unsigned.                    *)
BugIsFull == SizeMax > 0 /\ nl /\ size + Fits >= SizeMax
IsFull == /\ SizeMax > 0 /\ SizeMax >= LineMax
          /\ nl /\ Fits = Len(line)
          /\ size + Fits >= SizeMax - LineMax

(* stdio may write through to the file or not. *)
Write ==
  /\ At("write")
  /\ SizeMax > 0 => size < SizeMax
  /\ \/ buf' = buf \o SubSeq(line, 1, Fits) /\ UNCHANGED current
     \/ buf' = <<>> /\ current' = current \o buf \o SubSeq(line, 1, Fits)
  /\ size' = size + Fits
  /\ todo' = IF IsFull THEN RotateCalls(size + Fits) ELSE <<>>
  /\ line' = <<>> /\ nl' = FALSE
  /\ partial' = ~ nl
  /\ pc' = IF nl THEN "flush" ELSE "fill"
  /\ slipped' = slipped \cup Units(SubSeq(line, Fits + 1, Len(line)))
  /\ UNCHANGED <<xbit, oldVars, procVars, flagVars, nread, events, gone, disturbed, lost>>

(* fwrite fails with ENOSPC, perhaps after some units, and is repeated     *)
(* from the beginning.  Before that, if there are more than nmin names     *)
(* that look like old log files, the oldest is removed.                    *)
BugVictim == IF NMin < NMax THEN Oldest(files) ELSE {}
Victim == IF NMin < NMax /\ Cardinality(files) > NMin THEN Oldest(files) ELSE {}

WriteNoSpace ==
  /\ At("write")
  /\ SizeMax > 0 => size < SizeMax
  /\ Happens("full")
  /\ \E j \in 0..Fits - 1 : buf' = buf \o SubSeq(line, 1, j)
  /\ Remove(Victim)
  /\ disturbed' = TRUE
  /\ UNCHANGED <<pc, todo, lineVars, current, xbit, size, data, short, fnsave,
                 procVars, flagVars, nread, lost, slipped>>

(* fflush_all at the end of an iteration. *)
Flush ==
  /\ At("flush")
  /\ current' = current \o buf
  /\ buf' = <<>>
  /\ pc' = "fill"
  /\ UNCHANGED <<todo, lineVars, xbit, size, oldVars, procVars, flagVars, nread,
                 events, gone, lossVars>>

Exit ==
  /\ At("exit")
  /\ pc' = "exited"
  /\ UNCHANGED <<todo, lineVars, curVars, oldVars, procVars, flagVars, nread, events,
                 gone, lossVars>>

Svlogd ==
  \/ RmOldest \/ ProcessorStart \/ ProcessorWait \/ ProcessorFailed \/ ProcessorDone
  \/ UnlinkUnprocessed \/ Seal \/ Rename \/ Recover \/ Create \/ Open
  \/ FillRotate \/ FillReopen \/ FillTimed \/ Poll \/ SigFlag \/ SigChild
  \/ Read \/ ReadNothing \/ ReadEnd
  \/ WriteRotate \/ Write \/ WriteNoSpace \/ Flush \/ Exit

-----------------------------------------------------------------------------
(* External: processors, users, and the end of svlogd itself. *)

(* "ok": all of .u is in .t; "fail": a status other than 0; "killed" by a  *)
(* signal before the end.                                                  *)
ProcessorEnds(n) ==
  /\ processors[n] = "run"
  /\ \E o \in Outcomes :
       /\ IF o = "ok" THEN UNCHANGED events ELSE Happens("fail")
       /\ processors' = [processors EXCEPT ![n] = IF n \in orphans THEN "none" ELSE o]
  /\ pending' = IF n \in orphans THEN pending ELSE pending \cup {"CHLD"}
  /\ UNCHANGED <<pc, todo, lineVars, curVars, oldVars, ppid, wstat, orphans,
                 exitasap, rotateasap, reopenasap, nread, gone, lossVars>>

(* One more SIGTERM makes no difference. *)
SendSignal(sg) ==
  /\ pc # "exited"
  /\ sg \notin pending
  /\ sg = "TERM" => ~ exitasap
  /\ pending' = pending \cup {sg}
  /\ IF sg = "TERM" THEN UNCHANGED events ELSE Happens(sg)
  /\ UNCHANGED <<pc, todo, lineVars, curVars, oldVars, procVars, exitasap, rotateasap,
                 reopenasap, nread, gone, lossVars>>

(* svlogd is killed at any moment, or has exited; runsv starts it again.   *)
Again ==
  /\ Happens("crash")
  /\ LET memory == Units(line) \cup Units(buf) IN
     /\ lost' = IF xbit THEN lost ELSE lost \cup memory
     /\ slipped' = IF xbit THEN slipped \cup memory ELSE slipped
  /\ disturbed' = TRUE
  /\ orphans' = {n \in Times : processors[n] = "run"}
  /\ processors' = [n \in Times |-> IF processors[n] = "run" THEN "run" ELSE "none"]
  /\ pc' = "fill" /\ todo' = <<"open">>
  /\ line' = <<>> /\ nl' = FALSE /\ partial' = FALSE
  /\ buf' = <<>> /\ size' = 0
  /\ fnsave' = 0 /\ ppid' = 0 /\ wstat' = "ok"
  /\ exitasap' = FALSE /\ rotateasap' = FALSE /\ reopenasap' = FALSE
  /\ pending' = {}
  /\ UNCHANGED <<current, xbit, files, data, short, nread, gone>>

Init ==
  /\ pc = "fill" /\ todo = <<"open">>
  /\ line = <<>> /\ nl = FALSE /\ partial = FALSE
  /\ buf = <<>> /\ current = <<>> /\ xbit = FALSE /\ size = 0
  /\ files = {} /\ data = <<>> /\ short = {} /\ fnsave = 0
  /\ ppid = 0 /\ wstat = "ok"
  /\ processors = [n \in Times |-> "none"] /\ orphans = {}
  /\ exitasap = FALSE /\ rotateasap = FALSE /\ reopenasap = FALSE /\ pending = {}
  /\ nread = 0 /\ events = 0 /\ gone = {}
  /\ disturbed = FALSE /\ lost = {} /\ slipped = {}

Next ==
  \/ Svlogd
  \/ \E n \in Times : ProcessorEnds(n)
  \/ \E sg \in {"TERM", "HUP", "ALRM"} : SendSignal(sg)
  \/ Again

(* svlogd is scheduled, and so are its processors, which end.              *)
Fairness ==
  /\ WF_vars(Svlogd)
  /\ \A n \in Times : WF_vars(ProcessorEnds(n))

Spec == Init /\ [][Next]_vars
FairSpec == Spec /\ Fairness

-----------------------------------------------------------------------------
(* Properties. *)

OpNames == {"rmoldest", "start", "stop", "result", "unlinku", "seal", "rename",
            "recover", "create", "open"}

(* The type invariant; size never exceeds the limit.                       *)
TypeOK ==
  /\ pc \in {"fill", "poll", "write", "flush", "exit", "exited"}
  /\ todo \in Seq(OpNames)
  /\ {nl, partial, xbit, exitasap, rotateasap, reopenasap} \subseteq BOOLEAN
  /\ {line, buf, current} \subseteq Seq(0..MaxInput)
  /\ SizeMax > 0 => size \in 0..SizeMax
  /\ files \subseteq Times \X Kinds
  /\ data \in Seq(Seq(0..MaxInput))
  /\ short \subseteq Times /\ orphans \subseteq Times
  /\ fnsave \in Times \cup {0} /\ ppid \in Times \cup {0}
  /\ wstat \in {"ok", "fail", "killed"}
  /\ processors \in [Times -> {"none", "run", "ok", "fail", "killed"}]
  /\ pending \subseteq {"TERM", "HUP", "ALRM", "CHLD"}
  /\ nread \in 0..MaxInput /\ events \in 0..MaxEvents
  /\ disturbed \in BOOLEAN
  /\ gone \cup lost \cup slipped \subseteq 1..MaxInput

(* Nothing is lost: whatever the order of rotations, reopenings, failures  *)
(* of the processor and crashes, every unit that was read is in a file, in *)
(* memory, or was deleted as the oldest; a crash takes what is in memory.  *)
Kept ==
  1..nread = gone \cup lost \cup slipped \cup OldUnits(files, short)
               \cup Units(current) \cup Units(buf) \cup Units(line)

(* What a crash takes leaves no hole in the middle of a file, the reason   *)
(* for the mode bit of current and for the .u of logdir_open, unless       *)
(* svlogd is killed between the chmod and the rename of a rotation: what   *)
(* is between two units of a file in the input is between them there.      *)
Whole(s) ==
  \A i, j \in DOMAIN s : i < j /\ s[i] # 0 =>
    \A u \in (s[i] + 1)..(s[j] - 1) : u \in slipped \/ \E k \in i..j : s[k] = u
FilesWhole ==
  /\ \A n \in DOMAIN data : Whole(data[n])
  /\ Whole(current \o buf \o line)

(* The margin of linemax in buffer_pwrite is enough for input that comes   *)
(* in whole lines: nothing is cut off, as long as svlogd is not killed and *)
(* no write fails.  (What a write that fails leaves in the file is counted *)
(* into the size only when the file is opened again, which may eat up the  *)
(* margin.)                                                                *)
NothingCut == (Newlines = {TRUE} /\ ~ disturbed /\ 2 * LineMax <= SizeMax) => slipped = {}

(* The same for any input: svlogd "writes the data to one or more logs".   *)
NoDataCut == ~ disturbed => slipped = {}

(* The names of the files say the order of what they hold, current comes   *)
(* last, and what was deleted is older than what is left.                  *)
Before(S, T) == \A u \in S, v \in T : u < v
InOrder ==
  /\ \A f, g \in files : f[1] < g[1] => Before(Units(data[f[1]]), Units(data[g[1]]))
  /\ \A f \in files : Before(Units(data[f[1]]), Units(current \o buf \o line))
  /\ Before(gone, OldUnits(files, short) \cup Units(current \o buf \o line))

(* SIGTERM is served: svlogd exits, after the processor, which it restarts *)
(* as long as it fails.                                                    *)
Told == exitasap \/ "TERM" \in pending
TermServed == Told ~> (pc = "exited" \/ ~ Told)
=============================================================================
