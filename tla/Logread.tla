------------------------------ MODULE Logread ------------------------------
(***************************************************************************)
(* The circular log buffer that syslogd -C writes and logread reads:       *)
(* shared memory and two semaphores.                                       *)
(* busybox-1.32.0/sysklogd/syslogd.c and logread.c, with double buffering. *)
(*                                                                         *)
(* Messages are numbered in the order in which they are logged; a byte of  *)
(* the buffer is NUL or the i-th character of message m.  Semaphore 0      *)
(* counts the readers and is undone when one ends; semaphore 1 is the      *)
(* writer's, and is not.                                                   *)
(***************************************************************************)
EXTENDS Integers, Sequences, SequencesExt

CONSTANTS
  Size,        \* shbuf->size
  Lens,        \* lengths of messages, with their NUL
  Readers,     \* the logread processes
  Options,     \* a subset of {"", "f", "F"}
  MaxMsgs,     \* bound: messages logged
  MaxKills     \* bound: syslogd killed, or interrupted in semop

ASSUME LogreadAssumption ==
  /\ Size \in Nat /\ Lens \subseteq 2..(Size - 1) /\ Lens # {}
  /\ IsFiniteSet(Readers) /\ Options \subseteq {"", "f", "F"}
  /\ MaxMsgs \in Nat /\ MaxKills \in Nat

VARIABLES
  shm,         \* the segment and the semaphores exist
  data, tail,  \* shbuf
  sem,         \* the two semaphores
  wpc,         \* syslogd: "gone", "idle", "lock", "store", "unlock"
  rest,        \* what is left of the message that it stores
  term,        \* it has SIGTERM, and logs its last message
  rpc,         \* logread: "gone", "attached", "lock", "read", "unlock"; "unset"
               \* when it goes on with copy and len_total not set
  follow,      \* its option; "-F" becomes "-f" after the first pass
  cur,         \* its position
  seen,        \* shbuf_tail: the tail that it read under the lock
  copy,        \* the bytes it has copied
  kills,
  lens,        \* history: the length of every message stored
  from,        \* history: the first message after cur
  lag          \* history: bytes stored since cur was taken, Size if too many or
               \* if cur was not the start of a message, Reset if that was before
               \* the buffer was cleared

shmVars == <<shm, data, tail>>
writerVars == <<wpc, rest, term, kills, lens>>
readerVars == <<rpc, follow, cur, seen, copy, from>>
vars == <<shmVars, sem, writerVars, readerVars, lag>>

NUL == <<0, 0>>
Zeros == [i \in 0..Size |-> NUL]
Reset == Size + 1
Newest == Len(lens)
Message(m) == [i \in 1..(lens[m] - 1) |-> <<m, i>>]

Attached(r) == rpc[r] # "gone"
Located(r) == rpc[r] \notin {"gone", "attached"}

(* The logreads R end.                                                     *)
Leave(R) ==
  /\ rpc' = [r \in Readers |-> IF r \in R THEN "gone" ELSE rpc[r]]
  /\ follow' = [r \in Readers |-> IF r \in R THEN "" ELSE follow[r]]
  /\ cur' = [r \in Readers |-> IF r \in R THEN 0 ELSE cur[r]]
  /\ seen' = [r \in Readers |-> IF r \in R THEN 0 ELSE seen[r]]
  /\ copy' = [r \in Readers |-> IF r \in R THEN << >> ELSE copy[r]]
  /\ from' = [r \in Readers |-> IF r \in R THEN 0 ELSE from[r]]
  /\ lag' = [r \in Readers |-> IF r \in R THEN 0 ELSE lag[r]]

-----------------------------------------------------------------------------
(* syslogd.                                                                *)

(* ipcsyslog_init, and the message "syslogd started".  A segment that is   *)
(* there is cleared whoever uses it, semaphores that are there are kept.   *)
ipcsyslog_init ==
  /\ wpc = "gone" /\ Newest < MaxMsgs
  /\ shm' = TRUE /\ data' = Zeros /\ tail' = 0
  /\ sem' = IF shm THEN sem ELSE <<0, 0>>
  /\ wpc' = "lock" /\ rest' = << >> /\ term' = FALSE
  /\ lag' = [r \in Readers |-> IF Located(r) THEN Reset ELSE 0]
  /\ UNCHANGED <<kills, lens, readerVars>>

(* do_syslogd reads a message, or ends its loop on a signal and logs       *)
(* "syslogd exiting".                                                      *)
Receive ==
  /\ wpc = "idle" /\ ~ term /\ Newest < MaxMsgs
  /\ wpc' = "lock" /\ term' \in BOOLEAN
  /\ UNCHANGED <<shmVars, sem, rest, kills, lens, readerVars, lag>>

(* semop(SMwdn); the message is in the log once the semaphore is held.     *)
WriteLock ==
  /\ wpc = "lock" /\ sem = <<0, 0>>
  /\ sem' = <<0, 1>>
  /\ \E n \in Lens :
       /\ lens' = Append(lens, n)
       /\ rest' = [i \in 1..n |-> IF i = n THEN NUL ELSE <<Newest + 1, i>>]
  /\ wpc' = "store"
  /\ UNCHANGED <<shmVars, term, kills, readerVars, lag>>

(* Mutant: tail may point behind the buffer.                               *)
BugFits(n) == tail + n <= Size

Fits(n) == tail + n < Size

(* Store the first k bytes of the message at the tail.                     *)
Stored(k) == [i \in 0..Size |-> IF i \in tail..(tail + k - 1) THEN rest[i - tail + 1] ELSE data[i]]

(* One turn of the loop of log_to_shmem: what fits up to the end.          *)
Store ==
  /\ wpc = "store"
  /\ LET n == Len(rest)
         k == IF Fits(n) THEN n ELSE Size - tail
     IN  /\ data' = Stored(k)
         /\ tail' = IF Fits(n) THEN tail + n ELSE 0
         /\ rest' = SubSeq(rest, k + 1, n)
         /\ wpc' = IF Fits(n) THEN "unlock" ELSE "store"
         /\ lag' = [r \in Readers |-> IF ~ Located(r) THEN 0
                                   ELSE IF lag[r] + k < Size THEN lag[r] + k ELSE Size]
  /\ UNCHANGED <<shm, sem, term, kills, lens, readerVars>>

(* Mutant: the semaphore stays up.                                         *)
BugWriteUnlock ==
  /\ wpc = "unlock"
  /\ wpc' = "idle"
  /\ UNCHANGED <<shmVars, sem, rest, term, kills, lens, readerVars, lag>>

(* semop(SMwup); after the last message ipcsyslog_cleanup removes segment  *)
(* and semaphores, and every logread that uses them dies of its next semop.*)
WriteUnlock ==
  /\ wpc = "unlock"
  /\ sem' = [sem EXCEPT ![2] = 0]
  /\ IF term
     THEN wpc' = "gone" /\ shm' = FALSE /\ data' = Zeros /\ tail' = 0 /\ Leave(Readers)
     ELSE wpc' = "idle" /\ UNCHANGED <<shmVars, readerVars, lag>>
  /\ UNCHANGED <<rest, term, kills, lens>>

(* SIGKILL, or a signal in the semop that waits: no cleanup.               *)
Kill ==
  /\ wpc # "gone" /\ kills < MaxKills
  /\ wpc' = "gone" /\ kills' = kills + 1 /\ rest' = << >>
  /\ UNCHANGED <<shmVars, sem, term, lens, readerVars, lag>>

-----------------------------------------------------------------------------
(* logread.                                                                *)

Goto(r, s) == rpc' = [rpc EXCEPT ![r] = s]

Attach(r) ==
  /\ rpc[r] = "gone" /\ shm
  /\ Goto(r, "attached")
  /\ \E o \in Options : follow' = [follow EXCEPT ![r] = o]
  /\ UNCHANGED <<shmVars, sem, writerVars, cur, seen, copy, from, lag>>

(* cur = shbuf->tail, without the lock.                                    *)
TakeTail(r) ==
  /\ rpc[r] = "attached"
  /\ cur' = [cur EXCEPT ![r] = tail]
  /\ LET in == wpc = "store" /\ rest # << >>
         whole == in /\ rest[1] = <<Newest, 1>>
     IN  /\ from' = [from EXCEPT ![r] = IF whole THEN Newest ELSE Newest + 1]
         /\ lag' = [lag EXCEPT ![r] = IF in /\ ~ whole THEN Size ELSE 0]
  /\ Goto(r, "lock")
  /\ UNCHANGED <<shmVars, sem, writerVars, follow, seen, copy>>

(* semop(SMrdn), and the tail is read.                                     *)
ReadLock(r) ==
  /\ rpc[r] = "lock" /\ sem[2] = 0
  /\ sem' = [sem EXCEPT ![1] = @ + 1]
  /\ seen' = [seen EXCEPT ![r] = tail]
  /\ Goto(r, "read")
  /\ UNCHANGED <<shmVars, writerVars, follow, cur, copy, from, lag>>

(* Position of the first NUL from i on; strlen stops there.                *)
NulFrom(i) == CHOOSE j \in i..Size : data[j] = NUL /\ \A k \in i..(j - 1) : data[k] # NUL

(* Mutant: the byte before the tail is not looked at.                      *)
BugOldest(c, t) ==
  LET a == NulFrom(c)
      b == IF a < Size THEN a ELSE NulFrom(0)
  IN  IF a >= Size /\ b >= t - 1 THEN -1
      ELSE IF b + 1 >= Size THEN 0 ELSE b + 1

(* Mutant: the rest of a message is not skipped at the end of the buffer.  *)
BugSkip(c, t) == IF NulFrom(c) >= Size THEN 0 ELSE NulFrom(c) + 1

(* The start of the message after the first NUL from c on; -1 if there is  *)
(* no NUL up to the tail t ("no complete messages").                       *)
Oldest(c, t) ==
  LET a == NulFrom(c)
      b == IF a < Size THEN a ELSE NulFrom(0)
  IN  IF a >= Size /\ b >= t THEN -1
      ELSE IF b + 1 >= Size THEN 0 ELSE b + 1

(* The bytes from c up to t.                                               *)
Between(c, t) ==
  LET n == IF t >= c THEN t - c ELSE t - c + Size
  IN  [i \in 1..n |-> data[(c + i - 1) % Size]]

AtTail(r) == cur[r] = seen[r]

(* Not -f: from the oldest complete message.                               *)
ReadAll(r) ==
  /\ rpc[r] = "read" /\ follow[r] # "f"
  /\ LET c == Oldest(cur[r], seen[r])
     IN  IF c = -1
         THEN Goto(r, "unset") /\ UNCHANGED <<cur, copy>>
         ELSE /\ Goto(r, "unlock")
              /\ copy' = [copy EXCEPT ![r] = Between(c, seen[r])]
              /\ cur' = [cur EXCEPT ![r] = seen[r]]
  /\ UNCHANGED <<shmVars, sem, writerVars, follow, seen, from, lag>>

(* Mutant: the position stays.                                             *)
BugReadNew(r) ==
  /\ rpc[r] = "read" /\ follow[r] = "f" /\ ~ AtTail(r)
  /\ copy' = [copy EXCEPT ![r] = Between(cur[r], seen[r])]
  /\ Goto(r, "unlock")
  /\ UNCHANGED <<shmVars, sem, writerVars, follow, cur, seen, from, lag>>

(* -f: from where the last pass ended.                                     *)
ReadNew(r) ==
  /\ rpc[r] = "read" /\ follow[r] = "f" /\ ~ AtTail(r)
  /\ copy' = [copy EXCEPT ![r] = Between(cur[r], seen[r])]
  /\ cur' = [cur EXCEPT ![r] = seen[r]]
  /\ Goto(r, "unlock")
  /\ UNCHANGED <<shmVars, sem, writerVars, follow, seen, from, lag>>

(* History: the position is the end of the newest message, unless syslogd  *)
(* has reset the buffer since it was taken.                                *)
AllRead(r) ==
  /\ from' = [from EXCEPT ![r] = Newest + 1]
  /\ lag' = [lag EXCEPT ![r] = IF lag[r] = Reset THEN Size ELSE 0]

(* Mutant: the lock is kept.                                               *)
BugSleep(r) ==
  /\ rpc[r] = "read" /\ follow[r] = "f" /\ AtTail(r)
  /\ Goto(r, "lock")
  /\ UNCHANGED <<shmVars, sem, writerVars, follow, cur, seen, copy, from, lag>>

(* Nothing new: unlock and sleep.                                          *)
Sleep(r) ==
  /\ rpc[r] = "read" /\ follow[r] = "f" /\ AtTail(r)
  /\ sem' = [sem EXCEPT ![1] = @ - 1]
  /\ Goto(r, "lock")
  /\ AllRead(r)
  /\ UNCHANGED <<shmVars, writerVars, follow, cur, seen, copy>>

(* sem_up, and the copy is printed; without -f and -F logread exits.       *)
ReadUnlock(r) ==
  /\ rpc[r] = "unlock"
  /\ sem' = [sem EXCEPT ![1] = @ - 1]
  /\ \/ follow[r] = "" /\ Leave({r})
     \/ /\ follow[r] # ""
        /\ Goto(r, "lock")
        /\ follow' = [follow EXCEPT ![r] = "f"]
        /\ copy' = [copy EXCEPT ![r] = << >>]
        /\ AllRead(r)
        /\ UNCHANGED <<cur, seen>>
  /\ UNCHANGED <<shmVars, writerVars>>

(* A signal ends logread at any place; SEM_UNDO gives its lock back.       *)
Interrupted(r) ==
  /\ Attached(r)
  /\ sem' = IF rpc[r] \in {"read", "unlock", "unset"} THEN [sem EXCEPT ![1] = @ - 1] ELSE sem
  /\ Leave({r})
  /\ UNCHANGED <<shmVars, writerVars>>

-----------------------------------------------------------------------------
Syslogd == ipcsyslog_init \/ WriteLock \/ Store \/ WriteUnlock
LogreadStep(r) == TakeTail(r) \/ ReadAll(r) \/ ReadNew(r) \/ Sleep(r) \/ ReadUnlock(r)

Init ==
  /\ shm = FALSE /\ data = Zeros /\ tail = 0 /\ sem = <<0, 0>>
  /\ wpc = "gone" /\ rest = << >> /\ term = FALSE /\ kills = 0 /\ lens = << >>
  /\ rpc = [r \in Readers |-> "gone"]
  /\ follow = [r \in Readers |-> ""]
  /\ cur = [r \in Readers |-> 0] /\ seen = [r \in Readers |-> 0]
  /\ copy = [r \in Readers |-> << >>]
  /\ from = [r \in Readers |-> 0]
  /\ lag = [r \in Readers |-> 0]

Next ==
  \/ Syslogd \/ Receive \/ Kill
  \/ \E r \in Readers : LogreadStep(r) \/ ReadLock(r) \/ Attach(r) \/ Interrupted(r)

(* Processes are scheduled.  A logread -f that has nothing to print sleeps *)
(* for a second without the lock, and one that prints holds it only while  *)
(* it copies: both sides find the semaphores free again and again, and get *)
(* them.                                                                   *)
Spec ==
  /\ Init /\ [][Next]_vars
  /\ WF_vars(Store) /\ WF_vars(WriteUnlock) /\ SF_vars(WriteLock)
  /\ \A r \in Readers : WF_vars(LogreadStep(r)) /\ SF_vars(ReadLock(r))

-----------------------------------------------------------------------------
(* Properties.                                                             *)

(* Types; the tail stays below the size of the buffer, its last byte NUL.  *)
TypeOK ==
  /\ {shm, term} \subseteq BOOLEAN
  /\ DOMAIN data = 0..Size /\ data[Size] = NUL
  /\ \A i \in 0..Size : data[i] \in {NUL} \cup (1..MaxMsgs) \X (1..Size)
  /\ tail \in 0..(Size - 1)
  /\ sem \in Nat \X {0, 1}
  /\ wpc \in {"gone", "idle", "lock", "store", "unlock"}
  /\ rpc \in [Readers -> {"gone", "attached", "lock", "read", "unlock", "unset"}]
  /\ follow \in [Readers -> {"", "f", "F"}]
  /\ cur \in [Readers -> 0..(Size - 1)] /\ seen \in [Readers -> 0..(Size - 1)]
  /\ lag \in [Readers -> 0..Reset]
  /\ from \in [Readers -> 0..(MaxMsgs + 1)]
  /\ kills \in 0..MaxKills /\ lens \in Seq(Lens) /\ Newest <= MaxMsgs

(* The members of a set of numbers in ascending order.                     *)
InOrder(S) ==
  CHOOSE f \in [1..Cardinality(S) -> S] : \A i, j \in DOMAIN f : i < j => f[i] < f[j]

(* What logread prints of its copy: the strings in it, in order.           *)
Printed(r) ==
  LET c == copy[r]
      Starts == {i \in 1..Len(c) : c[i] # NUL /\ (i = 1 \/ c[i - 1] = NUL)}
      End(i) == CHOOSE j \in i..Len(c) :
                  (j = Len(c) \/ c[j + 1] = NUL) /\ \A k \in i..j : c[k] # NUL
      order == InOrder(Starts)
  IN  [k \in DOMAIN order |-> SubSeq(c, order[k], End(order[k]))]

(* It prints the messages from m to the last.                              *)
Shows(r, m) == Printed(r) = [k \in 1..(Newest + 1 - m) |-> Message(m + k - 1)]

CopyDone(r, opts) == rpc[r] = "unlock" /\ follow[r] \in opts

(* logread never takes the path "no complete messages", on which it would  *)
(* go through a copy that is not initialised: it finds the end of some     *)
(* message, or zeros, however long ago it took its position.               *)
CopyIsSet == \A r \in Readers : rpc[r] # "unset"

(* Without -f logread prints whole messages in the order in which they     *)
(* were logged, up to the last one or none at all, even if syslogd has     *)
(* gone round the buffer since logread took its position.                  *)
PrintsWhole ==
  \A r \in Readers : CopyDone(r, {"", "F"}) => \E m \in 1..(Newest + 1) : Shows(r, m)

(* With -f it prints each message once, whole and in order, if syslogd has *)
(* not gone round the buffer between two passes.                           *)
FollowsExactly ==
  \A r \in Readers : CopyDone(r, {"f"}) /\ lag[r] < Size => Shows(r, from[r])

(* The writer's semaphore is held by a syslogd that is gone.               *)
Stuck == kills > 0 /\ sem[2] = 1 /\ wpc \notin {"store", "unlock"}

(* syslogd gets a message into the buffer whatever the readers do, unless  *)
(* an earlier syslogd was killed in log_to_shmem.                          *)
LogGoesOn == wpc = "lock" ~> wpc # "lock" \/ Stuck

(* logread -f reads on while there is something to read.                   *)
CatchesUp ==
  \A r \in Readers :
    (rpc[r] = "lock" /\ cur[r] # tail) ~> (rpc[r] = "gone" \/ cur[r] = tail \/ Stuck)

(* "advance to oldest complete message" (logread.c): a logread without -f  *)
(* prints every message that is complete in the buffer.                    *)
ShowsOldest ==
  \A r \in Readers :
    CopyDone(r, {""}) =>
      \A m \in 1..Newest :
        (kills = 0 /\ FoldLeft(LAMBDA a, b : a + b, 0, SubSeq(lens, m, Newest)) < Size) =>
          \E k \in DOMAIN Printed(r) : Printed(r)[k] = Message(m)
=============================================================================
