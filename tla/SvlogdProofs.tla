---------------------------- MODULE SvlogdProofs ----------------------------
(***************************************************************************)
(* Theorems about svlogd, for every size of files and lines, number of old *)
(* files, input and sequence of events: no unit of input disappears, none  *)
(* is cut off when the input comes in whole lines, the names of the files  *)
(* say the order of what they hold, and no file has a hole.                *)
(***************************************************************************)
EXTENDS Svlogd, SequenceTheorems, TLAPS

-----------------------------------------------------------------------------
(* The inductive invariant for Kept. *)

Results == {"ok", "fail"}

DataType ==
  /\ line \in Seq(Nat) /\ buf \in Seq(Nat) /\ current \in Seq(Nat)
  /\ size \in Nat /\ nread \in Nat /\ todo \in Seq(OpNames)
  /\ data \in Seq(Seq(Nat)) /\ Len(data) <= MaxTime
  /\ files \subseteq (1..Len(data)) \X Kinds /\ fnsave \in 0..Len(data)

(* The processor that svlogd knows of is its own child, running or with a  *)
(* result that no one has asked for yet; none is killed.                   *)
ProcInv ==
  /\ short = {} /\ wstat \in Results
  /\ processors \in [Times -> Results \cup {"none", "run"}]
  /\ \A n \in Times : processors[n] # "none" \/ n \in orphans => n <= Len(data)
  /\ fnsave \notin orphans
  /\ ppid # 0 => ppid \in Times /\ ppid \notin orphans /\ processors[ppid] # "none"

(* .u is unlinked only when .s is there.                                   *)
UnlinkInv ==
  /\ todo # <<>> => "unlinku" \notin Range(Tail(todo))
  /\ Calling("unlinku") => Exists(fnsave, "s")

(* What was read is taken over before more is read, and no old file holds  *)
(* what was not read.                                                      *)
LineInv == pc # "write" => line = <<>>
DataInv == \A n \in 1..Len(data) : Units(data[n]) \subseteq 1..nread

KeptInv == DataType /\ ProcInv /\ UnlinkInv /\ LineInv /\ DataInv /\ Kept

-----------------------------------------------------------------------------
(* Sequences and what they hold. *)

LEMMA ConcatRange ==
  ASSUME NEW S, NEW s \in Seq(S), NEW t \in Seq(S)
  PROVE  s \o t \in Seq(S) /\ Range(s \o t) = Range(s) \cup Range(t)
<1>1. /\ s \o t \in Seq(S) /\ Len(s \o t) = Len(s) + Len(t) /\ Len(s) \in Nat /\ Len(t) \in Nat
      /\ \A i \in 1..Len(s) + Len(t) :
           (s \o t)[i] = IF i <= Len(s) THEN s[i] ELSE t[i - Len(s)]
      /\ DOMAIN s = 1..Len(s) /\ DOMAIN t = 1..Len(t) /\ DOMAIN (s \o t) = 1..Len(s \o t)
  BY ConcatProperties, LenProperties
<1>2. ASSUME NEW x \in Range(s \o t) PROVE x \in Range(s) \cup Range(t)
  <2>1. PICK i \in 1..(Len(s) + Len(t)) : x = (s \o t)[i]
    BY <1>1, <1>2 DEF Range
  <2>2. CASE i <= Len(s)
    BY <2>1, <2>2, <1>1 DEF Range
  <2>3. CASE ~ (i <= Len(s))
    <3>1. i - Len(s) \in 1..Len(t) /\ x = t[i - Len(s)]
      BY <2>1, <2>3, <1>1
    <3> QED
      BY <3>1, <1>1 DEF Range
  <2> QED
    BY <2>2, <2>3
<1>3. ASSUME NEW x \in Range(s) PROVE x \in Range(s \o t)
  <2>1. PICK i \in 1..Len(s) : x = s[i]
    BY <1>1, <1>3 DEF Range
  <2>2. i \in 1..(Len(s) + Len(t)) /\ x = (s \o t)[i]
    BY <2>1, <1>1
  <2> QED
    BY <2>2, <1>1 DEF Range
<1>4. ASSUME NEW x \in Range(t) PROVE x \in Range(s \o t)
  <2>1. PICK i \in 1..Len(t) : x = t[i]
    BY <1>1, <1>4 DEF Range
  <2>2. Len(s) + i \in 1..(Len(s) + Len(t)) /\ ~ (Len(s) + i <= Len(s)) /\ (Len(s) + i) - Len(s) = i
    BY <1>1
  <2>3. x = (s \o t)[Len(s) + i]
    BY <2>1, <2>2, <1>1
  <2> QED
    BY <2>2, <2>3, <1>1 DEF Range
<1> QED
  BY <1>1, <1>2, <1>3, <1>4

LEMMA SubRange ==
  ASSUME NEW S, NEW s \in Seq(S), NEW k \in 0..Len(s)
  PROVE  /\ SubSeq(s, 1, k) \in Seq(S) /\ SubSeq(s, k + 1, Len(s)) \in Seq(S)
         /\ Range(s) = Range(SubSeq(s, 1, k)) \cup Range(SubSeq(s, k + 1, Len(s)))
         /\ Len(SubSeq(s, 1, k)) = k /\ Len(SubSeq(s, k + 1, Len(s))) = Len(s) - k
<1> DEFINE a == SubSeq(s, 1, k)
           b == SubSeq(s, k + 1, Len(s))
<1>0. Len(s) \in Nat /\ k \in Nat /\ k <= Len(s) /\ DOMAIN s = 1..Len(s)
  BY LenProperties
<1>1. \A i \in 1..Len(s) : s[i] \in S
  BY ElementOfSeq
<1>2. a = [i \in 1..k |-> s[i]]
  BY <1>0
<1>3. b = [i \in 1..(Len(s) - k) |-> s[k + i]]
  BY <1>0
<1>4. a \in Seq(S) /\ Len(a) = k /\ DOMAIN a = 1..k
  BY <1>0, <1>1, <1>2
<1>5. b \in Seq(S) /\ Len(b) = Len(s) - k /\ DOMAIN b = 1..(Len(s) - k)
  <2>1. \A i \in 1..(Len(s) - k) : k + i \in 1..Len(s)
    BY <1>0
  <2>2. b \in [1..(Len(s) - k) -> S]
    BY <2>1, <1>1, <1>3
  <2> HIDE DEF b
  <2>3. PICK m \in Nat : m = Len(s) - k
    <3>1. PICK l \in Nat : l = Len(s)
      BY <1>0
    <3>2. l - k \in Nat
      BY <3>1, <1>0
    <3> QED
      BY <3>1, <3>2
  <2>4. b \in [1..m -> S]
    BY <2>2, <2>3
  <2>5. b \in Seq(S) /\ Len(b) = m /\ DOMAIN b = 1..m
    BY <2>4
  <2> QED
    BY <2>3, <2>5
<1>6. ASSUME NEW x \in Range(s) PROVE x \in Range(a) \cup Range(b)
  <2>1. PICK i \in 1..Len(s) : x = s[i]
    BY <1>0, <1>6 DEF Range
  <2>2. CASE i <= k
    <3>1. i \in 1..k /\ a[i] = s[i]
      BY <2>2, <1>0, <1>2
    <3> HIDE DEF a
    <3> QED
      BY <3>1, <2>1, <1>4 DEF Range
  <2>3. CASE ~ (i <= k)
    <3>1. i - k \in 1..(Len(s) - k) /\ k + (i - k) = i
      BY <2>3, <1>0
    <3>2. b[i - k] = s[i]
      BY <3>1, <1>3
    <3> HIDE DEF b
    <3> QED
      BY <3>1, <3>2, <2>1, <1>5 DEF Range
  <2> QED
    BY <2>2, <2>3
<1>7. Range(a) \subseteq Range(s)
  <2>1. \A i \in 1..k : a[i] = s[i] /\ i \in 1..Len(s)
    BY <1>0, <1>2
  <2> HIDE DEF a
  <2> QED
    BY <2>1, <1>0, <1>4 DEF Range
<1>8. Range(b) \subseteq Range(s)
  <2>1. \A i \in 1..(Len(s) - k) : b[i] = s[k + i] /\ k + i \in 1..Len(s)
    BY <1>0, <1>3
  <2> HIDE DEF b
  <2> QED
    BY <2>1, <1>0, <1>5 DEF Range
<1> HIDE DEF a, b
<1>9. Range(s) = Range(a) \cup Range(b)
  BY <1>6, <1>7, <1>8
<1> QED
  BY <1>4, <1>5, <1>9 DEF a, b

LEMMA TailRange ==
  ASSUME NEW S, NEW s \in Seq(S), s # <<>>
  PROVE  Tail(s) \in Seq(S) /\ Range(Tail(s)) \subseteq Range(s) /\ Head(s) \in S
<1>1. /\ Tail(s) \in Seq(S) /\ Len(s) \in Nat /\ Len(s) # 0 /\ Len(Tail(s)) = Len(s) - 1
      /\ \A i \in 1..Len(Tail(s)) : Tail(s)[i] = s[i + 1]
      /\ DOMAIN s = 1..Len(s) /\ DOMAIN Tail(s) = 1..Len(Tail(s)) /\ Head(s) \in S
  BY HeadTailProperties, LenProperties, EmptySeq
<1>2. \A i \in 1..Len(Tail(s)) : i + 1 \in 1..Len(s)
  BY <1>1
<1> QED
  BY <1>1, <1>2 DEF Range

LEMMA SingleRange ==
  ASSUME NEW S, NEW x \in S
  PROVE  <<x>> \in Seq(S) /\ Range(<<x>>) = {x}
<1>1. <<x>> \in Seq(S) /\ DOMAIN <<x>> = 1..1 /\ <<x>>[1] = x
  OBVIOUS
<1> QED
  BY <1>1 DEF Range

LEMMA EmptyUnits == Units(<<>>) = {} /\ Range(<<>>) = {}
BY DEF Units, Range

LEMMA ConcatUnits ==
  ASSUME NEW s \in Seq(Nat), NEW t \in Seq(Nat)
  PROVE  s \o t \in Seq(Nat) /\ Units(s \o t) = Units(s) \cup Units(t)
<1>1. s \o t \in Seq(Nat) /\ Range(s \o t) = Range(s) \cup Range(t)
  BY ConcatRange
<1> QED
  BY <1>1 DEF Units

LEMMA SubUnits ==
  ASSUME NEW s \in Seq(Nat), NEW k \in 0..Len(s)
  PROVE  /\ SubSeq(s, 1, k) \in Seq(Nat) /\ SubSeq(s, k + 1, Len(s)) \in Seq(Nat)
         /\ Units(s) = Units(SubSeq(s, 1, k)) \cup Units(SubSeq(s, k + 1, Len(s)))
<1>1. /\ SubSeq(s, 1, k) \in Seq(Nat) /\ SubSeq(s, k + 1, Len(s)) \in Seq(Nat)
      /\ Range(s) = Range(SubSeq(s, 1, k)) \cup Range(SubSeq(s, k + 1, Len(s)))
  BY SubRange
<1> QED
  BY <1>1 DEF Units

(* What old files hold, one unit at a time.                                *)
LEMMA OldUnit ==
  ASSUME NEW fs, NEW sh, NEW u
  PROVE  u \in OldUnits(fs, sh) <=>
           \E f \in fs : (f[2] = "u" \/ (f[2] = "s" /\ f[1] \notin sh)) /\ u \in Units(data[f[1]])
BY DEF OldUnits

LEMMA OldUnitNext ==
  ASSUME NEW fs, NEW sh, NEW u
  PROVE  u \in OldUnits(fs, sh)' <=>
           \E f \in fs' : (f[2] = "u" \/ (f[2] = "s" /\ f[1] \notin sh')) /\ u \in Units(data'[f[1]])
BY DEF OldUnits, Units, Range

-----------------------------------------------------------------------------
(* The parts of the invariant, one at a time. *)

(* Everything that Kept speaks of.                                         *)
InFiles == OldUnits(files, short)
Memory == Units(current) \cup Units(buf) \cup Units(line)
Losses == gone \cup lost \cup slipped

LEMMA KeptIs == Kept <=> 1..nread = Losses \cup InFiles \cup Memory
BY DEF Kept, Losses, InFiles, Memory

LEMMA KeptNext ==
  ASSUME Kept, nread' = nread, (Losses \cup InFiles \cup Memory)' = Losses \cup InFiles \cup Memory
  PROVE  Kept'
<1>1. 1..nread = Losses \cup InFiles \cup Memory
  BY KeptIs
<1>2. 1..nread' = (Losses \cup InFiles \cup Memory)'
  BY <1>1
<1> QED
  BY <1>2 DEF Kept, Losses, InFiles, Memory

LEMMA FilesStay ==
  ASSUME files' = files, data' = data, short' = short
  PROVE  InFiles' = InFiles
<1>1. \A u : u \in InFiles' <=> u \in InFiles
  BY OldUnit, OldUnitNext DEF InFiles
<1> QED
  BY <1>1

LEMMA DataStays ==
  ASSUME DataInv, data' = data, nread' = nread
  PROVE  DataInv'
BY DEF DataInv, Units, Range

LEMMA ProcStays ==
  ASSUME ProcInv, data' = data, fnsave' = fnsave, short' = short, UNCHANGED procVars
  PROVE  ProcInv'
BY DEF ProcInv, procVars, Results, Times, MaxTime

LEMMA TodoRest ==
  ASSUME todo \in Seq(OpNames), UnlinkInv, todo # <<>>
  PROVE  /\ Tail(todo) \in Seq(OpNames) /\ "unlinku" \notin Range(Tail(todo))
         /\ Head(todo) # "unlinku" => "unlinku" \notin Range(todo)
<1>1. /\ Tail(todo) \in Seq(OpNames) /\ Len(todo) \in Nat /\ Len(todo) # 0
      /\ Len(Tail(todo)) = Len(todo) - 1 /\ Head(todo) = todo[1]
      /\ \A i \in 1..Len(Tail(todo)) : Tail(todo)[i] = todo[i + 1]
      /\ DOMAIN todo = 1..Len(todo) /\ DOMAIN Tail(todo) = 1..Len(Tail(todo))
  BY HeadTailProperties, LenProperties, EmptySeq
<1>2. "unlinku" \notin Range(Tail(todo))
  BY DEF UnlinkInv
<1>3. ASSUME Head(todo) # "unlinku", "unlinku" \in Range(todo) PROVE FALSE
  <2>1. PICK i \in 1..Len(todo) : todo[i] = "unlinku"
    BY <1>1, <1>3 DEF Range
  <2>2. i # 1
    BY <2>1, <1>1, <1>3
  <2>3. i - 1 \in 1..Len(Tail(todo)) /\ (i - 1) + 1 = i
    BY <2>2, <1>1
  <2>4. Tail(todo)[i - 1] = "unlinku"
    BY <2>1, <2>3, <1>1
  <2> QED
    BY <2>3, <2>4, <1>1, <1>2 DEF Range
<1> QED
  BY <1>1, <1>2, <1>3

LEMMA NoUnlink ==
  ASSUME todo' \in Seq(OpNames), "unlinku" \notin Range(todo')
  PROVE  UnlinkInv'
<1>1. SUFFICES ASSUME todo' # <<>>
               PROVE  "unlinku" \notin Range(Tail(todo')) /\ Head(todo') # "unlinku"
  BY DEF UnlinkInv, Calling
<1>2. Range(Tail(todo')) \subseteq Range(todo')
  BY <1>1, TailRange
<1>3. Head(todo') \in Range(todo')
  <2>1. Len(todo') \in Nat /\ Len(todo') # 0 /\ Head(todo') = todo'[1] /\ DOMAIN todo' = 1..Len(todo')
    BY <1>1, HeadTailProperties, LenProperties, EmptySeq
  <2>2. 1 \in 1..Len(todo')
    BY <2>1
  <2> QED
    BY <2>1, <2>2 DEF Range
<1> QED
  BY <1>2, <1>3

(* The next call is made, or calls are put in front of the rest.           *)
LEMMA TodoTail ==
  ASSUME todo \in Seq(OpNames), UnlinkInv, todo # <<>>, todo' = Tail(todo)
  PROVE  todo' \in Seq(OpNames) /\ UnlinkInv'
BY TodoRest, NoUnlink

LEMMA TodoFront ==
  ASSUME NEW p \in Seq(OpNames), NEW t \in Seq(OpNames),
         "unlinku" \notin Range(p), "unlinku" \notin Range(t), todo' = p \o t
  PROVE  todo' \in Seq(OpNames) /\ UnlinkInv'
<1>1. p \o t \in Seq(OpNames) /\ Range(p \o t) = Range(p) \cup Range(t)
  BY ConcatRange
<1> QED
  BY <1>1, NoUnlink

LEMMA TodoStays ==
  ASSUME UnlinkInv, todo' = todo, files' = files, fnsave' = fnsave
  PROVE  UnlinkInv'
BY DEF UnlinkInv, Calling, Exists, Range

(* The calls that svlogd makes, all with no unlink among them.             *)
LEMMA CallNames ==
  /\ <<>> \in Seq(OpNames) /\ "unlinku" \notin Range(<<>>)
  /\ \A x \in OpNames \ {"unlinku"} : <<x>> \in Seq(OpNames) /\ "unlinku" \notin Range(<<x>>)
  /\ <<"seal", "open">> \in Seq(OpNames) /\ "unlinku" \notin Range(<<"seal", "open">>)
  /\ <<"stop", "seal">> \in Seq(OpNames) /\ "unlinku" \notin Range(<<"stop", "seal">>)
  /\ /\ <<"recover", "rmoldest", "create">> \in Seq(OpNames)
     /\ "unlinku" \notin Range(<<"recover", "rmoldest", "create">>)
  /\ \A sz : RotateCalls(sz) \in Seq(OpNames) /\ "unlinku" \notin Range(RotateCalls(sz))
<1>1. <<>> \in Seq(OpNames) /\ "unlinku" \notin Range(<<>>)
  BY EmptyUnits
<1>2. \A x \in OpNames \ {"unlinku"} : <<x>> \in Seq(OpNames) /\ "unlinku" \notin Range(<<x>>)
  BY SingleRange
<1>3. <<"seal", "open">> \in Seq(OpNames) /\ "unlinku" \notin Range(<<"seal", "open">>)
  BY DEF OpNames, Range
<1>4. <<"stop", "seal">> \in Seq(OpNames) /\ "unlinku" \notin Range(<<"stop", "seal">>)
  BY DEF OpNames, Range
<1>5. /\ <<"recover", "rmoldest", "create">> \in Seq(OpNames)
      /\ "unlinku" \notin Range(<<"recover", "rmoldest", "create">>)
  BY DEF OpNames, Range
<1>6. ASSUME NEW sz PROVE RotateCalls(sz) \in Seq(OpNames) /\ "unlinku" \notin Range(RotateCalls(sz))
  <2> DEFINE t == <<"seal", "rename", "create", "rmoldest", "start">>
  <2>1. t \in Seq(OpNames) /\ "unlinku" \notin Range(t)
    BY DEF OpNames, Range
  <2> HIDE DEF t
  <2>2. <<"stop">> \in Seq(OpNames) /\ "unlinku" \notin Range(<<"stop">>)
    BY <1>2 DEF OpNames
  <2>3. PICK p : p = <<"stop">>
    OBVIOUS
  <2>4. PICK e : e = <<>>
    OBVIOUS
  <2>5. RotateCalls(sz) = p \o t \/ RotateCalls(sz) = p \o e
    BY <2>3, <2>4 DEF RotateCalls, t
  <2>6. p \in Seq(OpNames) /\ "unlinku" \notin Range(p) /\ e \in Seq(OpNames) /\ "unlinku" \notin Range(e)
    BY <2>2, <2>3, <2>4, <1>1
  <2>7. p \o t \in Seq(OpNames) /\ Range(p \o t) = Range(p) \cup Range(t)
    BY <2>1, <2>6, ConcatRange
  <2>8. p \o e \in Seq(OpNames) /\ Range(p \o e) = Range(p) \cup Range(e)
    BY <2>6, ConcatRange
  <2> QED
    BY <2>1, <2>5, <2>6, <2>7, <2>8
<1> QED
  BY <1>1, <1>2, <1>3, <1>4, <1>5, <1>6

-----------------------------------------------------------------------------
(* The steps that leave the old files alone. *)

LEMMA StepKeeps ==
  ASSUME KeptInv, UNCHANGED oldVars, gone' = gone, lost' = lost, slipped' = slipped,
         nread' = nread, line' \in Seq(Nat), buf' \in Seq(Nat), current' \in Seq(Nat),
         size' \in Nat, Memory' = Memory, todo' \in Seq(OpNames), UnlinkInv', ProcInv', LineInv'
  PROVE  KeptInv'
<1>0. DataType /\ DataInv /\ Kept
  BY DEF KeptInv
<1>1. files' = files /\ data' = data /\ short' = short /\ fnsave' = fnsave
  BY DEF oldVars
<1>2. DataInv'
  BY <1>0, <1>1, DataStays
<1>3. Kept'
  <2>1. InFiles' = InFiles
    BY <1>1, FilesStay
  <2>2. Losses' = Losses
    BY DEF Losses
  <2>3. (Losses \cup InFiles \cup Memory)' = Losses \cup InFiles \cup Memory
    BY <2>1, <2>2
  <2> QED
    BY <2>3, <1>0, KeptNext
<1>4. DataType'
  BY <1>0, <1>1 DEF DataType, OpNames, Kinds, MaxTime
<1> QED
  BY <1>2, <1>3, <1>4 DEF KeptInv

(* Neither does anything move between line, buffer and current.            *)
LEMMA IdleKeeps ==
  ASSUME KeptInv, UNCHANGED <<curVars, oldVars>>, line' = line, gone' = gone,
         UNCHANGED lossVars, nread' = nread, todo' \in Seq(OpNames), UnlinkInv', ProcInv',
         LineInv'
  PROVE  KeptInv'
<1>1. buf' = buf /\ current' = current /\ size' = size /\ lost' = lost /\ slipped' = slipped
  BY DEF curVars, lossVars
<1>2. line' \in Seq(Nat) /\ buf' \in Seq(Nat) /\ current' \in Seq(Nat) /\ size' \in Nat
  BY <1>1 DEF KeptInv, DataType
<1>3. Memory' = Memory
  BY <1>1 DEF Memory, Units, Range
<1> QED
  BY <1>1, <1>2, <1>3, StepKeeps

LEMMA LoopKeeps ==
  ASSUME KeptInv,
         FillRotate \/ FillReopen \/ FillTimed \/ Poll \/ SigFlag \/ ReadNothing \/ WriteRotate \/ Exit
  PROVE  KeptInv'
<1>0. DataType /\ ProcInv /\ UnlinkInv /\ LineInv
  BY DEF KeptInv
<1>1. /\ UNCHANGED <<curVars, oldVars>> /\ line' = line /\ gone' = gone
      /\ UNCHANGED lossVars /\ nread' = nread /\ UNCHANGED procVars
  BY DEF FillRotate, FillReopen, FillTimed, Fill, Poll, SigFlag, ReadNothing, WriteRotate,
         Exit, lineVars
<1>2. todo' \in {todo, <<"seal", "open">>, RotateCalls(size)}
  BY DEF FillRotate, FillReopen, FillTimed, Fill, Poll, SigFlag, ReadNothing, WriteRotate, Exit
<1>3. todo' \in Seq(OpNames) /\ UnlinkInv'
  <2>1. CASE todo' = todo
    <3>1. files' = files /\ fnsave' = fnsave
      BY <1>1 DEF oldVars
    <3> QED
      BY <2>1, <3>1, <1>0, TodoStays DEF DataType
  <2>2. CASE todo' # todo
    <3>1. todo' \in Seq(OpNames) /\ "unlinku" \notin Range(todo')
      BY <2>2, <1>2, CallNames
    <3> QED
      BY <3>1, NoUnlink
  <2> QED
    BY <2>1, <2>2
<1>4. ProcInv'
  BY <1>0, <1>1, ProcStays DEF oldVars
<1>5. LineInv'
  <2>1. pc = "write" => pc' = "write"
    BY DEF FillRotate, FillReopen, FillTimed, Fill, Poll, SigFlag, ReadNothing, WriteRotate,
           Exit, At
  <2> QED
    BY <2>1, <1>0, <1>1 DEF LineInv
<1> QED
  BY <1>1, <1>3, <1>4, <1>5, IdleKeeps

LEMMA SignalKeeps ==
  ASSUME KeptInv, NEW sg, SendSignal(sg)
  PROVE  KeptInv'
<1>0. DataType /\ ProcInv /\ UnlinkInv /\ LineInv
  BY DEF KeptInv
<1>1. /\ UNCHANGED <<curVars, oldVars>> /\ line' = line /\ gone' = gone /\ todo' = todo
      /\ UNCHANGED lossVars /\ nread' = nread /\ UNCHANGED procVars /\ pc' = pc
  BY DEF SendSignal, lineVars
<1>2. files' = files /\ fnsave' = fnsave /\ data' = data /\ short' = short
  BY <1>1 DEF oldVars
<1>3. todo' \in Seq(OpNames) /\ UnlinkInv'
  BY <1>0, <1>1, <1>2, TodoStays DEF DataType
<1>4. ProcInv'
  BY <1>0, <1>1, <1>2, ProcStays
<1>5. LineInv'
  BY <1>0, <1>1 DEF LineInv
<1> QED
  BY <1>1, <1>3, <1>4, <1>5, IdleKeeps

(* The newline that ends a line that has begun is no unit of the input.    *)
LEMMA EndKeeps ==
  ASSUME KeptInv, ReadEnd
  PROVE  KeptInv'
<1>0. DataType /\ ProcInv /\ UnlinkInv /\ LineInv
  BY DEF KeptInv
<1>1. pc # "write" /\ EndOfInput /\ todo = <<>>
  BY DEF ReadEnd, At
<1>2. /\ UNCHANGED <<curVars, oldVars>> /\ gone' = gone
      /\ UNCHANGED lossVars /\ nread' = nread /\ UNCHANGED procVars
  BY <1>1 DEF EndOfInput
<1>3. line = <<>>
  BY <1>0, <1>1 DEF LineInv
<1>4. ProcInv'
  BY <1>0, <1>2, ProcStays DEF oldVars
<1>5. CASE partial
  <2>1. line' = <<0>> /\ pc' = "write" /\ todo' = todo
    BY <1>1, <1>5 DEF EndOfInput
  <2>2. /\ buf' = buf /\ current' = current /\ size' = size /\ lost' = lost /\ slipped' = slipped
        /\ files' = files /\ fnsave' = fnsave
    BY <1>2 DEF curVars, lossVars, oldVars
  <2>3. /\ line' \in Seq(Nat) /\ buf' \in Seq(Nat) /\ current' \in Seq(Nat) /\ size' \in Nat
        /\ todo' \in Seq(OpNames)
    BY <2>1, <2>2, <1>0 DEF DataType
  <2>4. Memory' = Memory
    <3>1. Units(<<0>>) = {} /\ Units(<<>>) = {}
      BY SingleRange, EmptyUnits DEF Units
    <3>2. Units(line)' = {} /\ Units(line) = {}
      BY <3>1, <2>1, <1>3 DEF Units, Range
    <3>3. Units(current)' = Units(current) /\ Units(buf)' = Units(buf)
      BY <2>2 DEF Units, Range
    <3> QED
      BY <3>2, <3>3 DEF Memory
  <2>5. UnlinkInv'
    BY <2>1, <2>2, <1>0, TodoStays
  <2>6. LineInv'
    BY <2>1 DEF LineInv
  <2> QED
    BY <1>2, <1>4, <2>2, <2>3, <2>4, <2>5, <2>6, StepKeeps
<1>6. CASE ~ partial
  <2>1. line' = line /\ pc' = "exit" /\ todo' = <<"stop", "seal">>
    BY <1>1, <1>6 DEF EndOfInput
  <2>2. todo' \in Seq(OpNames) /\ UnlinkInv'
    BY <2>1, CallNames, NoUnlink
  <2>3. LineInv'
    BY <2>1, <1>3 DEF LineInv
  <2> QED
    BY <1>2, <1>4, <2>1, <2>2, <2>3, IdleKeeps
<1> QED
  BY <1>5, <1>6


-----------------------------------------------------------------------------
(* The steps of the processor that leave the files alone. *)

LEMMA WaitKeeps ==
  ASSUME KeptInv, ProcessorWait
  PROVE  KeptInv'
<1>0. DataType /\ ProcInv /\ UnlinkInv /\ LineInv
  BY DEF KeptInv
<1>1. /\ UNCHANGED <<curVars, oldVars>> /\ line' = line /\ gone' = gone
      /\ UNCHANGED lossVars /\ nread' = nread /\ pc' = pc
  BY DEF ProcessorWait, lineVars
<1>2. todo # <<>> /\ Head(todo) = "stop" /\ todo \in Seq(OpNames)
  BY <1>0 DEF ProcessorWait, Calling, DataType
<1>3. LineInv'
  BY <1>0, <1>1 DEF LineInv
<1>4. CASE ppid = 0
  <2>1. todo' = Tail(todo) /\ UNCHANGED procVars
    BY <1>4 DEF ProcessorWait
  <2>2. todo' \in Seq(OpNames) /\ UnlinkInv'
    BY <2>1, <1>0, <1>2, TodoTail
  <2>3. ProcInv'
    BY <2>1, <1>0, <1>1, ProcStays DEF oldVars
  <2> QED
    BY <1>1, <1>3, <2>2, <2>3, IdleKeeps
<1>5. CASE ppid # 0
  <2>1. /\ processors[ppid] # "run" /\ wstat' = processors[ppid]
        /\ processors' = [processors EXCEPT ![ppid] = "none"]
        /\ ppid' = 0 /\ todo' = <<"result">> \o todo /\ orphans' = orphans
    BY <1>5 DEF ProcessorWait
  <2>2. todo' \in Seq(OpNames) /\ UnlinkInv'
    <3>1. PICK p : p = <<"result">>
      OBVIOUS
    <3>2. p \in Seq(OpNames) /\ "unlinku" \notin Range(p)
      BY <3>1, CallNames DEF OpNames
    <3>3. "unlinku" \notin Range(todo)
      BY <1>0, <1>2, TodoRest
    <3> QED
      BY <2>1, <3>1, <3>2, <3>3, <1>2, TodoFront
  <2>3. ProcInv'
    <3>1. data' = data /\ fnsave' = fnsave /\ short' = short
      BY <1>1 DEF oldVars
    <3>2. wstat' \in Results
      BY <1>0, <1>5, <2>1 DEF ProcInv
    <3>3. processors' \in [Times -> Results \cup {"none", "run"}]
      BY <1>0, <2>1 DEF ProcInv
    <3>4. \A n \in Times : processors'[n] # "none" \/ n \in orphans' => n <= Len(data')
      BY <1>0, <2>1, <3>1 DEF ProcInv
    <3> QED
      BY <1>0, <2>1, <3>1, <3>2, <3>3, <3>4 DEF ProcInv, Results, Times, MaxTime
  <2> QED
    BY <1>1, <1>3, <2>2, <2>3, IdleKeeps
<1> QED
  BY <1>4, <1>5

LEMMA ChildKeeps ==
  ASSUME KeptInv, SigChild
  PROVE  KeptInv'
<1>0. DataType /\ ProcInv /\ UnlinkInv /\ LineInv
  BY DEF KeptInv
<1>1. /\ UNCHANGED <<curVars, oldVars>> /\ line' = line /\ gone' = gone
      /\ UNCHANGED lossVars /\ nread' = nread /\ pc' = pc /\ orphans' = orphans
  BY DEF SigChild, lineVars
<1>2. LineInv'
  BY <1>0, <1>1 DEF LineInv
<1>3. data' = data /\ fnsave' = fnsave /\ short' = short /\ files' = files
  BY <1>1 DEF oldVars
<1>4. processors' = [n \in Times |-> IF n \in Ended THEN "none" ELSE processors[n]]
  BY DEF SigChild
<1>5. processors' \in [Times -> Results \cup {"none", "run"}]
  BY <1>0, <1>4 DEF ProcInv
<1>6. \A n \in Times : processors'[n] # "none" \/ n \in orphans' => n <= Len(data')
  BY <1>0, <1>1, <1>3, <1>4 DEF ProcInv
<1>7. CASE ppid \in Ended
  <2>1. wstat' = processors[ppid] /\ ppid' = 0 /\ todo' = <<"result">>
    BY <1>7 DEF SigChild
  <2>2. todo' \in Seq(OpNames) /\ UnlinkInv'
    <3>1. todo' \in Seq(OpNames) /\ "unlinku" \notin Range(todo')
      BY <2>1, CallNames DEF OpNames
    <3> QED
      BY <3>1, NoUnlink
  <2>3. wstat' \in Results
    BY <1>0, <1>7, <2>1 DEF ProcInv, Ended
  <2>4. ProcInv'
    BY <1>0, <1>1, <1>3, <1>5, <1>6, <2>1, <2>3 DEF ProcInv, Results, Times, MaxTime
  <2> QED
    BY <1>1, <1>2, <2>2, <2>4, IdleKeeps
<1>8. CASE ppid \notin Ended
  <2>1. wstat' = wstat /\ ppid' = ppid /\ todo' = todo
    BY <1>8 DEF SigChild
  <2>2. todo' \in Seq(OpNames) /\ UnlinkInv'
    BY <2>1, <1>0, <1>3, TodoStays DEF DataType
  <2>3. ppid' # 0 => ppid' \in Times /\ ppid' \notin orphans' /\ processors'[ppid'] # "none"
    BY <1>0, <1>1, <1>4, <1>8, <2>1 DEF ProcInv
  <2>4. ProcInv'
    BY <1>0, <1>1, <1>3, <1>5, <1>6, <2>1, <2>3 DEF ProcInv, Results, Times, MaxTime
  <2> QED
    BY <1>1, <1>2, <2>2, <2>4, IdleKeeps
<1> QED
  BY <1>7, <1>8

LEMMA EndsKeeps ==
  ASSUME "killed" \notin Outcomes, KeptInv, NEW m \in Times, ProcessorEnds(m)
  PROVE  KeptInv'
<1>0. DataType /\ ProcInv /\ UnlinkInv /\ LineInv
  BY DEF KeptInv
<1>1. /\ UNCHANGED <<curVars, oldVars>> /\ line' = line /\ gone' = gone /\ todo' = todo
      /\ UNCHANGED lossVars /\ nread' = nread /\ pc' = pc
      /\ ppid' = ppid /\ wstat' = wstat /\ orphans' = orphans
  BY DEF ProcessorEnds, lineVars
<1>2. LineInv'
  BY <1>0, <1>1 DEF LineInv
<1>3. data' = data /\ fnsave' = fnsave /\ short' = short /\ files' = files
  BY <1>1 DEF oldVars
<1>4. todo' \in Seq(OpNames) /\ UnlinkInv'
  BY <1>0, <1>1, <1>3, TodoStays DEF DataType
<1>5. PICK o \in Results : processors' = [processors EXCEPT ![m] = IF m \in orphans THEN "none" ELSE o]
  <2>1. PICK o \in Outcomes : processors' = [processors EXCEPT ![m] = IF m \in orphans THEN "none" ELSE o]
    BY DEF ProcessorEnds
  <2>2. o \in Results
    BY SvlogdAssumption DEF Results
  <2> QED
    BY <2>1, <2>2
<1>6. processors[m] = "run"
  BY DEF ProcessorEnds
<1>7. processors' \in [Times -> Results \cup {"none", "run"}]
  BY <1>0, <1>5 DEF ProcInv
<1>8. \A n \in Times : processors'[n] # "none" \/ n \in orphans' => n <= Len(data')
  BY <1>0, <1>1, <1>3, <1>5, <1>6 DEF ProcInv
<1>9. ppid' # 0 => ppid' \in Times /\ ppid' \notin orphans' /\ processors'[ppid'] # "none"
  <2>1. o # "none"
    BY DEF Results
  <2> QED
    BY <1>0, <1>1, <1>5, <2>1 DEF ProcInv
<1>10. ProcInv'
  BY <1>0, <1>1, <1>3, <1>7, <1>8, <1>9 DEF ProcInv, Results, Times, MaxTime
<1> QED
  BY <1>1, <1>2, <1>4, <1>10, IdleKeeps

LEMMA OpenKeeps ==
  ASSUME KeptInv, Open
  PROVE  KeptInv'
<1>0. DataType /\ ProcInv /\ UnlinkInv /\ LineInv
  BY DEF KeptInv
<1>1. /\ UNCHANGED <<curVars, oldVars>> /\ line' = line /\ gone' = gone
      /\ UNCHANGED lossVars /\ nread' = nread /\ pc' = pc
      /\ ppid' = 0 /\ wstat' = wstat /\ orphans' = orphans /\ processors' = processors
  BY DEF Open, lineVars
<1>2. LineInv'
  BY <1>0, <1>1 DEF LineInv
<1>3. data' = data /\ fnsave' = fnsave /\ short' = short
  BY <1>1 DEF oldVars
<1>4. ProcInv'
  BY <1>0, <1>1, <1>3 DEF ProcInv, Results, Times, MaxTime
<1>5. todo # <<>> /\ todo \in Seq(OpNames)
  BY <1>0 DEF Open, Calling, DataType
<1>6. PICK p : p \in {<<"recover", "rmoldest", "create">>, <<"create">>} /\ todo' = p \o Tail(todo)
  BY DEF Open
<1>7. p \in Seq(OpNames) /\ "unlinku" \notin Range(p)
  BY <1>6, CallNames DEF OpNames
<1>8. todo' \in Seq(OpNames) /\ UnlinkInv'
  BY <1>0, <1>5, <1>6, <1>7, TodoRest, TodoFront
<1> QED
  BY <1>1, <1>2, <1>4, <1>8, IdleKeeps


-----------------------------------------------------------------------------
(* Units move from line to the buffer and from there to current. *)

LEMMA SealKeeps ==
  ASSUME KeptInv, Seal \/ Flush
  PROVE  KeptInv'
<1>0. DataType /\ ProcInv /\ UnlinkInv /\ LineInv
  BY DEF KeptInv
<1>1. /\ UNCHANGED oldVars /\ line' = line /\ gone' = gone /\ UNCHANGED lossVars
      /\ nread' = nread /\ UNCHANGED procVars /\ size' = size
      /\ current' = current \o buf /\ buf' = <<>>
  BY DEF Seal, Flush, lineVars
<1>2. LineInv'
  <2>1. pc = "write" => pc' = "write"
    BY DEF Seal, Flush, At
  <2> QED
    BY <1>0, <1>1, <2>1 DEF LineInv
<1>3. ProcInv'
  BY <1>0, <1>1, ProcStays DEF oldVars
<1>4. todo' \in Seq(OpNames) /\ UnlinkInv'
  <2>1. CASE Seal
    BY <2>1, <1>0, TodoTail DEF Seal, Calling, DataType
  <2>2. CASE Flush
    BY <2>2, <1>0, <1>1, TodoStays DEF Flush, DataType, oldVars
  <2> QED
    BY <2>1, <2>2
<1>5. current \o buf \in Seq(Nat) /\ Units(current \o buf) = Units(current) \cup Units(buf)
  BY <1>0, ConcatUnits DEF DataType
<1>6. Memory' = Memory
  <2>1. Units(current)' = Units(current \o buf) /\ Units(buf)' = {} /\ Units(line)' = Units(line)
    BY <1>1, EmptyUnits DEF Units, Range
  <2> QED
    BY <2>1, <1>5 DEF Memory
<1>7. line' \in Seq(Nat) /\ buf' \in Seq(Nat) /\ current' \in Seq(Nat) /\ size' \in Nat
  BY <1>0, <1>1, <1>5 DEF DataType
<1>8. lost' = lost /\ slipped' = slipped
  BY <1>1 DEF lossVars
<1> QED
  BY <1>1, <1>2, <1>3, <1>4, <1>6, <1>7, <1>8, StepKeeps

LEMMA CreateKeeps ==
  ASSUME KeptInv, Create
  PROVE  KeptInv'
<1>0. DataType /\ ProcInv /\ UnlinkInv /\ LineInv
  BY DEF KeptInv
<1>1. /\ UNCHANGED oldVars /\ line' = line /\ gone' = gone /\ UNCHANGED lossVars
      /\ nread' = nread /\ UNCHANGED procVars /\ pc' = pc
      /\ current' = current /\ buf' = buf
  BY DEF Create, lineVars
<1>2. LineInv'
  BY <1>0, <1>1 DEF LineInv
<1>3. ProcInv'
  BY <1>0, <1>1, ProcStays DEF oldVars
<1>4. todo' \in Seq(OpNames) /\ UnlinkInv'
  BY <1>0, TodoTail DEF Create, Calling, DataType
<1>5. size' \in Nat
  <2>1. Len(current) \in Nat /\ SizeMax \in Nat
    BY <1>0, LenProperties, SvlogdAssumption DEF DataType
  <2> QED
    BY <2>1 DEF Create
<1>6. Memory' = Memory
  BY <1>1 DEF Memory, Units, Range
<1>7. line' \in Seq(Nat) /\ buf' \in Seq(Nat) /\ current' \in Seq(Nat)
  BY <1>0, <1>1 DEF DataType
<1>8. lost' = lost /\ slipped' = slipped
  BY <1>1 DEF lossVars
<1> QED
  BY <1>1, <1>2, <1>3, <1>4, <1>5, <1>6, <1>7, <1>8, StepKeeps

LEMMA FitsLine ==
  ASSUME line \in Seq(Nat), size \in Nat, SizeMax > 0 => size < SizeMax
  PROVE  Fits \in 0..Len(line)
<1>1. Len(line) \in Nat /\ SizeMax \in Nat
  BY LenProperties, SvlogdAssumption
<1> QED
  BY <1>1 DEF Fits

(* What does not fit is counted as slipped.                                *)
LEMMA WriteKeeps ==
  ASSUME KeptInv, Write
  PROVE  KeptInv'
<1>0. DataType /\ ProcInv /\ UnlinkInv /\ LineInv /\ DataInv /\ Kept
  BY DEF KeptInv
<1>1. /\ UNCHANGED oldVars /\ line' = <<>> /\ gone' = gone /\ lost' = lost
      /\ nread' = nread /\ UNCHANGED procVars /\ size' = size + Fits
      /\ slipped' = slipped \cup Units(SubSeq(line, Fits + 1, Len(line)))
  BY DEF Write
<1>2. PICK k \in 0..Len(line) : k = Fits
  BY <1>0, FitsLine DEF Write, DataType
<1>3. PICK a \in Seq(Nat), b \in Seq(Nat) :
        /\ a = SubSeq(line, 1, k) /\ b = SubSeq(line, k + 1, Len(line))
        /\ Units(line) = Units(a) \cup Units(b)
  <2>1. line \in Seq(Nat)
    BY <1>0 DEF DataType
  <2>2. /\ SubSeq(line, 1, k) \in Seq(Nat) /\ SubSeq(line, k + 1, Len(line)) \in Seq(Nat)
        /\ Units(line) = Units(SubSeq(line, 1, k)) \cup Units(SubSeq(line, k + 1, Len(line)))
    BY <2>1, SubUnits
  <2> QED
    BY <2>2, Zenon
<1>4. \/ buf' = buf \o a /\ current' = current
      \/ buf' = <<>> /\ current' = current \o buf \o a
  BY <1>2, <1>3 DEF Write
<1>5. slipped' = slipped \cup Units(b)
  BY <1>1, <1>2, <1>3
<1>6. ProcInv'
  BY <1>0, <1>1, ProcStays DEF oldVars
<1>7. todo' \in Seq(OpNames) /\ UnlinkInv'
  <2>1. todo' = <<>> \/ todo' = RotateCalls(size + Fits)
    BY DEF Write
  <2>2. todo' \in Seq(OpNames) /\ "unlinku" \notin Range(todo')
    BY <2>1, CallNames
  <2> QED
    BY <2>2, NoUnlink
<1>8. LineInv'
  BY <1>1 DEF LineInv
<1>9. line' \in Seq(Nat) /\ size' \in Nat
  <2>1. Len(line) \in Nat
    BY <1>0, LenProperties DEF DataType
  <2>2. size' \in Nat
    BY <1>0, <1>1, <1>2, <2>1 DEF DataType
  <2> QED
    BY <1>1, <2>2
<1>10. Units(line)' = {}
  BY <1>1, EmptyUnits DEF Units, Range
<1>11. /\ buf' \in Seq(Nat) /\ current' \in Seq(Nat)
       /\ Units(buf)' \cup Units(current)' = Units(buf) \cup Units(current) \cup Units(a)
  <2>1. CASE buf' = buf \o a /\ current' = current
    <3>1. buf \o a \in Seq(Nat) /\ Units(buf \o a) = Units(buf) \cup Units(a)
      BY <1>0, ConcatUnits DEF DataType
    <3>2. Units(buf)' = Units(buf \o a) /\ Units(current)' = Units(current)
      BY <2>1 DEF Units, Range
    <3> QED
      BY <2>1, <3>1, <3>2, <1>0 DEF DataType
  <2>2. CASE buf' = <<>> /\ current' = current \o buf \o a
    <3>1. PICK c \in Seq(Nat) : c = current \o buf /\ Units(c) = Units(current) \cup Units(buf)
      BY <1>0, ConcatUnits DEF DataType
    <3>2. c \o a \in Seq(Nat) /\ Units(c \o a) = Units(c) \cup Units(a)
      BY ConcatUnits
    <3>3. current' = c \o a
      BY <2>2, <3>1
    <3>4. Units(current)' = Units(c \o a) /\ Units(buf)' = {}
      BY <2>2, <3>3, EmptyUnits DEF Units, Range
    <3>5. buf' \in Seq(Nat)
      BY <2>2
    <3> QED
      BY <3>1, <3>2, <3>3, <3>4, <3>5
  <2> QED
    BY <2>1, <2>2, <1>4
<1>12. (Losses \cup InFiles \cup Memory)' = Losses \cup InFiles \cup Memory
  <2>1. InFiles' = InFiles
    BY <1>1, FilesStay DEF oldVars
  <2>2. Losses' = Losses \cup Units(b)
    BY <1>1, <1>5 DEF Losses
  <2>3. Memory' = Units(buf) \cup Units(current) \cup Units(a)
    BY <1>10, <1>11 DEF Memory
  <2>4. Memory = Units(buf) \cup Units(current) \cup Units(a) \cup Units(b)
    BY <1>3 DEF Memory
  <2> QED
    BY <2>1, <2>2, <2>3, <2>4
<1>13. Kept'
  BY <1>0, <1>1, <1>12, KeptNext
<1>14. DataInv'
  BY <1>0, <1>1, DataStays DEF oldVars
<1>15. DataType'
  BY <1>0, <1>1, <1>7, <1>9, <1>11 DEF DataType, oldVars, OpNames, Kinds, MaxTime
<1> QED
  BY <1>6, <1>7, <1>8, <1>13, <1>14, <1>15 DEF KeptInv


-----------------------------------------------------------------------------
(* The steps that change the old files. *)

LEMMA FilesKeeps ==
  ASSUME KeptInv, data' = data, fnsave' = fnsave, nread' = nread,
         files' \subseteq (1..Len(data)) \X Kinds,
         line' \in Seq(Nat), buf' \in Seq(Nat), current' \in Seq(Nat), size' \in Nat,
         (Losses \cup InFiles \cup Memory)' = Losses \cup InFiles \cup Memory,
         todo' \in Seq(OpNames), UnlinkInv', ProcInv', LineInv'
  PROVE  KeptInv'
<1>0. DataType /\ DataInv /\ Kept
  BY DEF KeptInv
<1>1. DataInv'
  BY <1>0, DataStays
<1>2. Kept'
  BY <1>0, KeptNext
<1>3. DataType'
  BY <1>0 DEF DataType, OpNames, Kinds, MaxTime
<1> QED
  BY <1>1, <1>2, <1>3 DEF KeptInv

(* What is removed and nowhere else is counted as gone.                    *)
LEMMA RemoveCounts ==
  ASSUME NEW fs, Remove(fs), data' = data, short' = short, lost' = lost, slipped' = slipped
  PROVE  (Losses \cup InFiles)' = Losses \cup InFiles /\ files' \subseteq files
<1>1. files' = files \ fs /\ gone' = gone \cup (InFiles \ OldUnits(files \ fs, short))
  BY DEF Remove, InFiles
<1>2. \A u : u \in InFiles' <=> u \in OldUnits(files \ fs, short)
  BY <1>1, OldUnit, OldUnitNext DEF InFiles
<1>3. \A u : u \in OldUnits(files \ fs, short) => u \in InFiles
  BY OldUnit DEF InFiles
<1> QED
  BY <1>1, <1>2, <1>3 DEF Losses

LEMMA RmOldestKeeps ==
  ASSUME KeptInv, RmOldest
  PROVE  KeptInv'
<1>0. DataType /\ ProcInv /\ UnlinkInv /\ LineInv
  BY DEF KeptInv
<1>1. /\ line' = line /\ buf' = buf /\ current' = current /\ size' = size /\ pc' = pc
      /\ data' = data /\ short' = short /\ fnsave' = fnsave /\ UNCHANGED procVars
      /\ nread' = nread /\ lost' = lost /\ slipped' = slipped
  BY DEF RmOldest, lineVars, curVars, lossVars
<1>2. PICK fs : Remove(fs)
  BY DEF RmOldest
<1>3. (Losses \cup InFiles)' = Losses \cup InFiles /\ files' \subseteq files
  BY <1>1, <1>2, RemoveCounts
<1>4. Memory' = Memory
  BY <1>1 DEF Memory, Units, Range
<1>5. (Losses \cup InFiles \cup Memory)' = Losses \cup InFiles \cup Memory
  BY <1>3, <1>4
<1>6. todo' \in Seq(OpNames) /\ UnlinkInv'
  BY <1>0, TodoTail DEF RmOldest, Calling, DataType
<1>7. ProcInv' /\ LineInv'
  BY <1>0, <1>1, ProcStays DEF LineInv
<1>8. /\ files' \subseteq (1..Len(data)) \X Kinds
      /\ line' \in Seq(Nat) /\ buf' \in Seq(Nat) /\ current' \in Seq(Nat) /\ size' \in Nat
  BY <1>0, <1>1, <1>3 DEF DataType
<1> QED
  BY <1>1, <1>5, <1>6, <1>7, <1>8, FilesKeeps

(* The units that a failed write leaves in the buffer are still in line.   *)
LEMMA NoSpaceKeeps ==
  ASSUME KeptInv, WriteNoSpace
  PROVE  KeptInv'
<1>0. DataType /\ ProcInv /\ UnlinkInv /\ LineInv
  BY DEF KeptInv
<1>1. /\ line' = line /\ current' = current /\ size' = size /\ pc' = pc /\ todo' = todo
      /\ data' = data /\ short' = short /\ fnsave' = fnsave /\ UNCHANGED procVars
      /\ nread' = nread /\ lost' = lost /\ slipped' = slipped /\ Remove(Victim)
      /\ todo = <<>> /\ pc = "write"
  BY DEF WriteNoSpace, lineVars, At
<1>2. PICK j \in 0..Fits - 1 : buf' = buf \o SubSeq(line, 1, j)
  BY DEF WriteNoSpace
<1>3. Fits \in 0..Len(line) /\ Len(line) \in Nat
  BY <1>0, FitsLine, LenProperties DEF WriteNoSpace, DataType
<1>4. j \in 0..Len(line)
  BY <1>2, <1>3
<1>5. PICK a : a = SubSeq(line, 1, j)
  OBVIOUS
<1>6. a \in Seq(Nat) /\ Units(a) \subseteq Units(line)
  <2>1. line \in Seq(Nat)
    BY <1>0 DEF DataType
  <2>2. /\ SubSeq(line, 1, j) \in Seq(Nat)
        /\ Units(line) = Units(SubSeq(line, 1, j)) \cup Units(SubSeq(line, j + 1, Len(line)))
    BY <1>4, <2>1, SubUnits
  <2> QED
    BY <1>5, <2>2, Zenon
<1>7. buf' \in Seq(Nat) /\ Units(buf)' = Units(buf) \cup Units(a)
  <2>1. buf \o a \in Seq(Nat) /\ Units(buf \o a) = Units(buf) \cup Units(a)
    BY <1>0, <1>6, ConcatUnits DEF DataType
  <2>2. buf' = buf \o a
    BY <1>2, <1>5
  <2>3. Units(buf)' = Units(buf \o a)
    BY <2>2 DEF Units, Range
  <2> QED
    BY <2>1, <2>2, <2>3
<1>8. Memory' = Memory
  <2>1. Units(current)' = Units(current) /\ Units(line)' = Units(line)
    BY <1>1 DEF Units, Range
  <2> QED
    BY <2>1, <1>6, <1>7 DEF Memory
<1>9. (Losses \cup InFiles)' = Losses \cup InFiles /\ files' \subseteq files
  BY <1>1, RemoveCounts
<1>10. (Losses \cup InFiles \cup Memory)' = Losses \cup InFiles \cup Memory
  BY <1>8, <1>9
<1>11. todo' \in Seq(OpNames) /\ UnlinkInv'
  BY <1>1, CallNames, NoUnlink
<1>12. ProcInv' /\ LineInv'
  BY <1>0, <1>1, ProcStays DEF LineInv
<1>13. /\ files' \subseteq (1..Len(data)) \X Kinds
       /\ line' \in Seq(Nat) /\ current' \in Seq(Nat) /\ size' \in Nat
  BY <1>0, <1>1, <1>9 DEF DataType
<1> QED
  BY <1>1, <1>7, <1>10, <1>11, <1>12, <1>13, FilesKeeps

LEMMA StartKeeps ==
  ASSUME KeptInv, ProcessorStart
  PROVE  KeptInv'
<1>0. DataType /\ ProcInv /\ UnlinkInv /\ LineInv
  BY DEF KeptInv
<1>1. /\ line' = line /\ buf' = buf /\ current' = current /\ size' = size /\ pc' = pc
      /\ data' = data /\ short' = short /\ fnsave' = fnsave /\ wstat' = wstat
      /\ orphans' = orphans /\ nread' = nread /\ gone' = gone /\ lost' = lost /\ slipped' = slipped
  BY DEF ProcessorStart, lineVars, curVars, lossVars
<1>2. \/ files' = files
      \/ Exists(fnsave, "u") /\ files' = files \cup {<<fnsave, "t">>}
  BY DEF ProcessorStart
<1>3. files' \subseteq (1..Len(data)) \X Kinds
  BY <1>0, <1>2 DEF DataType, Exists, Kinds
<1>4. InFiles' = InFiles
  <2>1. \A u : u \in InFiles' <=> u \in InFiles
    BY <1>1, <1>2, OldUnit, OldUnitNext DEF InFiles
  <2> QED
    BY <2>1
<1>5. Memory' = Memory /\ Losses' = Losses
  BY <1>1 DEF Memory, Losses, Units, Range
<1>6. (Losses \cup InFiles \cup Memory)' = Losses \cup InFiles \cup Memory
  BY <1>4, <1>5
<1>7. todo' \in Seq(OpNames) /\ UnlinkInv'
  BY <1>0, TodoTail DEF ProcessorStart, Calling, DataType
<1>8. ProcInv'
  <2>1. CASE HasProcessor /\ ppid = 0
    <3>1. /\ ppid' = fnsave
          /\ processors' = [processors EXCEPT ![fnsave] = IF Exists(fnsave, "u") THEN "run" ELSE "fail"]
      BY <2>1 DEF ProcessorStart, Started
    <3>2. fnsave # 0 => fnsave \in Times /\ fnsave <= Len(data)
      <4>1. Len(data) \in Nat /\ Len(data) <= MaxTime /\ fnsave \in 0..Len(data)
        BY <1>0, LenProperties DEF DataType
      <4>2. MaxTime \in Nat
        BY SvlogdAssumption DEF MaxTime
      <4> QED
        BY <4>1, <4>2 DEF Times
    <3>3. processors' \in [Times -> Results \cup {"none", "run"}]
      BY <1>0, <3>1 DEF ProcInv, Results
    <3>4. \A n \in Times : processors'[n] # "none" \/ n \in orphans' => n <= Len(data')
      <4> SUFFICES ASSUME NEW n \in Times, processors'[n] # "none" \/ n \in orphans'
                   PROVE  n <= Len(data')
        OBVIOUS
      <4>1. CASE n = fnsave
        <5>1. n # 0
          BY DEF Times
        <5> QED
          BY <5>1, <4>1, <3>2, <1>1
      <4>2. CASE n # fnsave
        <5>1. processors'[n] = processors[n]
          BY <4>2, <3>1, <1>0 DEF ProcInv
        <5> QED
          BY <5>1, <1>0, <1>1 DEF ProcInv
      <4> QED
        BY <4>1, <4>2
    <3>5. ppid' # 0 => ppid' \in Times /\ ppid' \notin orphans' /\ processors'[ppid'] # "none"
      BY <1>0, <1>1, <3>1, <3>2 DEF ProcInv
    <3> QED
      BY <1>0, <1>1, <3>3, <3>4, <3>5 DEF ProcInv, Results, Times, MaxTime
  <2>2. CASE ~ (HasProcessor /\ ppid = 0)
    <3>1. ppid' = ppid /\ processors' = processors
      BY <2>2 DEF ProcessorStart
    <3> QED
      BY <3>1, <1>0, <1>1, ProcStays DEF procVars
  <2> QED
    BY <2>1, <2>2
<1>9. LineInv'
  BY <1>0, <1>1 DEF LineInv
<1>10. line' \in Seq(Nat) /\ buf' \in Seq(Nat) /\ current' \in Seq(Nat) /\ size' \in Nat
  BY <1>0, <1>1 DEF DataType
<1> QED
  BY <1>1, <1>3, <1>6, <1>7, <1>8, <1>9, <1>10, FilesKeeps


LEMMA FailedKeeps ==
  ASSUME KeptInv, ProcessorFailed
  PROVE  KeptInv'
<1>0. DataType /\ ProcInv /\ UnlinkInv /\ LineInv
  BY DEF KeptInv
<1>1. /\ line' = line /\ buf' = buf /\ current' = current /\ size' = size /\ pc' = pc
      /\ data' = data /\ short' = short /\ fnsave' = fnsave /\ UNCHANGED procVars
      /\ nread' = nread /\ gone' = gone /\ lost' = lost /\ slipped' = slipped
      /\ files' = files \ {<<fnsave, "t">>}
  BY DEF ProcessorFailed, lineVars, curVars, lossVars
<1>2. InFiles' = InFiles
  <2>1. \A u : u \in InFiles' <=> u \in InFiles
    BY <1>1, OldUnit, OldUnitNext DEF InFiles
  <2> QED
    BY <2>1
<1>3. Memory' = Memory /\ Losses' = Losses
  BY <1>1 DEF Memory, Losses, Units, Range
<1>4. (Losses \cup InFiles \cup Memory)' = Losses \cup InFiles \cup Memory
  BY <1>2, <1>3
<1>5. todo' \in Seq(OpNames) /\ UnlinkInv'
  <2>1. todo # <<>> /\ todo \in Seq(OpNames) /\ todo' = <<"start">> \o Tail(todo)
    BY <1>0 DEF ProcessorFailed, Calling, DataType
  <2>2. PICK p : p = <<"start">>
    OBVIOUS
  <2>3. p \in Seq(OpNames) /\ "unlinku" \notin Range(p)
    BY <2>2, CallNames DEF OpNames
  <2> QED
    BY <1>0, <2>1, <2>2, <2>3, TodoRest, TodoFront
<1>6. ProcInv' /\ LineInv'
  BY <1>0, <1>1, ProcStays DEF LineInv
<1>7. /\ files' \subseteq (1..Len(data)) \X Kinds
      /\ line' \in Seq(Nat) /\ buf' \in Seq(Nat) /\ current' \in Seq(Nat) /\ size' \in Nat
  BY <1>0, <1>1 DEF DataType
<1> QED
  BY <1>1, <1>4, <1>5, <1>6, <1>7, FilesKeeps

(* .t becomes .s, which holds all of .u, so .u may be unlinked.            *)
LEMMA DoneKeeps ==
  ASSUME KeptInv, ProcessorDone
  PROVE  KeptInv'
<1>0. DataType /\ ProcInv /\ UnlinkInv /\ LineInv /\ DataInv /\ Kept
  BY DEF KeptInv
<1>1. /\ line' = line /\ buf' = buf /\ current' = current /\ size' = size /\ pc' = pc
      /\ data' = data /\ fnsave' = fnsave /\ UNCHANGED procVars
      /\ nread' = nread /\ gone' = gone /\ lost' = lost /\ slipped' = slipped
      /\ files' = (files \ {<<fnsave, "t">>}) \cup {<<fnsave, "s">>}
      /\ <<fnsave, "t">> \in files
  BY DEF ProcessorDone, lineVars, curVars, lossVars, Exists
<1>2. short = {} /\ short' = short
  BY <1>0 DEF ProcessorDone, ProcInv, Failed, Results
<1>3. fnsave \in 1..Len(data)
  BY <1>0, <1>1 DEF DataType
<1>4. InFiles' = InFiles \cup Units(data[fnsave])
  <2>1. ASSUME NEW u, u \in InFiles PROVE u \in InFiles'
    <3>1. PICK f \in files : (f[2] = "u" \/ (f[2] = "s" /\ f[1] \notin short)) /\ u \in Units(data[f[1]])
      BY <2>1, OldUnit DEF InFiles
    <3>2. f \in files'
      BY <3>1, <1>1
    <3> QED
      BY <3>1, <3>2, <1>1, <1>2, OldUnitNext DEF InFiles
  <2>2. ASSUME NEW u, u \in Units(data[fnsave]) PROVE u \in InFiles'
    <3>1. PICK g : g = <<fnsave, "s">>
      OBVIOUS
    <3>2. g \in files' /\ g[2] = "s" /\ g[1] \notin short' /\ u \in Units(data'[g[1]])
      BY <2>2, <3>1, <1>1, <1>2
    <3> QED
      BY <3>2, OldUnitNext DEF InFiles
  <2>3. ASSUME NEW u, u \in InFiles' PROVE u \in InFiles \/ u \in Units(data[fnsave])
    <3>1. PICK f \in files' :
            (f[2] = "u" \/ (f[2] = "s" /\ f[1] \notin short')) /\ u \in Units(data'[f[1]])
      BY <2>3, OldUnitNext DEF InFiles
    <3>2. CASE f \in files
      BY <3>1, <3>2, <1>1, <1>2, OldUnit DEF InFiles
    <3>3. CASE f = <<fnsave, "s">>
      BY <3>1, <3>3, <1>1
    <3> QED
      BY <3>2, <3>3, <1>1
  <2> QED
    BY <2>1, <2>2, <2>3
<1>5. Memory' = Memory /\ Losses' = Losses
  BY <1>1 DEF Memory, Losses, Units, Range
<1>6. (Losses \cup InFiles \cup Memory)' = Losses \cup InFiles \cup Memory
  <2>1. Units(data[fnsave]) \subseteq 1..nread
    BY <1>0, <1>3 DEF DataInv
  <2>2. 1..nread = Losses \cup InFiles \cup Memory
    BY <1>0, KeptIs
  <2> QED
    BY <1>4, <1>5, <2>1, <2>2
<1>7. todo' \in Seq(OpNames) /\ UnlinkInv'
  <2>1. todo # <<>> /\ todo \in Seq(OpNames) /\ todo' = <<"unlinku">> \o Tail(todo)
    BY <1>0 DEF ProcessorDone, Calling, DataType
  <2>2. PICK p : p = <<"unlinku">>
    OBVIOUS
  <2>3. PICK t \in Seq(OpNames) : t = Tail(todo) /\ "unlinku" \notin Range(t)
    BY <1>0, <2>1, TodoRest
  <2>4. p \in Seq(OpNames) /\ Len(p) = 1
    BY <2>2 DEF OpNames
  <2>5. p \o t \in Seq(OpNames) /\ Tail(p \o t) = t
    <3>1. p \o t \in Seq(OpNames)
      BY <2>4, ConcatProperties
    <3>2. Tail(p \o t) = t
      BY <2>2, <2>4
    <3> QED
      BY <3>1, <3>2
  <2>6. todo' = p \o t
    BY <2>1, <2>2, <2>3
  <2>7. Exists(fnsave, "s")'
    BY <1>1 DEF Exists
  <2> QED
    BY <2>3, <2>5, <2>6, <2>7 DEF UnlinkInv
<1>8. ProcInv' /\ LineInv'
  BY <1>0, <1>1, <1>2, ProcStays DEF LineInv
<1>9. /\ files' \subseteq (1..Len(data)) \X Kinds
      /\ line' \in Seq(Nat) /\ buf' \in Seq(Nat) /\ current' \in Seq(Nat) /\ size' \in Nat
  BY <1>0, <1>1, <1>3 DEF DataType, Kinds
<1> QED
  BY <1>1, <1>6, <1>7, <1>8, <1>9, FilesKeeps

LEMMA UnlinkKeeps ==
  ASSUME KeptInv, UnlinkUnprocessed
  PROVE  KeptInv'
<1>0. DataType /\ ProcInv /\ UnlinkInv /\ LineInv
  BY DEF KeptInv
<1>1. /\ line' = line /\ buf' = buf /\ current' = current /\ size' = size /\ pc' = pc
      /\ data' = data /\ short' = short /\ fnsave' = fnsave /\ UNCHANGED procVars
      /\ nread' = nread /\ gone' = gone /\ lost' = lost /\ slipped' = slipped
      /\ files' = files \ {<<fnsave, "u">>}
  BY DEF UnlinkUnprocessed, lineVars, curVars, lossVars
<1>2. <<fnsave, "s">> \in files /\ short = {}
  BY <1>0 DEF UnlinkUnprocessed, UnlinkInv, Exists, ProcInv
<1>3. InFiles' = InFiles
  <2>1. ASSUME NEW u, u \in InFiles PROVE u \in InFiles'
    <3>1. PICK f \in files : (f[2] = "u" \/ (f[2] = "s" /\ f[1] \notin short)) /\ u \in Units(data[f[1]])
      BY <2>1, OldUnit DEF InFiles
    <3>2. CASE f = <<fnsave, "u">>
      <4>1. u \in Units(data[fnsave])
        BY <3>1, <3>2
      <4>2. PICK g : g = <<fnsave, "s">>
        OBVIOUS
      <4>3. g \in files' /\ g[2] = "s" /\ g[1] \notin short' /\ u \in Units(data'[g[1]])
        BY <4>1, <4>2, <1>1, <1>2
      <4> QED
        BY <4>3, OldUnitNext DEF InFiles
    <3>3. CASE f # <<fnsave, "u">>
      BY <3>1, <3>3, <1>1, OldUnitNext DEF InFiles
    <3> QED
      BY <3>2, <3>3
  <2>2. ASSUME NEW u, u \in InFiles' PROVE u \in InFiles
    BY <2>2, <1>1, OldUnit, OldUnitNext DEF InFiles
  <2> QED
    BY <2>1, <2>2
<1>4. Memory' = Memory /\ Losses' = Losses
  BY <1>1 DEF Memory, Losses, Units, Range
<1>5. (Losses \cup InFiles \cup Memory)' = Losses \cup InFiles \cup Memory
  BY <1>3, <1>4
<1>6. todo' \in Seq(OpNames) /\ UnlinkInv'
  BY <1>0, TodoTail DEF UnlinkUnprocessed, Calling, DataType
<1>7. ProcInv' /\ LineInv'
  BY <1>0, <1>1, ProcStays DEF LineInv
<1>8. /\ files' \subseteq (1..Len(data)) \X Kinds
      /\ line' \in Seq(Nat) /\ buf' \in Seq(Nat) /\ current' \in Seq(Nat) /\ size' \in Nat
  BY <1>0, <1>1 DEF DataType
<1> QED
  BY <1>1, <1>5, <1>6, <1>7, <1>8, FilesKeeps

LEMMA RenameKeeps ==
  ASSUME KeptInv, Rename \/ Recover
  PROVE  KeptInv'
<1>0. DataType /\ ProcInv /\ UnlinkInv /\ LineInv /\ DataInv /\ Kept
  BY DEF KeptInv
<1>1. PICK kind \in {"u", "s"} : RenameTo(kind)
  BY DEF Rename, Recover
<1>2. /\ line' = line /\ buf' = buf /\ current' = <<>> /\ size' = size /\ pc' = pc
      /\ short' = short /\ UNCHANGED procVars /\ todo' = Tail(todo)
      /\ nread' = nread /\ gone' = gone /\ lost' = lost /\ slipped' = slipped
      /\ fnsave' = Len(data) + 1 /\ fnsave' <= MaxTime
      /\ files' = files \cup {<<fnsave', kind>>} /\ data' = Append(data, current)
  BY <1>1 DEF RenameTo, lineVars, lossVars
<1>3. PICK m \in Nat : m = Len(data)
  BY <1>0, LenProperties DEF DataType
<1>4. /\ data' \in Seq(Seq(Nat)) /\ Len(data') = m + 1
      /\ \A n \in 1..m : data'[n] = data[n]
      /\ data'[m + 1] = current
  BY <1>0, <1>2, <1>3, AppendProperties DEF DataType
<1>5. fnsave' = m + 1 /\ m + 1 <= MaxTime
  BY <1>2, <1>3
<1>6. files' = files \cup {<<m + 1, kind>>} /\ files \subseteq (1..m) \X Kinds
  BY <1>0, <1>2, <1>3, <1>5 DEF DataType
<1>7. short = {}
  BY <1>0 DEF ProcInv
<1>8. InFiles' = InFiles \cup Units(current)
  <2>1. \A f \in files : f[1] \in 1..m /\ data'[f[1]] = data[f[1]]
    BY <1>4, <1>6
  <2>2. \A u : u \in InFiles' <=> u \in InFiles \/ u \in Units(current)
    <3>1. ASSUME NEW u, u \in InFiles PROVE u \in InFiles'
      <4>1. PICK f \in files : (f[2] = "u" \/ (f[2] = "s" /\ f[1] \notin short)) /\ u \in Units(data[f[1]])
        BY <3>1, OldUnit DEF InFiles
      <4>2. f \in files' /\ u \in Units(data'[f[1]])
        BY <4>1, <1>6, <2>1
      <4> QED
        BY <4>1, <4>2, <1>2, OldUnitNext DEF InFiles
    <3>2. ASSUME NEW u, u \in Units(current) PROVE u \in InFiles'
      <4>1. PICK g : g = <<m + 1, kind>>
        OBVIOUS
      <4>2. g \in files' /\ g[2] = kind /\ g[1] \notin short' /\ u \in Units(data'[g[1]])
        BY <3>2, <4>1, <1>2, <1>4, <1>6, <1>7
      <4> QED
        BY <4>2, OldUnitNext DEF InFiles
    <3>3. ASSUME NEW u, u \in InFiles' PROVE u \in InFiles \/ u \in Units(current)
      <4>1. PICK f \in files' :
              (f[2] = "u" \/ (f[2] = "s" /\ f[1] \notin short')) /\ u \in Units(data'[f[1]])
        BY <3>3, OldUnitNext DEF InFiles
      <4>2. CASE f \in files
        BY <4>1, <4>2, <2>1, <1>2, OldUnit DEF InFiles
      <4>3. CASE f = <<m + 1, kind>>
        BY <4>1, <4>3, <1>4
      <4> QED
        BY <4>2, <4>3, <1>6
    <3> QED
      BY <3>1, <3>2, <3>3
  <2> QED
    BY <2>2
<1>9. Memory' = Units(buf) \cup Units(line)
  <2>1. Units(current)' = {} /\ Units(buf)' = Units(buf) /\ Units(line)' = Units(line)
    BY <1>2, EmptyUnits DEF Units, Range
  <2> QED
    BY <2>1 DEF Memory
<1>10. Kept'
  <2>1. Losses' = Losses
    BY <1>2 DEF Losses
  <2>2. (Losses \cup InFiles \cup Memory)' = Losses \cup InFiles \cup Memory
    BY <1>8, <1>9, <2>1 DEF Memory
  <2> QED
    BY <1>0, <1>2, <2>2, KeptNext
<1>11. DataInv'
  <2>1. Units(current) \subseteq 1..nread
    BY <1>0, KeptIs DEF Memory
  <2>2. ASSUME NEW n \in 1..(m + 1) PROVE Units(data'[n]) \subseteq 1..nread
    <3>1. CASE n \in 1..m
      BY <3>1, <1>0, <1>3, <1>4 DEF DataInv
    <3>2. CASE n = m + 1
      BY <3>2, <1>4, <2>1
    <3> QED
      BY <3>1, <3>2
  <2>3. \A n \in 1..Len(data') : Units(data'[n]) \subseteq 1..nread'
    BY <2>2, <1>2, <1>4
  <2> QED
    BY <2>3 DEF DataInv, Units, Range
<1>12. ProcInv'
  <2>1. \A n \in Times : processors'[n] # "none" \/ n \in orphans' => n <= Len(data')
    <3>1. \A n \in Times : processors[n] # "none" \/ n \in orphans => n <= m
      BY <1>0, <1>3 DEF ProcInv
    <3>2. \A n \in Times : n <= m => n <= m + 1
      BY DEF Times
    <3> QED
      BY <3>1, <3>2, <1>2, <1>4 DEF procVars
  <2>2. fnsave' \notin orphans'
    <3>1. m + 1 \in Times /\ ~ (m + 1 <= m)
      BY <1>5 DEF Times
    <3>2. m + 1 \notin orphans
      BY <3>1, <1>0, <1>3 DEF ProcInv
    <3> QED
      BY <3>2, <1>2, <1>5 DEF procVars
  <2> QED
    BY <2>1, <2>2, <1>0, <1>2 DEF ProcInv, procVars, Results, Times, MaxTime
<1>13. LineInv'
  BY <1>0, <1>2 DEF LineInv
<1>14. todo' \in Seq(OpNames) /\ UnlinkInv'
  BY <1>0, <1>2, TodoTail DEF Rename, Recover, Calling, DataType
<1>15. DataType'
  <2>1. Len(data') <= MaxTime /\ fnsave' \in 0..Len(data')
    BY <1>4, <1>5
  <2>2. files' \subseteq (1..Len(data')) \X Kinds
    <3>1. m + 1 \in 1..(m + 1) /\ 1..m \subseteq 1..(m + 1)
      OBVIOUS
    <3>2. kind \in Kinds
      BY DEF Kinds
    <3> QED
      BY <3>1, <3>2, <1>4, <1>6
  <2> QED
    BY <2>1, <2>2, <1>0, <1>2, <1>4, <1>14 DEF DataType, OpNames, Kinds, MaxTime
<1> QED
  BY <1>10, <1>11, <1>12, <1>13, <1>14, <1>15 DEF KeptInv


-----------------------------------------------------------------------------
(* Reading, and the death of svlogd. *)

LEMMA ReadKeeps ==
  ASSUME KeptInv, Read
  PROVE  KeptInv'
<1>0. DataType /\ ProcInv /\ UnlinkInv /\ LineInv /\ DataInv /\ Kept
  BY DEF KeptInv
<1>1. /\ buf' = buf /\ current' = current /\ size' = size /\ pc' = "write" /\ todo' = todo
      /\ files' = files /\ data' = data /\ short' = short /\ fnsave' = fnsave
      /\ UNCHANGED procVars /\ gone' = gone /\ lost' = lost /\ slipped' = slipped
  BY DEF Read, curVars, oldVars, lossVars
<1>2. line = <<>>
  BY <1>0 DEF Read, At, LineInv
<1>3. PICK r \in Nat : r = nread
  BY <1>0 DEF DataType
<1>4. PICK k \in Nat : /\ k > 0 /\ nread' = r + k /\ line' = [i \in 1..k |-> r + i]
  <2>1. PICK k \in 1..LineMax : nread' = nread + k /\ line' = [i \in 1..k |-> nread + i]
    BY DEF Read
  <2>2. k \in Nat /\ k > 0
    BY SvlogdAssumption
  <2> QED
    BY <2>1, <2>2, <1>3
<1>5. line' \in Seq(Nat) /\ Units(line') = (r + 1)..(r + k)
  <2>1. line' \in [1..k -> Nat] /\ DOMAIN line' = 1..k
    BY <1>4
  <2>2. line' \in Seq(Nat)
    BY <2>1
  <2>3. ASSUME NEW u \in Units(line') PROVE u \in (r + 1)..(r + k)
    <3>1. PICK i \in 1..k : u = line'[i]
      BY <2>1, <2>3 DEF Units, Range
    <3>2. u = r + i
      BY <3>1, <1>4
    <3> QED
      BY <3>2
  <2>4. ASSUME NEW u \in (r + 1)..(r + k) PROVE u \in Units(line')
    <3>1. u - r \in 1..k /\ r + (u - r) = u /\ u # 0
      BY <2>4
    <3>2. line'[u - r] = u
      BY <3>1, <1>4
    <3> QED
      BY <3>1, <3>2, <2>1 DEF Units, Range
  <2> QED
    BY <2>2, <2>3, <2>4
<1>6. 1..nread' = (1..nread) \cup ((r + 1)..(r + k))
  BY <1>3, <1>4
<1>7. Kept'
  <2>1. InFiles' = InFiles
    BY <1>1, FilesStay
  <2>2. Losses' = Losses
    BY <1>1 DEF Losses
  <2>3. Memory' = Memory \cup ((r + 1)..(r + k))
    <3>1. /\ Units(current)' = Units(current) /\ Units(buf)' = Units(buf)
          /\ Units(line)' = Units(line') /\ Units(line) = {}
      BY <1>1, <1>2, EmptyUnits DEF Units, Range
    <3> QED
      BY <3>1, <1>5 DEF Memory
  <2>4. 1..nread = Losses \cup InFiles \cup Memory
    BY <1>0, KeptIs
  <2>5. 1..nread' = (Losses \cup InFiles \cup Memory)'
    BY <1>6, <2>1, <2>2, <2>3, <2>4
  <2> QED
    BY <2>5 DEF Kept, Losses, InFiles, Memory
<1>8. DataInv'
  <2>1. \A n \in 1..Len(data) : Units(data[n]) \subseteq 1..nread'
    BY <1>0, <1>6 DEF DataInv
  <2> QED
    BY <2>1, <1>1 DEF DataInv, Units, Range
<1>9. ProcInv' /\ LineInv' /\ UnlinkInv'
  BY <1>0, <1>1, ProcStays, TodoStays DEF LineInv
<1>10. nread' \in Nat
  BY <1>4
<1>11. DataType'
  BY <1>0, <1>1, <1>5, <1>10 DEF DataType, OpNames, Kinds, MaxTime
<1> QED
  BY <1>7, <1>8, <1>9, <1>11 DEF KeptInv

LEMMA AgainKeeps ==
  ASSUME KeptInv, Again
  PROVE  KeptInv'
<1>0. DataType /\ ProcInv /\ UnlinkInv /\ LineInv /\ DataInv /\ Kept
  BY DEF KeptInv
<1>1. /\ line' = <<>> /\ buf' = <<>> /\ current' = current /\ size' = 0 /\ todo' = <<"open">>
      /\ files' = files /\ data' = data /\ short' = short /\ fnsave' = 0 /\ pc' = "fill"
      /\ ppid' = 0 /\ wstat' = "ok" /\ gone' = gone /\ nread' = nread
      /\ orphans' = {n \in Times : processors[n] = "run"}
      /\ processors' = [n \in Times |-> IF processors[n] = "run" THEN "run" ELSE "none"]
      /\ lost' \cup slipped' = lost \cup slipped \cup Units(line) \cup Units(buf)
  BY DEF Again
<1>2. Kept'
  <2>1. InFiles' = InFiles
    BY <1>1, FilesStay
  <2>2. Losses' = Losses \cup Units(line) \cup Units(buf)
    BY <1>1 DEF Losses
  <2>3. Memory' = Units(current)
    <3>1. Units(current)' = Units(current) /\ Units(buf)' = {} /\ Units(line)' = {}
      BY <1>1, EmptyUnits DEF Units, Range
    <3> QED
      BY <3>1 DEF Memory
  <2>4. (Losses \cup InFiles \cup Memory)' = Losses \cup InFiles \cup Memory
    BY <2>1, <2>2, <2>3 DEF Memory
  <2> QED
    BY <1>0, <1>1, <2>4, KeptNext
<1>3. DataInv'
  BY <1>0, <1>1, DataStays
<1>4. ProcInv'
  <2>1. processors' \in [Times -> Results \cup {"none", "run"}]
    BY <1>1
  <2>2. \A n \in Times : processors'[n] # "none" \/ n \in orphans' => n <= Len(data')
    BY <1>0, <1>1 DEF ProcInv
  <2>3. fnsave' \notin orphans'
    BY <1>1 DEF Times
  <2>4. short' = {} /\ wstat' \in Results
    BY <1>0, <1>1 DEF ProcInv, Results
  <2> QED
    BY <1>1, <2>1, <2>2, <2>3, <2>4 DEF ProcInv, Results, Times, MaxTime
<1>5. LineInv'
  BY <1>1 DEF LineInv
<1>6. todo' \in Seq(OpNames) /\ UnlinkInv'
  <2>1. todo' \in Seq(OpNames) /\ "unlinku" \notin Range(todo')
    BY <1>1, CallNames DEF OpNames
  <2> QED
    BY <2>1, NoUnlink
<1>7. DataType'
  <2>1. fnsave' \in 0..Len(data')
    BY <1>0, <1>1, LenProperties DEF DataType
  <2> QED
    BY <1>0, <1>1, <1>6, <2>1 DEF DataType, OpNames, Kinds, MaxTime
<1> QED
  BY <1>2, <1>3, <1>4, <1>5, <1>6, <1>7 DEF KeptInv

LEMMA StutterKeeps ==
  ASSUME KeptInv, UNCHANGED vars
  PROVE  KeptInv'
<1>0. DataType /\ ProcInv /\ UnlinkInv /\ LineInv
  BY DEF KeptInv
<1>1. /\ UNCHANGED <<curVars, oldVars>> /\ line' = line /\ gone' = gone /\ todo' = todo
      /\ UNCHANGED lossVars /\ nread' = nread /\ UNCHANGED procVars /\ pc' = pc
  BY DEF vars, lineVars
<1>2. todo' \in Seq(OpNames) /\ UnlinkInv'
  BY <1>0, <1>1, TodoStays DEF DataType, oldVars
<1>3. ProcInv' /\ LineInv'
  BY <1>0, <1>1, ProcStays DEF oldVars, LineInv
<1> QED
  BY <1>1, <1>2, <1>3, IdleKeeps

LEMMA InitKeeps ==
  ASSUME Init
  PROVE  KeptInv
<1>1. DataType
  <2>1. MaxTime \in Nat
    BY SvlogdAssumption DEF MaxTime
  <2>2. todo \in Seq(OpNames)
    BY CallNames DEF Init, OpNames
  <2> QED
    BY <2>1, <2>2 DEF Init, DataType
<1>2. ProcInv
  BY DEF Init, ProcInv, Results, Times
<1>3. UnlinkInv
  BY DEF Init, UnlinkInv, Calling, Range
<1>4. LineInv
  BY DEF Init, LineInv
<1>5. DataInv
  BY DEF Init, DataInv
<1>6. Kept
  <2>1. \A u : u \notin InFiles
    BY OldUnit DEF Init, InFiles
  <2>2. Memory = {} /\ Losses = {}
    BY EmptyUnits DEF Init, Memory, Losses
  <2>3. 1..nread = {}
    BY DEF Init
  <2> QED
    BY <2>1, <2>2, <2>3, KeptIs
<1> QED
  BY <1>1, <1>2, <1>3, <1>4, <1>5, <1>6 DEF KeptInv

(* Nothing is lost: for every size of files, number of old files, input,   *)
(* and order of rotations, reopenings, failed processors, failed writes    *)
(* and deaths of svlogd, every unit that was read is in a file or in       *)
(* memory, was deleted as the oldest, cut off, or died with svlogd.  The   *)
(* processor must not be killed by a signal: WEXITSTATUS is then 0, and    *)
(* processorstop replaces .u by what there is of .t.                       *)
THEOREM NothingIsLost ==
  ASSUME "killed" \notin Outcomes
  PROVE  Spec => []Kept
<1>1. Init => KeptInv
  BY InitKeeps
<1>2. ASSUME KeptInv, [Next]_vars PROVE KeptInv'
  <2>1. CASE Svlogd
    BY <1>2, <2>1, RmOldestKeeps, StartKeeps, WaitKeeps, FailedKeeps, DoneKeeps, UnlinkKeeps,
       SealKeeps, RenameKeeps, CreateKeeps, OpenKeeps, LoopKeeps, ChildKeeps, ReadKeeps,
       EndKeeps, WriteKeeps, NoSpaceKeeps DEF Svlogd
  <2>2. CASE \E n \in Times : ProcessorEnds(n)
    BY <1>2, <2>2, EndsKeeps
  <2>3. CASE \E sg \in {"TERM", "HUP", "ALRM"} : SendSignal(sg)
    BY <1>2, <2>3, SignalKeeps
  <2>4. CASE Again
    BY <1>2, <2>4, AgainKeeps
  <2>5. CASE UNCHANGED vars
    BY <1>2, <2>5, StutterKeeps
  <2> QED
    BY <1>2, <2>1, <2>2, <2>3, <2>4, <2>5 DEF Next
<1>3. KeptInv => Kept
  BY DEF KeptInv
<1> QED
  BY <1>1, <1>2, <1>3, PTL DEF Spec


-----------------------------------------------------------------------------
(* The inductive invariant for NothingCut. *)

Total == Len(current) + Len(buf)
Small == Total < SizeMax - LineMax

(* What is left of the calls of rotate and of logdir_open.                 *)
Rotation == <<"seal", "rename", "create", "rmoldest", "start">>
Renaming == <<"rename", "create", "rmoldest", "start">>
Creating == <<"create", "rmoldest", "start">>
Cleaning == <<"rmoldest", "start">>
Reopening == <<"seal", "open">>
Recovering == <<"recover", "rmoldest", "create">>
Recovered == <<"rmoldest", "create">>

(* while (!processorstop(ld)), with the calls t to come after it.          *)
Stopping(t) ==
  {<<"stop">> \o t, <<"result">> \o (<<"stop">> \o t), <<"unlinku">> \o (<<"stop">> \o t),
   <<"start">> \o (<<"stop">> \o t)}

(* There is room for one more line in current, and size is right, or the   *)
(* calls that see to it are still to be made.                              *)
Rotating ==
  \/ todo \in Stopping(Rotation) \/ todo = Rotation
  \/ todo = Renaming /\ buf = <<>>
  \/ todo = Creating /\ buf = <<>> /\ current = <<>>
Resting ==
  /\ Small /\ size = Total
  /\ \/ todo \in Stopping(<<>>) \/ todo \in Stopping(<<"seal">>)
     \/ todo \in {<<>>, Cleaning, <<"start">>, <<"result">>, <<"unlinku">>, <<"seal">>, Reopening}
Opening ==
  /\ Small /\ buf = <<>>
  /\ todo \in {<<"open">>, Recovering, Recovered, <<"create">>}
Stage == Rotating \/ Resting \/ Opening

CutData ==
  /\ line \in Seq(Nat) /\ buf \in Seq(Nat) /\ current \in Seq(Nat)
  /\ size \in Nat /\ nread \in Nat
  /\ Len(line) <= LineMax /\ partial = FALSE /\ (pc = "write" => nl = TRUE) /\ slipped = {}

(* Nothing is said once svlogd has been killed or a write has failed.      *)
CutInv == disturbed \/ (CutData /\ Stage)

LEMMA CallHeads ==
  /\ Rotation # <<>> /\ Head(Rotation) = "seal" /\ Tail(Rotation) = Renaming
  /\ Renaming # <<>> /\ Head(Renaming) = "rename" /\ Tail(Renaming) = Creating
  /\ Creating # <<>> /\ Head(Creating) = "create" /\ Tail(Creating) = Cleaning
  /\ Cleaning # <<>> /\ Head(Cleaning) = "rmoldest" /\ Tail(Cleaning) = <<"start">>
  /\ Reopening # <<>> /\ Head(Reopening) = "seal" /\ Tail(Reopening) = <<"open">>
  /\ Recovering # <<>> /\ Head(Recovering) = "recover" /\ Tail(Recovering) = Recovered
  /\ Recovered # <<>> /\ Head(Recovered) = "rmoldest" /\ Tail(Recovered) = <<"create">>
  /\ \A x : <<x>> # <<>> /\ Head(<<x>>) = x /\ Tail(<<x>>) = <<>>
  /\ {Rotation, Cleaning, <<"seal">>, <<>>} \subseteq Seq(OpNames)
<1>1. Rotation # <<>> /\ Head(Rotation) = "seal" /\ Tail(Rotation) = Renaming
  BY DEF Rotation, Renaming
<1>2. Renaming # <<>> /\ Head(Renaming) = "rename" /\ Tail(Renaming) = Creating
  BY DEF Renaming, Creating
<1>3. Creating # <<>> /\ Head(Creating) = "create" /\ Tail(Creating) = Cleaning
  BY DEF Creating, Cleaning
<1>4. Cleaning # <<>> /\ Head(Cleaning) = "rmoldest" /\ Tail(Cleaning) = <<"start">>
  BY DEF Cleaning
<1>5. Reopening # <<>> /\ Head(Reopening) = "seal" /\ Tail(Reopening) = <<"open">>
  BY DEF Reopening
<1>6. Recovering # <<>> /\ Head(Recovering) = "recover" /\ Tail(Recovering) = Recovered
  BY DEF Recovering, Recovered
<1>7. Recovered # <<>> /\ Head(Recovered) = "rmoldest" /\ Tail(Recovered) = <<"create">>
  BY DEF Recovered
<1>8. \A x : <<x>> # <<>> /\ Head(<<x>>) = x /\ Tail(<<x>>) = <<>>
  OBVIOUS
<1>9. {Rotation, Cleaning, <<"seal">>, <<>>} \subseteq Seq(OpNames)
  BY DEF Rotation, Cleaning, OpNames
<1> QED
  BY <1>1, <1>2, <1>3, <1>4, <1>5, <1>6, <1>7, <1>8, <1>9

LEMMA FrontOf ==
  ASSUME NEW x \in OpNames, NEW t \in Seq(OpNames)
  PROVE  /\ <<x>> \o t \in Seq(OpNames) /\ <<x>> \o t # <<>>
         /\ Head(<<x>> \o t) = x /\ Tail(<<x>> \o t) = t
<1>1. PICK p : p = <<x>>
  OBVIOUS
<1>2. p \in Seq(OpNames) /\ Len(p) = 1 /\ p[1] = x
  BY <1>1
<1>3. p \o t \in Seq(OpNames) /\ p \o t # <<>>
  BY <1>2, ConcatProperties, EmptySeq
<1>4. Head(p \o t) = x /\ Tail(p \o t) = t
  BY <1>1, <1>2
<1> QED
  BY <1>1, <1>3, <1>4

LEMMA StoppingCalls ==
  ASSUME NEW t \in Seq(OpNames), NEW x \in Stopping(t)
  PROVE  /\ x # <<>>
         /\ \/ Head(x) = "stop" /\ Tail(x) = t /\ <<"result">> \o x \in Stopping(t)
            \/ /\ Head(x) \in {"result", "unlinku", "start"} /\ Tail(x) \in Stopping(t)
               /\ <<"start">> \o Tail(x) \in Stopping(t)
               /\ <<"unlinku">> \o Tail(x) \in Stopping(t)
<1>0. {"stop", "result", "unlinku", "start"} \subseteq OpNames
  BY DEF OpNames
<1>1. PICK s : s = <<"stop">> \o t
  OBVIOUS
<1>2. s \in Seq(OpNames) /\ s # <<>> /\ Head(s) = "stop" /\ Tail(s) = t
  BY <1>0, <1>1, FrontOf
<1>3. \A c \in {"result", "unlinku", "start"} :
         <<c>> \o s # <<>> /\ Head(<<c>> \o s) = c /\ Tail(<<c>> \o s) = s
  BY <1>0, <1>2, FrontOf
<1>4. Stopping(t) = {s, <<"result">> \o s, <<"unlinku">> \o s, <<"start">> \o s}
  BY <1>1 DEF Stopping
<1>5. CASE x = s
  BY <1>2, <1>4, <1>5
<1>6. CASE x \in {<<"result">> \o s, <<"unlinku">> \o s, <<"start">> \o s}
  <2>1. x # <<>> /\ Head(x) \in {"result", "unlinku", "start"} /\ Tail(x) = s
    BY <1>3, <1>6
  <2> QED
    BY <2>1, <1>4
<1> QED
  BY <1>4, <1>5, <1>6

(* The calls that change neither current nor the buffer nor size.          *)
LEMMA StageCalls ==
  ASSUME Stage, todo # <<>>, Head(todo) \notin {"seal", "rename", "recover", "create", "open"},
         buf' = buf, current' = current, size' = size,
         \/ Head(todo) = "stop" /\ todo' \in {Tail(todo), <<"result">> \o todo}
         \/ Head(todo) = "result" /\ todo' \in {<<"start">> \o Tail(todo), <<"unlinku">> \o Tail(todo)}
         \/ Head(todo) \notin {"stop", "result"} /\ todo' = Tail(todo)
  PROVE  Stage'
<1>1. Total' = Total /\ (Small' <=> Small)
  BY DEF Total, Small
<1>2. ASSUME NEW t \in Seq(OpNames), todo \in Stopping(t)
      PROVE  todo' = t \/ todo' \in Stopping(t)
  BY <1>2, StoppingCalls
<1>3. CASE todo \in Stopping(Rotation)
  <2>1. todo' = Rotation \/ todo' \in Stopping(Rotation)
    BY <1>2, <1>3, CallHeads
  <2> QED
    BY <2>1 DEF Stage, Rotating, Stopping
<1>4. CASE todo \in Stopping(<<>>) /\ Small /\ size = Total
  <2>1. todo' = <<>> \/ todo' \in Stopping(<<>>)
    BY <1>2, <1>4, CallHeads
  <2> QED
    BY <1>1, <1>4, <2>1 DEF Stage, Resting, Stopping
<1>5. CASE todo \in Stopping(<<"seal">>) /\ Small /\ size = Total
  <2>1. todo' = <<"seal">> \/ todo' \in Stopping(<<"seal">>)
    BY <1>2, <1>5, CallHeads
  <2> QED
    BY <1>1, <1>5, <2>1 DEF Stage, Resting, Stopping
<1>6. CASE /\ Small /\ size = Total
           /\ todo \in {Cleaning, <<"start">>, <<"result">>, <<"unlinku">>}
  <2>1. todo' \in {<<>>, <<"start">>, <<"unlinku">>}
    <3>1. CASE todo = Cleaning
      BY <3>1, CallHeads
    <3>2. CASE todo = <<"start">>
      BY <3>2, CallHeads
    <3>3. CASE todo = <<"unlinku">>
      BY <3>3, CallHeads
    <3>4. CASE todo = <<"result">>
      <4>1. Head(todo) = "result" /\ Tail(todo) = <<>>
        BY <3>4, CallHeads
      <4>2. todo' \in {<<"start">> \o <<>>, <<"unlinku">> \o <<>>}
        BY <4>1
      <4>3. \A x \in OpNames : <<x>> \o <<>> = <<x>>
        BY ConcatEmptySeq, SingleRange
      <4> QED
        BY <4>2, <4>3 DEF OpNames
    <3> QED
      BY <3>1, <3>2, <3>3, <3>4, <1>6
  <2> QED
    BY <1>1, <1>6, <2>1 DEF Stage, Resting
<1>7. CASE todo = Recovered /\ Small /\ buf = <<>>
  <2>1. todo' = <<"create">>
    BY <1>7, CallHeads
  <2> QED
    BY <1>1, <1>7, <2>1 DEF Stage, Opening
<1> QED
  BY <1>3, <1>4, <1>5, <1>6, <1>7, CallHeads DEF Stage, Rotating, Resting, Opening


(* The other calls, and what is known when they are made.                  *)
LEMMA StageMoves ==
  ASSUME Stage, todo # <<>>, Head(todo) \in {"seal", "rename", "recover", "create", "open"}
  PROVE  \/ Head(todo) = "seal" /\ Tail(todo) = Renaming
         \/ Head(todo) = "seal" /\ Tail(todo) \in {<<>>, <<"open">>} /\ Small /\ size = Total
         \/ Head(todo) = "rename" /\ Tail(todo) = Creating /\ buf = <<>>
         \/ Head(todo) = "create" /\ Tail(todo) = Cleaning /\ buf = <<>> /\ current = <<>>
         \/ /\ Small /\ buf = <<>>
            /\ \/ Head(todo) = "open" /\ Tail(todo) = <<>>
               \/ Head(todo) = "recover" /\ Tail(todo) = Recovered
               \/ Head(todo) = "create" /\ Tail(todo) = <<>>
<1>1. todo \notin Stopping(Rotation) /\ todo \notin Stopping(<<>>) /\ todo \notin Stopping(<<"seal">>)
  <2>1. \A t \in Seq(OpNames) : todo \notin Stopping(t)
    BY StoppingCalls
  <2> QED
    BY <2>1, CallHeads
<1>2. CASE Rotating
  <2>1. CASE todo = Rotation
    BY <2>1, CallHeads
  <2>2. CASE todo = Renaming /\ buf = <<>>
    BY <2>2, CallHeads
  <2>3. CASE todo = Creating /\ buf = <<>> /\ current = <<>>
    BY <2>3, CallHeads
  <2> QED
    BY <1>1, <1>2, <2>1, <2>2, <2>3 DEF Rotating
<1>3. CASE Resting
  <2>1. Small /\ size = Total
    BY <1>3 DEF Resting
  <2>2. ASSUME NEW x \in {"start", "result", "unlinku"}, todo = <<x>> PROVE FALSE
    <3>1. Head(todo) = x
      BY <2>2, CallHeads
    <3> QED
      BY <3>1
  <2>3. todo # Cleaning
    <3>1. Head(Cleaning) = "rmoldest"
      BY CallHeads
    <3> QED
      BY <3>1
  <2>4. todo = <<"seal">> \/ todo = Reopening
    BY <1>1, <1>3, <2>2, <2>3 DEF Resting
  <2>5. Head(todo) = "seal" /\ Tail(todo) \in {<<>>, <<"open">>}
    <3>1. CASE todo = <<"seal">>
      BY <3>1, CallHeads
    <3>2. CASE todo = Reopening
      BY <3>2, CallHeads
    <3> QED
      BY <2>4, <3>1, <3>2
  <2> QED
    BY <2>1, <2>5
<1>4. CASE Opening
  <2>1. Small /\ buf = <<>>
    BY <1>4 DEF Opening
  <2>2. todo # Recovered
    <3>1. Head(Recovered) = "rmoldest"
      BY CallHeads
    <3> QED
      BY <3>1
  <2>3. CASE todo = <<"open">>
    BY <2>1, <2>3, CallHeads
  <2>4. CASE todo = Recovering
    BY <2>1, <2>4, CallHeads
  <2>5. CASE todo = <<"create">>
    BY <2>1, <2>5, CallHeads
  <2> QED
    BY <1>4, <2>2, <2>3, <2>4, <2>5 DEF Opening
<1> QED
  BY <1>2, <1>3, <1>4 DEF Stage

LEMMA StageStays ==
  ASSUME Stage, buf' = buf, current' = current, size' = size, todo' = todo
  PROVE  Stage'
<1>1. Total' = Total /\ (Small' <=> Small)
  BY DEF Total, Small
<1> QED
  BY <1>1 DEF Stage, Rotating, Resting, Opening, Stopping, Rotation, Renaming, Creating, Cleaning,
              Reopening, Recovering, Recovered

LEMMA CutDataStays ==
  ASSUME CutData, UNCHANGED <<lineVars, curVars>>, slipped' = slipped, nread' = nread,
         pc' = "write" => pc = "write"
  PROVE  CutData' /\ buf' = buf /\ current' = current /\ size' = size
BY DEF CutData, lineVars, curVars

LEMMA CallsCut ==
  ASSUME CutData, Stage,
         RmOldest \/ ProcessorStart \/ ProcessorWait \/ ProcessorFailed \/ ProcessorDone
           \/ UnlinkUnprocessed
  PROVE  CutData' /\ Stage'
<1>1. UNCHANGED <<lineVars, curVars>> /\ slipped' = slipped /\ nread' = nread /\ pc' = pc
  BY DEF RmOldest, ProcessorStart, ProcessorWait, ProcessorFailed, ProcessorDone,
         UnlinkUnprocessed, lossVars
<1>2. CutData' /\ buf' = buf /\ current' = current /\ size' = size
  BY <1>1, CutDataStays
<1>3. /\ todo # <<>> /\ Head(todo) \notin {"seal", "rename", "recover", "create", "open"}
      /\ \/ Head(todo) = "stop" /\ todo' \in {Tail(todo), <<"result">> \o todo}
         \/ Head(todo) = "result" /\ todo' \in {<<"start">> \o Tail(todo), <<"unlinku">> \o Tail(todo)}
         \/ Head(todo) \notin {"stop", "result"} /\ todo' = Tail(todo)
  BY DEF RmOldest, ProcessorStart, ProcessorWait, ProcessorFailed, ProcessorDone,
         UnlinkUnprocessed, Calling
<1>4. Stage'
  BY <1>2, <1>3, StageCalls
<1> QED
  BY <1>2, <1>4

(* Where the main loop stands, there is room for one more line.            *)
LEMMA AtRest ==
  ASSUME Stage, todo = <<>>
  PROVE  Small /\ size = Total
<1>1. \A t \in Seq(OpNames) : todo \notin Stopping(t)
  BY StoppingCalls
<1> QED
  BY <1>1, CallHeads DEF Stage, Rotating, Resting, Opening

LEMMA RotateCut ==
  ASSUME NEW sz \in Nat
  PROVE  /\ sz > 0 => RotateCalls(sz) \in Stopping(Rotation)
         /\ sz = 0 => RotateCalls(sz) \in Stopping(<<>>)
<1>1. sz > 0 => RotateCalls(sz) = <<"stop">> \o Rotation
  BY DEF RotateCalls, Rotation
<1>2. sz = 0 => RotateCalls(sz) = <<"stop">> \o <<>>
  BY DEF RotateCalls
<1> QED
  BY <1>1, <1>2 DEF Stopping

LEMMA LoopCut ==
  ASSUME CutData, Stage,
         FillRotate \/ FillReopen \/ FillTimed \/ Poll \/ SigFlag \/ SigChild \/ ReadNothing
           \/ WriteRotate \/ Exit \/ (\E n \in Times : ProcessorEnds(n))
           \/ (\E sg \in {"TERM", "HUP", "ALRM"} : SendSignal(sg)) \/ UNCHANGED vars
  PROVE  CutData' /\ Stage'
<1>1. UNCHANGED <<lineVars, curVars>> /\ slipped' = slipped /\ nread' = nread /\ (pc' = "write" => pc = "write")
  BY DEF FillRotate, FillReopen, FillTimed, Fill, Poll, SigFlag, SigChild, ReadNothing, WriteRotate,
         Exit, ProcessorEnds, SendSignal, lossVars, vars
<1>2. CutData' /\ buf' = buf /\ current' = current /\ size' = size
  BY <1>1, CutDataStays
<1>3. CASE todo' = todo
  BY <1>2, <1>3, StageStays
<1>4. CASE todo' # todo
  <2>1. todo = <<>> /\ todo' \in {RotateCalls(size), Reopening, <<"result">>}
    BY <1>4 DEF FillRotate, FillReopen, FillTimed, Fill, Poll, SigFlag, SigChild, ReadNothing,
         WriteRotate, Exit, ProcessorEnds, SendSignal, vars, At, Reopening
  <2>2. Small /\ size = Total
    BY <2>1, AtRest
  <2>3. Total' = Total /\ (Small' <=> Small)
    BY <1>2 DEF Total, Small
  <2>4. size \in Nat
    BY DEF CutData
  <2>5. CASE todo' = RotateCalls(size)
    <3>1. todo' \in Stopping(Rotation) \/ todo' \in Stopping(<<>>)
      BY <2>4, <2>5, RotateCut
    <3> QED
      BY <1>2, <2>2, <2>3, <3>1 DEF Stage, Rotating, Resting, Stopping
  <2>6. CASE todo' \in {Reopening, <<"result">>}
    BY <1>2, <2>2, <2>3, <2>6 DEF Stage, Resting, Reopening
  <2> QED
    BY <2>1, <2>5, <2>6
<1> QED
  BY <1>2, <1>3, <1>4

LEMMA SealCut ==
  ASSUME CutData, Stage, Seal \/ Flush
  PROVE  CutData' /\ Stage'
<1>1. /\ line' = line /\ nl' = nl /\ partial' = partial /\ size' = size /\ slipped' = slipped
      /\ nread' = nread
      /\ current' = current \o buf /\ buf' = <<>> /\ (pc' = "write" => pc = "write")
  BY DEF Seal, Flush, lineVars, lossVars
<1>2. /\ current \o buf \in Seq(Nat) /\ Len(current \o buf) = Len(current) + Len(buf)
      /\ Len(current) \in Nat /\ Len(buf) \in Nat
  BY ConcatProperties, LenProperties DEF CutData
<1>3. CutData'
  BY <1>1, <1>2 DEF CutData
<1>4. Total' = Total /\ (Small' <=> Small)
  <2>1. Total' = Total
    BY <1>1, <1>2 DEF Total
  <2> QED
    BY <2>1 DEF Small
<1>5. CASE Flush
  <2>1. todo = <<>> /\ todo' = <<>>
    BY <1>5 DEF Flush, At
  <2> QED
    BY <2>1, <1>1, <1>3, <1>4, AtRest DEF Stage, Resting
<1>6. CASE Seal
  <2>1. todo # <<>> /\ Head(todo) = "seal" /\ todo' = Tail(todo)
    BY <1>6 DEF Seal, Calling
  <2>2. Tail(todo) = Renaming \/ (Tail(todo) \in {<<>>, <<"open">>} /\ Small /\ size = Total)
    BY <2>1, StageMoves
  <2>3. CASE todo' = Renaming
    BY <1>1, <1>3, <2>3 DEF Stage, Rotating, Renaming
  <2>4. CASE todo' = <<>> /\ Small /\ size = Total
    BY <1>1, <1>3, <1>4, <2>4 DEF Stage, Resting
  <2>5. CASE todo' = <<"open">> /\ Small
    BY <1>1, <1>3, <1>4, <2>5 DEF Stage, Opening
  <2> QED
    BY <2>1, <2>2, <2>3, <2>4, <2>5
<1> QED
  BY <1>5, <1>6

LEMMA RenameCut ==
  ASSUME 2 * LineMax <= SizeMax, CutData, Stage, Rename \/ Recover
  PROVE  CutData' /\ Stage'
<1>1. /\ UNCHANGED lineVars /\ size' = size /\ slipped' = slipped /\ pc' = pc /\ nread' = nread
      /\ current' = <<>> /\ buf' = buf /\ todo' = Tail(todo)
  BY DEF Rename, Recover, RenameTo, lossVars
<1>2. CutData'
  BY <1>1 DEF CutData, lineVars
<1>3. todo # <<>> /\ Head(todo) \in {"rename", "recover"}
  BY DEF Rename, Recover, Calling
<1>5. buf = <<>> /\ (Tail(todo) = Creating \/ Tail(todo) = Recovered)
  BY <1>3, StageMoves
<1>6. Small'
  <2>1. Len(current') = 0 /\ Len(buf') = 0
    BY <1>1, <1>5
  <2>2. LineMax \in Nat /\ LineMax > 0 /\ SizeMax \in Nat
    BY SvlogdAssumption
  <2> QED
    BY <2>1, <2>2 DEF Small, Total
<1>7. todo' = Creating \/ todo' = Recovered
  BY <1>1, <1>5
<1> QED
  BY <1>1, <1>2, <1>5, <1>6, <1>7 DEF Stage, Rotating, Opening, Creating, Recovered

LEMMA CreateCut ==
  ASSUME 2 * LineMax <= SizeMax, CutData, Stage, Create
  PROVE  CutData' /\ Stage'
<1>0. /\ LineMax \in Nat /\ LineMax > 0 /\ SizeMax \in Nat
      /\ Len(current) \in Nat /\ Len(buf) \in Nat
  BY SvlogdAssumption, LenProperties DEF CutData
<1>1. /\ UNCHANGED lineVars /\ slipped' = slipped /\ pc' = pc /\ current' = current /\ buf' = buf
      /\ nread' = nread
      /\ size' = IF Len(current) > SizeMax THEN SizeMax ELSE Len(current)
      /\ todo' = Tail(todo) /\ todo # <<>> /\ Head(todo) = "create"
  BY DEF Create, lossVars, Calling
<1>2. CutData'
  <2>1. size' \in Nat
    BY <1>0, <1>1
  <2> QED
    BY <1>1, <2>1 DEF CutData, lineVars
<1>4. buf = <<>> /\ ((Tail(todo) = Cleaning /\ current = <<>>) \/ (Tail(todo) = <<>> /\ Small))
  BY <1>1, StageMoves
<1>5. Len(buf) = 0 /\ Small
  <2>1. Len(buf) = 0
    BY <1>4
  <2>2. current = <<>> => Len(current) = 0
    OBVIOUS
  <2> QED
    BY <1>0, <1>4, <2>1, <2>2 DEF Small, Total
<1>6. Small' /\ size' = Total'
  BY <1>0, <1>1, <1>5 DEF Small, Total
<1>7. todo' = Cleaning \/ todo' = <<>>
  BY <1>1, <1>4
<1> QED
  BY <1>2, <1>6, <1>7 DEF Stage, Resting, Cleaning

LEMMA OpenCut ==
  ASSUME CutData, Stage, Open
  PROVE  CutData' /\ Stage'
<1>1. UNCHANGED <<lineVars, curVars>> /\ slipped' = slipped /\ nread' = nread /\ pc' = pc
  BY DEF Open, lossVars
<1>2. CutData' /\ buf' = buf /\ current' = current /\ size' = size
  BY <1>1, CutDataStays
<1>3. /\ todo # <<>> /\ Head(todo) = "open"
      /\ todo' \in {Recovering \o Tail(todo), <<"create">> \o Tail(todo)}
  BY DEF Open, Calling, Recovering
<1>5. Tail(todo) = <<>> /\ Small /\ buf = <<>>
  BY <1>3, StageMoves
<1>6. todo' \in {Recovering, <<"create">>}
  <2>1. Tail(todo) = <<>>
    BY <1>5
  <2>2. Recovering \in Seq(OpNames) /\ <<"create">> \in Seq(OpNames)
    BY DEF Recovering, OpNames
  <2>3. \A t \in Seq(OpNames) : t \o <<>> = t
    BY ConcatEmptySeq
  <2> QED
    BY <1>3, <2>1, <2>2, <2>3
<1>7. Small'
  BY <1>2, <1>5 DEF Small, Total
<1> QED
  BY <1>2, <1>5, <1>6, <1>7 DEF Stage, Opening, Recovering


LEMMA ReadCut ==
  ASSUME Newlines = {TRUE}, CutData, Stage, Read
  PROVE  CutData' /\ Stage'
<1>1. /\ partial' = partial /\ slipped' = slipped /\ nl' = TRUE /\ todo' = todo
      /\ buf' = buf /\ current' = current /\ size' = size
  BY DEF Read, curVars, lossVars
<1>2. Stage'
  BY <1>1, StageStays
<1>3. line' \in Seq(Nat) /\ Len(line') <= LineMax /\ nread' \in Nat
  <2>1. PICK k \in 1..LineMax : line' = [i \in 1..k |-> nread + i] /\ nread' = nread + k
    BY DEF Read
  <2>2. k \in Nat /\ k <= LineMax
    BY SvlogdAssumption
  <2>3. PICK r \in Nat : r = nread
    BY DEF CutData
  <2>4. line' = [i \in 1..k |-> r + i] /\ nread' = r + k
    BY <2>1, <2>3
  <2>5. line' \in [1..k -> Nat] /\ nread' \in Nat
    BY <2>2, <2>4
  <2> QED
    BY <2>2, <2>5
<1> QED
  BY <1>1, <1>2, <1>3 DEF CutData

(* No line has begun when the input comes in whole lines.                  *)
LEMMA EndCut ==
  ASSUME CutData, Stage, ReadEnd
  PROVE  CutData' /\ Stage'
<1>1. todo = <<>> /\ EndOfInput /\ ~ partial
  BY DEF ReadEnd, At, CutData
<1>2. /\ partial' = partial /\ slipped' = slipped /\ todo' = <<"stop", "seal">> /\ pc' = "exit"
      /\ buf' = buf /\ current' = current /\ size' = size /\ line' = line /\ nread' = nread
  BY <1>1 DEF EndOfInput, curVars, lossVars
<1>3. CutData'
  BY <1>2 DEF CutData
<1>4. Small /\ size = Total
  BY <1>1, AtRest
<1>5. Small' /\ size' = Total'
  BY <1>2, <1>4 DEF Small, Total
<1>6. <<"stop", "seal">> = <<"stop">> \o <<"seal">>
  OBVIOUS
<1>7. todo' \in Stopping(<<"seal">>)
  BY <1>2, <1>6 DEF Stopping
<1> QED
  BY <1>3, <1>5, <1>7 DEF Stage, Resting, Stopping

(* The margin: a line always fits, and a rotation follows when the next    *)
(* one may not.                                                            *)
LEMMA WriteCut ==
  ASSUME 2 * LineMax <= SizeMax, CutData, Stage, Write
  PROVE  CutData' /\ Stage'
<1>0. /\ LineMax \in Nat /\ LineMax > 0 /\ SizeMax \in Nat
      /\ Len(current) \in Nat /\ Len(buf) \in Nat /\ Len(line) \in Nat /\ Len(line) <= LineMax
      /\ line \in Seq(Nat) /\ buf \in Seq(Nat) /\ current \in Seq(Nat)
  BY SvlogdAssumption, LenProperties DEF CutData
<1>1. Small /\ size = Total /\ nl = TRUE
  BY AtRest DEF Write, At, CutData
<1>2. size \in Nat /\ size + LineMax < SizeMax
  BY <1>0, <1>1 DEF Small, Total, CutData
<1>3. Fits = Len(line)
  BY <1>0, <1>2 DEF Fits
<1>4. PICK l \in Nat : l = Len(line)
  BY <1>0
<1>5. PICK a \in Seq(Nat) : a = SubSeq(line, 1, l) /\ Len(a) = l
  <2>1. l \in 0..Len(line)
    BY <1>4
  <2>2. SubSeq(line, 1, l) \in Seq(Nat) /\ Len(SubSeq(line, 1, l)) = l
    BY <1>0, <2>1, SubRange
  <2> QED
    BY <2>2
<1>6. \/ buf' = buf \o a /\ current' = current
      \/ buf' = <<>> /\ current' = current \o buf \o a
  BY <1>3, <1>4, <1>5 DEF Write
<1>7. buf' \in Seq(Nat) /\ current' \in Seq(Nat) /\ Total' = Total + l
  <2>1. CASE buf' = buf \o a /\ current' = current
    <3>1. buf \o a \in Seq(Nat) /\ Len(buf \o a) = Len(buf) + l
      BY <1>0, <1>5, ConcatProperties
    <3> QED
      BY <2>1, <3>1, <1>0, <1>4 DEF Total
  <2>2. CASE buf' = <<>> /\ current' = current \o buf \o a
    <3>1. PICK c \in Seq(Nat) : c = current \o buf /\ Len(c) = Len(current) + Len(buf)
      BY <1>0, ConcatProperties
    <3>2. c \o a \in Seq(Nat) /\ Len(c \o a) = Len(c) + l
      BY <1>5, ConcatProperties
    <3>3. current' = c \o a
      BY <2>2, <3>1
    <3>4. Len(buf') = 0 /\ buf' \in Seq(Nat)
      BY <2>2
    <3> QED
      BY <3>1, <3>2, <3>3, <3>4, <1>0, <1>4 DEF Total
  <2> QED
    BY <1>6, <2>1, <2>2
<1>8. size' = size + l /\ line' = <<>> /\ partial' = FALSE /\ pc' = "flush" /\ nread' = nread
  BY <1>1, <1>3, <1>4 DEF Write
<1>9. slipped' = {}
  <2>1. slipped = {} /\ slipped' = slipped \cup Units(SubSeq(line, l + 1, l))
    BY <1>3, <1>4 DEF Write, CutData
  <2>2. PICK b : b = SubSeq(line, l + 1, l)
    OBVIOUS
  <2>3. b = <<>>
    BY <1>0, <2>2, SubSeqEmpty
  <2>4. Units(b) = {}
    BY <2>3, EmptyUnits
  <2> QED
    BY <2>1, <2>2, <2>4
<1>10. CutData'
  <2>1. line' \in Seq(Nat) /\ Len(line') = 0 /\ size' \in Nat
    BY <1>2, <1>8
  <2> QED
    BY <1>0, <1>7, <1>8, <1>9, <2>1 DEF CutData
<1>11. size' = Total'
  BY <1>1, <1>7, <1>8
<1>12. CASE IsFull
  <2>1. todo' = RotateCalls(size + l) /\ size + l >= SizeMax - LineMax
    BY <1>3, <1>4, <1>12 DEF Write, IsFull
  <2>2. PICK n \in Nat : n = size + l /\ n > 0
    BY <1>0, <1>2, <2>1
  <2>3. todo' \in Stopping(Rotation)
    BY <2>1, <2>2, RotateCut
  <2> QED
    BY <1>10, <2>3 DEF Stage, Rotating, Stopping
<1>13. CASE ~ IsFull
  <2>1. todo' = <<>>
    BY <1>13 DEF Write
  <2>2. size + l < SizeMax - LineMax
    BY <1>0, <1>1, <1>2, <1>3, <1>4, <1>13 DEF IsFull
  <2>3. Small'
    BY <1>1, <1>7, <2>2 DEF Small
  <2> QED
    BY <1>10, <1>11, <2>1, <2>3 DEF Stage, Resting
<1> QED
  BY <1>12, <1>13

LEMMA DisturbedStays ==
  ASSUME [Next]_vars, disturbed
  PROVE  disturbed'
BY DEF Next, Svlogd, RmOldest, ProcessorStart, ProcessorWait, ProcessorFailed, ProcessorDone,
       UnlinkUnprocessed, Seal, Rename, Recover, RenameTo, Create, Open, FillRotate, FillReopen,
       FillTimed, Fill, Poll, SigFlag, SigChild, Read, ReadNothing, ReadEnd, EndOfInput,
       WriteRotate, Write, WriteNoSpace, Flush, Exit, ProcessorEnds, SendSignal, Again, lossVars, vars

(* The margin of linemax in buffer_pwrite is enough: for every limit on    *)
(* the size of at least two lines, number of old files, fate of processors *)
(* and order of rotations and reopenings, nothing is cut off of input that *)
(* comes in whole lines, as long as svlogd is not killed and no write      *)
(* fails.                                                                  *)
THEOREM WholeLinesAreKept == Spec => []NothingCut
<1>1. CASE Newlines = {TRUE} /\ 2 * LineMax <= SizeMax
  <2>1. Init => CutInv
    <3> SUFFICES ASSUME Init PROVE CutData /\ Stage
      BY DEF CutInv
    <3>1. LineMax \in Nat /\ LineMax > 0 /\ SizeMax \in Nat
      BY SvlogdAssumption
    <3>2. Len(current) = 0 /\ Len(buf) = 0 /\ Len(line) = 0
      BY DEF Init
    <3>3. CutData
      BY <3>1, <3>2 DEF Init, CutData
    <3>4. Small
      BY <1>1, <3>1, <3>2 DEF Small, Total
    <3>5. Stage
      BY <3>4 DEF Init, Stage, Opening
    <3> QED
      BY <3>3, <3>5
  <2>2. ASSUME CutInv, [Next]_vars PROVE CutInv'
    <3>1. CASE disturbed
      BY <2>2, <3>1, DisturbedStays DEF CutInv
    <3>2. CASE CutData /\ Stage
      <4>1. CASE Svlogd /\ ~ WriteNoSpace
        BY <1>1, <3>2, <4>1, CallsCut, LoopCut, SealCut, RenameCut, CreateCut, OpenCut, ReadCut,
           EndCut, WriteCut DEF Svlogd, CutInv
      <4>2. CASE WriteNoSpace \/ Again
        BY <4>2 DEF WriteNoSpace, Again, CutInv
      <4>3. CASE \/ \E n \in Times : ProcessorEnds(n)
                 \/ \E sg \in {"TERM", "HUP", "ALRM"} : SendSignal(sg)
                 \/ UNCHANGED vars
        BY <3>2, <4>3, LoopCut DEF CutInv
      <4> QED
        BY <2>2, <4>1, <4>2, <4>3 DEF Next
    <3> QED
      BY <2>2, <3>1, <3>2 DEF CutInv
  <2>3. CutInv => NothingCut
    BY DEF CutInv, CutData, NothingCut
  <2> QED
    BY <2>1, <2>2, <2>3, PTL DEF Spec
<1>2. CASE ~ (Newlines = {TRUE} /\ 2 * LineMax <= SizeMax)
  <2>1. NothingCut
    BY <1>2 DEF NothingCut
  <2> QED
    BY <2>1, PTL
<1> QED
  BY <1>1, <1>2


-----------------------------------------------------------------------------
(* The inductive invariant for InOrder. *)

Seen == gone \cup Memory \subseteq 1..nread

OrderedFiles ==
  /\ \A n, m \in 1..Len(data) : n < m => Before(Units(data[n]), Units(data[m]))
  /\ \A n \in 1..Len(data) : Before(Units(data[n]), Memory)
  /\ \A f \in files : Before(gone, Units(data[f[1]]))
  /\ Before(gone, Memory)

(* A write that failed leaves units in the buffer that are in line, too;   *)
(* then the next write comes before anything else.                         *)
OrderedMemory ==
  /\ Before(Units(current), Units(buf) \cup Units(line))
  /\ Before(Units(buf), Units(line)) \/ (todo = <<>> /\ (SizeMax > 0 => size < SizeMax))

(* .t is renamed to .s, so the oldest file is never .s when there is a .t  *)
(* that may take its place.                                                *)
NamesInv ==
  /\ \A n : ~ (Exists(n, "s") /\ Exists(n, "t"))
  /\ Exists(fnsave, "s") /\ Exists(fnsave, "u") => Calling("unlinku")

OrderInv ==
  DataType /\ DataInv /\ LineInv /\ Seen /\ OrderedFiles /\ OrderedMemory /\ NamesInv

LEMMA OrderStep ==
  ASSUME DataInv, Seen, OrderedFiles, data' = data, gone' = gone, nread' = nread,
         Memory' \subseteq Memory, \A g \in files' : \E f \in files : f[1] = g[1]
  PROVE  DataInv' /\ Seen' /\ OrderedFiles'
<1>1. DataInv'
  BY DataStays
<1>2. Seen'
  BY DEF Seen
<1>3. \A n, m \in 1..Len(data) : n < m => Before(Units(data[n]), Units(data[m]))
  BY DEF OrderedFiles
<1>4. \A n \in 1..Len(data) : Before(Units(data[n]), Memory')
  BY DEF OrderedFiles, Before
<1>5. \A g \in files' : Before(gone, Units(data[g[1]]))
  BY DEF OrderedFiles
<1>6. Before(gone, Memory')
  BY DEF OrderedFiles, Before
<1>7. \A n : Units(data[n])' = Units(data[n])
  BY DEF Units, Range
<1>8. OrderedFiles'
  <2>1. \A n, m \in 1..Len(data') : n < m => Before(Units(data[n]), Units(data[m]))'
    BY <1>3, <1>7 DEF Before
  <2>2. \A n \in 1..Len(data') : Before(Units(data[n]), Memory)'
    BY <1>4, <1>7 DEF Before
  <2>3. \A g \in files' : Before(gone', Units(data[g[1]])')
    BY <1>5, <1>7
  <2>4. Before(gone', Memory')
    BY <1>6
  <2> QED
    BY <2>1, <2>2, <2>3, <2>4 DEF OrderedFiles, Before, Units, Range
<1> QED
  BY <1>1, <1>2, <1>8

LEMMA NamesStay ==
  ASSUME NamesInv, files' = files, fnsave' = fnsave, Calling("unlinku") => Calling("unlinku")'
  PROVE  NamesInv'
BY DEF NamesInv, Exists

(* The steps that change neither the files nor the memory.                 *)
LEMMA IdleOrder ==
  ASSUME OrderInv, UNCHANGED oldVars, line' = line, buf' = buf, current' = current,
         gone' = gone, nread' = nread, size' \in Nat, todo' \in Seq(OpNames), LineInv',
         Calling("unlinku") => Calling("unlinku")',
         \/ todo' = todo /\ size' = size
         \/ todo # <<>> \/ line = <<>> \/ (SizeMax > 0 /\ size >= SizeMax)
  PROVE  OrderInv'
<1>0. DataType /\ DataInv /\ Seen /\ OrderedFiles /\ OrderedMemory /\ NamesInv
  BY DEF OrderInv
<1>1. files' = files /\ data' = data /\ fnsave' = fnsave
  BY DEF oldVars
<1>2. /\ Units(current)' = Units(current) /\ Units(buf)' = Units(buf) /\ Units(line)' = Units(line)
      /\ Memory' = Memory
  BY DEF Memory, Units, Range
<1>3. DataInv' /\ Seen' /\ OrderedFiles'
  BY <1>0, <1>1, <1>2, OrderStep
<1>4. OrderedMemory'
  <2>1. CASE todo' = todo /\ size' = size
    BY <1>0, <1>2, <2>1 DEF OrderedMemory
  <2>2. CASE todo # <<>> \/ line = <<>> \/ (SizeMax > 0 /\ size >= SizeMax)
    <3>1. Before(Units(buf), Units(line))
      <4>1. CASE todo # <<>>
        BY <4>1, <1>0 DEF OrderedMemory
      <4>2. CASE line = <<>>
        BY <4>2, EmptyUnits DEF Before
      <4>3. CASE SizeMax > 0 /\ size >= SizeMax
        <5>1. SizeMax \in Nat /\ size \in Nat
          BY <1>0, SvlogdAssumption DEF DataType
        <5>2. ~ (SizeMax > 0 => size < SizeMax)
          BY <4>3, <5>1
        <5> QED
          BY <5>2, <1>0 DEF OrderedMemory
      <4> QED
        BY <2>2, <4>1, <4>2, <4>3
    <3> QED
      BY <1>0, <1>2, <3>1 DEF OrderedMemory
  <2> QED
    BY <2>1, <2>2
<1>5. NamesInv'
  BY <1>0, <1>1, NamesStay
<1>6. DataType'
  BY <1>0, <1>1 DEF DataType, OpNames, Kinds, MaxTime
<1> QED
  BY <1>3, <1>4, <1>5, <1>6 DEF OrderInv

LEMMA LoopOrder ==
  ASSUME OrderInv,
         FillRotate \/ FillReopen \/ FillTimed \/ Poll \/ SigFlag \/ SigChild \/ ReadNothing
           \/ WriteRotate \/ Exit \/ (\E n \in Times : ProcessorEnds(n))
           \/ (\E sg \in {"TERM", "HUP", "ALRM"} : SendSignal(sg)) \/ UNCHANGED vars
  PROVE  OrderInv'
<1>0. DataType /\ LineInv
  BY DEF OrderInv
<1>1. /\ UNCHANGED oldVars /\ line' = line /\ gone' = gone /\ nread' = nread
      /\ buf' = buf /\ current' = current /\ size' = size /\ (pc = "write" => pc' = "write")
  BY DEF FillRotate, FillReopen, FillTimed, Fill, Poll, SigFlag, SigChild, ReadNothing, WriteRotate,
         Exit, ProcessorEnds, SendSignal, vars, lineVars, curVars, At
<1>2. LineInv'
  BY <1>0, <1>1 DEF LineInv
<1>3. size' \in Nat
  BY <1>0, <1>1 DEF DataType
<1>4. CASE todo' = todo
  <2>1. Calling("unlinku") => Calling("unlinku")'
    BY <1>4 DEF Calling
  <2>2. todo' \in Seq(OpNames)
    BY <1>0, <1>4 DEF DataType
  <2> QED
    BY <1>1, <1>2, <1>3, <1>4, <2>1, <2>2, IdleOrder
<1>5. CASE todo' # todo
  <2>1. todo = <<>> /\ todo' \in {RotateCalls(size), <<"seal", "open">>, <<"result">>}
    BY <1>5 DEF FillRotate, FillReopen, FillTimed, Fill, Poll, SigFlag, SigChild, ReadNothing,
         WriteRotate, Exit, ProcessorEnds, SendSignal, vars, At
  <2>2. todo' \in Seq(OpNames)
    BY <2>1, CallNames DEF OpNames
  <2>3. pc # "write" \/ (SizeMax > 0 /\ size >= SizeMax)
    BY <1>5 DEF FillRotate, FillReopen, FillTimed, Fill, Poll, SigFlag, SigChild, ReadNothing,
         WriteRotate, Exit, ProcessorEnds, SendSignal, vars, At
  <2>4. ~ Calling("unlinku")
    BY <2>1 DEF Calling
  <2>5. line = <<>> \/ (SizeMax > 0 /\ size >= SizeMax)
    BY <1>0, <2>3 DEF LineInv
  <2> QED
    BY <1>1, <1>2, <1>3, <2>2, <2>4, <2>5, IdleOrder
<1> QED
  BY <1>4, <1>5

LEMMA CallsOrder ==
  ASSUME OrderInv, ProcessorWait \/ Open \/ Create
  PROVE  OrderInv'
<1>0. DataType /\ LineInv
  BY DEF OrderInv
<1>1. /\ UNCHANGED oldVars /\ line' = line /\ gone' = gone /\ nread' = nread
      /\ buf' = buf /\ current' = current /\ pc' = pc /\ todo # <<>> /\ ~ Calling("unlinku")
  BY DEF ProcessorWait, Open, Create, lineVars, curVars, Calling
<1>2. LineInv'
  BY <1>0, <1>1 DEF LineInv
<1>3. size' \in Nat
  <2>1. size \in Nat /\ Len(current) \in Nat /\ SizeMax \in Nat
    BY <1>0, LenProperties, SvlogdAssumption DEF DataType
  <2> QED
    BY <2>1 DEF ProcessorWait, Open, Create, curVars
<1>4. todo' \in Seq(OpNames)
  <2>1. todo \in Seq(OpNames) /\ Tail(todo) \in Seq(OpNames)
    BY <1>0, <1>1, TailRange DEF DataType
  <2>2. PICK p : \/ todo' = Tail(todo) \/ (p = <<"result">> /\ todo' = p \o todo)
                 \/ (p \in {<<"recover", "rmoldest", "create">>, <<"create">>} /\ todo' = p \o Tail(todo))
    BY DEF ProcessorWait, Open, Create
  <2>3. <<"result">> \in Seq(OpNames) /\ <<"create">> \in Seq(OpNames)
        /\ <<"recover", "rmoldest", "create">> \in Seq(OpNames)
    BY CallNames DEF OpNames
  <2> QED
    BY <2>1, <2>2, <2>3, ConcatProperties
<1> QED
  BY <1>1, <1>2, <1>3, <1>4, IdleOrder


(* The steps that give other names to the same data.                       *)
LEMMA RenamedOrder ==
  ASSUME OrderInv, data' = data, fnsave' = fnsave, gone' = gone, nread' = nread, line' = line,
         buf' = buf, current' = current, size' = size, pc' = pc, todo # <<>>,
         todo' \in Seq(OpNames), files' \subseteq (1..Len(data)) \X Kinds, NamesInv',
         \A g \in files' : \E f \in files : f[1] = g[1]
  PROVE  OrderInv'
<1>0. DataType /\ DataInv /\ LineInv /\ Seen /\ OrderedFiles /\ OrderedMemory
  BY DEF OrderInv
<1>1. /\ Units(current)' = Units(current) /\ Units(buf)' = Units(buf) /\ Units(line)' = Units(line)
      /\ Memory' = Memory
  BY DEF Memory, Units, Range
<1>2. DataInv' /\ Seen' /\ OrderedFiles'
  BY <1>0, <1>1, OrderStep
<1>3. OrderedMemory'
  BY <1>0, <1>1 DEF OrderedMemory
<1>4. LineInv'
  BY <1>0 DEF LineInv
<1>5. DataType'
  BY <1>0 DEF DataType, OpNames, Kinds, MaxTime
<1> QED
  BY <1>2, <1>3, <1>4, <1>5 DEF OrderInv

LEMMA ProcessorOrder ==
  ASSUME OrderInv, ProcessorStart \/ ProcessorFailed \/ ProcessorDone \/ UnlinkUnprocessed
  PROVE  OrderInv'
<1>0. DataType /\ NamesInv
  BY DEF OrderInv
<1>1. /\ data' = data /\ fnsave' = fnsave /\ gone' = gone /\ nread' = nread /\ line' = line
      /\ buf' = buf /\ current' = current /\ size' = size /\ pc' = pc /\ todo # <<>>
  BY DEF ProcessorStart, ProcessorFailed, ProcessorDone, UnlinkUnprocessed, lineVars, curVars, Calling
<1>2. PICK p : \/ todo' = Tail(todo)
               \/ p \in {<<"start">>, <<"unlinku">>} /\ todo' = p \o Tail(todo)
  BY DEF ProcessorStart, ProcessorFailed, ProcessorDone, UnlinkUnprocessed
<1>3. todo' \in Seq(OpNames)
  <2>1. Tail(todo) \in Seq(OpNames)
    BY <1>0, <1>1, TailRange DEF DataType
  <2>2. <<"start">> \in Seq(OpNames) /\ <<"unlinku">> \in Seq(OpNames)
    BY SingleRange DEF OpNames
  <2> QED
    BY <1>2, <2>1, <2>2, ConcatProperties
<1>4. \/ files' = files
      \/ Exists(fnsave, "u") /\ files' = files \cup {<<fnsave, "t">>}
      \/ files' = files \ {<<fnsave, "t">>}
      \/ Exists(fnsave, "t") /\ files' = (files \ {<<fnsave, "t">>}) \cup {<<fnsave, "s">>}
      \/ files' = files \ {<<fnsave, "u">>}
  BY DEF ProcessorStart, ProcessorFailed, ProcessorDone, UnlinkUnprocessed
<1>5. files' \subseteq (1..Len(data)) \X Kinds
  BY <1>0, <1>4 DEF DataType, Exists, Kinds
<1>6. \A g \in files' : \E f \in files : f[1] = g[1]
  BY <1>4 DEF Exists
<1>7. NamesInv'
  <2>1. CASE ProcessorStart
    <3>1. ~ Calling("unlinku")
      BY <2>1 DEF ProcessorStart, Calling
    <3>2. files' = files \/ (Exists(fnsave, "u") /\ files' = files \cup {<<fnsave, "t">>})
      BY <2>1 DEF ProcessorStart
    <3> QED
      BY <3>1, <3>2, <1>0, <1>1 DEF NamesInv, Exists
  <2>2. CASE ProcessorFailed
    <3>1. ~ Calling("unlinku") /\ files' = files \ {<<fnsave, "t">>}
      BY <2>2 DEF ProcessorFailed, Calling
    <3> QED
      BY <3>1, <1>0, <1>1 DEF NamesInv, Exists
  <2>3. CASE ProcessorDone
    <3>1. files' = (files \ {<<fnsave, "t">>}) \cup {<<fnsave, "s">>}
      BY <2>3 DEF ProcessorDone
    <3>2. Calling("unlinku")'
      <4>1. todo' = <<"unlinku">> \o Tail(todo)
        BY <2>3 DEF ProcessorDone
      <4>2. Tail(todo) \in Seq(OpNames)
        BY <1>0, <1>1, TailRange DEF DataType
      <4>3. todo' # <<>> /\ Head(todo') = "unlinku"
        BY <4>1, <4>2, FrontOf DEF OpNames
      <4> QED
        BY <4>3 DEF Calling
    <3> QED
      BY <3>1, <3>2, <1>0, <1>1 DEF NamesInv, Exists
  <2>4. CASE UnlinkUnprocessed
    <3>1. files' = files \ {<<fnsave, "u">>}
      BY <2>4 DEF UnlinkUnprocessed
    <3> QED
      BY <3>1, <1>0, <1>1 DEF NamesInv, Exists
  <2> QED
    BY <2>1, <2>2, <2>3, <2>4
<1> QED
  BY <1>1, <1>3, <1>5, <1>6, <1>7, RenamedOrder

(* What is removed as the oldest is older than all that is left.           *)
LEMMA RemoveOrder ==
  ASSUME OrderInv, NEW fs, Remove(fs), data' = data, nread' = nread, Memory' = Memory,
         fnsave' = fnsave, fs \subseteq files,
         Calling("unlinku") => Calling("unlinku")',
         \A f \in fs : f[2] = "t" \/ \A g \in files \ fs : Older(f, g)
  PROVE  DataInv' /\ Seen' /\ OrderedFiles' /\ NamesInv' /\ files' \subseteq files
<1>0. DataType /\ DataInv /\ Seen /\ OrderedFiles /\ NamesInv
  BY DEF OrderInv
<1>1. /\ files' = files \ fs
      /\ gone' = gone \cup (OldUnits(files, short) \ OldUnits(files \ fs, short))
  BY DEF Remove
<1>2. ASSUME NEW u \in gone', u \notin gone
      PROVE  /\ \E n \in 1..Len(data) : u \in Units(data[n])
             /\ \A g \in files' : \A v \in Units(data[g[1]]) : u < v
             /\ \A v \in Memory : u < v
  <2>1. u \in OldUnits(files, short) /\ u \notin OldUnits(files \ fs, short)
    BY <1>1, <1>2
  <2>2. PICK f \in files : /\ f[2] = "u" \/ (f[2] = "s" /\ f[1] \notin short)
                           /\ u \in Units(data[f[1]])
    BY <2>1, OldUnit
  <2>3. f \in fs /\ f[2] # "t"
    BY <2>1, <2>2, OldUnit
  <2>4. f[1] \in 1..Len(data) /\ f = <<f[1], f[2]>>
    BY <2>2, <1>0 DEF DataType
  <2>5. ASSUME NEW g \in files', NEW v \in Units(data[g[1]]) PROVE u < v
    <3>1. g \in files \ fs /\ Older(f, g) /\ g[1] \in 1..Len(data) /\ g = <<g[1], g[2]>> /\ g[2] \in Kinds
      BY <2>3, <2>5, <1>0, <1>1 DEF DataType
    <3>2. CASE f[1] < g[1]
      BY <2>2, <2>4, <2>5, <3>1, <3>2, <1>0 DEF OrderedFiles, Before
    <3>3. CASE ~ (f[1] < g[1])
      <4>1. f[1] = g[1] /\ f[2] # g[2] /\ f[2] # "u" /\ g[2] # "s"
        BY <3>1, <3>3 DEF Older
      <4>2. f[2] = "s" /\ f[1] \notin short
        BY <2>2, <4>1
      <4>3. CASE g[2] = "u"
        <5>1. u \in Units(data[g[1]])
          BY <2>2, <4>1
        <5>2. u \in OldUnits(files \ fs, short)
          BY <5>1, <4>3, <3>1, OldUnit
        <5> QED
          BY <5>2, <2>1
      <4>4. CASE g[2] = "t"
        <5>1. Exists(f[1], "s") /\ Exists(f[1], "t")
          BY <2>2, <2>4, <3>1, <4>1, <4>2, <4>4 DEF Exists
        <5> QED
          BY <5>1, <1>0 DEF NamesInv
      <4> QED
        BY <3>1, <4>1, <4>3, <4>4 DEF Kinds
    <3> QED
      BY <3>2, <3>3
  <2>6. \A v \in Memory : u < v
    BY <2>2, <2>4, <1>0 DEF OrderedFiles, Before
  <2> QED
    BY <2>2, <2>4, <2>5, <2>6
<1>3. DataInv'
  BY <1>0, DataStays
<1>4. Seen'
  <2>1. \A u \in gone' : u \in 1..nread
    BY <1>0, <1>2 DEF Seen, DataInv
  <2> QED
    BY <1>0, <2>1 DEF Seen
<1>5. OrderedFiles'
  <2>1. \A n : Units(data[n])' = Units(data[n])
    BY DEF Units, Range
  <2>2. \A n, m \in 1..Len(data') : n < m => Before(Units(data[n]), Units(data[m]))'
    BY <1>0, <2>1 DEF OrderedFiles, Before
  <2>3. \A n \in 1..Len(data') : Before(Units(data[n]), Memory)'
    BY <1>0, <2>1 DEF OrderedFiles, Before
  <2>4. ASSUME NEW g \in files' PROVE Before(gone', Units(data[g[1]])')
    <3>1. g \in files
      BY <1>1
    <3>2. \A u \in gone', v \in Units(data[g[1]]) : u < v
      BY <3>1, <1>0, <1>2 DEF OrderedFiles, Before
    <3> QED
      BY <3>2, <2>1 DEF Before
  <2>5. Before(gone', Memory')
    <3>1. \A u \in gone', v \in Memory : u < v
      BY <1>0, <1>2 DEF OrderedFiles, Before
    <3> QED
      BY <3>1 DEF Before
  <2> QED
    BY <2>2, <2>3, <2>4, <2>5 DEF OrderedFiles, Before, Units, Range
<1>6. NamesInv'
  BY <1>0, <1>1 DEF NamesInv, Exists
<1> QED
  BY <1>1, <1>3, <1>4, <1>5, <1>6

LEMMA RmOldestOrder ==
  ASSUME OrderInv, RmOldest
  PROVE  OrderInv'
<1>0. DataType /\ LineInv /\ OrderedMemory
  BY DEF OrderInv
<1>1. /\ line' = line /\ buf' = buf /\ current' = current /\ size' = size /\ pc' = pc
      /\ data' = data /\ fnsave' = fnsave /\ nread' = nread
      /\ todo # <<>> /\ todo' = Tail(todo) /\ ~ Calling("unlinku")
  BY DEF RmOldest, lineVars, curVars, Calling
<1>2. PICK fs : /\ Remove(fs) /\ fs \subseteq files
                /\ \A f \in fs : f[2] = "t" \/ \A g \in files \ fs : Older(f, g)
  <2> DEFINE left == {f \in files : f[2] = "t"}
             kept == files \ left
             fs == left \cup (IF NMax > 0 /\ Cardinality(kept) > NMax THEN Oldest(kept) ELSE {})
  <2>1. Remove(fs)
    BY DEF RmOldest
  <2>2. fs \subseteq left \cup Oldest(kept) /\ left \subseteq fs
    OBVIOUS
  <2>3. Oldest(kept) \subseteq files
    BY DEF Oldest
  <2>4. ASSUME NEW f \in fs, f[2] # "t", NEW g \in files \ fs PROVE Older(f, g)
    <3>1. f \in Oldest(kept) /\ g \in kept /\ g # f
      BY <2>2, <2>4
    <3> HIDE DEF left, kept
    <3> QED
      BY <3>1 DEF Oldest
  <2> HIDE DEF fs
  <2>5. fs \subseteq files
    BY <2>2, <2>3
  <2> QED
    BY <2>1, <2>4, <2>5
<1>3. /\ Units(current)' = Units(current) /\ Units(buf)' = Units(buf) /\ Units(line)' = Units(line)
      /\ Memory' = Memory
  BY <1>1 DEF Memory, Units, Range
<1>4. DataInv' /\ Seen' /\ OrderedFiles' /\ NamesInv' /\ files' \subseteq files
  BY <1>1, <1>2, <1>3, RemoveOrder
<1>5. OrderedMemory'
  BY <1>0, <1>1, <1>3 DEF OrderedMemory
<1>6. LineInv'
  BY <1>0, <1>1 DEF LineInv
<1>7. todo' \in Seq(OpNames)
  BY <1>0, <1>1, TailRange DEF DataType
<1>8. DataType'
  BY <1>0, <1>1, <1>4, <1>7 DEF DataType, OpNames, Kinds, MaxTime
<1> QED
  BY <1>4, <1>5, <1>6, <1>8 DEF OrderInv


LEMMA NoSpaceOrder ==
  ASSUME OrderInv, WriteNoSpace
  PROVE  OrderInv'
<1>0. DataType /\ LineInv /\ OrderedMemory
  BY DEF OrderInv
<1>1. /\ line' = line /\ current' = current /\ size' = size /\ pc' = pc /\ todo' = todo
      /\ data' = data /\ fnsave' = fnsave /\ nread' = nread /\ Remove(Victim)
      /\ todo = <<>> /\ pc = "write" /\ (SizeMax > 0 => size < SizeMax)
  BY DEF WriteNoSpace, lineVars, At
<1>2. PICK j \in 0..Fits - 1 : buf' = buf \o SubSeq(line, 1, j)
  BY DEF WriteNoSpace
<1>3. Fits \in 0..Len(line) /\ Len(line) \in Nat
  BY <1>0, <1>1, FitsLine, LenProperties DEF DataType
<1>4. j \in 0..Len(line)
  BY <1>2, <1>3
<1>5. PICK a : a = SubSeq(line, 1, j)
  OBVIOUS
<1>6. a \in Seq(Nat) /\ Units(a) \subseteq Units(line)
  <2>1. line \in Seq(Nat)
    BY <1>0 DEF DataType
  <2>2. /\ SubSeq(line, 1, j) \in Seq(Nat)
        /\ Units(line) = Units(SubSeq(line, 1, j)) \cup Units(SubSeq(line, j + 1, Len(line)))
    BY <1>4, <2>1, SubUnits
  <2> QED
    BY <1>5, <2>2, Zenon
<1>7. buf' \in Seq(Nat) /\ Units(buf)' = Units(buf) \cup Units(a)
  <2>1. buf \o a \in Seq(Nat) /\ Units(buf \o a) = Units(buf) \cup Units(a)
    BY <1>0, <1>6, ConcatUnits DEF DataType
  <2>2. buf' = buf \o a
    BY <1>2, <1>5
  <2>3. Units(buf)' = Units(buf \o a)
    BY <2>2 DEF Units, Range
  <2> QED
    BY <2>1, <2>2, <2>3
<1>8. Units(current)' = Units(current) /\ Units(line)' = Units(line)
  BY <1>1 DEF Units, Range
<1>9. Memory' = Memory
  BY <1>6, <1>7, <1>8 DEF Memory
<1>10. /\ Victim \subseteq files
       /\ \A f \in Victim : \A g \in files \ Victim : Older(f, g)
  <2>1. Victim \in {Oldest(files), {}}
    BY DEF Victim
  <2> QED
    BY <2>1 DEF Oldest
<1>11. Calling("unlinku") => Calling("unlinku")'
  BY <1>1 DEF Calling
<1>12. DataInv' /\ Seen' /\ OrderedFiles' /\ NamesInv' /\ files' \subseteq files
  BY <1>1, <1>9, <1>10, <1>11, RemoveOrder
<1>13. OrderedMemory'
  <2>1. Before(Units(current), Units(buf) \cup Units(line))
    BY <1>0 DEF OrderedMemory
  <2>2. Before(Units(current)', Units(buf)' \cup Units(line)')
    BY <2>1, <1>6, <1>7, <1>8 DEF Before
  <2> QED
    BY <2>2, <1>1 DEF OrderedMemory
<1>14. LineInv'
  BY <1>1 DEF LineInv
<1>15. DataType'
  BY <1>0, <1>1, <1>7, <1>12 DEF DataType, OpNames, Kinds, MaxTime
<1> QED
  BY <1>12, <1>13, <1>14, <1>15 DEF OrderInv

LEMMA RenameOrder ==
  ASSUME OrderInv, Rename \/ Recover
  PROVE  OrderInv'
<1>0. DataType /\ DataInv /\ LineInv /\ Seen /\ OrderedFiles /\ OrderedMemory /\ NamesInv
  BY DEF OrderInv
<1>1. PICK kind \in {"u", "s"} : RenameTo(kind)
  BY DEF Rename, Recover
<1>2. /\ line' = line /\ buf' = buf /\ current' = <<>> /\ size' = size /\ pc' = pc
      /\ nread' = nread /\ gone' = gone /\ todo' = Tail(todo) /\ todo # <<>>
      /\ fnsave' = Len(data) + 1 /\ fnsave' <= MaxTime
      /\ files' = files \cup {<<fnsave', kind>>} /\ data' = Append(data, current)
  BY <1>1 DEF RenameTo, Rename, Recover, Calling, lineVars
<1>3. PICK k \in Nat : k = Len(data)
  BY <1>0, LenProperties DEF DataType
<1>4. /\ data' \in Seq(Seq(Nat)) /\ Len(data') = k + 1
      /\ \A n \in 1..k : data'[n] = data[n]
      /\ data'[k + 1] = current
  BY <1>0, <1>2, <1>3, AppendProperties DEF DataType
<1>5. /\ fnsave' = k + 1 /\ k + 1 <= MaxTime
      /\ files' = files \cup {<<k + 1, kind>>} /\ files \subseteq (1..k) \X Kinds
  BY <1>0, <1>2, <1>3 DEF DataType
<1>6. Memory = Units(current) \cup Memory' /\ Memory' = Units(buf) \cup Units(line)
  <2>1. Units(current)' = {} /\ Units(buf)' = Units(buf) /\ Units(line)' = Units(line)
    BY <1>2, EmptyUnits DEF Units, Range
  <2> QED
    BY <2>1 DEF Memory
<1>7. Before(Units(current), Memory')
  BY <1>0, <1>6 DEF OrderedMemory
<1>8. DataInv'
  <2>1. Units(current) \subseteq 1..nread
    BY <1>0, <1>6 DEF Seen
  <2>2. ASSUME NEW n \in 1..(k + 1) PROVE Units(data'[n]) \subseteq 1..nread
    <3>1. CASE n \in 1..k
      BY <3>1, <1>0, <1>3, <1>4 DEF DataInv
    <3>2. CASE n = k + 1
      BY <3>2, <1>4, <2>1
    <3> QED
      BY <3>1, <3>2
  <2>3. \A n \in 1..Len(data') : Units(data'[n]) \subseteq 1..nread'
    BY <2>2, <1>2, <1>4
  <2> QED
    BY <2>3 DEF DataInv, Units, Range
<1>9. Seen'
  BY <1>0, <1>2, <1>6 DEF Seen
<1>10. OrderedFiles'
  <2>1. ASSUME NEW n \in 1..(k + 1), NEW m \in 1..(k + 1), n < m
        PROVE  Before(Units(data'[n]), Units(data'[m]))
    <3>1. n \in 1..k /\ data'[n] = data[n]
      BY <1>4, <2>1
    <3>2. CASE m \in 1..k
      BY <2>1, <3>1, <3>2, <1>0, <1>3, <1>4 DEF OrderedFiles
    <3>3. CASE m = k + 1
      BY <3>1, <3>3, <1>0, <1>3, <1>4, <1>6 DEF OrderedFiles, Before
    <3> QED
      BY <3>2, <3>3
  <2>2. ASSUME NEW n \in 1..(k + 1) PROVE Before(Units(data'[n]), Memory')
    <3>1. CASE n \in 1..k
      BY <3>1, <1>0, <1>3, <1>4, <1>6 DEF OrderedFiles, Before
    <3>2. CASE n = k + 1
      BY <3>2, <1>4, <1>7
    <3> QED
      BY <3>1, <3>2
  <2>3. ASSUME NEW f \in files' PROVE Before(gone, Units(data'[f[1]]))
    <3>1. CASE f \in files
      <4>1. f[1] \in 1..k
        BY <3>1, <1>5
      <4> QED
        BY <3>1, <4>1, <1>0, <1>4 DEF OrderedFiles
    <3>2. CASE f = <<k + 1, kind>>
      BY <3>2, <1>0, <1>4, <1>6 DEF OrderedFiles, Before
    <3> QED
      BY <3>1, <3>2, <1>5
  <2>4. Before(gone, Memory')
    BY <1>0, <1>6 DEF OrderedFiles, Before
  <2>5. Len(data') = k + 1 /\ gone' = gone
    BY <1>2, <1>4
  <2> QED
    BY <2>1, <2>2, <2>3, <2>4, <2>5 DEF OrderedFiles, Before, Units, Range
<1>11. OrderedMemory'
  <2>1. Units(current)' = {} /\ Units(buf)' = Units(buf) /\ Units(line)' = Units(line)
    BY <1>2, EmptyUnits DEF Units, Range
  <2>2. Before(Units(buf), Units(line))
    BY <1>0, <1>2 DEF OrderedMemory
  <2> QED
    BY <2>1, <2>2 DEF OrderedMemory, Before
<1>12. NamesInv'
  <2>1. \A x : <<k + 1, x>> \notin files
    BY <1>5
  <2>2. \A n, x : Exists(n, x)' <=> Exists(n, x) \/ (n = k + 1 /\ x = kind)
    BY <1>5 DEF Exists
  <2>3. \A x : Exists(k + 1, x)' <=> x = kind
    BY <2>1, <2>2 DEF Exists
  <2>4. ASSUME NEW n PROVE ~ (Exists(n, "s")' /\ Exists(n, "t")')
    <3>1. CASE n = k + 1
      BY <2>3, <3>1
    <3>2. CASE n # k + 1
      BY <2>2, <3>2, <1>0 DEF NamesInv
    <3> QED
      BY <3>1, <3>2
  <2>5. ~ (Exists(k + 1, "s")' /\ Exists(k + 1, "u")')
    BY <2>3
  <2> QED
    BY <2>4, <2>5, <1>5 DEF NamesInv, Exists
<1>13. LineInv'
  BY <1>0, <1>2 DEF LineInv
<1>14. todo' \in Seq(OpNames)
  BY <1>0, <1>2, TailRange DEF DataType
<1>15. DataType'
  <2>1. Len(data') <= MaxTime /\ fnsave' \in 0..Len(data')
    BY <1>4, <1>5
  <2>2. files' \subseteq (1..Len(data')) \X Kinds
    <3>1. k + 1 \in 1..(k + 1) /\ 1..k \subseteq 1..(k + 1)
      OBVIOUS
    <3>2. kind \in Kinds
      BY DEF Kinds
    <3> QED
      BY <3>1, <3>2, <1>4, <1>5
  <2> QED
    BY <2>1, <2>2, <1>0, <1>2, <1>4, <1>14 DEF DataType, OpNames, Kinds, MaxTime
<1> QED
  BY <1>8, <1>9, <1>10, <1>11, <1>12, <1>13, <1>15 DEF OrderInv

(* The steps that move units towards current, or lose them.                *)
LEMMA MovedOrder ==
  ASSUME OrderInv, UNCHANGED <<files, data>>, gone' = gone, nread' = nread,
         line' \in Seq(Nat), buf' \in Seq(Nat), current' \in Seq(Nat), size' \in Nat,
         todo' \in Seq(OpNames), fnsave' \in 0..Len(data), Memory' \subseteq Memory,
         LineInv', OrderedMemory', NamesInv'
  PROVE  OrderInv'
<1>0. DataType /\ DataInv /\ Seen /\ OrderedFiles
  BY DEF OrderInv
<1>1. DataInv' /\ Seen' /\ OrderedFiles'
  BY <1>0, OrderStep
<1>2. DataType'
  BY <1>0 DEF DataType, OpNames, Kinds, MaxTime
<1> QED
  BY <1>1, <1>2 DEF OrderInv

LEMMA SealOrder ==
  ASSUME OrderInv, Seal \/ Flush
  PROVE  OrderInv'
<1>0. DataType /\ LineInv /\ OrderedMemory /\ NamesInv
  BY DEF OrderInv
<1>1. /\ UNCHANGED oldVars /\ line' = line /\ gone' = gone /\ nread' = nread /\ size' = size
      /\ current' = current \o buf /\ buf' = <<>>
  BY DEF Seal, Flush, lineVars
<1>2. current \o buf \in Seq(Nat) /\ Units(current \o buf) = Units(current) \cup Units(buf)
  BY <1>0, ConcatUnits DEF DataType
<1>3. /\ Units(current)' = Units(current) \cup Units(buf) /\ Units(buf)' = {}
      /\ Units(line)' = Units(line)
  BY <1>1, <1>2, EmptyUnits DEF Units, Range
<1>4. Memory' = Memory
  BY <1>3 DEF Memory
<1>5. Before(Units(buf), Units(line))
  <2>1. CASE Seal
    BY <2>1, <1>0 DEF Seal, Calling, OrderedMemory
  <2>2. CASE Flush
    <3>1. line = <<>>
      BY <2>2, <1>0 DEF Flush, At, LineInv
    <3> QED
      BY <3>1, EmptyUnits DEF Before
  <2> QED
    BY <2>1, <2>2
<1>6. OrderedMemory'
  BY <1>0, <1>3, <1>5 DEF OrderedMemory, Before
<1>7. LineInv'
  <2>1. pc = "write" => pc' = "write"
    BY DEF Seal, Flush, At
  <2> QED
    BY <1>0, <1>1, <2>1 DEF LineInv
<1>8. todo' \in Seq(OpNames)
  BY <1>0, TailRange DEF Seal, Flush, Calling, DataType
<1>9. NamesInv'
  <2>1. ~ Calling("unlinku")
    BY DEF Seal, Flush, Calling, At
  <2> QED
    BY <2>1, <1>0, <1>1, NamesStay DEF oldVars
<1>10. /\ files' = files /\ data' = data /\ fnsave' \in 0..Len(data)
       /\ line' \in Seq(Nat) /\ buf' \in Seq(Nat) /\ current' \in Seq(Nat) /\ size' \in Nat
  BY <1>0, <1>1, <1>2 DEF DataType, oldVars
<1> QED
  BY <1>1, <1>4, <1>6, <1>7, <1>8, <1>9, <1>10, MovedOrder


LEMMA WriteOrder ==
  ASSUME OrderInv, Write
  PROVE  OrderInv'
<1>0. DataType /\ OrderedMemory /\ NamesInv
  BY DEF OrderInv
<1>1. /\ UNCHANGED oldVars /\ line' = <<>> /\ gone' = gone /\ nread' = nread
      /\ size' = size + Fits /\ todo = <<>>
  BY DEF Write, At
<1>2. PICK k \in 0..Len(line) : k = Fits
  BY <1>0, FitsLine DEF Write, DataType
<1>3. PICK a \in Seq(Nat) : a = SubSeq(line, 1, k) /\ Units(a) \subseteq Units(line)
  <2>1. line \in Seq(Nat)
    BY <1>0 DEF DataType
  <2>2. /\ SubSeq(line, 1, k) \in Seq(Nat)
        /\ Units(line) = Units(SubSeq(line, 1, k)) \cup Units(SubSeq(line, k + 1, Len(line)))
    BY <2>1, SubUnits
  <2> QED
    BY <2>2, Zenon
<1>4. \/ buf' = buf \o a /\ current' = current
      \/ buf' = <<>> /\ current' = current \o buf \o a
  BY <1>2, <1>3 DEF Write
<1>5. Units(line)' = {}
  BY <1>1, EmptyUnits DEF Units, Range
<1>6. /\ buf' \in Seq(Nat) /\ current' \in Seq(Nat)
      /\ \/ Units(current)' = Units(current) /\ Units(buf)' = Units(buf) \cup Units(a)
         \/ Units(current)' = Units(current) \cup Units(buf) \cup Units(a) /\ Units(buf)' = {}
  <2>1. CASE buf' = buf \o a /\ current' = current
    <3>1. buf \o a \in Seq(Nat) /\ Units(buf \o a) = Units(buf) \cup Units(a)
      BY <1>0, ConcatUnits DEF DataType
    <3>2. Units(buf)' = Units(buf \o a) /\ Units(current)' = Units(current)
      BY <2>1 DEF Units, Range
    <3> QED
      BY <2>1, <3>1, <3>2, <1>0 DEF DataType
  <2>2. CASE buf' = <<>> /\ current' = current \o buf \o a
    <3>1. PICK c \in Seq(Nat) : c = current \o buf /\ Units(c) = Units(current) \cup Units(buf)
      BY <1>0, ConcatUnits DEF DataType
    <3>2. c \o a \in Seq(Nat) /\ Units(c \o a) = Units(c) \cup Units(a)
      BY ConcatUnits
    <3>3. current' = c \o a
      BY <2>2, <3>1
    <3>4. Units(current)' = Units(c \o a) /\ Units(buf)' = {}
      BY <2>2, <3>3, EmptyUnits DEF Units, Range
    <3>5. buf' \in Seq(Nat)
      BY <2>2
    <3> QED
      BY <3>1, <3>2, <3>3, <3>4, <3>5
  <2> QED
    BY <2>1, <2>2, <1>4
<1>7. Memory' \subseteq Memory
  BY <1>3, <1>5, <1>6 DEF Memory
<1>8. OrderedMemory'
  <2>1. Before(Units(current), Units(buf) \cup Units(line))
    BY <1>0 DEF OrderedMemory
  <2>2. Before(Units(current)', Units(buf)')
    BY <2>1, <1>3, <1>6 DEF Before
  <2> QED
    BY <2>2, <1>5 DEF OrderedMemory, Before
<1>9. LineInv'
  BY <1>1 DEF LineInv
<1>10. todo' \in Seq(OpNames)
  <2>1. todo' = <<>> \/ todo' = RotateCalls(size + Fits)
    BY DEF Write
  <2> QED
    BY <2>1, CallNames
<1>11. NamesInv'
  <2>1. ~ Calling("unlinku")
    BY <1>1 DEF Calling
  <2> QED
    BY <2>1, <1>0, <1>1, NamesStay DEF oldVars
<1>12. line' \in Seq(Nat) /\ size' \in Nat
  <2>1. Len(line) \in Nat
    BY <1>0, LenProperties DEF DataType
  <2>2. size' \in Nat
    BY <1>0, <1>1, <1>2, <2>1 DEF DataType
  <2> QED
    BY <1>1, <2>2
<1>13. files' = files /\ data' = data /\ fnsave' \in 0..Len(data)
  BY <1>0, <1>1 DEF DataType, oldVars
<1> QED
  BY <1>1, <1>6, <1>7, <1>8, <1>9, <1>10, <1>11, <1>12, <1>13, MovedOrder

LEMMA EndOrder ==
  ASSUME OrderInv, ReadEnd
  PROVE  OrderInv'
<1>0. DataType /\ LineInv /\ OrderedMemory /\ NamesInv
  BY DEF OrderInv
<1>1. pc # "write" /\ EndOfInput /\ todo = <<>>
  BY DEF ReadEnd, At
<1>2. /\ UNCHANGED oldVars /\ gone' = gone /\ nread' = nread
      /\ buf' = buf /\ current' = current /\ size' = size
      /\ \/ line' = <<0>> /\ pc' = "write" /\ todo' = todo
         \/ line' = line /\ pc' = "exit" /\ todo' = <<"stop", "seal">>
  BY <1>1 DEF EndOfInput, curVars
<1>3. line = <<>>
  BY <1>0, <1>1 DEF LineInv
<1>4. /\ Units(current)' = Units(current) /\ Units(buf)' = Units(buf)
      /\ Units(line)' = {} /\ Units(line) = {}
  <2>1. Units(<<0>>) = {} /\ Units(<<>>) = {}
    BY SingleRange, EmptyUnits DEF Units
  <2> QED
    BY <2>1, <1>2, <1>3 DEF Units, Range
<1>5. Memory' = Memory
  BY <1>4 DEF Memory
<1>6. OrderedMemory'
  BY <1>0, <1>4 DEF OrderedMemory, Before
<1>7. LineInv'
  BY <1>2, <1>3 DEF LineInv
<1>8. todo' \in Seq(OpNames)
  BY <1>0, <1>2, CallNames DEF DataType
<1>9. NamesInv'
  <2>1. ~ Calling("unlinku")
    BY <1>1 DEF Calling
  <2> QED
    BY <2>1, <1>0, <1>2, NamesStay DEF oldVars
<1>10. /\ files' = files /\ data' = data /\ fnsave' \in 0..Len(data)
       /\ buf' \in Seq(Nat) /\ current' \in Seq(Nat) /\ size' \in Nat
  BY <1>0, <1>2 DEF DataType, oldVars
<1>11. line' \in Seq(Nat)
  <2>1. <<0>> \in Seq(Nat) /\ <<>> \in Seq(Nat)
    OBVIOUS
  <2>2. line' = <<0>> \/ line' = <<>>
    BY <1>2, <1>3
  <2> QED
    BY <2>1, <2>2
<1> QED
  BY <1>2, <1>5, <1>6, <1>7, <1>8, <1>9, <1>10, <1>11, MovedOrder

LEMMA AgainOrder ==
  ASSUME OrderInv, Again
  PROVE  OrderInv'
<1>0. DataType /\ NamesInv
  BY DEF OrderInv
<1>1. /\ line' = <<>> /\ buf' = <<>> /\ current' = current /\ size' = 0 /\ todo' = <<"open">>
      /\ files' = files /\ data' = data /\ fnsave' = 0 /\ gone' = gone /\ nread' = nread
  BY DEF Again
<1>2. Units(current)' = Units(current) /\ Units(buf)' = {} /\ Units(line)' = {}
  BY <1>1, EmptyUnits DEF Units, Range
<1>3. Memory' \subseteq Memory
  BY <1>2 DEF Memory
<1>4. OrderedMemory'
  BY <1>2 DEF OrderedMemory, Before
<1>5. LineInv'
  BY <1>1 DEF LineInv
<1>6. NamesInv'
  <2>1. \A x : <<0, x>> \notin files
    BY <1>0 DEF DataType
  <2> QED
    BY <2>1, <1>0, <1>1 DEF NamesInv, Exists
<1>7. /\ line' \in Seq(Nat) /\ buf' \in Seq(Nat) /\ current' \in Seq(Nat) /\ size' \in Nat
      /\ fnsave' \in 0..Len(data)
  BY <1>0, <1>1, LenProperties DEF DataType
<1>8. todo' \in Seq(OpNames)
  BY <1>1, CallNames DEF OpNames
<1> QED
  BY <1>1, <1>3, <1>4, <1>5, <1>6, <1>7, <1>8, MovedOrder

(* What is read now comes after all that was read before.                  *)
LEMMA ReadOrder ==
  ASSUME OrderInv, Read
  PROVE  OrderInv'
<1>0. DataType /\ DataInv /\ LineInv /\ Seen /\ OrderedFiles /\ OrderedMemory /\ NamesInv
  BY DEF OrderInv
<1>1. /\ buf' = buf /\ current' = current /\ size' = size /\ pc' = "write" /\ todo' = todo
      /\ files' = files /\ data' = data /\ fnsave' = fnsave /\ gone' = gone
  BY DEF Read, curVars, oldVars
<1>2. line = <<>>
  BY <1>0 DEF Read, At, LineInv
<1>3. PICK r \in Nat : r = nread
  BY <1>0 DEF DataType
<1>4. PICK k \in Nat : nread' = r + k /\ line' = [i \in 1..k |-> r + i]
  <2>1. PICK k \in 1..LineMax : nread' = nread + k /\ line' = [i \in 1..k |-> nread + i]
    BY DEF Read
  <2>2. k \in Nat
    BY SvlogdAssumption
  <2> QED
    BY <2>1, <2>2, <1>3
<1>5. line' \in Seq(Nat) /\ \A u \in Units(line') : u \in (r + 1)..(r + k)
  <2>1. line' \in [1..k -> Nat] /\ DOMAIN line' = 1..k
    BY <1>4
  <2>2. line' \in Seq(Nat)
    BY <2>1
  <2>3. ASSUME NEW u \in Units(line') PROVE u \in (r + 1)..(r + k)
    <3>1. PICK i \in 1..k : u = line'[i]
      BY <2>1, <2>3 DEF Units, Range
    <3>2. u = r + i
      BY <3>1, <1>4
    <3> QED
      BY <3>2
  <2> QED
    BY <2>2, <2>3
<1>6. PICK new : new = Units(line') /\ \A u \in new : u \in (r + 1)..(r + k)
  BY <1>5
<1>7. /\ Units(current)' = Units(current) /\ Units(buf)' = Units(buf)
      /\ Units(line)' = new /\ Units(line) = {}
  BY <1>1, <1>2, <1>6, EmptyUnits DEF Units, Range
<1>8. Memory' = Memory \cup new
  BY <1>7 DEF Memory
<1>9. ASSUME NEW S, S \subseteq 1..nread PROVE Before(S, new)
  BY <1>9, <1>3, <1>6 DEF Before
<1>10. /\ gone \subseteq 1..nread /\ Units(current) \subseteq 1..nread /\ Units(buf) \subseteq 1..nread
       /\ Memory \subseteq 1..nread
  BY <1>0 DEF Seen, Memory
<1>11. DataInv'
  <2>1. 1..nread \subseteq 1..nread'
    BY <1>3, <1>4
  <2>2. \A n \in 1..Len(data) : Units(data[n]) \subseteq 1..nread'
    BY <1>0, <2>1 DEF DataInv
  <2> QED
    BY <2>2, <1>1 DEF DataInv, Units, Range
<1>12. Seen'
  <2>1. gone \cup Memory \cup new \subseteq 1..nread'
    <3>1. 1..nread \subseteq 1..nread'
      BY <1>3, <1>4
    <3>2. (r + 1)..(r + k) \subseteq 1..nread'
      BY <1>4
    <3>3. new \subseteq (r + 1)..(r + k)
      BY <1>6
    <3> QED
      BY <3>1, <3>2, <3>3, <1>10
  <2> QED
    BY <2>1, <1>1, <1>8 DEF Seen
<1>13. OrderedFiles'
  <2>1. \A n : Units(data[n])' = Units(data[n])
    BY <1>1 DEF Units, Range
  <2>2. \A n, m \in 1..Len(data') : n < m => Before(Units(data[n]), Units(data[m]))'
    BY <1>0, <1>1, <2>1 DEF OrderedFiles, Before
  <2>3. ASSUME NEW n \in 1..Len(data') PROVE Before(Units(data[n])', Memory')
    <3>1. n \in 1..Len(data)
      BY <1>1
    <3>2. Before(Units(data[n]), Memory) /\ Before(Units(data[n]), new)
      BY <3>1, <1>0, <1>9 DEF OrderedFiles, DataInv
    <3> QED
      BY <3>2, <1>8, <2>1 DEF Before
  <2>4. \A f \in files' : Before(gone', Units(data[f[1]])')
    BY <1>0, <1>1, <2>1 DEF OrderedFiles
  <2>5. Before(gone', Memory')
    <3>1. Before(gone, Memory) /\ Before(gone, new)
      BY <1>0, <1>9, <1>10 DEF OrderedFiles
    <3> QED
      BY <3>1, <1>1, <1>8 DEF Before
  <2> QED
    BY <2>2, <2>3, <2>4, <2>5 DEF OrderedFiles, Before, Units, Range
<1>14. OrderedMemory'
  <2>1. Before(Units(current), Units(buf)) /\ Before(Units(current), new) /\ Before(Units(buf), new)
    BY <1>0, <1>9, <1>10 DEF OrderedMemory, Before
  <2> QED
    BY <2>1, <1>7 DEF OrderedMemory, Before
<1>15. LineInv'
  BY <1>1 DEF LineInv
<1>16. NamesInv'
  <2>1. Calling("unlinku") => Calling("unlinku")'
    BY <1>1 DEF Calling
  <2> QED
    BY <2>1, <1>0, <1>1, NamesStay
<1>17. DataType'
  <2>1. nread' \in Nat
    BY <1>4
  <2> QED
    BY <2>1, <1>0, <1>1, <1>5 DEF DataType, OpNames, Kinds, MaxTime
<1> QED
  BY <1>11, <1>12, <1>13, <1>14, <1>15, <1>16, <1>17 DEF OrderInv

LEMMA InitOrder ==
  ASSUME Init
  PROVE  OrderInv
<1>1. DataType
  <2>1. MaxTime \in Nat
    BY SvlogdAssumption DEF MaxTime
  <2>2. todo \in Seq(OpNames)
    BY CallNames DEF Init, OpNames
  <2> QED
    BY <2>1, <2>2 DEF Init, DataType
<1>2. DataInv /\ LineInv /\ NamesInv
  BY DEF Init, DataInv, LineInv, NamesInv, Exists
<1>3. /\ Units(current) = {} /\ Units(buf) = {} /\ Units(line) = {} /\ Memory = {} /\ gone = {}
      /\ Len(data) = 0 /\ files = {}
  BY EmptyUnits DEF Init, Memory
<1>4. Seen /\ OrderedMemory
  BY <1>3 DEF Seen, OrderedMemory, Before
<1>5. OrderedFiles
  BY <1>3 DEF OrderedFiles, Before
<1> QED
  BY <1>1, <1>2, <1>4, <1>5 DEF OrderInv

LEMMA OrderIsKept == Spec => []OrderInv
<1>1. Init => OrderInv
  BY InitOrder
<1>2. ASSUME OrderInv, [Next]_vars PROVE OrderInv'
  <2>1. CASE Svlogd
    BY <1>2, <2>1, LoopOrder, CallsOrder, ProcessorOrder, RmOldestOrder, NoSpaceOrder,
       RenameOrder, SealOrder, WriteOrder, EndOrder, ReadOrder DEF Svlogd
  <2>2. CASE \/ \E n \in Times : ProcessorEnds(n)
             \/ \E sg \in {"TERM", "HUP", "ALRM"} : SendSignal(sg)
             \/ UNCHANGED vars
    BY <1>2, <2>2, LoopOrder
  <2>3. CASE Again
    BY <1>2, <2>3, AgainOrder
  <2> QED
    BY <1>2, <2>1, <2>2, <2>3 DEF Next
<1> QED
  BY <1>1, <1>2, PTL DEF Spec

(* The names of the files say the order of what they hold: for every size  *)
(* and number of files, end of a processor, and order of rotations,        *)
(* failures and deaths, old files come before current by their time, and   *)
(* what rmoldest and a full disk delete is older than all that is left,    *)
(* also while a processor works on a file that is deleted.                 *)
THEOREM FilesAreOrdered == Spec => []InOrder
<1>1. OrderInv => InOrder
  <2> SUFFICES ASSUME OrderInv PROVE InOrder
    OBVIOUS
  <2>0. DataType /\ OrderedFiles
    BY DEF OrderInv
  <2>1. Units(current \o buf \o line) = Memory
    <3>1. PICK c \in Seq(Nat) : c = current \o buf /\ Units(c) = Units(current) \cup Units(buf)
      BY <2>0, ConcatUnits DEF DataType
    <3>2. Units(c \o line) = Units(c) \cup Units(line)
      BY <2>0, ConcatUnits DEF DataType
    <3> QED
      BY <3>1, <3>2 DEF Memory
  <2>2. \A f \in files : f[1] \in 1..Len(data)
    BY <2>0 DEF DataType
  <2>3. \A f, g \in files : f[1] < g[1] => Before(Units(data[f[1]]), Units(data[g[1]]))
    BY <2>0, <2>2 DEF OrderedFiles
  <2>4. \A f \in files : Before(Units(data[f[1]]), Memory)
    BY <2>0, <2>2 DEF OrderedFiles
  <2>5. Before(gone, OldUnits(files, short) \cup Memory)
    <3>1. \A v \in OldUnits(files, short) : \E f \in files : v \in Units(data[f[1]])
      BY OldUnit
    <3> QED
      BY <3>1, <2>0 DEF OrderedFiles, Before
  <2> QED
    BY <2>1, <2>3, <2>4, <2>5 DEF InOrder
<1> QED
  BY <1>1, OrderIsKept, PTL


-----------------------------------------------------------------------------
(* The inductive invariant for FilesWhole. *)

(* What is between two units of s in the input is between them there, or   *)
(* in S; what is between a unit of s and b comes after it, or is in S.     *)
Dense(s, S) ==
  \A i, j \in DOMAIN s : i < j /\ s[i] # 0 =>
    \A u \in (s[i] + 1)..(s[j] - 1) : u \in S \/ \E k \in i..j : s[k] = u
Tight(s, b, S) ==
  \A i \in DOMAIN s : s[i] # 0 =>
    \A u \in (s[i] + 1)..b : u \in S \/ \E k \in DOMAIN s : i < k /\ s[k] = u

(* line holds what was read after b, or the newline that ends a line.      *)
ReadFrom(l, b, r) ==
  \/ l = [i \in 1..(r - b) |-> b + i]
  \/ l = <<0>> /\ b = r
LineFrom(b) == ReadFrom(line, b, nread)

(* After a crash, what is missing at the end of current is of no account:  *)
(* it is put aside before anything is written.                             *)
Dirty ==
  /\ buf = <<>> /\ line = <<>>
  /\ IsDirty /\ (todo = <<"open">> \/ todo = Recovering)

Written == current \o buf
WholeInv ==
  /\ \A n \in 1..Len(data) : Dense(data[n], slipped)
  /\ Dense(Written, slipped)
  /\ \E b \in 0..nread : LineFrom(b) /\ (Tight(Written, b, slipped) \/ Dirty)

LEMMA Positions ==
  ASSUME NEW s \in Seq(Nat), NEW t \in Seq(Nat)
  PROVE  /\ s \o t \in Seq(Nat) /\ Len(s) \in Nat /\ Len(t) \in Nat
         /\ DOMAIN s = 1..Len(s) /\ DOMAIN t = 1..Len(t) /\ DOMAIN (s \o t) = 1..(Len(s) + Len(t))
         /\ \A i \in 1..Len(s) : s[i] \in Nat
         /\ \A i \in 1..Len(t) : t[i] \in Nat
         /\ \A i \in 1..Len(s) : i \in 1..(Len(s) + Len(t)) /\ (s \o t)[i] = s[i]
         /\ \A i \in 1..Len(t) : Len(s) + i \in 1..(Len(s) + Len(t)) /\ (s \o t)[Len(s) + i] = t[i]
<1>1. /\ s \o t \in Seq(Nat) /\ Len(s \o t) = Len(s) + Len(t) /\ Len(s) \in Nat /\ Len(t) \in Nat
      /\ \A i \in 1..Len(s) + Len(t) :
           (s \o t)[i] = IF i <= Len(s) THEN s[i] ELSE t[i - Len(s)]
      /\ DOMAIN s = 1..Len(s) /\ DOMAIN t = 1..Len(t) /\ DOMAIN (s \o t) = 1..Len(s \o t)
  BY ConcatProperties, LenProperties
<1>2. (\A i \in 1..Len(s) : s[i] \in Nat) /\ (\A i \in 1..Len(t) : t[i] \in Nat)
  BY ElementOfSeq
<1>3. \A i \in 1..Len(s) : i \in 1..(Len(s) + Len(t)) /\ (s \o t)[i] = s[i]
  BY <1>1
<1>4. ASSUME NEW i \in 1..Len(t)
      PROVE  Len(s) + i \in 1..(Len(s) + Len(t)) /\ (s \o t)[Len(s) + i] = t[i]
  <2>1. Len(s) + i \in 1..(Len(s) + Len(t)) /\ ~ (Len(s) + i <= Len(s)) /\ (Len(s) + i) - Len(s) = i
    BY <1>1
  <2> QED
    BY <2>1, <1>1
<1> QED
  BY <1>1, <1>2, <1>3, <1>4

(* A place in s \o t is one in s or one in t.                              *)
LEMMA PlaceOf ==
  ASSUME NEW s \in Seq(Nat), NEW t \in Seq(Nat), NEW i \in DOMAIN (s \o t)
  PROVE  i \in 1..Len(s) \/ \E j \in 1..Len(t) : i = Len(s) + j
<1>1. Len(s) \in Nat /\ Len(t) \in Nat /\ i \in 1..(Len(s) + Len(t))
  BY Positions
<1>2. CASE i <= Len(s)
  BY <1>1, <1>2
<1>3. CASE ~ (i <= Len(s))
  <2>1. i - Len(s) \in 1..Len(t) /\ i = Len(s) + (i - Len(s))
    BY <1>1, <1>3
  <2> QED
    BY <2>1
<1> QED
  BY <1>2, <1>3

LEMMA DenseParts ==
  ASSUME NEW s \in Seq(Nat), NEW t \in Seq(Nat), NEW S, Dense(s \o t, S)
  PROVE  Dense(s, S) /\ Dense(t, S)
<1> DEFINE st == s \o t
<1>0. /\ Len(s) \in Nat /\ Len(t) \in Nat
      /\ DOMAIN s = 1..Len(s) /\ DOMAIN t = 1..Len(t) /\ DOMAIN st = 1..(Len(s) + Len(t))
      /\ \A i \in 1..Len(s) : i \in 1..(Len(s) + Len(t)) /\ st[i] = s[i]
      /\ \A i \in 1..Len(t) : Len(s) + i \in 1..(Len(s) + Len(t)) /\ st[Len(s) + i] = t[i]
  BY Positions
<1>00. DOMAIN s = 1..Len(s) /\ DOMAIN t = 1..Len(t)
  BY <1>0
<1>1. Dense(st, S)
  OBVIOUS
<1> HIDE DEF st
<1>2. Dense(s, S)
  <2> SUFFICES ASSUME NEW i \in DOMAIN s, NEW j \in DOMAIN s, i < j /\ s[i] # 0,
                      NEW u \in (s[i] + 1)..(s[j] - 1), ~ (u \in S)
               PROVE  \E k \in i..j : s[k] = u
    BY DEF Dense
  <2>0. i \in 1..Len(s) /\ j \in 1..Len(s)
    BY <1>00
  <2>1. /\ i \in DOMAIN st /\ j \in DOMAIN st /\ st[i] = s[i] /\ st[j] = s[j]
    BY <1>0, <2>0
  <2>2. PICK k \in i..j : st[k] = u
    BY <2>1, <1>1 DEF Dense
  <2>3. k \in 1..Len(s)
    BY <1>0, <2>0
  <2> QED
    BY <2>2, <2>3, <1>0
<1>3. Dense(t, S)
  <2> SUFFICES ASSUME NEW i \in DOMAIN t, NEW j \in DOMAIN t, i < j /\ t[i] # 0,
                      NEW u \in (t[i] + 1)..(t[j] - 1), ~ (u \in S)
               PROVE  \E k \in i..j : t[k] = u
    BY DEF Dense
  <2>0. i \in 1..Len(t) /\ j \in 1..Len(t)
    BY <1>00
  <2>1. PICK x, y : x = Len(s) + i /\ y = Len(s) + j
    OBVIOUS
  <2>2. x \in DOMAIN st /\ y \in DOMAIN st /\ st[x] = t[i] /\ st[y] = t[j] /\ x < y
    BY <2>0, <2>1, <1>0
  <2>3. PICK k \in x..y : st[k] = u
    BY <2>2, <1>1 DEF Dense
  <2>4. k - Len(s) \in i..j /\ k - Len(s) \in 1..Len(t) /\ Len(s) + (k - Len(s)) = k
    BY <2>0, <2>1, <1>0
  <2>5. t[k - Len(s)] = u
    BY <2>3, <2>4, <1>0
  <2> QED
    BY <2>4, <2>5
<1> QED
  BY <1>2, <1>3

(* Of what is tight, the end is, and so is the beginning when the end is   *)
(* given up.                                                               *)
LEMMA TightParts ==
  ASSUME NEW s \in Seq(Nat), NEW t \in Seq(Nat), NEW b, NEW S, Tight(s \o t, b, S)
  PROVE  Tight(t, b, S) /\ Tight(s, b, S \cup Units(t))
<1> DEFINE st == s \o t
<1>0. /\ Len(s) \in Nat /\ Len(t) \in Nat
      /\ DOMAIN s = 1..Len(s) /\ DOMAIN t = 1..Len(t) /\ DOMAIN st = 1..(Len(s) + Len(t))
      /\ \A i \in 1..Len(s) : i \in 1..(Len(s) + Len(t)) /\ st[i] = s[i]
      /\ \A i \in 1..Len(t) : Len(s) + i \in 1..(Len(s) + Len(t)) /\ st[Len(s) + i] = t[i]
      /\ \A i \in 1..Len(s) : s[i] \in Nat
  BY Positions
<1>00. DOMAIN s = 1..Len(s) /\ DOMAIN t = 1..Len(t)
  BY <1>0
<1>1. Tight(st, b, S)
  OBVIOUS
<1>2. \A k \in DOMAIN st : k \in 1..Len(s) \/ \E j \in 1..Len(t) : k = Len(s) + j
  BY PlaceOf
<1> HIDE DEF st
<1>3. Tight(t, b, S)
  <2> SUFFICES ASSUME NEW i \in 1..Len(t), t[i] # 0, NEW u \in (t[i] + 1)..b, u \notin S
               PROVE  \E k \in 1..Len(t) : i < k /\ t[k] = u
    BY <1>00 DEF Tight
  <2>1. PICK x : x = Len(s) + i
    OBVIOUS
  <2>2. x \in DOMAIN st /\ st[x] = t[i]
    BY <2>1, <1>0
  <2>3. PICK k \in DOMAIN st : x < k /\ st[k] = u
    BY <2>2, <1>1 DEF Tight
  <2>4. k - Len(s) \in 1..Len(t) /\ i < k - Len(s) /\ Len(s) + (k - Len(s)) = k
    BY <2>1, <2>3, <1>0
  <2>5. t[k - Len(s)] = u
    BY <2>3, <2>4, <1>0
  <2> QED
    BY <2>4, <2>5
<1>4. Tight(s, b, S \cup Units(t))
  <2> SUFFICES ASSUME NEW i \in 1..Len(s), s[i] # 0, NEW u \in (s[i] + 1)..b, u \notin S, u \notin Units(t)
               PROVE  \E k \in 1..Len(s) : i < k /\ s[k] = u
    BY <1>00 DEF Tight
  <2>1. i \in DOMAIN st /\ st[i] = s[i]
    BY <1>0
  <2>2. PICK k \in DOMAIN st : i < k /\ st[k] = u
    BY <2>1, <1>1 DEF Tight
  <2>3. CASE k \in 1..Len(s)
    BY <2>2, <2>3, <1>0
  <2>4. CASE \E j \in 1..Len(t) : k = Len(s) + j
    <3>1. PICK j \in 1..Len(t) : k = Len(s) + j
      BY <2>4
    <3>2. t[j] = u
      BY <3>1, <2>2, <1>0
    <3>3. u # 0
      BY <1>0
    <3>4. u \in Units(t)
      BY <3>2, <3>3, <1>0 DEF Units, Range
    <3> QED
      BY <3>4
  <2> QED
    BY <2>3, <2>4, <1>2
<1> QED
  BY <1>3, <1>4


LEMMA DenseMore ==
  ASSUME NEW s, NEW S, NEW T, S \subseteq T, Dense(s, S)
  PROVE  Dense(s, T)
BY DEF Dense

LEMMA TightMore ==
  ASSUME NEW s \in Seq(Nat), NEW S, NEW T, NEW b \in Nat, NEW c \in Nat, S \subseteq T,
         (b + 1)..c \subseteq T, Tight(s, b, S)
  PROVE  Tight(s, c, T)
<1> SUFFICES ASSUME NEW i \in DOMAIN s, s[i] # 0, NEW u \in (s[i] + 1)..c, ~ (u \in T)
             PROVE  \E k \in DOMAIN s : i < k /\ s[k] = u
  BY DEF Tight
<1>1. s[i] \in Nat
  BY ElementOfSeq, LenProperties
<1>2. u \in (s[i] + 1)..b
  BY <1>1
<1> QED
  BY <1>2 DEF Tight

(* What is read next is appended to what is tight.                         *)
LEMMA DenseAppend ==
  ASSUME NEW s \in Seq(Nat), NEW b \in Nat, NEW f \in Nat, NEW S, Dense(s, S), Tight(s, b, S),
         NEW a \in Seq(Nat), Len(a) = f, \A i \in 1..f : a[i] = b + i
  PROVE  Dense(s \o a, S) /\ Tight(s \o a, b + f, S)
<1> DEFINE sa == s \o a
<1>0. PICK l \in Nat : l = Len(s)
  BY Positions
<1>1. /\ DOMAIN s = 1..l /\ DOMAIN sa = 1..(l + f) /\ (\A i \in 1..l : s[i] \in Nat)
      /\ \A i \in 1..l : i \in DOMAIN sa /\ sa[i] = s[i]
      /\ \A i \in 1..f : l + i \in DOMAIN sa /\ sa[l + i] = b + i
  BY <1>0, Positions
<1>2. \A k \in DOMAIN sa : k \in 1..l \/ \E j \in 1..f : k = l + j
  BY <1>0, PlaceOf
<1> HIDE DEF sa
<1>a. \A x \in 1..f : l + x \in 1..(l + f) /\ sa[l + x] = b + x
  BY <1>1
<1>b. DOMAIN sa = 1..(l + f)
  BY <1>1
<1>3. ASSUME NEW i \in 1..l, s[i] # 0, NEW u \in (s[i] + 1)..b, ~ (u \in S)
      PROVE  \E k \in 1..l : i < k /\ s[k] = u
  BY <1>1, <1>3 DEF Tight
<1>4. Dense(sa, S)
  <2> SUFFICES ASSUME NEW i \in DOMAIN sa, NEW j \in DOMAIN sa, i < j /\ sa[i] # 0,
                      NEW u \in (sa[i] + 1)..(sa[j] - 1), ~ (u \in S)
               PROVE  \E k \in i..j : sa[k] = u
    BY DEF Dense
  <2>0. i \in 1..(l + f) /\ j \in 1..(l + f) /\ i < j
    BY <1>1
  <2>1. CASE j \in 1..l
    <3>1. i \in 1..l
      BY <2>0, <2>1
    <3>2. i \in DOMAIN s /\ j \in DOMAIN s /\ s[i] # 0 /\ u \in (s[i] + 1)..(s[j] - 1)
      BY <3>1, <2>1, <1>1
    <3>3. PICK k \in i..j : s[k] = u
      BY <3>2 DEF Dense
    <3>4. k \in 1..l
      BY <3>1, <2>1
    <3> QED
      BY <3>3, <3>4, <1>1
  <2>2. CASE \E m \in 1..f : j = l + m
    <3>1. PICK m \in 1..f : j = l + m
      BY <2>2
    <3>2. sa[j] = b + m
      BY <3>1, <1>1
    <3>3. CASE i \in 1..l
      <4>1. sa[i] = s[i] /\ s[i] \in Nat /\ s[i] # 0
        BY <3>3, <1>1
      <4>2. CASE u <= b
        <5>1. u \in (s[i] + 1)..b
          BY <4>1, <4>2
        <5>2. PICK k \in 1..l : i < k /\ s[k] = u
          BY <5>1, <4>1, <3>3, <1>3
        <5>3. k \in i..j /\ sa[k] = u
          BY <5>2, <3>1, <3>3, <1>1
        <5> QED
          BY <5>3
      <4>3. CASE ~ (u <= b)
        <5>1. PICK x \in 1..f : b + x = u /\ x < m
          <6>1. u - b \in 1..f /\ u - b < m /\ b + (u - b) = u
            BY <4>1, <4>3, <3>2
          <6> QED
            BY <6>1
        <5>2. l + x \in i..j /\ sa[l + x] = u
          <6>1. l + x \in i..j
            BY <5>1, <3>1, <3>3
          <6>2. sa[l + x] = b + x
            BY <1>a
          <6> QED
            BY <6>1, <6>2, <5>1, <3>1, <3>3
        <5> QED
          BY <5>2
      <4> QED
        BY <4>2, <4>3
    <3>4. CASE \E p \in 1..f : i = l + p
      <4>1. PICK p \in 1..f : i = l + p
        BY <3>4
      <4>2. sa[i] = b + p
        BY <4>1, <1>1
      <4>3. PICK x \in 1..f : b + x = u /\ x < m /\ p < x
        <5>1. u - b \in 1..f /\ u - b < m /\ p < u - b /\ b + (u - b) = u
          BY <4>2, <3>2
        <5> QED
          BY <5>1
      <4>4. l + x \in i..j /\ sa[l + x] = u
        <5>1. l + x \in i..j
          BY <4>1, <4>3, <3>1
        <5>2. sa[l + x] = b + x
          BY <1>a
        <5> QED
          BY <5>1, <5>2, <4>1, <4>3, <3>1
      <4> QED
        BY <4>4
    <3> QED
      BY <3>3, <3>4, <1>2
  <2> QED
    BY <2>1, <2>2, <1>2
<1>5. Tight(sa, b + f, S)
  <2> SUFFICES ASSUME NEW i \in DOMAIN sa, sa[i] # 0, NEW u \in (sa[i] + 1)..(b + f), ~ (u \in S)
               PROVE  \E k \in DOMAIN sa : i < k /\ sa[k] = u
    BY DEF Tight
  <2>1. CASE i \in 1..l
    <3>1. sa[i] = s[i] /\ s[i] \in Nat /\ s[i] # 0
      BY <2>1, <1>1
    <3>2. CASE u <= b
      <4>1. u \in (s[i] + 1)..b
        BY <3>1, <3>2
      <4>2. PICK k \in 1..l : i < k /\ s[k] = u
        BY <4>1, <3>1, <2>1, <1>3
      <4> QED
        BY <4>2, <1>1
    <3>3. CASE ~ (u <= b)
      <4>1. PICK x \in 1..f : b + x = u
        <5>1. u - b \in 1..f /\ b + (u - b) = u
          BY <3>1, <3>3
        <5> QED
          BY <5>1
      <4>2. l + x \in DOMAIN sa /\ i < l + x /\ sa[l + x] = u
        <5>1. l + x \in DOMAIN sa /\ i < l + x
          BY <1>b, <4>1, <2>1
        <5>2. sa[l + x] = b + x
          BY <1>a
        <5> QED
          BY <5>1, <5>2, <4>1, <2>1
      <4> QED
        BY <4>2
    <3> QED
      BY <3>2, <3>3
  <2>2. CASE \E p \in 1..f : i = l + p
    <3>1. PICK p \in 1..f : i = l + p
      BY <2>2
    <3>2. sa[i] = b + p
      BY <3>1, <1>1
    <3>3. PICK x \in 1..f : b + x = u /\ p < x
      <4>1. u - b \in 1..f /\ p < u - b /\ b + (u - b) = u
        BY <3>2
      <4> QED
        BY <4>1
    <3>4. l + x \in DOMAIN sa /\ i < l + x /\ sa[l + x] = u
      <4>1. l + x \in DOMAIN sa /\ i < l + x
        BY <1>b, <3>1, <3>3
      <4>2. sa[l + x] = b + x
        BY <1>a
      <4> QED
        BY <4>1, <4>2, <3>1, <3>3
    <3> QED
      BY <3>4
  <2> QED
    BY <2>1, <2>2, <1>2
<1> QED
  BY <1>4, <1>5 DEF sa

LEMMA DenseNewline ==
  ASSUME NEW s \in Seq(Nat), NEW S, NEW z \in Seq(Nat), Len(z) = 1, z[1] = 0, Dense(s, S)
  PROVE  Dense(s \o z, S) /\ \A b : Tight(s, b, S) => Tight(s \o z, b, S)
<1> DEFINE sz == s \o z
<1>0. PICK l \in Nat : l = Len(s)
  BY Positions
<1>1. /\ DOMAIN s = 1..l /\ DOMAIN sz = 1..(l + 1) /\ (\A i \in 1..l : s[i] \in Nat)
      /\ \A i \in 1..l : i \in DOMAIN sz /\ sz[i] = s[i]
      /\ sz[l + 1] = 0
  <2>1. /\ DOMAIN s = 1..l /\ DOMAIN sz = 1..(l + 1) /\ (\A i \in 1..l : s[i] \in Nat)
        /\ \A i \in 1..l : i \in 1..(l + 1) /\ sz[i] = s[i]
        /\ \A i \in 1..1 : sz[l + i] = z[i]
    <3>1. /\ DOMAIN s = 1..Len(s) /\ DOMAIN sz = 1..(Len(s) + Len(z)) /\ (\A i \in 1..Len(s) : s[i] \in Nat)
          /\ \A i \in 1..Len(s) : i \in 1..(Len(s) + Len(z)) /\ sz[i] = s[i]
          /\ \A i \in 1..Len(z) : sz[Len(s) + i] = z[i]
      BY Positions
    <3> HIDE DEF sz
    <3> QED
      BY <3>1, <1>0
  <2>2. 1 \in 1..1
    OBVIOUS
  <2>3. sz[l + 1] = z[1]
    BY <2>1, <2>2
  <2> QED
    BY <2>1, <2>3
<1> HIDE DEF sz
<1>2. Dense(sz, S)
  <2> SUFFICES ASSUME NEW i \in DOMAIN sz, NEW j \in DOMAIN sz, i < j /\ sz[i] # 0,
                      NEW u \in (sz[i] + 1)..(sz[j] - 1), ~ (u \in S)
               PROVE  \E k \in i..j : sz[k] = u
    BY DEF Dense
  <2>1. i \in 1..l /\ (j \in 1..l \/ j = l + 1)
    BY <1>1
  <2>2. sz[i] = s[i] /\ s[i] \in Nat
    BY <2>1, <1>1
  <2>3. j # l + 1
    BY <2>2, <1>1
  <2>4. i \in DOMAIN s /\ j \in DOMAIN s /\ u \in (s[i] + 1)..(s[j] - 1) /\ s[i] # 0
    BY <2>1, <2>2, <2>3, <1>1
  <2>5. PICK k \in i..j : s[k] = u
    BY <2>4 DEF Dense
  <2>6. k \in 1..l
    BY <2>1, <2>3
  <2> QED
    BY <2>5, <2>6, <1>1
<1>3. ASSUME NEW b, Tight(s, b, S) PROVE Tight(sz, b, S)
  <2> SUFFICES ASSUME NEW i \in DOMAIN sz, sz[i] # 0, NEW u \in (sz[i] + 1)..b, ~ (u \in S)
               PROVE  \E k \in DOMAIN sz : i < k /\ sz[k] = u
    BY DEF Tight
  <2>1. i \in 1..l
    BY <1>1
  <2>2. sz[i] = s[i] /\ i \in DOMAIN s
    BY <2>1, <1>1
  <2>3. PICK k \in DOMAIN s : i < k /\ s[k] = u
    BY <2>2, <1>3 DEF Tight
  <2> QED
    BY <2>3, <1>1
<1> QED
  BY <1>2, <1>3 DEF sz


LEMMA DirtyCalls == Dirty => todo # <<>> /\ Head(todo) \in {"open", "recover"}
<1>1. Recovering # <<>> /\ Head(Recovering) = "recover" /\ <<"open">> # <<>> /\ Head(<<"open">>) = "open"
  BY CallHeads
<1> QED
  BY <1>1 DEF Dirty

LEMMA WholeStays ==
  ASSUME WholeInv, Written' = Written, line' = line, nread' = nread, slipped' = slipped,
         data' = data, Dirty => Dirty'
  PROVE  WholeInv'
<1>1. PICK b \in 0..nread : LineFrom(b) /\ (Tight(Written, b, slipped) \/ Dirty)
  BY DEF WholeInv
<1>2. LineFrom(b)'
  BY <1>1 DEF LineFrom, ReadFrom
<1>3. Tight(Written', b, slipped') \/ Dirty'
  BY <1>1
<1>4. \A n \in 1..Len(data') : Dense(data'[n], slipped')
  BY DEF WholeInv
<1>5. Dense(Written', slipped')
  BY DEF WholeInv
<1> QED
  BY <1>2, <1>3, <1>4, <1>5 DEF WholeInv, Dense, Tight

LEMMA LoopWhole ==
  ASSUME WholeInv,
         FillRotate \/ FillReopen \/ FillTimed \/ Poll \/ SigFlag \/ SigChild \/ ReadNothing
           \/ WriteRotate \/ Exit \/ (\E n \in Times : ProcessorEnds(n))
           \/ (\E sg \in {"TERM", "HUP", "ALRM"} : SendSignal(sg)) \/ UNCHANGED vars
  PROVE  WholeInv'
<1>1. /\ line' = line /\ buf' = buf /\ current' = current /\ xbit' = xbit /\ nread' = nread
      /\ data' = data /\ slipped' = slipped
  BY DEF FillRotate, FillReopen, FillTimed, Fill, Poll, SigFlag, SigChild, ReadNothing, WriteRotate,
         Exit, ProcessorEnds, SendSignal, vars, lineVars, curVars, oldVars, lossVars
<1>2. todo = <<>> \/ todo' = todo
  BY DEF FillRotate, FillReopen, FillTimed, Fill, Poll, SigFlag, SigChild, ReadNothing, WriteRotate,
         Exit, ProcessorEnds, SendSignal, vars, At
<1>3. Dirty => Dirty'
  BY <1>1, <1>2, DirtyCalls DEF Dirty, IsDirty, Recovering
<1>4. Written' = Written
  BY <1>1 DEF Written
<1> QED
  BY <1>1, <1>3, <1>4, WholeStays

LEMMA CallsWhole ==
  ASSUME WholeInv,
         RmOldest \/ ProcessorStart \/ ProcessorWait \/ ProcessorFailed \/ ProcessorDone
           \/ UnlinkUnprocessed \/ Create
  PROVE  WholeInv'
<1>1. /\ line' = line /\ buf' = buf /\ current' = current /\ nread' = nread
      /\ data' = data /\ slipped' = slipped
  BY DEF RmOldest, ProcessorStart, ProcessorWait, ProcessorFailed, ProcessorDone,
         UnlinkUnprocessed, Create, lineVars, curVars, oldVars, lossVars
<1>2. Head(todo) \notin {"open", "recover"}
  BY DEF RmOldest, ProcessorStart, ProcessorWait, ProcessorFailed, ProcessorDone,
         UnlinkUnprocessed, Create, Calling
<1>3. ~ Dirty
  BY <1>2, DirtyCalls
<1>4. Written' = Written
  BY <1>1 DEF Written
<1> QED
  BY <1>1, <1>3, <1>4, WholeStays

LEMMA OpenWhole ==
  ASSUME WholeInv, Open
  PROVE  WholeInv'
<1>1. /\ line' = line /\ buf' = buf /\ current' = current /\ nread' = nread
      /\ data' = data /\ slipped' = slipped
  BY DEF Open, lineVars, curVars, oldVars, lossVars
<1>2. Dirty => Dirty'
  <2> SUFFICES ASSUME Dirty PROVE Dirty'
    OBVIOUS
  <2>1. Head(Recovering) = "recover"
    BY CallHeads
  <2>2. todo = <<"open">> /\ IsDirty
    BY <2>1 DEF Dirty, Open, Calling
  <2>3. todo' = Recovering \o <<>>
    <3>1. Tail(todo) = <<>>
      BY <2>2, CallHeads
    <3> QED
      BY <2>2, <3>1 DEF Open, Recovering
  <2>4. Recovering \in Seq(OpNames)
    BY DEF Recovering, OpNames
  <2>5. todo' = Recovering
    BY <2>3, <2>4, ConcatEmptySeq
  <2> QED
    BY <2>2, <2>5, <1>1 DEF Dirty, Recovering, IsDirty, Open, curVars
<1>3. Written' = Written
  BY <1>1 DEF Written
<1> QED
  BY <1>1, <1>2, <1>3, WholeStays

LEMMA SealWhole ==
  ASSUME DataType, WholeInv, Seal \/ Flush
  PROVE  WholeInv'
<1>1. /\ line' = line /\ nread' = nread /\ data' = data /\ slipped' = slipped
      /\ current' = current \o buf /\ buf' = <<>>
  BY DEF Seal, Flush, lineVars, oldVars, lossVars
<1>2. todo = <<>> \/ Head(todo) = "seal"
  BY DEF Seal, Flush, Calling, At
<1>3. ~ Dirty
  BY <1>2, DirtyCalls
<1>4. Written' = Written
  <2>1. PICK c \in Seq(Nat) : c = current \o buf
    BY ConcatProperties DEF DataType
  <2>2. c \o <<>> = c
    BY <2>1, ConcatEmptySeq
  <2> QED
    BY <1>1, <2>1, <2>2 DEF Written
<1> QED
  BY <1>1, <1>3, <1>4, WholeStays

(* What is renamed is the beginning of what was written, and the rest is   *)
(* its end.                                                                *)
LEMMA RenameWhole ==
  ASSUME DataType, WholeInv, Rename \/ Recover
  PROVE  WholeInv'
<1>0. buf \in Seq(Nat) /\ current \in Seq(Nat)
  BY DEF DataType
<1>1. /\ line' = line /\ nread' = nread /\ data' = Append(data, current) /\ slipped' = slipped
      /\ current' = <<>> /\ buf' = buf
  BY DEF Rename, Recover, RenameTo, lineVars, lossVars
<1>2. PICK b \in 0..nread : LineFrom(b) /\ (Tight(Written, b, slipped) \/ Dirty)
  BY DEF WholeInv
<1>3. Dense(current, slipped) /\ Dense(buf, slipped)
  BY <1>0, DenseParts DEF WholeInv, Written
<1>4. Written' = buf
  <2>1. <<>> \o buf = buf
    BY <1>0, ConcatEmptySeq
  <2> QED
    BY <1>1, <2>1 DEF Written
<1>5. Tight(buf, b, slipped)
  <2>1. CASE Tight(Written, b, slipped)
    BY <2>1, <1>0, TightParts DEF Written
  <2>2. CASE Dirty
    <3>1. DOMAIN buf = {}
      BY <2>2 DEF Dirty
    <3> QED
      BY <3>1 DEF Tight
  <2> QED
    BY <2>1, <2>2, <1>2
<1>6. \A n \in 1..Len(data') : Dense(data'[n], slipped')
  <2>1. PICK k \in Nat : k = Len(data)
    BY LenProperties DEF DataType
  <2>2. /\ Len(data') = k + 1 /\ data'[k + 1] = current
        /\ \A n \in 1..k : data'[n] = data[n]
    BY <1>0, <1>1, <2>1, AppendProperties DEF DataType
  <2>3. ASSUME NEW n \in 1..(k + 1) PROVE Dense(data'[n], slipped)
    <3>1. CASE n \in 1..k
      BY <3>1, <2>1, <2>2 DEF WholeInv
    <3>2. CASE n = k + 1
      BY <3>2, <2>2, <1>3
    <3> QED
      BY <3>1, <3>2
  <2> QED
    BY <2>2, <2>3, <1>1
<1>7. LineFrom(b)' /\ b \in 0..nread'
  BY <1>1, <1>2 DEF LineFrom, ReadFrom
<1>8. Dense(Written', slipped') /\ Tight(Written', b, slipped')
  BY <1>1, <1>3, <1>4, <1>5
<1> QED
  BY <1>6, <1>7, <1>8 DEF WholeInv, Dense, Tight

(* a is the first f units of l, and T holds the others.                    *)
Part(a, l, f, T) ==
  /\ f \in 0..Len(l) /\ a \in Seq(Nat) /\ Len(a) = f
  /\ \A i \in 1..f : a[i] = l[i]
  /\ \A i \in (f + 1)..Len(l) : l[i] \in T \cup {0}

(* A part of what was read after b is appended.                            *)
LEMMA LinePart ==
  ASSUME NEW s \in Seq(Nat), NEW S, NEW T, S \subseteq T, NEW r \in Nat, NEW b \in 0..r,
         NEW l \in Seq(Nat), ReadFrom(l, b, r), Dense(s, S), Tight(s, b, S),
         NEW f, NEW a, Part(a, l, f, T)
  PROVE  Dense(s \o a, S) /\ Tight(s \o a, b, S) /\ Tight(s \o a, r, T)
<1> USE DEF Part
<1>0. f \in Nat /\ b \in Nat /\ s \o a \in Seq(Nat)
  <2>1. Len(l) \in Nat
    BY LenProperties
  <2> QED
    BY <2>1, ConcatProperties
<1>1. CASE l = [i \in 1..(r - b) |-> b + i]
  <2>1. PICK m \in Nat : m = r - b
    OBVIOUS
  <2>2. Len(l) = m /\ \A i \in 1..m : l[i] = b + i
    <3>1. l = [i \in 1..m |-> b + i]
      BY <1>1, <2>1
    <3>2. DOMAIN l = 1..m /\ DOMAIN l = 1..Len(l) /\ Len(l) \in Nat
      BY <3>1, LenProperties
    <3> QED
      BY <3>1, <3>2
  <2>3. \A i \in 1..f : a[i] = b + i
    BY <2>2
  <2>4. Dense(s \o a, S) /\ Tight(s \o a, b + f, S)
    BY <2>3, <1>0, DenseAppend
  <2>5. ((b + f) + 1)..b \subseteq S
    BY <1>0
  <2>6. ((b + f) + 1)..r \subseteq T
    <3> SUFFICES ASSUME NEW u \in ((b + f) + 1)..r PROVE u \in T
      OBVIOUS
    <3>1. PICK i \in Int : i = u - b
      BY <1>0
    <3>2. i \in (f + 1)..m /\ i \in 1..m /\ u = b + i /\ u # 0
      BY <3>1, <2>1, <1>0
    <3>3. l[i] = u
      BY <3>2, <2>2
    <3> QED
      BY <3>2, <3>3, <2>2
  <2>7. PICK c \in Nat : c = b + f
    BY <1>0
  <2>8. PICK sa \in Seq(Nat) : sa = s \o a
    BY <1>0
  <2>9. Tight(sa, c, S) /\ (c + 1)..b \subseteq S /\ (c + 1)..r \subseteq T
    BY <2>4, <2>5, <2>6, <2>7, <2>8
  <2>10. Tight(sa, b, S)
    BY <2>9, <1>0, TightMore
  <2>11. Tight(sa, r, T)
    BY <2>9, TightMore
  <2> QED
    BY <2>4, <2>8, <2>10, <2>11
<1>2. CASE l = <<0>> /\ b = r
  <2>1. Len(l) = 1 /\ l[1] = 0
    BY <1>2
  <2>2. Dense(s \o a, S) /\ Tight(s \o a, b, S)
    <3>1. CASE f = 0
      <4>1. \A i \in 1..f : a[i] = b + i
        BY <3>1
      <4>2. Dense(s \o a, S) /\ Tight(s \o a, b + f, S)
        BY <4>1, <1>0, DenseAppend
      <4>3. b + f = b
        BY <3>1, <1>0
      <4> QED
        BY <4>2, <4>3
    <3>2. CASE f = 1
      <4>1. a[1] = 0
        BY <3>2, <2>1
      <4> QED
        BY <4>1, <3>2, DenseNewline
    <3> QED
      BY <3>1, <3>2, <2>1
  <2>3. (b + 1)..r \subseteq T
    BY <1>2
  <2>4. PICK sa \in Seq(Nat) : sa = s \o a
    BY <1>0
  <2>5. Tight(sa, b, S)
    BY <2>2, <2>4
  <2>6. Tight(sa, r, T)
    BY <2>3, <2>5, <1>0, TightMore
  <2> QED
    BY <2>2, <2>4, <2>6
<1> QED
  BY <1>1, <1>2 DEF ReadFrom

(* The same for the state: a is the beginning of line.                     *)
LEMMA LinePrefix ==
  ASSUME DataType, WholeInv, ~ Dirty, NEW T, slipped \subseteq T, NEW f, NEW a, Part(a, line, f, T)
  PROVE  /\ Dense(Written \o a, slipped) /\ Tight(Written \o a, nread, T)
         /\ \E b \in 0..nread : LineFrom(b) /\ Tight(Written \o a, b, slipped)
<1>1. PICK b \in 0..nread : LineFrom(b) /\ Tight(Written, b, slipped)
  BY DEF WholeInv
<1>2. PICK r \in Nat : r = nread
  BY DEF DataType
<1>3. PICK l \in Seq(Nat) : l = line
  BY DEF DataType
<1>4. PICK s \in Seq(Nat) : s = Written
  BY ConcatProperties DEF DataType, Written
<1>5. PICK S : S = slipped
  OBVIOUS
<1>6. b \in 0..r /\ S \subseteq T /\ Part(a, l, f, T)
  BY <1>1, <1>2, <1>3, <1>5
<1>7. ReadFrom(l, b, r)
  BY <1>1, <1>2, <1>3 DEF LineFrom
<1>8. Dense(s, S) /\ Tight(s, b, S)
  BY <1>1, <1>4, <1>5 DEF WholeInv
<1>9. Dense(s \o a, S) /\ Tight(s \o a, b, S) /\ Tight(s \o a, r, T)
  BY <1>6, <1>7, <1>8, LinePart
<1>10. Dense(Written \o a, slipped) /\ Tight(Written \o a, nread, T)
  BY <1>9, <1>2, <1>4, <1>5
<1>11. LineFrom(b) /\ Tight(Written \o a, b, slipped)
  BY <1>9, <1>1, <1>4, <1>5
<1> QED
  BY <1>10, <1>11, Zenon

(* What SubSeq takes of line is such a part.                               *)
LEMMA SubPart ==
  ASSUME NEW l \in Seq(Nat), NEW f \in 0..Len(l), NEW T, Units(SubSeq(l, f + 1, Len(l))) \subseteq T
  PROVE  Part(SubSeq(l, 1, f), l, f, T)
<1>0. Len(l) \in Nat /\ f \in Nat
  BY LenProperties
<1>1. /\ SubSeq(l, 1, f) \in Seq(Nat) /\ Len(SubSeq(l, 1, f)) = f
      /\ \A i \in 1..f : SubSeq(l, 1, f)[i] = l[i]
  BY <1>0, SubSeqProperties
<1>2. ASSUME NEW i \in (f + 1)..Len(l), l[i] # 0 PROVE l[i] \in T
  <2>0. \A j \in (f + 1)..Len(l) : l[j] \in Nat
    BY <1>0, ElementOfSeq
  <2>1. PICK e \in Seq(Nat) : e = SubSeq(l, f + 1, Len(l))
    BY SubRange
  <2>2. PICK k \in Nat : k = i - (f + 1) + 1
    BY <1>0
  <2>3. Len(e) = Len(l) - f /\ k \in 1..Len(e) /\ e[k] = l[i]
    <3>1. /\ Len(e) = IF f + 1 <= Len(l) THEN Len(l) - (f + 1) + 1 ELSE 0
          /\ \A j \in 1..(Len(l) - (f + 1) + 1) : e[j] = l[(f + 1) + j - 1]
      BY <2>0, <2>1, <1>0, SubSeqProperties
    <3>2. k \in 1..(Len(l) - (f + 1) + 1) /\ (f + 1) + k - 1 = i
      BY <2>2, <1>0
    <3>3. e[k] = l[i]
      BY <3>1, <3>2
    <3> QED
      BY <3>1, <3>2, <3>3, <1>0
  <2>4. DOMAIN e = 1..Len(e)
    BY LenProperties
  <2>5. l[i] \in Units(e)
    BY <2>3, <2>4, <1>2 DEF Units, Range
  <2> QED
    BY <2>1, <2>5
<1> QED
  BY <1>1, <1>2 DEF Part

LEMMA NoneRead ==
  ASSUME NEW r \in Nat, line' = <<>>, nread' = r
  PROVE  LineFrom(r)'
<1>1. <<>> = [i \in 1..(r - r) |-> r + i]
  OBVIOUS
<1> QED
  BY <1>1 DEF LineFrom, ReadFrom

LEMMA JoinAll ==
  ASSUME NEW c \in Seq(Nat), NEW d \in Seq(Nat), NEW a \in Seq(Nat)
  PROVE  (c \o d) \o a = c \o (d \o a)
OBVIOUS

LEMMA WriteWhole ==
  ASSUME DataType, WholeInv, Write
  PROVE  WholeInv'
<1>0. /\ buf \in Seq(Nat) /\ current \in Seq(Nat) /\ line \in Seq(Nat) /\ nread \in Nat
      /\ Written \in Seq(Nat)
  BY ConcatProperties DEF DataType, Written
<1>1. /\ line' = <<>> /\ nread' = nread /\ data' = data
      /\ slipped' = slipped \cup Units(SubSeq(line, Fits + 1, Len(line))) /\ todo = <<>>
  BY DEF Write, oldVars, At
<1>2. PICK f \in 0..Len(line) : f = Fits
  BY <1>0, FitsLine DEF Write, DataType
<1>3. PICK l \in Seq(Nat) : l = line
  BY <1>0
<1>4. PICK T : T = slipped'
  OBVIOUS
<1>5. slipped \subseteq T /\ Units(SubSeq(l, f + 1, Len(l))) \subseteq T /\ f \in 0..Len(l)
  BY <1>1, <1>2, <1>3, <1>4
<1>6. PICK a : a = SubSeq(l, 1, f)
  OBVIOUS
<1>7. Part(a, l, f, T)
  BY <1>5, <1>6, SubPart
<1>8. ~ Dirty
  BY <1>1, DirtyCalls
<1>9. Dense(Written \o a, slipped) /\ Tight(Written \o a, nread, T)
  <2>1. Part(a, line, f, T)
    BY <1>7, <1>3
  <2> QED
    BY <2>1, <1>5, <1>8, LinePrefix
<1>10. Written' = Written \o a
  <2>1. a \in Seq(Nat)
    BY <1>7 DEF Part
  <2>2. \/ buf' = buf \o a /\ current' = current
        \/ buf' = <<>> /\ current' = current \o buf \o a
    BY <1>2, <1>3, <1>6 DEF Write
  <2>3. CASE buf' = buf \o a /\ current' = current
    <3>1. PICK c \in Seq(Nat), d \in Seq(Nat) : c = current /\ d = buf
      BY <1>0
    <3>2. (c \o d) \o a = c \o (d \o a)
      BY <2>1, JoinAll
    <3> QED
      BY <2>3, <3>1, <3>2 DEF Written
  <2>4. CASE buf' = <<>> /\ current' = current \o buf \o a
    <3>1. PICK c \in Seq(Nat) : c = (current \o buf) \o a
      BY <1>0, <2>1, ConcatProperties DEF Written
    <3>2. c \o <<>> = c
      BY ConcatEmptySeq
    <3> QED
      BY <2>4, <3>1, <3>2 DEF Written
  <2> QED
    BY <2>2, <2>3, <2>4
<1>11. PICK r \in Nat : r = nread /\ r = nread'
  BY <1>0, <1>1
<1>14. Dense(Written', slipped') /\ Tight(Written', r, slipped')
  BY <1>4, <1>5, <1>9, <1>10, <1>11, DenseMore
<1>12. \A n \in 1..Len(data') : Dense(data'[n], slipped')
  BY <1>1, <1>4, <1>5, DenseMore DEF WholeInv
<1>13. LineFrom(r)' /\ r \in 0..nread'
  BY <1>1, <1>11, NoneRead
<1> QED
  BY <1>12, <1>13, <1>14 DEF WholeInv, Dense, Tight

LEMMA NoSpaceWhole ==
  ASSUME DataType, WholeInv, WriteNoSpace
  PROVE  WholeInv'
<1>0. /\ buf \in Seq(Nat) /\ current \in Seq(Nat) /\ line \in Seq(Nat) /\ nread \in Nat
      /\ Len(line) \in Nat
  BY LenProperties DEF DataType
<1>1. /\ line' = line /\ nread' = nread /\ data' = data /\ slipped' = slipped /\ todo = <<>>
      /\ current' = current
  BY DEF WriteNoSpace, lineVars, At
<1>2. PICK j \in 0..Len(line) : buf' = buf \o SubSeq(line, 1, j)
  <2>1. Fits \in 0..Len(line)
    BY <1>0, FitsLine DEF WriteNoSpace, DataType
  <2>2. PICK j \in 0..Fits - 1 : buf' = buf \o SubSeq(line, 1, j)
    BY DEF WriteNoSpace
  <2>3. j \in 0..Len(line)
    BY <1>0, <2>1
  <2> QED
    BY <2>2, <2>3
<1>3. PICK l \in Seq(Nat) : l = line
  BY <1>0
<1>4. PICK T : T = slipped \cup Units(l)
  OBVIOUS
<1>5. PICK a : a = SubSeq(l, 1, j)
  OBVIOUS
<1>6. j \in 0..Len(l) /\ Units(SubSeq(l, j + 1, Len(l))) \subseteq T
  <2>1. j \in 0..Len(l)
    BY <1>3
  <2>2. Units(l) = Units(SubSeq(l, 1, j)) \cup Units(SubSeq(l, j + 1, Len(l)))
    BY <2>1, SubUnits
  <2> QED
    BY <2>1, <2>2, <1>4
<1>7. Part(a, l, j, T)
  BY <1>5, <1>6, SubPart
<1>8. ~ Dirty
  BY <1>1, DirtyCalls
<1>9. /\ Dense(Written \o a, slipped)
      /\ \E b \in 0..nread : LineFrom(b) /\ Tight(Written \o a, b, slipped)
  <2>1. Part(a, line, j, T) /\ slipped \subseteq T
    BY <1>3, <1>4, <1>7
  <2> QED
    BY <2>1, <1>8, LinePrefix
<1>10. Written' = Written \o a
  <2>1. PICK c \in Seq(Nat), d \in Seq(Nat) : c = current /\ d = buf
    BY <1>0
  <2>2. (c \o d) \o a = c \o (d \o a)
    BY <1>7, JoinAll DEF Part
  <2> QED
    BY <1>1, <1>2, <1>3, <1>5, <2>1, <2>2 DEF Written
<1>11. PICK b \in 0..nread : LineFrom(b) /\ Tight(Written \o a, b, slipped)
  BY <1>9
<1>12. LineFrom(b)' /\ b \in 0..nread'
  BY <1>1, <1>11 DEF LineFrom, ReadFrom
<1>13. Dense(Written', slipped') /\ Tight(Written', b, slipped')
  BY <1>1, <1>9, <1>10, <1>11
<1>14. \A n \in 1..Len(data') : Dense(data'[n], slipped')
  BY <1>1 DEF WholeInv
<1> QED
  BY <1>12, <1>13, <1>14 DEF WholeInv, Dense, Tight

LEMMA AllTight ==
  ASSUME DataType, WholeInv, line = <<>>, ~ Dirty, NEW r \in Nat, r = nread
  PROVE  Tight(Written, r, slipped)
<1>1. PICK b \in 0..nread : LineFrom(b) /\ Tight(Written, b, slipped)
  BY DEF WholeInv
<1>2. b = r
  <2>1. <<>> # <<0>>
    OBVIOUS
  <2>2. <<>> = [i \in 1..(r - b) |-> b + i]
    BY <1>1, <2>1 DEF LineFrom, ReadFrom
  <2>3. PICK m \in Nat : m = r - b
    OBVIOUS
  <2>4. 1..m = {}
    <3>1. DOMAIN <<>> = {} /\ DOMAIN [i \in 1..m |-> b + i] = 1..m
      OBVIOUS
    <3>2. <<>> = [i \in 1..m |-> b + i]
      BY <2>2, <2>3
    <3> QED
      BY <3>1, <3>2
  <2> QED
    BY <2>3, <2>4
<1> QED
  BY <1>1, <1>2

(* Everything that was read is in line or before it, so what is read now   *)
(* follows.                                                                *)
LEMMA ReadWhole ==
  ASSUME DataType, LineInv, WholeInv, Read
  PROVE  WholeInv'
<1>1. /\ buf' = buf /\ current' = current /\ data' = data /\ slipped' = slipped
      /\ line = <<>> /\ todo = <<>>
  BY DEF Read, curVars, oldVars, lossVars, LineInv, At
<1>2. PICK r \in Nat : r = nread
  BY DEF DataType
<1>3. PICK k \in Nat : nread' = r + k /\ line' = [i \in 1..k |-> r + i]
  <2>1. PICK k \in 1..LineMax : nread' = nread + k /\ line' = [i \in 1..k |-> nread + i]
    BY DEF Read
  <2>2. k \in Nat
    BY SvlogdAssumption
  <2> QED
    BY <2>1, <2>2, <1>2
<1>4. Tight(Written, r, slipped)
  BY <1>1, <1>2, DirtyCalls, AllTight
<1>5. LineFrom(r)' /\ r \in 0..nread'
  <2>1. nread' - r = k /\ r \in 0..nread'
    BY <1>3
  <2> QED
    BY <2>1, <1>3 DEF LineFrom, ReadFrom
<1>6. Written' = Written
  BY <1>1 DEF Written
<1>7. Dense(Written', slipped') /\ Tight(Written', r, slipped')
  BY <1>1, <1>4, <1>6 DEF WholeInv
<1>8. \A n \in 1..Len(data') : Dense(data'[n], slipped')
  BY <1>1 DEF WholeInv
<1> QED
  BY <1>5, <1>7, <1>8 DEF WholeInv, Dense, Tight

LEMMA EndWhole ==
  ASSUME DataType, LineInv, WholeInv, ReadEnd
  PROVE  WholeInv'
<1>1. /\ buf' = buf /\ current' = current /\ data' = data /\ slipped' = slipped /\ nread' = nread
      /\ line = <<>> /\ todo = <<>>
      /\ line' = <<0>> \/ line' = line
  BY DEF ReadEnd, EndOfInput, curVars, oldVars, lossVars, LineInv, At
<1>2. PICK r \in Nat : r = nread
  BY DEF DataType
<1>4. Tight(Written, r, slipped)
  BY <1>1, <1>2, DirtyCalls, AllTight
<1>5. LineFrom(r)' /\ r \in 0..nread'
  <2>1. CASE line' = <<0>>
    BY <2>1, <1>1, <1>2 DEF LineFrom, ReadFrom
  <2>2. CASE line' = line
    BY <2>2, <1>1, <1>2, NoneRead
  <2> QED
    BY <2>1, <2>2, <1>1, <1>2
<1>6. Written' = Written
  BY <1>1 DEF Written
<1>7. Dense(Written', slipped') /\ Tight(Written', r, slipped')
  BY <1>1, <1>4, <1>6 DEF WholeInv
<1>8. \A n \in 1..Len(data') : Dense(data'[n], slipped')
  BY <1>1 DEF WholeInv
<1> QED
  BY <1>5, <1>7, <1>8 DEF WholeInv, Dense, Tight

(* When svlogd is killed, current has the mode bit and what was in memory  *)
(* counts as slipped, or the next logdir_open puts current aside.          *)
LEMMA AgainWhole ==
  ASSUME DataType, WholeInv, Again
  PROVE  WholeInv'
<1>0. /\ buf \in Seq(Nat) /\ current \in Seq(Nat) /\ line \in Seq(Nat) /\ Written \in Seq(Nat)
  BY ConcatProperties DEF DataType, Written
<1>1. /\ line' = <<>> /\ buf' = <<>> /\ current' = current /\ xbit' = xbit /\ data' = data
      /\ nread' = nread /\ todo' = <<"open">>
  BY DEF Again
<1>2. slipped' = IF xbit THEN slipped \cup (Units(line) \cup Units(buf)) ELSE slipped
  BY DEF Again
<1>3. PICK r \in Nat : r = nread
  BY DEF DataType
<1>4. LineFrom(r)' /\ r \in 0..nread'
  BY <1>1, <1>3, NoneRead
<1>5. Written' = current
  <2>1. PICK c \in Seq(Nat) : c = current
    BY <1>0
  <2>2. c \o <<>> = c
    BY ConcatEmptySeq
  <2> QED
    BY <1>1, <2>1, <2>2 DEF Written
<1>6. PICK T : T = slipped' /\ slipped \subseteq T
  BY <1>2
<1>7. Dense(current, T)
  <2>1. Dense(current, slipped)
    BY <1>0, DenseParts DEF WholeInv, Written
  <2> QED
    BY <2>1, <1>6, DenseMore
<1>8. \A n \in 1..Len(data') : Dense(data'[n], slipped')
  BY <1>1, <1>6, DenseMore DEF WholeInv
<1>9. Tight(current, r, T) \/ Dirty'
  <2>1. CASE ~ xbit /\ current = <<>>
    <3>1. DOMAIN current = {}
      BY <2>1
    <3> QED
      BY <3>1 DEF Tight
  <2>2. CASE ~ xbit /\ current # <<>>
    BY <2>2, <1>1 DEF Dirty, IsDirty
  <2>3. CASE xbit
    <3>1. ~ Dirty
      BY <2>3 DEF Dirty, IsDirty
    <3>2. PICK e : e = <<>>
      OBVIOUS
    <3>3. PICK W : W = slipped \cup Units(line)
      OBVIOUS
    <3>4. Part(e, line, 0, W)
      <4>1. Len(line) \in Nat /\ DOMAIN line = 1..Len(line)
        BY <1>0, LenProperties
      <4>2. \A i \in (0 + 1)..Len(line) : line[i] \in W \cup {0}
        BY <4>1, <3>3 DEF Units, Range
      <4>3. 0 \in 0..Len(line) /\ e \in Seq(Nat) /\ Len(e) = 0 /\ \A i \in 1..0 : e[i] = line[i]
        BY <4>1, <3>2
      <4> QED
        BY <4>2, <4>3 DEF Part
    <3>5. Tight(Written \o e, nread, W)
      BY <3>1, <3>3, <3>4, LinePrefix
    <3>6. Written \o e = Written
      <4>1. PICK c \in Seq(Nat) : c = Written
        BY <1>0
      <4>2. c \o <<>> = c
        BY ConcatEmptySeq
      <4> QED
        BY <4>1, <4>2, <3>2
    <3>7. Tight(current \o buf, r, W)
      BY <3>5, <3>6, <1>3 DEF Written
    <3>8. Tight(current, r, W \cup Units(buf))
      BY <3>7, <1>0, TightParts
    <3>9. T = W \cup Units(buf)
      BY <1>2, <1>6, <2>3, <3>3
    <3> QED
      BY <3>8, <3>9
  <2> QED
    BY <2>1, <2>2, <2>3
<1>10. Dense(Written', slipped') /\ (Tight(Written', r, slipped') \/ Dirty')
  BY <1>5, <1>6, <1>7, <1>9
<1> QED
  BY <1>4, <1>8, <1>10 DEF WholeInv, Dense, Tight

LEMMA InitWhole ==
  ASSUME Init
  PROVE  WholeInv
<1>1. line = <<>> /\ current = <<>> /\ buf = <<>> /\ nread = 0 /\ Len(data) = 0
  BY DEF Init
<1>2. DOMAIN Written = {}
  <2>1. <<>> \o <<>> = <<>>
    OBVIOUS
  <2> QED
    BY <1>1, <2>1 DEF Written
<1>3. LineFrom(0) /\ 0 \in 0..nread
  <2>1. <<>> = [i \in 1..(0 - 0) |-> 0 + i]
    OBVIOUS
  <2> QED
    BY <2>1, <1>1 DEF LineFrom, ReadFrom
<1>4. Dense(Written, slipped) /\ Tight(Written, 0, slipped)
  BY <1>2 DEF Dense, Tight
<1>5. \A n \in 1..Len(data) : Dense(data[n], slipped)
  BY <1>1
<1> QED
  BY <1>3, <1>4, <1>5 DEF WholeInv

(* No file has a hole: for every size of lines and files and every order   *)
(* of writes, failed writes, rotations, reopenings and deaths of svlogd,   *)
(* what the input had between two units of a file is between them in the   *)
(* file, or was cut off by buffer_pwrite, or was in memory when svlogd was *)
(* killed with current closed.  The mode bit of current, which logdir_open *)
(* looks at, is what keeps new input from being appended after a hole.     *)
THEOREM FilesHaveNoHoles == Spec => []FilesWhole
<1>1. Init => WholeInv
  BY InitWhole
<1>2. ASSUME OrderInv, WholeInv, [Next]_vars PROVE WholeInv'
  <2>0. DataType /\ LineInv
    BY <1>2 DEF OrderInv
  <2>1. CASE Svlogd
    BY <1>2, <2>0, <2>1, LoopWhole, CallsWhole, OpenWhole, SealWhole, RenameWhole, WriteWhole,
       NoSpaceWhole, ReadWhole, EndWhole DEF Svlogd
  <2>2. CASE \/ \E n \in Times : ProcessorEnds(n)
             \/ \E sg \in {"TERM", "HUP", "ALRM"} : SendSignal(sg)
             \/ UNCHANGED vars
    BY <1>2, <2>2, LoopWhole
  <2>3. CASE Again
    BY <1>2, <2>0, <2>3, AgainWhole
  <2> QED
    BY <1>2, <2>1, <2>2, <2>3 DEF Next
<1>3. ASSUME OrderInv, WholeInv PROVE FilesWhole
  <2>0. DataType
    BY <1>3 DEF OrderInv
  <2>1. \A n \in DOMAIN data : Whole(data[n])
    <3>1. DOMAIN data = 1..Len(data)
      BY <2>0, LenProperties DEF DataType
    <3>2. \A n \in 1..Len(data) : Dense(data[n], slipped)
      BY <1>3 DEF WholeInv
    <3> QED
      BY <3>1, <3>2 DEF Whole, Dense
  <2>2. Dense(Written \o line, slipped)
    <3>1. CASE ~ Dirty
      <4>1. PICK f \in Nat, a \in Seq(Nat) : f = Len(line) /\ a = line
        BY <2>0, LenProperties DEF DataType
      <4>2. Part(a, line, f, slipped)
        BY <4>1 DEF Part
      <4>3. Dense(Written \o a, slipped)
        BY <4>2, <3>1, <2>0, <1>3, LinePrefix
      <4> QED
        BY <4>1, <4>3
    <3>2. CASE Dirty
      <4>1. PICK c \in Seq(Nat) : c = Written
        BY <2>0, ConcatProperties DEF DataType, Written
      <4>2. c \o <<>> = c
        BY ConcatEmptySeq
      <4>3. Dense(c, slipped)
        BY <4>1, <1>3 DEF WholeInv
      <4> QED
        BY <4>1, <4>2, <4>3, <3>2 DEF Dirty
    <3> QED
      BY <3>1, <3>2
  <2>3. Whole(current \o buf \o line)
    BY <2>2 DEF Whole, Dense, Written
  <2> QED
    BY <2>1, <2>3 DEF FilesWhole
<1>4. Spec => []WholeInv
  BY <1>1, <1>2, OrderIsKept, PTL DEF Spec
<1> QED
  BY <1>3, <1>4, OrderIsKept, PTL
=============================================================================
