--------------------------- MODULE LogreadProofs ---------------------------
(***************************************************************************)
(* Theorems about the log buffer, for every size, number of readers and    *)
(* set of message lengths: the two semaphores keep syslogd and the         *)
(* logreads apart, logread always finds the start of a message, and what   *)
(* it prints are whole messages, with -f each of them once.                *)
(***************************************************************************)
EXTENDS Logread, SequenceTheorems, FiniteSetTheorems, WellFoundedInduction, TLAPS

-----------------------------------------------------------------------------
(* The inductive invariant. *)

Bytes == {NUL} \cup (1..MaxMsgs) \X (1..Size)

(* Semaphore 0 counts the logreads that hold it, which they do not while   *)
(* syslogd holds semaphore 1.  Without the segment nobody is attached.     *)
Holds(r) == rpc[r] \in {"read", "unlock", "unset"}
Holders == {r \in Readers : Holds(r)}

SemInv ==
  /\ sem[1] = Cardinality(Holders)
  /\ sem[2] = 1 => sem[1] = 0
  /\ wpc \in {"store", "unlock"} => sem[2] = 1
  /\ ~ shm => wpc = "gone" /\ \A r \in Readers : ~ Attached(r)

(* The place before the tail t.                                            *)
Before(t) == IF t = 0 THEN Size - 1 ELSE t - 1

(* What is left of a message ends in NUL; when nothing is left of one that *)
(* reaches to the end of the buffer, the NUL is there.                     *)
RestInv ==
  /\ wpc = "lock" => Newest < MaxMsgs
  /\ wpc = "store" =>
       /\ rest \in Seq(Bytes) /\ Len(rest) < Size
       /\ rest # << >> => rest[Len(rest)] = NUL
       /\ rest = << >> => tail = 0 /\ data[Size - 1] = NUL

(* Whenever syslogd does not hold its semaphore, and as long as a logread  *)
(* holds the other one, the byte before the tail is NUL.                   *)
NulInv ==
  /\ wpc = "unlock" \/ sem[2] = 0 => data[Before(tail)] = NUL
  /\ \A r \in Readers : rpc[r] = "read" => data[Before(seen[r])] = NUL

LogInv ==
  /\ TypeOK /\ data \in [0..Size -> Bytes]
  /\ SemInv /\ RestInv /\ NulInv /\ CopyIsSet


-----------------------------------------------------------------------------
(* Operators. *)

LEMMA Constants ==
  /\ Size \in Nat /\ Size > 2 /\ MaxMsgs \in Nat /\ MaxKills \in Nat /\ IsFiniteSet(Readers)
  /\ Lens \subseteq 2..(Size - 1) /\ Options \subseteq {"", "f", "F"}
<1>1. /\ Size \in Nat /\ Lens \subseteq 2..(Size - 1) /\ Lens # {}
      /\ MaxMsgs \in Nat /\ MaxKills \in Nat /\ IsFiniteSet(Readers)
      /\ Options \subseteq {"", "f", "F"}
  BY LogreadAssumption DEF LogreadAssumption
<1>2. PICK n \in Lens : n \in 2..(Size - 1)
  BY <1>1
<1>3. Size > 2
  <2>1. Size \in Nat
    BY <1>1
  <2>2. n \in Int /\ 2 <= n /\ n <= Size - 1
    BY <1>2, <2>1
  <2> QED
    BY <2>1, <2>2
<1> QED
  BY <1>1, <1>3

LEMMA SemFacts ==
  ASSUME NEW s \in Nat \X {0, 1}
  PROVE  /\ s[1] \in Nat /\ s[2] \in {0, 1} /\ s = <<s[1], s[2]>>
         /\ \A x \in Nat : /\ [s EXCEPT ![1] = x] \in Nat \X {0, 1}
                           /\ [s EXCEPT ![1] = x][1] = x /\ [s EXCEPT ![1] = x][2] = s[2]
         /\ /\ [s EXCEPT ![2] = 0] \in Nat \X {0, 1}
            /\ [s EXCEPT ![2] = 0][1] = s[1] /\ [s EXCEPT ![2] = 0][2] = 0
<1>1. s[1] \in Nat /\ s[2] \in {0, 1} /\ s = <<s[1], s[2]>>
  OBVIOUS
<1>2. ASSUME NEW x \in Nat
      PROVE  /\ [s EXCEPT ![1] = x] \in Nat \X {0, 1}
             /\ [s EXCEPT ![1] = x][1] = x /\ [s EXCEPT ![1] = x][2] = s[2]
  <2>1. [s EXCEPT ![1] = x] = <<x, s[2]>>
    BY <1>1
  <2> QED
    BY <1>1, <2>1
<1>3. /\ [s EXCEPT ![2] = 0] \in Nat \X {0, 1}
      /\ [s EXCEPT ![2] = 0][1] = s[1] /\ [s EXCEPT ![2] = 0][2] = 0
  <2>1. [s EXCEPT ![2] = 0] = <<s[1], 0>>
    BY <1>1
  <2> QED
    BY <1>1, <2>1
<1> QED
  BY <1>1, <1>2, <1>3

(* A set of natural numbers has a smallest member.                         *)
LEMMA Smallest ==
  ASSUME NEW T, T \subseteq Nat, T # {}
  PROVE  \E x \in T : \A y \in T : x <= y
<1> DEFINE R == {ss \in Nat \X Nat : ss[1] < ss[2]}
<1>1. IsWellFoundedOn(R, Nat)
  BY NatLessThanWellFounded, Zenon DEF OpToRel
<1>2. PICK x \in T : \A y \in T : ~ (<<y, x>> \in R)
  <2> HIDE DEF R
  <2> QED
    BY <1>1, WFMin
<1>3. \A y \in T : ~ (y < x)
  BY <1>2
<1> QED
  BY <1>3

(* strlen finds the first NUL: none comes before it.                       *)
LEMMA NulFromFacts ==
  ASSUME Size \in Nat, data[Size] = NUL, NEW i \in 0..Size
  PROVE  /\ NulFrom(i) \in i..Size /\ data[NulFrom(i)] = NUL
         /\ \A j \in i..Size : data[j] = NUL => NulFrom(i) <= j
<1> DEFINE T == {j \in i..Size : data[j] = NUL}
<1>1. T \subseteq Nat /\ Size \in T
  OBVIOUS
<1>2. PICK x \in T : \A y \in T : x <= y
  <2> HIDE DEF T
  <2> QED
    BY <1>1, Smallest
<1>3. x \in i..Size /\ data[x] = NUL /\ \A k \in i..(x - 1) : data[k] # NUL
  BY <1>2
<1>4. /\ NulFrom(i) \in i..Size /\ data[NulFrom(i)] = NUL
      /\ \A k \in i..(NulFrom(i) - 1) : data[k] # NUL
  BY <1>3 DEF NulFrom
<1> HIDE DEF T
<1>5. ASSUME NEW j \in i..Size, data[j] = NUL PROVE NulFrom(i) <= j
  <2>1. NulFrom(i) \in Int /\ j \in Int /\ i \in Int
    BY <1>4
  <2>2. j \notin i..(NulFrom(i) - 1)
    BY <1>4, <1>5
  <2> QED
    BY <2>1, <2>2
<1> QED
  BY <1>4, <1>5

(* "no complete messages" is not found when the byte before t is NUL.      *)
LEMMA OldestFound ==
  ASSUME NEW c \in 0..(Size - 1), NEW t \in 0..(Size - 1), data[Size] = NUL,
         data[Before(t)] = NUL
  PROVE  Oldest(c, t) # -1
<1>1. Size \in Nat /\ Size > 2
  BY Constants
<1>2. c \in 0..Size /\ 0 \in 0..Size
  BY <1>1
<1>3. NulFrom(c) \in c..Size /\ \A j \in c..Size : data[j] = NUL => NulFrom(c) <= j
  BY <1>1, <1>2, NulFromFacts
<1>4. NulFrom(0) \in 0..Size /\ \A j \in 0..Size : data[j] = NUL => NulFrom(0) <= j
  BY <1>1, <1>2, NulFromFacts
<1>5. CASE t = 0
  <2>1. Size - 1 \in c..Size /\ data[Size - 1] = NUL
    BY <1>1, <1>5 DEF Before
  <2>2. NulFrom(c) <= Size - 1
    BY <1>3, <2>1
  <2>3. NulFrom(c) \in Int /\ NulFrom(c) >= 0
    BY <1>1, <1>3
  <2> QED
    BY <1>1, <2>2, <2>3 DEF Oldest
<1>6. CASE t # 0
  <2>1. t - 1 \in 0..Size /\ data[t - 1] = NUL
    BY <1>1, <1>6 DEF Before
  <2>2. NulFrom(0) <= t - 1
    BY <1>4, <2>1
  <2>3. NulFrom(c) \in Int /\ NulFrom(c) >= 0 /\ NulFrom(0) \in Int /\ NulFrom(0) >= 0
    BY <1>1, <1>3, <1>4
  <2> QED
    BY <1>1, <2>2, <2>3 DEF Oldest
<1> QED
  BY <1>5, <1>6


-----------------------------------------------------------------------------
(* The parts of the invariant. *)

WriterType ==
  /\ shm \in BOOLEAN /\ term \in BOOLEAN
  /\ data \in [0..Size -> Bytes] /\ data[Size] = NUL
  /\ tail \in 0..(Size - 1) /\ sem \in Nat \X {0, 1}
  /\ wpc \in {"gone", "idle", "lock", "store", "unlock"}
  /\ kills \in 0..MaxKills /\ lens \in Seq(Lens) /\ Newest <= MaxMsgs

ReaderType ==
  /\ rpc \in [Readers -> {"gone", "attached", "lock", "read", "unlock", "unset"}]
  /\ follow \in [Readers -> {"", "f", "F"}]
  /\ cur \in [Readers -> 0..(Size - 1)] /\ seen \in [Readers -> 0..(Size - 1)]
  /\ lag \in [Readers -> 0..Reset]
  /\ from \in [Readers -> 0..(MaxMsgs + 1)]

LEMMA LogParts ==
  LogInv <=> WriterType /\ ReaderType /\ SemInv /\ RestInv /\ NulInv /\ CopyIsSet
<1>1. TypeOK /\ data \in [0..Size -> Bytes] <=> WriterType /\ ReaderType
  BY DEF TypeOK, WriterType, ReaderType, Bytes
<1> QED
  BY <1>1 DEF LogInv

LEMMA LogPartsNext ==
  ASSUME WriterType', ReaderType', SemInv', RestInv', NulInv', CopyIsSet'
  PROVE  LogInv'
<1>1. TypeOK' /\ (data \in [0..Size -> Bytes])'
  BY DEF TypeOK, WriterType, ReaderType, Bytes
<1> QED
  BY <1>1 DEF LogInv

LEMMA HoldersFinite == IsFiniteSet(Holders) /\ Cardinality(Holders) \in Nat
<1>1. Holders \subseteq Readers /\ IsFiniteSet(Readers)
  BY Constants DEF Holders
<1> HIDE DEF Holders
<1> QED
  BY <1>1, FS_Subset, FS_CardinalityType

(* One logread moves.                                                      *)
LEMMA HoldersMove ==
  ASSUME NEW r \in Readers, \A q \in Readers \ {r} : rpc'[q] = rpc[q]
  PROVE  /\ Holds(r)' = Holds(r) => Cardinality(Holders') = Cardinality(Holders)
         /\ ~ Holds(r) /\ Holds(r)' => Cardinality(Holders') = Cardinality(Holders) + 1
         /\ Holds(r) /\ ~ Holds(r)' => /\ Cardinality(Holders') = Cardinality(Holders) - 1
                                       /\ Cardinality(Holders) > 0
         /\ Cardinality(Holders) = 0 => ~ Holds(r)
<1>0. \A q \in Readers \ {r} : Holds(q)' = Holds(q)
  BY DEF Holds
<1>1. Holds(r)' = Holds(r) => Holders' = Holders
  BY <1>0 DEF Holders
<1>2. ~ Holds(r) /\ Holds(r)' => Holders' = Holders \cup {r} /\ r \notin Holders
  BY <1>0 DEF Holders
<1>3. Holds(r) /\ ~ Holds(r)' => Holders' = Holders \ {r} /\ r \in Holders
  BY <1>0 DEF Holders
<1>4. Holds(r) => r \in Holders
  BY DEF Holders
<1>5. IsFiniteSet(Holders) /\ Cardinality(Holders) \in Nat
  BY HoldersFinite
<1> HIDE DEF Holders, Holds
<1>6. r \notin Holders => Cardinality(Holders \cup {r}) = Cardinality(Holders) + 1
  BY <1>5, FS_AddElement
<1>7. r \in Holders => Cardinality(Holders \ {r}) = Cardinality(Holders) - 1
  BY <1>5, FS_RemoveElement
<1>8. r \in Holders => Cardinality(Holders) # 0
  BY <1>5, FS_EmptySet
<1> QED
  BY <1>1, <1>2, <1>3, <1>4, <1>5, <1>6, <1>7, <1>8

LEMMA NobodyHolds ==
  ASSUME SemInv, sem[1] = 0
  PROVE  \A r \in Readers : ~ Holds(r)
<1>1. IsFiniteSet(Holders) /\ Cardinality(Holders) = 0
  BY HoldersFinite DEF SemInv
<1>2. Holders = {}
  BY <1>1, FS_EmptySet
<1> QED
  BY <1>2 DEF Holders

(* With nobody holding it, semaphore 0 is 0.                               *)
LEMMA NoHolders ==
  ASSUME \A r \in Readers : ~ Holds(r)
  PROVE  Cardinality(Holders) = 0
<1>1. Holders = {}
  BY DEF Holders
<1> QED
  BY <1>1, FS_EmptySet

-----------------------------------------------------------------------------
(* The steps of syslogd. *)

(* The logreads stay where they are.                                       *)
LEMMA ReadersStay ==
  ASSUME ReaderType, CopyIsSet, UNCHANGED readerVars, lag' \in [Readers -> 0..Reset]
  PROVE  ReaderType' /\ CopyIsSet' /\ Holders' = Holders
<1>1. rpc' = rpc /\ follow' = follow /\ cur' = cur /\ seen' = seen /\ from' = from
  BY DEF readerVars
<1>2. ReaderType' /\ CopyIsSet'
  BY <1>1 DEF ReaderType, CopyIsSet, Reset
<1>3. Holders' = Holders
  BY <1>1 DEF Holders, Holds
<1> QED
  BY <1>2, <1>3

LEMMA ZerosFacts ==
  Zeros \in [0..Size -> Bytes] /\ \A i \in 0..Size : Zeros[i] = NUL
BY DEF Zeros, Bytes

LEMMA BeforeIn ==
  ASSUME NEW t \in 0..(Size - 1)
  PROVE  Before(t) \in 0..(Size - 1) /\ Before(t) \in 0..Size
<1>1. Size \in Nat /\ Size > 2
  BY Constants
<1> QED
  BY <1>1 DEF Before

LEMMA ipcsyslog_initInv ==
  ASSUME LogInv, ipcsyslog_init
  PROVE  LogInv'
<1>0. WriterType /\ ReaderType /\ SemInv /\ RestInv /\ NulInv /\ CopyIsSet
  BY LogParts
<1>1. /\ wpc = "gone" /\ Newest < MaxMsgs /\ shm' = TRUE /\ data' = Zeros /\ tail' = 0
      /\ sem' = (IF shm THEN sem ELSE <<0, 0>>)
      /\ wpc' = "lock" /\ rest' = << >> /\ term' = FALSE
      /\ lag' = [r \in Readers |-> IF Located(r) THEN Reset ELSE 0]
      /\ kills' = kills /\ lens' = lens /\ UNCHANGED readerVars
  BY DEF ipcsyslog_init
<1>2. Size \in Nat /\ Size > 2
  BY Constants
<1>3. Reset \in 0..Reset /\ 0 \in 0..Reset
  BY <1>2 DEF Reset
<1>4. lag' \in [Readers -> 0..Reset]
  BY <1>1, <1>3
<1>5. ReaderType' /\ CopyIsSet' /\ Holders' = Holders
  BY <1>0, <1>1, <1>4, ReadersStay
<1>6. sem' \in Nat \X {0, 1} /\ sem'[1] = Cardinality(Holders') /\ (sem'[2] = 1 => sem'[1] = 0)
  <2>1. CASE shm
    BY <2>1, <1>0, <1>1, <1>5 DEF SemInv, WriterType
  <2>2. CASE ~ shm
    <3>1. \A r \in Readers : ~ Holds(r)
      BY <2>2, <1>0 DEF SemInv, Attached, Holds
    <3>2. Cardinality(Holders) = 0
      BY <3>1, NoHolders
    <3>3. sem' = <<0, 0>>
      BY <1>1, <2>2
    <3> HIDE DEF Holders
    <3> QED
      BY <3>2, <3>3, <1>5
  <2> QED
    BY <2>1, <2>2
<1>7. WriterType'
  <2>1. Zeros \in [0..Size -> Bytes] /\ Zeros[Size] = NUL
    BY ZerosFacts, <1>2
  <2>2. 0 \in 0..(Size - 1)
    BY <1>2
  <2> QED
    BY <2>1, <2>2, <1>0, <1>1, <1>6 DEF WriterType, Newest, Bytes
<1>8. SemInv'
  BY <1>1, <1>6 DEF SemInv
<1>9. RestInv'
  BY <1>1 DEF RestInv, Newest
<1>10. NulInv'
  <2>1. \A r \in Readers : seen'[r] \in 0..(Size - 1)
    BY <1>5 DEF ReaderType
  <2>2. \A r \in Readers : Before(seen'[r]) \in 0..Size
    BY <2>1, BeforeIn
  <2>3. Before(0) \in 0..Size
    BY <1>2, BeforeIn
  <2>4. \A i \in 0..Size : data'[i] = NUL
    BY <1>1, ZerosFacts
  <2>5. data'[Before(0)] = NUL /\ \A r \in Readers : data'[Before(seen'[r])] = NUL
    BY <2>2, <2>3, <2>4
  <2>6. Before(tail)' = Before(0) /\ \A r \in Readers : Before(seen[r])' = Before(seen'[r])
    BY <1>1 DEF Before
  <2>7. NUL' = NUL
    OBVIOUS
  <2> QED
    BY <2>5, <2>6 DEF NulInv
<1> QED
  BY <1>5, <1>7, <1>8, <1>9, <1>10, LogPartsNext

(* The parts stay when nothing they mention changes.                       *)
LEMMA NulStays ==
  ASSUME NulInv, data' = data, tail' = tail, seen' = seen,
         wpc' = "unlock" \/ sem'[2] = 0 => wpc = "unlock" \/ sem[2] = 0,
         \A r \in Readers : rpc'[r] = "read" => rpc[r] = "read"
  PROVE  NulInv'
BY DEF NulInv, Before, NUL

LEMMA ReceiveInv ==
  ASSUME LogInv, Receive
  PROVE  LogInv'
<1>0. WriterType /\ ReaderType /\ SemInv /\ RestInv /\ NulInv /\ CopyIsSet
  BY LogParts
<1>1. /\ wpc = "idle" /\ Newest < MaxMsgs /\ wpc' = "lock" /\ term' \in BOOLEAN
      /\ shm' = shm /\ data' = data /\ tail' = tail /\ sem' = sem /\ rest' = rest
      /\ kills' = kills /\ lens' = lens /\ UNCHANGED readerVars /\ lag' = lag
  BY DEF Receive, shmVars
<1>2. lag' \in [Readers -> 0..Reset]
  BY <1>0, <1>1 DEF ReaderType
<1>3. ReaderType' /\ CopyIsSet' /\ Holders' = Holders
  BY <1>0, <1>1, <1>2, ReadersStay
<1>4. WriterType'
  BY <1>0, <1>1 DEF WriterType, Newest, Bytes, NUL
<1>5. SemInv'
  BY <1>0, <1>1, <1>3 DEF SemInv
<1>6. RestInv'
  BY <1>1 DEF RestInv, Newest
<1>7. NulInv'
  BY <1>0, <1>1, NulStays DEF readerVars
<1> QED
  BY <1>3, <1>4, <1>5, <1>6, <1>7, LogPartsNext

LEMMA KillInv ==
  ASSUME LogInv, Kill
  PROVE  LogInv'
<1>0. WriterType /\ ReaderType /\ SemInv /\ RestInv /\ NulInv /\ CopyIsSet
  BY LogParts
<1>1. /\ kills < MaxKills /\ wpc' = "gone" /\ kills' = kills + 1 /\ rest' = << >>
      /\ shm' = shm /\ data' = data /\ tail' = tail /\ sem' = sem /\ term' = term
      /\ lens' = lens /\ UNCHANGED readerVars /\ lag' = lag /\ wpc # "gone"
  BY DEF Kill, shmVars
<1>2. lag' \in [Readers -> 0..Reset]
  BY <1>0, <1>1 DEF ReaderType
<1>3. ReaderType' /\ CopyIsSet' /\ Holders' = Holders
  BY <1>0, <1>1, <1>2, ReadersStay
<1>4. WriterType'
  <2>1. kills \in 0..MaxKills /\ MaxKills \in Nat
    BY <1>0, Constants DEF WriterType
  <2>2. kills' \in 0..MaxKills
    BY <1>1, <2>1
  <2> QED
    BY <2>2, <1>0, <1>1 DEF WriterType, Newest, Bytes, NUL
<1>5. SemInv'
  BY <1>0, <1>1, <1>3 DEF SemInv
<1>6. RestInv'
  BY <1>1 DEF RestInv
<1>7. NulInv'
  BY <1>0, <1>1, NulStays DEF readerVars
<1> QED
  BY <1>3, <1>4, <1>5, <1>6, <1>7, LogPartsNext

LEMMA WriteLockInv ==
  ASSUME LogInv, WriteLock
  PROVE  LogInv'
<1>0. WriterType /\ ReaderType /\ SemInv /\ RestInv /\ NulInv /\ CopyIsSet
  BY LogParts
<1>1. /\ wpc = "lock" /\ sem = <<0, 0>> /\ sem' = <<0, 1>> /\ wpc' = "store"
      /\ shm' = shm /\ data' = data /\ tail' = tail /\ term' = term
      /\ kills' = kills /\ UNCHANGED readerVars /\ lag' = lag
  BY DEF WriteLock, shmVars
<1>2. PICK n \in Lens : /\ lens' = Append(lens, n)
                        /\ rest' = [i \in 1..n |-> IF i = n THEN NUL ELSE <<Newest + 1, i>>]
  BY DEF WriteLock
<1>3. Size \in Nat /\ Size > 2 /\ MaxMsgs \in Nat /\ Lens \subseteq 2..(Size - 1)
  BY Constants
<1>4. n \in Nat /\ n >= 2 /\ n < Size
  BY <1>3
<1>5. lens \in Seq(Lens) /\ Len(lens) \in Nat /\ Len(lens) < MaxMsgs
  <2>1. lens \in Seq(Lens) /\ Len(lens) < MaxMsgs
    BY <1>0, <1>1 DEF WriterType, RestInv, Newest
  <2> QED
    BY <2>1, LenProperties
<1>6. lens' \in Seq(Lens) /\ Len(lens') <= MaxMsgs
  <2>1. lens' \in Seq(Lens) /\ Len(lens') = Len(lens) + 1
    BY <1>2, <1>5, AppendProperties
  <2> QED
    BY <2>1, <1>3, <1>5
<1>7. lag' \in [Readers -> 0..Reset]
  BY <1>0, <1>1 DEF ReaderType
<1>8. ReaderType' /\ CopyIsSet' /\ Holders' = Holders
  BY <1>0, <1>1, <1>7, ReadersStay
<1>9. WriterType'
  <2>1. <<0, 1>> \in Nat \X {0, 1}
    OBVIOUS
  <2> QED
    BY <2>1, <1>0, <1>1, <1>6 DEF WriterType, Newest, Bytes, NUL
<1>10. SemInv'
  <2>1. sem[1] = 0 /\ sem'[1] = 0 /\ sem'[2] = 1
    BY <1>1
  <2> QED
    BY <2>1, <1>0, <1>1, <1>8 DEF SemInv
<1>11. RestInv'
  <2>1. ASSUME NEW i \in 1..n PROVE rest'[i] \in Bytes
    <3>1. CASE i = n
      BY <3>1, <1>2 DEF Bytes
    <3>2. CASE i # n
      <4>1. rest'[i] = <<Newest + 1, i>>
        BY <1>2, <3>2
      <4>2. Newest + 1 \in 1..MaxMsgs
        BY <1>3, <1>5 DEF Newest
      <4>3. i \in 1..Size
        BY <1>4, <1>3
      <4> QED
        BY <4>1, <4>2, <4>3 DEF Bytes
    <3> QED
      BY <3>1, <3>2
  <2>2. rest' \in [1..n -> Bytes]
    BY <1>2, <2>1
  <2>3. rest' \in Seq(Bytes) /\ Len(rest') = n
    BY <2>2, <1>4
  <2>4. rest'[n] = NUL
    BY <1>2, <1>4
  <2>5. rest' # << >>
    BY <2>3, <1>4
  <2> QED
    BY <2>3, <2>4, <2>5, <1>4, <1>1 DEF RestInv, Bytes, NUL
<1>12. NulInv'
  <2>1. ~ (wpc' = "unlock" \/ sem'[2] = 0)
    BY <1>1
  <2>2. data' = data /\ seen' = seen /\ rpc' = rpc
    BY <1>1 DEF readerVars
  <2> QED
    BY <2>1, <2>2, <1>0 DEF NulInv, Before, NUL
<1> QED
  BY <1>8, <1>9, <1>10, <1>11, <1>12, LogPartsNext

(* The first k bytes of the message are in the buffer behind the tail; the *)
(* place behind the buffer stays NUL.                                      *)
LEMMA StoredFacts ==
  ASSUME WriterType, rest \in Seq(Bytes), NEW k \in Nat, k <= Len(rest), tail + k <= Size
  PROVE  /\ Stored(k) \in [0..Size -> Bytes] /\ Stored(k)[Size] = NUL
         /\ k > 0 => Stored(k)[tail + k - 1] = rest[k]
         /\ k = 0 => Stored(k) = data
<1>1. Size \in Nat /\ tail \in 0..(Size - 1) /\ data \in [0..Size -> Bytes] /\ data[Size] = NUL
  BY Constants DEF WriterType
<1>2. Len(rest) \in Nat /\ \A j \in 1..Len(rest) : rest[j] \in Bytes
  BY LenProperties, ElementOfSeq
<1>3. \A i \in tail..(tail + k - 1) : i - tail + 1 \in 1..Len(rest)
  BY <1>1, <1>2
<1>4. Stored(k) \in [0..Size -> Bytes]
  <2>1. \A i \in 0..Size :
          (IF i \in tail..(tail + k - 1) THEN rest[i - tail + 1] ELSE data[i]) \in Bytes
    <3>1. ASSUME NEW i \in 0..Size, i \in tail..(tail + k - 1) PROVE rest[i - tail + 1] \in Bytes
      BY <1>2, <1>3, <3>1
    <3>2. \A i \in 0..Size : data[i] \in Bytes
      BY <1>1
    <3> QED
      BY <3>1, <3>2
  <2> QED
    BY <2>1 DEF Stored
<1>5. Stored(k)[Size] = NUL
  <2>1. Size \in 0..Size /\ Size \notin tail..(tail + k - 1)
    BY <1>1
  <2> QED
    BY <1>1, <2>1 DEF Stored
<1>6. ASSUME k > 0 PROVE Stored(k)[tail + k - 1] = rest[k]
  <2>1. tail + k - 1 \in 0..Size /\ tail + k - 1 \in tail..(tail + k - 1)
    BY <1>1, <1>6
  <2>2. (tail + k - 1) - tail + 1 = k
    BY <1>1
  <2> QED
    BY <2>1, <2>2 DEF Stored
<1>7. ASSUME k = 0 PROVE Stored(k) = data
  <2>1. \A i \in 0..Size : i \notin tail..(tail + k - 1)
    BY <1>1, <1>7
  <2>2. Stored(k) = [i \in 0..Size |-> data[i]]
    BY <2>1 DEF Stored
  <2> QED
    BY <1>1, <2>2
<1> QED
  BY <1>4, <1>5, <1>6, <1>7

LEMMA StoreInv ==
  ASSUME LogInv, Store
  PROVE  LogInv'
<1> DEFINE n == Len(rest)
           k == IF Fits(n) THEN n ELSE Size - tail
<1>0. WriterType /\ ReaderType /\ SemInv /\ RestInv /\ NulInv /\ CopyIsSet
  BY LogParts
<1>1. /\ wpc = "store" /\ data' = Stored(k) /\ tail' = (IF Fits(n) THEN tail + n ELSE 0)
      /\ rest' = SubSeq(rest, k + 1, n) /\ wpc' = (IF Fits(n) THEN "unlock" ELSE "store")
      /\ lag' = [r \in Readers |-> IF ~ Located(r) THEN 0
                                   ELSE IF lag[r] + k < Size THEN lag[r] + k ELSE Size]
      /\ shm' = shm /\ sem' = sem /\ term' = term /\ kills' = kills /\ lens' = lens
      /\ UNCHANGED readerVars
  BY DEF Store
<1>2. Size \in Nat /\ Size > 2 /\ tail \in 0..(Size - 1)
  BY <1>0, Constants DEF WriterType
<1>3. /\ rest \in Seq(Bytes) /\ n \in Nat /\ n < Size
      /\ n > 0 => rest[n] = NUL
      /\ n = 0 => tail = 0 /\ data[Size - 1] = NUL
  <2>1. /\ rest \in Seq(Bytes) /\ Len(rest) < Size
        /\ rest # << >> => rest[Len(rest)] = NUL
        /\ rest = << >> => tail = 0 /\ data[Size - 1] = NUL
    BY <1>0, <1>1 DEF RestInv
  <2>2. Len(rest) \in Nat /\ (Len(rest) = 0 <=> rest = << >>)
    BY <2>1, EmptySeq, LenProperties
  <2> QED
    BY <2>1, <2>2
<1>4. k \in Nat /\ k <= n /\ tail + k <= Size /\ (~ Fits(n) => k > 0 /\ k = Size - tail)
  <2>1. Fits(n) <=> tail + n < Size
    BY DEF Fits
  <2> HIDE DEF n
  <2> QED
    BY <2>1, <1>2, <1>3
<1>5. Fits(n) => k = n
  OBVIOUS
<1>6. /\ Stored(k) \in [0..Size -> Bytes] /\ Stored(k)[Size] = NUL
      /\ k > 0 => Stored(k)[tail + k - 1] = rest[k]
      /\ k = 0 => Stored(k) = data
  <2>1. k <= Len(rest)
    BY <1>4
  <2> HIDE DEF k
  <2> QED
    BY <1>0, <1>3, <1>4, <2>1, StoredFacts
<1>7. rest' \in Seq(Bytes) /\ Len(rest') = n - k
      /\ (n > k => rest'[n - k] = rest[n])
  <2> HIDE DEF n, k
  <2>1. rest \in Seq(Bytes) /\ n = Len(rest) /\ k + 1 \in 1..(n + 1)
    BY <1>3, <1>4 DEF n
  <2>2. \A i \in (k + 1)..n : rest[i] \in Bytes
    <3>1. \A i \in 1..Len(rest) : rest[i] \in Bytes
      BY <1>3, ElementOfSeq
    <3>2. \A i \in (k + 1)..n : i \in 1..Len(rest)
      BY <2>1, <1>3, <1>4
    <3> QED
      BY <3>1, <3>2
  <2>3. /\ SubSeq(rest, k + 1, n) \in Seq(Bytes)
        /\ Len(SubSeq(rest, k + 1, n)) = (IF k + 1 <= n THEN n - (k + 1) + 1 ELSE 0)
        /\ \A i \in 1..(n - (k + 1) + 1) : SubSeq(rest, k + 1, n)[i] = rest[(k + 1) + i - 1]
    BY <2>1, <2>2, <1>3, <1>4, SubSeqProperties
  <2>4. n - k \in Nat /\ (n > k => n - k \in 1..(n - (k + 1) + 1)) /\ (k + 1) + (n - k) - 1 = n
    BY <1>3, <1>4
  <2>5. Len(SubSeq(rest, k + 1, n)) = n - k
    BY <2>3, <1>3, <1>4
  <2> QED
    BY <2>3, <2>4, <2>5, <1>1
<1>8. lag' \in [Readers -> 0..Reset]
  <2> HIDE DEF k
  <2>1. ASSUME NEW r \in Readers
        PROVE  (IF ~ Located(r) THEN 0
                ELSE IF lag[r] + k < Size THEN lag[r] + k ELSE Size) \in 0..Reset
    <3>1. lag[r] \in 0..(Size + 1)
      BY <1>0 DEF ReaderType, Reset
    <3> QED
      BY <3>1, <1>2, <1>4 DEF Reset
  <2> QED
    BY <1>1, <2>1
<1>9. ReaderType' /\ CopyIsSet' /\ Holders' = Holders
  BY <1>0, <1>1, <1>8, ReadersStay
<1>10. tail' \in 0..(Size - 1)
  <2>1. Fits(n) <=> tail + n < Size
    BY DEF Fits
  <2> HIDE DEF n
  <2> QED
    BY <1>1, <1>2, <1>3, <2>1
<1>11. WriterType'
  <2>1. wpc' \in {"gone", "idle", "lock", "store", "unlock"}
    BY <1>1
  <2>2. data' \in [0..Size -> Bytes] /\ data'[Size] = NUL
    BY <1>1, <1>6
  <2> HIDE DEF n, k
  <2> QED
    BY <2>1, <2>2, <1>0, <1>1, <1>10 DEF WriterType, Newest, Bytes, NUL
<1>12. SemInv'
  <2>1. wpc # "gone" /\ wpc' \in {"store", "unlock"}
    BY <1>1
  <2>2. sem'[2] = 1 /\ shm' = shm /\ sem' = sem /\ shm
    BY <2>1, <1>0, <1>1 DEF SemInv
  <2> QED
    BY <2>1, <2>2, <1>0, <1>9 DEF SemInv
<1>13. RestInv'
  <2>1. CASE Fits(n)
    BY <2>1, <1>1 DEF RestInv
  <2>2. CASE ~ Fits(n)
    <3>1. wpc' = "store" /\ tail' = 0 /\ k > 0 /\ k = Size - tail
      BY <2>2, <1>1, <1>4
    <3> HIDE DEF n, k
    <3>2. Len(rest') < Size /\ (rest' # << >> => n > k) /\ (rest' = << >> => n = k)
      <4>1. Len(rest') = 0 <=> rest' = << >>
        BY <1>7, EmptySeq
      <4>2. n \in Nat /\ n < Size /\ k \in Nat /\ k <= n /\ Len(rest') = n - k
        BY <1>3, <1>4, <1>7
      <4> QED
        BY <4>1, <4>2, <1>2
    <3>3. rest' # << >> => rest'[Len(rest')] = NUL
      BY <3>2, <1>7, <1>3, <1>4
    <3>4. rest' = << >> => data'[Size - 1] = NUL
      <4>1. tail + k - 1 = Size - 1
        BY <3>1, <1>2, <1>4
      <4> QED
        BY <4>1, <3>1, <3>2, <1>1, <1>3, <1>6
    <3> QED
      BY <3>1, <3>2, <3>3, <3>4, <1>7 DEF RestInv, Bytes, NUL
  <2> QED
    BY <2>1, <2>2
<1>14. NulInv'
  <2>1. sem'[2] = 1 /\ sem[1] = 0
    BY <1>0, <1>1 DEF SemInv
  <2>2. \A r \in Readers : rpc'[r] # "read"
    <3>1. \A r \in Readers : ~ Holds(r)
      BY <2>1, <1>0, NobodyHolds
    <3>2. rpc' = rpc
      BY <1>1 DEF readerVars
    <3> QED
      BY <3>1, <3>2 DEF Holds
  <2>3. CASE Fits(n)
    <3>1. tail' = tail + n /\ k = n
      BY <2>3, <1>1
    <3> HIDE DEF n, k
    <3>2. CASE n = 0
      <4>1. tail' = 0 /\ data' = data /\ data[Size - 1] = NUL
        BY <3>1, <3>2, <1>1, <1>3, <1>6
      <4>2. data'[Before(tail')] = NUL
        BY <4>1 DEF Before
      <4> QED
        BY <4>2, <2>2 DEF NulInv, Before, NUL
    <3>3. CASE n # 0
      <4>1. tail' # 0 /\ tail' - 1 = tail + k - 1 /\ n > 0
        BY <3>1, <3>3, <1>2, <1>3
      <4>2. data'[tail' - 1] = NUL
        <5>1. k > 0 /\ rest[k] = NUL
          BY <4>1, <3>1, <1>3
        <5>2. Stored(k)[tail + k - 1] = NUL
          BY <5>1, <1>6
        <5>3. data' = Stored(k)
          BY <1>1
        <5> QED
          BY <5>2, <5>3, <4>1
      <4>3. data'[Before(tail')] = NUL
        BY <4>1, <4>2 DEF Before
      <4> QED
        BY <4>3, <2>2 DEF NulInv, Before, NUL
    <3> QED
      BY <3>2, <3>3
  <2>4. CASE ~ Fits(n)
    <3>1. wpc' # "unlock"
      BY <2>4, <1>1
    <3>2. sem'[2] # 0
      BY <2>1
    <3> QED
      BY <3>1, <3>2, <2>2 DEF NulInv
  <2> QED
    BY <2>3, <2>4
<1> QED
  BY <1>9, <1>11, <1>12, <1>13, <1>14, LogPartsNext

LEMMA LeaveFacts ==
  ASSUME ReaderType, CopyIsSet, NEW R, Leave(R)
  PROVE  /\ ReaderType' /\ CopyIsSet'
         /\ \A r \in Readers \cap R : rpc'[r] = "gone"
         /\ \A r \in Readers \ R : rpc'[r] = rpc[r] /\ seen'[r] = seen[r]
<1>1. /\ rpc' = [r \in Readers |-> IF r \in R THEN "gone" ELSE rpc[r]]
      /\ follow' = [r \in Readers |-> IF r \in R THEN "" ELSE follow[r]]
      /\ cur' = [r \in Readers |-> IF r \in R THEN 0 ELSE cur[r]]
      /\ seen' = [r \in Readers |-> IF r \in R THEN 0 ELSE seen[r]]
      /\ from' = [r \in Readers |-> IF r \in R THEN 0 ELSE from[r]]
      /\ lag' = [r \in Readers |-> IF r \in R THEN 0 ELSE lag[r]]
  BY DEF Leave
<1>2. Size \in Nat /\ Size > 2 /\ MaxMsgs \in Nat
  BY Constants
<1>3. 0 \in 0..(Size - 1) /\ 0 \in 0..Reset /\ 0 \in 0..(MaxMsgs + 1)
  BY <1>2 DEF Reset
<1>4. ReaderType'
  <2>1. rpc' \in [Readers -> {"gone", "attached", "lock", "read", "unlock", "unset"}]
    BY <1>1 DEF ReaderType
  <2>2. follow' \in [Readers -> {"", "f", "F"}]
    BY <1>1 DEF ReaderType
  <2>3. cur' \in [Readers -> 0..(Size - 1)]
    BY <1>1, <1>3 DEF ReaderType
  <2>4. seen' \in [Readers -> 0..(Size - 1)]
    BY <1>1, <1>3 DEF ReaderType
  <2>5. lag' \in [Readers -> 0..Reset]
    BY <1>1, <1>3 DEF ReaderType
  <2>6. from' \in [Readers -> 0..(MaxMsgs + 1)]
    BY <1>1, <1>3 DEF ReaderType
  <2> QED
    BY <2>1, <2>2, <2>3, <2>4, <2>5, <2>6 DEF ReaderType, Reset
<1>5. CopyIsSet'
  BY <1>1 DEF CopyIsSet
<1> QED
  BY <1>1, <1>4, <1>5

LEMMA WriteUnlockInv ==
  ASSUME LogInv, WriteUnlock
  PROVE  LogInv'
<1>0. WriterType /\ ReaderType /\ SemInv /\ RestInv /\ NulInv /\ CopyIsSet
  BY LogParts
<1>1. /\ wpc = "unlock" /\ sem' = [sem EXCEPT ![2] = 0]
      /\ rest' = rest /\ term' = term /\ kills' = kills /\ lens' = lens
  BY DEF WriteUnlock
<1>2. /\ sem' \in Nat \X {0, 1} /\ sem'[1] = sem[1] /\ sem'[2] = 0
  BY <1>0, <1>1, SemFacts DEF WriterType
<1>3. sem[1] = 0 /\ Cardinality(Holders) = 0
  BY <1>0, <1>1 DEF SemInv
<1>4. CASE term
  <2>1. wpc' = "gone" /\ shm' = FALSE /\ data' = Zeros /\ tail' = 0 /\ Leave(Readers)
    BY <1>4 DEF WriteUnlock
  <2>2. /\ ReaderType' /\ CopyIsSet' /\ \A r \in Readers : rpc'[r] = "gone"
    BY <1>0, <2>1, LeaveFacts
  <2>3. Holders' = {}
    BY <2>2 DEF Holders, Holds
  <2>4. Size \in Nat /\ Size > 2
    BY Constants
  <2>5. WriterType'
    <3>1. Zeros \in [0..Size -> Bytes] /\ Zeros[Size] = NUL /\ 0 \in 0..(Size - 1)
      BY ZerosFacts, <2>4
    <3> QED
      BY <3>1, <2>1, <1>0, <1>1, <1>2 DEF WriterType, Newest, Bytes, NUL
  <2>6. SemInv'
    <3>1. Cardinality(Holders') = 0
      BY <2>3, FS_EmptySet
    <3>2. sem'[1] = Cardinality(Holders')
      BY <3>1, <1>2, <1>3
    <3> QED
      BY <3>2, <1>2, <1>3, <2>1, <2>2 DEF SemInv, Attached
  <2>7. RestInv'
    BY <2>1 DEF RestInv
  <2>8. NulInv'
    <3>1. Before(0) \in 0..Size
      BY <2>4, BeforeIn
    <3>2. data'[Before(tail')] = NUL
      BY <3>1, <2>1, ZerosFacts
    <3> QED
      BY <3>2, <2>2 DEF NulInv, Before, NUL
  <2> QED
    BY <2>2, <2>5, <2>6, <2>7, <2>8, LogPartsNext
<1>5. CASE ~ term
  <2>1. /\ wpc' = "idle" /\ shm' = shm /\ data' = data /\ tail' = tail
        /\ UNCHANGED readerVars /\ lag' = lag
    BY <1>5 DEF WriteUnlock, shmVars
  <2>2. lag' \in [Readers -> 0..Reset]
    BY <1>0, <2>1 DEF ReaderType
  <2>3. ReaderType' /\ CopyIsSet' /\ Holders' = Holders
    BY <1>0, <2>1, <2>2, ReadersStay
  <2>4. WriterType'
    BY <1>0, <1>1, <1>2, <2>1 DEF WriterType, Newest, Bytes, NUL
  <2>5. SemInv'
    <3>1. shm
      BY <1>0, <1>1 DEF SemInv
    <3>2. sem'[1] = Cardinality(Holders')
      BY <1>2, <1>3, <2>3
    <3> QED
      BY <3>1, <3>2, <1>2, <1>3, <2>1 DEF SemInv
  <2>6. RestInv'
    BY <2>1 DEF RestInv
  <2>7. NulInv'
    BY <1>0, <1>1, <2>1, NulStays DEF readerVars
  <2> QED
    BY <2>3, <2>4, <2>5, <2>6, <2>7, LogPartsNext
<1> QED
  BY <1>4, <1>5

-----------------------------------------------------------------------------
(* The steps of a logread. *)

(* It takes semaphore 0, gives it back or leaves it.                       *)
SemMove(r) ==
  \/ sem' = sem /\ Holds(r)' = Holds(r)
  \/ sem[2] = 0 /\ ~ Holds(r) /\ Holds(r)' /\ sem' = [sem EXCEPT ![1] = @ + 1]
  \/ Holds(r) /\ ~ Holds(r)' /\ sem' = [sem EXCEPT ![1] = @ - 1]

LEMMA SemMoveInv ==
  ASSUME SemInv, sem \in Nat \X {0, 1}, NEW r \in Readers,
         \A q \in Readers \ {r} : rpc'[q] = rpc[q], SemMove(r)
  PROVE  /\ sem' \in Nat \X {0, 1} /\ sem'[2] = sem[2]
         /\ sem'[1] = Cardinality(Holders') /\ (sem'[2] = 1 => sem'[1] = 0)
<1>1. /\ sem[1] = Cardinality(Holders) /\ sem[1] \in Nat /\ sem[2] \in {0, 1}
      /\ sem[2] = 1 => sem[1] = 0
  BY SemFacts DEF SemInv
<1>2. /\ Holds(r)' = Holds(r) => Cardinality(Holders') = Cardinality(Holders)
      /\ ~ Holds(r) /\ Holds(r)' => Cardinality(Holders') = Cardinality(Holders) + 1
      /\ Holds(r) /\ ~ Holds(r)' => /\ Cardinality(Holders') = Cardinality(Holders) - 1
                                    /\ Cardinality(Holders) > 0
  BY HoldersMove
<1>3. CASE sem' = sem /\ Holds(r)' = Holds(r)
  BY <1>1, <1>2, <1>3
<1>4. CASE sem[2] = 0 /\ ~ Holds(r) /\ Holds(r)' /\ sem' = [sem EXCEPT ![1] = @ + 1]
  <2>1. sem[1] + 1 \in Nat
    BY <1>1
  <2>2. sem' \in Nat \X {0, 1} /\ sem'[1] = sem[1] + 1 /\ sem'[2] = sem[2]
    BY <2>1, <1>4, SemFacts
  <2> QED
    BY <2>2, <1>1, <1>2, <1>4
<1>5. CASE Holds(r) /\ ~ Holds(r)' /\ sem' = [sem EXCEPT ![1] = @ - 1]
  <2>0. sem[1] > 0
    BY <1>1, <1>2, <1>5
  <2>1. sem[1] - 1 \in Nat
    BY <2>0, <1>1
  <2>2. sem' \in Nat \X {0, 1} /\ sem'[1] = sem[1] - 1 /\ sem'[2] = sem[2]
    BY <2>1, <1>5, SemFacts
  <2>3. sem[2] # 1
    BY <2>0, <1>1
  <2> QED
    BY <2>2, <2>3, <1>1, <1>2, <1>5
<1> QED
  BY <1>3, <1>4, <1>5 DEF SemMove

(* What a step of logread r has to keep.                                   *)
LEMMA ReaderMoves ==
  ASSUME LogInv, NEW r \in Readers, UNCHANGED <<shmVars, writerVars>>,
         ReaderType', CopyIsSet', SemMove(r),
         \A q \in Readers \ {r} : rpc'[q] = rpc[q] /\ seen'[q] = seen[q],
         rpc'[r] = "read" => data[Before(seen'[r])] = NUL,
         rpc'[r] # "gone" => shm
  PROVE  LogInv'
<1>0. WriterType /\ ReaderType /\ SemInv /\ RestInv /\ NulInv /\ CopyIsSet
  BY LogParts
<1>1. /\ shm' = shm /\ data' = data /\ tail' = tail /\ wpc' = wpc /\ rest' = rest
      /\ term' = term /\ kills' = kills /\ lens' = lens
  BY DEF shmVars, writerVars
<1>2. /\ sem' \in Nat \X {0, 1} /\ sem'[2] = sem[2]
      /\ sem'[1] = Cardinality(Holders') /\ (sem'[2] = 1 => sem'[1] = 0)
  <2>1. sem \in Nat \X {0, 1}
    BY <1>0 DEF WriterType
  <2> QED
    BY <2>1, <1>0, SemMoveInv
<1>3. WriterType'
  BY <1>0, <1>1, <1>2 DEF WriterType, Newest, Bytes, NUL
<1>4. SemInv'
  <2>1. wpc' \in {"store", "unlock"} => sem'[2] = 1
    BY <1>0, <1>1, <1>2 DEF SemInv
  <2>2. ~ shm' => wpc' = "gone" /\ \A q \in Readers : rpc'[q] = "gone"
    BY <1>0, <1>1 DEF SemInv, Attached
  <2> QED
    BY <2>1, <2>2, <1>2 DEF SemInv, Attached
<1>5. RestInv'
  BY <1>0, <1>1 DEF RestInv, Newest, Bytes, NUL
<1>6. NulInv'
  <2>1. wpc' = "unlock" \/ sem'[2] = 0 => data'[Before(tail)] = NUL
    BY <1>0, <1>1, <1>2 DEF NulInv
  <2>2. \A q \in Readers : rpc'[q] = "read" => data'[Before(seen'[q])] = NUL
    BY <1>0, <1>1 DEF NulInv
  <2> QED
    BY <2>1, <2>2, <1>1 DEF NulInv, Before, NUL
<1> QED
  BY <1>3, <1>4, <1>5, <1>6, LogPartsNext

LEMMA GotoFacts ==
  ASSUME ReaderType, CopyIsSet, NEW r \in Readers,
         NEW s \in {"gone", "attached", "lock", "read", "unlock"}, Goto(r, s)
  PROVE  /\ rpc' \in [Readers -> {"gone", "attached", "lock", "read", "unlock", "unset"}]
         /\ rpc'[r] = s /\ (\A q \in Readers \ {r} : rpc'[q] = rpc[q]) /\ CopyIsSet'
BY DEF Goto, ReaderType, CopyIsSet

LEMMA NewestIn ==
  ASSUME WriterType
  PROVE  Newest + 1 \in 0..(MaxMsgs + 1) /\ Newest \in 0..(MaxMsgs + 1)
<1>1. Len(lens) \in Nat /\ Len(lens) <= MaxMsgs /\ MaxMsgs \in Nat
  BY LenProperties, Constants DEF WriterType, Newest
<1> QED
  BY <1>1 DEF Newest

LEMMA LagIn == {0, Size, Reset} \subseteq 0..Reset
<1>1. Size \in Nat
  BY Constants
<1> QED
  BY <1>1 DEF Reset

LEMMA AllReadFacts ==
  ASSUME WriterType, ReaderType, NEW r \in Readers, AllRead(r)
  PROVE  from' \in [Readers -> 0..(MaxMsgs + 1)] /\ lag' \in [Readers -> 0..Reset]
<1>1. from' = [from EXCEPT ![r] = Newest + 1]
      /\ lag' = [lag EXCEPT ![r] = IF lag[r] = Reset THEN Size ELSE 0]
  BY DEF AllRead
<1>2. from' \in [Readers -> 0..(MaxMsgs + 1)]
  BY <1>1, NewestIn DEF ReaderType
<1>3. lag' \in [Readers -> 0..Reset]
  BY <1>1, LagIn DEF ReaderType
<1> QED
  BY <1>2, <1>3

(* A logread that is attached uses a segment that exists.                  *)
LEMMA AttachedSegment ==
  ASSUME SemInv, NEW r \in Readers, rpc[r] # "gone"
  PROVE  shm
BY DEF SemInv, Attached

LEMMA AttachInv ==
  ASSUME LogInv, NEW r \in Readers, Attach(r)
  PROVE  LogInv'
<1>0. WriterType /\ ReaderType /\ SemInv /\ RestInv /\ NulInv /\ CopyIsSet
  BY LogParts
<1>1. /\ rpc[r] = "gone" /\ shm /\ Goto(r, "attached") /\ UNCHANGED <<shmVars, writerVars>>
      /\ sem' = sem /\ cur' = cur /\ seen' = seen /\ from' = from /\ lag' = lag
  BY DEF Attach
<1>2. PICK o \in Options : follow' = [follow EXCEPT ![r] = o]
  BY DEF Attach
<1>3. /\ rpc' \in [Readers -> {"gone", "attached", "lock", "read", "unlock", "unset"}]
      /\ rpc'[r] = "attached" /\ (\A q \in Readers \ {r} : rpc'[q] = rpc[q]) /\ CopyIsSet'
  BY <1>0, <1>1, GotoFacts
<1>4. ReaderType'
  <2>1. o \in {"", "f", "F"}
    BY Constants
  <2>2. follow' \in [Readers -> {"", "f", "F"}]
    BY <2>1, <1>0, <1>2 DEF ReaderType
  <2> QED
    BY <2>2, <1>0, <1>1, <1>3 DEF ReaderType, Reset
<1>5. SemMove(r)
  <2>1. Holds(r)' = Holds(r)
    BY <1>1, <1>3 DEF Holds
  <2> QED
    BY <2>1, <1>1 DEF SemMove
<1> QED
  BY <1>1, <1>3, <1>4, <1>5, ReaderMoves

LEMMA TakeTailInv ==
  ASSUME LogInv, NEW r \in Readers, TakeTail(r)
  PROVE  LogInv'
<1>0. WriterType /\ ReaderType /\ SemInv /\ RestInv /\ NulInv /\ CopyIsSet
  BY LogParts
<1>1. /\ rpc[r] = "attached" /\ Goto(r, "lock") /\ UNCHANGED <<shmVars, writerVars>>
      /\ sem' = sem /\ cur' = [cur EXCEPT ![r] = tail] /\ seen' = seen /\ follow' = follow
  BY DEF TakeTail
<1>2. PICK f \in {Newest, Newest + 1} : from' = [from EXCEPT ![r] = f]
  BY DEF TakeTail
<1>3. PICK l \in {0, Size, Reset} : lag' = [lag EXCEPT ![r] = l]
  BY DEF TakeTail
<1>4. /\ rpc' \in [Readers -> {"gone", "attached", "lock", "read", "unlock", "unset"}]
      /\ rpc'[r] = "lock" /\ (\A q \in Readers \ {r} : rpc'[q] = rpc[q]) /\ CopyIsSet'
  BY <1>0, <1>1, GotoFacts
<1>5. ReaderType'
  <2>1. cur' \in [Readers -> 0..(Size - 1)]
    BY <1>0, <1>1 DEF ReaderType, WriterType
  <2>2. f \in 0..(MaxMsgs + 1) /\ l \in 0..Reset
    BY <1>0, NewestIn, LagIn
  <2>3. from' \in [Readers -> 0..(MaxMsgs + 1)]
    BY <2>2, <1>0, <1>2 DEF ReaderType
  <2>4. lag' \in [Readers -> 0..Reset]
    BY <2>2, <1>0, <1>3 DEF ReaderType
  <2> QED
    BY <2>1, <2>3, <2>4, <1>0, <1>1, <1>4 DEF ReaderType, Reset
<1>6. SemMove(r)
  <2>1. Holds(r)' = Holds(r)
    BY <1>1, <1>4 DEF Holds
  <2> QED
    BY <2>1, <1>1 DEF SemMove
<1>7. shm
  BY <1>0, <1>1, AttachedSegment
<1> QED
  BY <1>1, <1>4, <1>5, <1>6, <1>7, ReaderMoves

LEMMA ReadLockInv ==
  ASSUME LogInv, NEW r \in Readers, ReadLock(r)
  PROVE  LogInv'
<1>0. WriterType /\ ReaderType /\ SemInv /\ RestInv /\ NulInv /\ CopyIsSet
  BY LogParts
<1>1. /\ rpc[r] = "lock" /\ sem[2] = 0 /\ sem' = [sem EXCEPT ![1] = @ + 1]
      /\ seen' = [seen EXCEPT ![r] = tail] /\ Goto(r, "read") /\ UNCHANGED <<shmVars, writerVars>>
      /\ follow' = follow /\ cur' = cur /\ from' = from /\ lag' = lag
  BY DEF ReadLock
<1>2. /\ rpc' \in [Readers -> {"gone", "attached", "lock", "read", "unlock", "unset"}]
      /\ rpc'[r] = "read" /\ (\A q \in Readers \ {r} : rpc'[q] = rpc[q]) /\ CopyIsSet'
  BY <1>0, <1>1, GotoFacts
<1>3. /\ seen' \in [Readers -> 0..(Size - 1)] /\ seen'[r] = tail
      /\ \A q \in Readers \ {r} : seen'[q] = seen[q]
  BY <1>0, <1>1 DEF ReaderType, WriterType
<1>4. ReaderType'
  BY <1>0, <1>1, <1>2, <1>3 DEF ReaderType, Reset
<1>5. SemMove(r)
  <2>1. ~ Holds(r) /\ Holds(r)'
    BY <1>1, <1>2 DEF Holds
  <2> QED
    BY <2>1, <1>1 DEF SemMove
<1>6. data[Before(seen'[r])] = NUL
  <2>1. data[Before(tail)] = NUL
    BY <1>0, <1>1 DEF NulInv
  <2> QED
    BY <2>1, <1>3
<1>7. shm
  BY <1>0, <1>1, AttachedSegment
<1> QED
  BY <1>1, <1>2, <1>3, <1>4, <1>5, <1>6, <1>7, ReaderMoves

LEMMA ReadAllInv ==
  ASSUME LogInv, NEW r \in Readers, ReadAll(r)
  PROVE  LogInv'
<1>0. WriterType /\ ReaderType /\ SemInv /\ RestInv /\ NulInv /\ CopyIsSet
  BY LogParts
<1>1. /\ rpc[r] = "read" /\ UNCHANGED <<shmVars, writerVars>> /\ sem' = sem
      /\ follow' = follow /\ seen' = seen /\ from' = from /\ lag' = lag
  BY DEF ReadAll
<1>2. Oldest(cur[r], seen[r]) # -1
  <2>1. PICK c \in 0..(Size - 1) : c = cur[r]
    BY <1>0 DEF ReaderType
  <2>2. PICK t \in 0..(Size - 1) : t = seen[r]
    BY <1>0 DEF ReaderType
  <2>3. data[Size] = NUL /\ data[Before(t)] = NUL
    BY <2>2, <1>0, <1>1 DEF WriterType, NulInv
  <2>4. Oldest(c, t) # -1
    BY <2>3, OldestFound
  <2> QED
    BY <2>1, <2>2, <2>4
<1>3. Goto(r, "unlock") /\ cur' = [cur EXCEPT ![r] = seen[r]]
  BY <1>2 DEF ReadAll
<1>4. /\ rpc' \in [Readers -> {"gone", "attached", "lock", "read", "unlock", "unset"}]
      /\ rpc'[r] = "unlock" /\ (\A q \in Readers \ {r} : rpc'[q] = rpc[q]) /\ CopyIsSet'
  BY <1>0, <1>3, GotoFacts
<1>5. ReaderType'
  <2>1. cur' \in [Readers -> 0..(Size - 1)]
    BY <1>0, <1>3 DEF ReaderType
  <2> QED
    BY <2>1, <1>0, <1>1, <1>4 DEF ReaderType, Reset
<1>6. SemMove(r)
  <2>1. Holds(r)' = Holds(r)
    BY <1>1, <1>4 DEF Holds
  <2> QED
    BY <2>1, <1>1 DEF SemMove
<1>7. shm
  BY <1>0, <1>1, AttachedSegment
<1> QED
  BY <1>1, <1>4, <1>5, <1>6, <1>7, ReaderMoves

LEMMA ReadNewInv ==
  ASSUME LogInv, NEW r \in Readers, ReadNew(r)
  PROVE  LogInv'
<1>0. WriterType /\ ReaderType /\ SemInv /\ RestInv /\ NulInv /\ CopyIsSet
  BY LogParts
<1>1. /\ rpc[r] = "read" /\ Goto(r, "unlock") /\ cur' = [cur EXCEPT ![r] = seen[r]]
      /\ UNCHANGED <<shmVars, writerVars>> /\ sem' = sem
      /\ follow' = follow /\ seen' = seen /\ from' = from /\ lag' = lag
  BY DEF ReadNew
<1>2. /\ rpc' \in [Readers -> {"gone", "attached", "lock", "read", "unlock", "unset"}]
      /\ rpc'[r] = "unlock" /\ (\A q \in Readers \ {r} : rpc'[q] = rpc[q]) /\ CopyIsSet'
  BY <1>0, <1>1, GotoFacts
<1>3. ReaderType'
  <2>1. cur' \in [Readers -> 0..(Size - 1)]
    BY <1>0, <1>1 DEF ReaderType
  <2> QED
    BY <2>1, <1>0, <1>1, <1>2 DEF ReaderType, Reset
<1>4. SemMove(r)
  <2>1. Holds(r)' = Holds(r)
    BY <1>1, <1>2 DEF Holds
  <2> QED
    BY <2>1, <1>1 DEF SemMove
<1>5. shm
  BY <1>0, <1>1, AttachedSegment
<1> QED
  BY <1>1, <1>2, <1>3, <1>4, <1>5, ReaderMoves

LEMMA SleepInv ==
  ASSUME LogInv, NEW r \in Readers, Sleep(r)
  PROVE  LogInv'
<1>0. WriterType /\ ReaderType /\ SemInv /\ RestInv /\ NulInv /\ CopyIsSet
  BY LogParts
<1>1. /\ rpc[r] = "read" /\ Goto(r, "lock") /\ sem' = [sem EXCEPT ![1] = @ - 1]
      /\ AllRead(r) /\ UNCHANGED <<shmVars, writerVars>>
      /\ follow' = follow /\ seen' = seen /\ cur' = cur
  BY DEF Sleep
<1>2. /\ rpc' \in [Readers -> {"gone", "attached", "lock", "read", "unlock", "unset"}]
      /\ rpc'[r] = "lock" /\ (\A q \in Readers \ {r} : rpc'[q] = rpc[q]) /\ CopyIsSet'
  BY <1>0, <1>1, GotoFacts
<1>3. ReaderType'
  <2>1. from' \in [Readers -> 0..(MaxMsgs + 1)] /\ lag' \in [Readers -> 0..Reset]
    BY <1>0, <1>1, AllReadFacts
  <2> QED
    BY <2>1, <1>0, <1>1, <1>2 DEF ReaderType, Reset
<1>4. SemMove(r)
  <2>1. Holds(r) /\ ~ Holds(r)'
    BY <1>1, <1>2 DEF Holds
  <2> QED
    BY <2>1, <1>1 DEF SemMove
<1>5. shm
  BY <1>0, <1>1, AttachedSegment
<1> QED
  BY <1>1, <1>2, <1>3, <1>4, <1>5, ReaderMoves

LEMMA ReadUnlockInv ==
  ASSUME LogInv, NEW r \in Readers, ReadUnlock(r)
  PROVE  LogInv'
<1>0. WriterType /\ ReaderType /\ SemInv /\ RestInv /\ NulInv /\ CopyIsSet
  BY LogParts
<1>1. /\ rpc[r] = "unlock" /\ sem' = [sem EXCEPT ![1] = @ - 1]
      /\ UNCHANGED <<shmVars, writerVars>>
  BY DEF ReadUnlock
<1>2. shm
  BY <1>0, <1>1, AttachedSegment
<1>3. CASE Leave({r})
  <2>1. /\ ReaderType' /\ CopyIsSet' /\ rpc'[r] = "gone"
        /\ \A q \in Readers \ {r} : rpc'[q] = rpc[q] /\ seen'[q] = seen[q]
    BY <1>0, <1>3, LeaveFacts
  <2>2. Holds(r) /\ ~ Holds(r)'
    BY <1>1, <2>1 DEF Holds
  <2>3. SemMove(r)
    BY <2>2, <1>1 DEF SemMove
  <2> QED
    BY <1>1, <1>2, <2>1, <2>3, ReaderMoves
<1>4. CASE /\ Goto(r, "lock") /\ follow' = [follow EXCEPT ![r] = "f"]
           /\ AllRead(r) /\ cur' = cur /\ seen' = seen
  <2>1. /\ rpc' \in [Readers -> {"gone", "attached", "lock", "read", "unlock", "unset"}]
        /\ rpc'[r] = "lock" /\ (\A q \in Readers \ {r} : rpc'[q] = rpc[q]) /\ CopyIsSet'
    BY <1>0, <1>4, GotoFacts
  <2>2. from' \in [Readers -> 0..(MaxMsgs + 1)] /\ lag' \in [Readers -> 0..Reset]
    BY <1>0, <1>4, AllReadFacts
  <2>3. follow' \in [Readers -> {"", "f", "F"}]
    BY <1>0, <1>4 DEF ReaderType
  <2>4. ReaderType'
    BY <2>1, <2>2, <2>3, <1>0, <1>4 DEF ReaderType, Reset
  <2>5. Holds(r) /\ ~ Holds(r)'
    BY <1>1, <2>1 DEF Holds
  <2>6. SemMove(r)
    BY <2>5, <1>1 DEF SemMove
  <2> QED
    BY <1>1, <1>2, <1>4, <2>1, <2>4, <2>6, ReaderMoves
<1> QED
  BY <1>3, <1>4 DEF ReadUnlock

LEMMA InterruptedInv ==
  ASSUME LogInv, NEW r \in Readers, Interrupted(r)
  PROVE  LogInv'
<1>0. WriterType /\ ReaderType /\ SemInv /\ RestInv /\ NulInv /\ CopyIsSet
  BY LogParts
<1>1. /\ Attached(r) /\ Leave({r}) /\ UNCHANGED <<shmVars, writerVars>>
      /\ sem' = (IF Holds(r) THEN [sem EXCEPT ![1] = @ - 1] ELSE sem)
  BY DEF Interrupted, Holds
<1>2. /\ ReaderType' /\ CopyIsSet' /\ rpc'[r] = "gone"
      /\ \A q \in Readers \ {r} : rpc'[q] = rpc[q] /\ seen'[q] = seen[q]
  BY <1>0, <1>1, LeaveFacts
<1>3. ~ Holds(r)'
  BY <1>2 DEF Holds
<1>4. SemMove(r)
  <2>1. CASE Holds(r)
    BY <2>1, <1>1, <1>3 DEF SemMove
  <2>2. CASE ~ Holds(r)
    <3>1. Holds(r)' = Holds(r)
      BY <2>2, <1>3 DEF Holds
    <3> QED
      BY <2>2, <3>1, <1>1 DEF SemMove
  <2> QED
    BY <2>1, <2>2
<1>5. rpc'[r] # "read"
  BY <1>2
<1> QED
  BY <1>1, <1>2, <1>4, <1>5, ReaderMoves

-----------------------------------------------------------------------------
(* The invariant holds in every state. *)

LEMMA LogInit ==
  ASSUME Init
  PROVE  LogInv
<1>1. Size \in Nat /\ Size > 2 /\ MaxMsgs \in Nat /\ MaxKills \in Nat
  BY Constants
<1>2. /\ shm = FALSE /\ data = Zeros /\ tail = 0 /\ sem = <<0, 0>>
      /\ wpc = "gone" /\ term = FALSE /\ kills = 0 /\ lens = << >>
      /\ rpc = [r \in Readers |-> "gone"] /\ follow = [r \in Readers |-> ""]
      /\ cur = [r \in Readers |-> 0] /\ seen = [r \in Readers |-> 0]
      /\ from = [r \in Readers |-> 0] /\ lag = [r \in Readers |-> 0]
  BY DEF Init
<1>3. /\ 0 \in 0..(Size - 1) /\ 0 \in 0..Reset /\ 0 \in 0..(MaxMsgs + 1)
      /\ 0 \in 0..MaxKills
  BY <1>1 DEF Reset
<1>4. WriterType
  <2>1. Zeros \in [0..Size -> Bytes] /\ Zeros[Size] = NUL
    BY ZerosFacts, <1>1
  <2>2. << >> \in Seq(Lens) /\ Len(<< >>) = 0
    OBVIOUS
  <2>3. <<0, 0>> \in Nat \X {0, 1}
    OBVIOUS
  <2>4. lens \in Seq(Lens) /\ Newest <= MaxMsgs
    <3>1. lens = << >>
      BY <1>2
    <3>2. lens \in Seq(Lens) /\ Newest = 0
      BY <2>2, <3>1 DEF Newest
    <3> QED
      BY <3>2, <1>1
  <2>5. data \in [0..Size -> Bytes] /\ data[Size] = NUL /\ tail \in 0..(Size - 1)
    BY <2>1, <1>2, <1>3
  <2>6. shm \in BOOLEAN /\ term \in BOOLEAN /\ sem \in Nat \X {0, 1} /\ kills \in 0..MaxKills
    BY <2>3, <1>2, <1>3
  <2>7. wpc \in {"gone", "idle", "lock", "store", "unlock"}
    BY <1>2
  <2> QED
    BY <2>4, <2>5, <2>6, <2>7 DEF WriterType
<1>5. ReaderType
  BY <1>2, <1>3 DEF ReaderType
<1>6. SemInv
  <2>1. \A r \in Readers : rpc[r] = "gone"
    BY <1>2
  <2>2. \A r \in Readers : ~ Holds(r)
    BY <2>1 DEF Holds
  <2>3. Cardinality(Holders) = 0
    BY <2>2, NoHolders
  <2>4. sem[1] = 0 /\ sem[2] = 0
    BY <1>2
  <2> QED
    BY <2>1, <2>3, <2>4, <1>2 DEF SemInv, Attached
<1>7. RestInv
  BY <1>2 DEF RestInv
<1>8. NulInv
  <2>1. Before(0) \in 0..Size
    BY <1>1, BeforeIn
  <2>2. data[Before(tail)] = NUL
    BY <2>1, <1>2, ZerosFacts
  <2> QED
    BY <2>2, <1>2 DEF NulInv
<1>9. CopyIsSet
  BY <1>2 DEF CopyIsSet
<1> QED
  BY <1>4, <1>5, <1>6, <1>7, <1>8, <1>9, LogParts

LEMMA LogStep ==
  ASSUME LogInv, [Next]_vars
  PROVE  LogInv'
<1>1. CASE Syslogd \/ Receive \/ Kill
  BY <1>1, ipcsyslog_initInv, WriteLockInv, StoreInv, WriteUnlockInv, ReceiveInv, KillInv
     DEF Syslogd
<1>2. ASSUME NEW r \in Readers, LogreadStep(r) \/ ReadLock(r) \/ Attach(r) \/ Interrupted(r)
      PROVE  LogInv'
  BY <1>2, TakeTailInv, ReadAllInv, ReadNewInv, SleepInv, ReadUnlockInv, ReadLockInv,
     AttachInv, InterruptedInv DEF LogreadStep
<1>3. CASE UNCHANGED vars
  <2>0. WriterType /\ ReaderType /\ SemInv /\ RestInv /\ NulInv /\ CopyIsSet
    BY LogParts
  <2>1. /\ shm' = shm /\ data' = data /\ tail' = tail /\ sem' = sem /\ wpc' = wpc
        /\ rest' = rest /\ term' = term /\ kills' = kills /\ lens' = lens
        /\ UNCHANGED readerVars /\ lag' = lag
    BY <1>3 DEF vars, shmVars, writerVars
  <2>2. lag' \in [Readers -> 0..Reset]
    BY <2>0, <2>1 DEF ReaderType
  <2>3. ReaderType' /\ CopyIsSet' /\ Holders' = Holders
    BY <2>0, <2>1, <2>2, ReadersStay
  <2>4. WriterType'
    BY <2>0, <2>1 DEF WriterType, Newest, Bytes, NUL
  <2>5. SemInv'
    <3>1. rpc' = rpc
      BY <2>1 DEF readerVars
    <3> QED
      BY <3>1, <2>0, <2>1, <2>3 DEF SemInv, Attached
  <2>6. RestInv'
    BY <2>0, <2>1 DEF RestInv, Newest, Bytes, NUL
  <2>7. NulInv'
    BY <2>0, <2>1, NulStays DEF readerVars
  <2> QED
    BY <2>3, <2>4, <2>5, <2>6, <2>7, LogPartsNext
<1> QED
  BY <1>1, <1>2, <1>3 DEF Next

LEMMA LogInvAlways == Spec => []LogInv
<1>1. Spec => Init /\ [][Next]_vars
  BY PTL DEF Spec
<1>2. Init => LogInv
  BY LogInit
<1>3. LogInv /\ [Next]_vars => LogInv'
  BY LogStep
<1> QED
  BY <1>1, <1>2, <1>3, PTL

(* Types; the tail that log_to_shmem leaves is below the size of the       *)
(* buffer, and the byte behind the buffer stays NUL, so that strlen in     *)
(* logread_main ends inside the segment.                                   *)
THEOREM LogreadTypeCorrect == Spec => []TypeOK
<1>1. LogInv => TypeOK
  BY DEF LogInv
<1> QED
  BY <1>1, LogInvAlways, PTL

(* logread_main always finds the start of a message: it never leaves the   *)
(* loop over the buffer with its copy and the copy's length not set.       *)
THEOREM CopyIsAlwaysSet == Spec => []CopyIsSet
<1>1. LogInv => CopyIsSet
  BY DEF LogInv
<1> QED
  BY <1>1, LogInvAlways, PTL

(* While log_to_shmem stores a message, no logread looks at the buffer     *)
(* under the lock.                                                         *)
Apart == wpc \in {"store", "unlock"} => \A r \in Readers : ~ Holds(r)

(* The semaphores that syslogd and logread take with semop keep the writer *)
(* and the readers apart, whatever is killed or restarted.                 *)
THEOREM ReadersAndWriterApart == Spec => []Apart
<1>1. LogInv => Apart
  <2>1. SUFFICES ASSUME LogInv, wpc \in {"store", "unlock"}
                 PROVE  \A r \in Readers : ~ Holds(r)
    BY DEF Apart
  <2>2. SemInv /\ sem[1] = 0
    BY <2>1 DEF LogInv, SemInv
  <2> QED
    BY <2>2, NobodyHolds
<1> QED
  BY <1>1, LogInvAlways, PTL


-----------------------------------------------------------------------------
(* What is printed of a copy.  Numbers in ascending order first.           *)

(* A function that grows from each argument to the next one grows.         *)
LEMMA Ascending ==
  ASSUME NEW a \in Nat, NEW b \in Nat, NEW o, \A m \in a..b : o[m] \in Int,
         \A m \in a..(b - 1) : o[m] < o[m + 1]
  PROVE  \A x, y \in a..b : x < y => o[x] < o[y]
<1> SUFFICES ASSUME NEW x \in a..b, NEW z \in a..b, x < z, ~ (o[x] < o[z])
             PROVE  FALSE
  OBVIOUS
<1> DEFINE T == {y \in a..b : x < y /\ ~ (o[x] < o[y])}
<1>1. T \subseteq Nat /\ z \in T
  OBVIOUS
<1>2. PICK y \in T : \A k \in T : y <= k
  <2> HIDE DEF T
  <2> QED
    BY <1>1, Smallest
<1>3. y \in a..b /\ x < y /\ ~ (o[x] < o[y])
  BY <1>2
<1>4. y - 1 \in a..(b - 1) /\ y - 1 \in a..b /\ (y - 1) + 1 = y
  BY <1>3
<1>5. o[y - 1] < o[y]
  BY <1>4
<1>6. y - 1 \notin T
  <2> HIDE DEF T
  <2>1. y \in Int
    BY <1>3
  <2>2. ~ (y <= y - 1)
    BY <2>1
  <2> QED
    BY <1>2, <2>2
<1>7. x = y - 1 \/ (x < y - 1 /\ o[x] < o[y - 1])
  BY <1>3, <1>4, <1>6
<1>8. o[x] \in Int /\ o[y] \in Int /\ o[y - 1] \in Int
  BY <1>3, <1>4
<1> QED
  BY <1>3, <1>5, <1>7, <1>8

(* It leaves no place between two of its values without an interval.       *)
LEMMA Covered ==
  ASSUME NEW a \in Nat, NEW b \in Nat, a <= b, NEW o, \A m \in a..b : o[m] \in Int,
         NEW p \in Int, o[a] <= p, p < o[b]
  PROVE  \E m \in a..(b - 1) : o[m] <= p /\ p < o[m + 1]
<1> DEFINE T == {m \in a..b : p < o[m]}
<1>1. T \subseteq Nat /\ b \in T
  OBVIOUS
<1>2. PICK m \in T : \A k \in T : m <= k
  <2> HIDE DEF T
  <2> QED
    BY <1>1, Smallest
<1>3. m \in a..b /\ p < o[m]
  BY <1>2
<1>4. m # a
  BY <1>3
<1>5. m - 1 \in a..(b - 1) /\ m - 1 \in a..b /\ (m - 1) + 1 = m
  BY <1>3, <1>4
<1>6. m - 1 \notin T
  <2> HIDE DEF T
  <2>1. ~ (m <= m - 1)
    BY <1>3
  <2> QED
    BY <1>2, <2>1
<1>7. o[m - 1] <= p
  BY <1>5, <1>6
<1> QED
  BY <1>3, <1>5, <1>7

(* Two ascending enumerations of the same set are the same.                *)
Climbs(f, n) == \A i, j \in 1..n : i < j => f[i] < f[j]
Onto(f, n, S) == \A s \in S : \E i \in 1..n : f[i] = s

LEMMA OneOrder ==
  ASSUME NEW n \in Nat, NEW S, S \subseteq Int, NEW f \in [1..n -> S], NEW g \in [1..n -> S],
         Climbs(f, n), Climbs(g, n), Onto(f, n, S), Onto(g, n, S)
  PROVE  f = g
<1> SUFFICES ASSUME NEW z \in 1..n, f[z] # g[z] PROVE FALSE
  OBVIOUS
<1> DEFINE T == {i \in 1..n : f[i] # g[i]}
<1>1. T \subseteq Nat /\ z \in T
  OBVIOUS
<1>2. PICK i \in T : \A k \in T : i <= k
  <2> HIDE DEF T
  <2> QED
    BY <1>1, Smallest
<1>3. i \in 1..n /\ f[i] # g[i] /\ f[i] \in Int /\ g[i] \in Int
  BY <1>2
<1>4. \A k \in 1..n : k < i => f[k] = g[k]
  BY <1>2
<1>5. ASSUME NEW u \in [1..n -> S], NEW v \in [1..n -> S], Climbs(u, n), Climbs(v, n),
             Onto(v, n, S),
             \A k \in 1..n : k < i => u[k] = v[k], u[i] < v[i]
      PROVE  FALSE
  <2>1. PICK j \in 1..n : v[j] = u[i]
    BY <1>3, <1>5 DEF Onto
  <2>2. CASE j < i
    <3>1. u[j] = u[i] /\ u[j] < u[i] /\ u[i] \in Int
      BY <1>3, <1>5, <2>1, <2>2 DEF Climbs
    <3> QED
      BY <3>1
  <2>3. CASE j = i
    <3>1. u[i] \in Int
      BY <1>3, <1>5
    <3> QED
      BY <1>5, <2>1, <2>3, <3>1
  <2>4. CASE i < j
    <3>1. v[i] < v[j] /\ u[i] \in Int /\ v[i] \in Int /\ v[j] = u[i]
      BY <1>3, <1>5, <2>1, <2>4 DEF Climbs
    <3> QED
      BY <1>5, <3>1
  <2> QED
    BY <1>3, <2>2, <2>3, <2>4
<1>6. CASE f[i] < g[i]
  BY <1>4, <1>5, <1>6
<1>7. CASE g[i] < f[i]
  BY <1>4, <1>5, <1>7
<1> QED
  BY <1>3, <1>6, <1>7

LEMMA ClimbsInjective ==
  ASSUME NEW n \in Nat, NEW f, Climbs(f, n), \A i \in 1..n : f[i] \in Int
  PROVE  \A i, j \in 1..n : f[i] = f[j] => i = j
<1> SUFFICES ASSUME NEW i \in 1..n, NEW j \in 1..n, f[i] = f[j], i # j PROVE FALSE
  OBVIOUS
<1>1. f[i] \in Int /\ f[j] \in Int /\ (i < j \/ j < i)
  OBVIOUS
<1>2. (i < j => f[i] < f[j]) /\ (j < i => f[j] < f[i])
  BY DEF Climbs
<1> QED
  BY <1>1, <1>2

(* InOrder finds the ascending enumeration.                                *)
LEMMA InOrderIs ==
  ASSUME NEW n \in Nat, NEW S, S \subseteq Int, NEW e \in [1..n -> S], Climbs(e, n), Onto(e, n, S)
  PROVE  InOrder(S) = e
<1>1. e \in Bijection(1..n, S)
  <2>1. \A i, j \in 1..n : e[i] = e[j] => i = j
    BY ClimbsInjective
  <2> QED
    BY <2>1 DEF Bijection, Injection, Surjection, IsInjective, Onto
<1>2. Cardinality(S) = n /\ IsFiniteSet(S)
  BY <1>1, FS_CountingElements, FS_NatBijection DEF ExistsBijection
<1>3. PICK c : c = Cardinality(S)
  OBVIOUS
<1>4. InOrder(S) = CHOOSE f \in [1..n -> S] : \A i, j \in DOMAIN f : i < j => f[i] < f[j]
  BY <1>2 DEF InOrder
<1>5. \A f \in [1..n -> S] : (\A i, j \in DOMAIN f : i < j => f[i] < f[j]) <=> Climbs(f, n)
  BY DEF Climbs
<1>6. InOrder(S) \in [1..n -> S] /\ Climbs(InOrder(S), n)
  BY <1>4, <1>5
<1>7. PICK f \in [1..n -> S] : f = InOrder(S)
  BY <1>6
<1>8. Climbs(f, n)
  BY <1>6, <1>7
<1>9. f \in Injection(1..n, S)
  <2>1. \A i \in 1..n : f[i] \in Int
    OBVIOUS
  <2> QED
    BY <1>8, <2>1, ClimbsInjective DEF Injection, IsInjective
<1>10. IsFiniteSet(1..n) /\ Cardinality(1..n) = n
  BY FS_Interval
<1>11. f \in Surjection(1..n, S)
  BY <1>2, <1>9, <1>10, FS_Injection
<1>12. Onto(f, n, S)
  BY <1>11 DEF Surjection, Onto
<1>13. f = e
  BY <1>8, <1>12, OneOrder
<1> QED
  BY <1>7, <1>13

(* The messages from a to b - 1, of the lengths ls, lie in c from the      *)
(* places o on, to its end; there are only NULs before them.               *)
Laid(c, ls, o, a, b) ==
  /\ a \in Nat /\ b \in Nat /\ 1 <= a /\ a <= b
  /\ \A m \in a..b : o[m] \in Nat
  /\ o[a] >= 1 /\ o[b] = Len(c) + 1
  /\ \A m \in a..(b - 1) : ls[m] \in Nat /\ ls[m] >= 2 /\ o[m + 1] = o[m] + ls[m]
  /\ \A m \in a..(b - 1) : \A j \in 1..ls[m] :
       c[o[m] + j - 1] = IF j = ls[m] THEN NUL ELSE <<m, j>>
  /\ \A i \in 1..(o[a] - 1) : c[i] = NUL

StartsOf(c) == {i \in 1..Len(c) : c[i] # NUL /\ (i = 1 \/ c[i - 1] = NUL)}
EndOf(c, i) == CHOOSE j \in i..Len(c) :
                 (j = Len(c) \/ c[j + 1] = NUL) /\ \A k \in i..j : c[k] # NUL

LEMMA LaidPlaces ==
  ASSUME NEW c, Len(c) \in Nat, NEW ls, NEW o, NEW a, NEW b, Laid(c, ls, o, a, b)
  PROVE  /\ \A x, y \in a..b : x < y => o[x] < o[y]
         /\ \A m \in a..(b - 1) : /\ m \in a..b /\ m + 1 \in a..b
                                  /\ o[m] >= 1 /\ o[m] + ls[m] <= Len(c) + 1
<1>1. /\ a \in Nat /\ b \in Nat /\ a <= b /\ \A m \in a..b : o[m] \in Nat
      /\ \A m \in a..(b - 1) : ls[m] \in Nat /\ ls[m] >= 2 /\ o[m + 1] = o[m] + ls[m]
      /\ o[a] >= 1 /\ o[b] = Len(c) + 1
  BY DEF Laid
<1>2. \A m \in a..(b - 1) : m \in a..b /\ m + 1 \in a..b
  BY <1>1
<1>3. ASSUME NEW m \in a..(b - 1) PROVE o[m] < o[m + 1]
  <2>1. o[m] \in Nat /\ ls[m] \in Nat /\ ls[m] >= 2 /\ o[m + 1] = o[m] + ls[m]
    BY <1>1, <1>2
  <2> QED
    BY <2>1
<1>4. \A m \in a..b : o[m] \in Int
  BY <1>1
<1>5. \A x, y \in a..b : x < y => o[x] < o[y]
  BY <1>1, <1>3, <1>4, Ascending
<1>6. ASSUME NEW m \in a..(b - 1)
      PROVE  o[m] >= 1 /\ o[m] + ls[m] <= Len(c) + 1
  <2>1. m = a \/ o[a] < o[m]
    BY <1>1, <1>2, <1>5
  <2>2. m + 1 = b \/ o[m + 1] < o[b]
    BY <1>1, <1>2, <1>5
  <2>3. o[m] \in Nat /\ o[m + 1] = o[m] + ls[m] /\ ls[m] \in Nat /\ o[a] \in Nat
    BY <1>1, <1>2
  <2>4. o[m] >= o[a]
    BY <2>1, <2>3
  <2>5. o[m + 1] <= o[b] /\ o[b] = Len(c) + 1
    BY <1>1, <2>2, <2>3
  <2> QED
    BY <1>1, <2>3, <2>4, <2>5
<1> QED
  BY <1>2, <1>5, <1>6

(* The bytes of a message.                                                 *)
LEMMA LaidBytes ==
  ASSUME NEW c, Len(c) \in Nat, NEW ls, NEW o, NEW a, NEW b, Laid(c, ls, o, a, b),
         NEW m \in a..(b - 1), NEW i \in Int, o[m] <= i, i < o[m] + ls[m]
  PROVE  /\ i \in 1..Len(c)
         /\ i = o[m] + ls[m] - 1 => c[i] = NUL
         /\ i # o[m] + ls[m] - 1 => c[i] = <<m, i - o[m] + 1>> /\ c[i] # NUL
<1>1. /\ m \in a..b /\ o[m] >= 1 /\ o[m] + ls[m] <= Len(c) + 1
  BY LaidPlaces
<1>2. /\ o[m] \in Nat /\ ls[m] \in Nat /\ a \in Nat /\ 1 <= a
      /\ \A j \in 1..ls[m] : c[o[m] + j - 1] = IF j = ls[m] THEN NUL ELSE <<m, j>>
  BY <1>1 DEF Laid
<1>3. i \in 1..Len(c)
  BY <1>1, <1>2
<1>4. PICK j : j = i - o[m] + 1
  OBVIOUS
<1>5. j \in 1..ls[m] /\ o[m] + j - 1 = i
  BY <1>2, <1>4
<1>6. c[i] = IF j = ls[m] THEN NUL ELSE <<m, j>>
  BY <1>2, <1>5
<1>7. m # 0 /\ (j = ls[m] <=> i = o[m] + ls[m] - 1)
  BY <1>2, <1>4
<1> QED
  BY <1>3, <1>4, <1>6, <1>7 DEF NUL

LEMMA LaidStarts ==
  ASSUME NEW c, Len(c) \in Nat, NEW ls, NEW o, NEW a, NEW b, Laid(c, ls, o, a, b)
  PROVE  StartsOf(c) = {o[m] : m \in a..(b - 1)}
<1>1. /\ a \in Nat /\ b \in Nat /\ a <= b /\ \A m \in a..b : o[m] \in Nat
      /\ \A m \in a..(b - 1) : ls[m] \in Nat /\ ls[m] >= 2 /\ o[m + 1] = o[m] + ls[m]
      /\ o[a] >= 1 /\ o[b] = Len(c) + 1 /\ \A i \in 1..(o[a] - 1) : c[i] = NUL
  BY DEF Laid
<1>2. \A m \in a..(b - 1) : /\ m \in a..b /\ m + 1 \in a..b /\ o[m] \in Nat
                            /\ o[m] >= 1 /\ o[m] + ls[m] <= Len(c) + 1
  BY <1>1, LaidPlaces
<1>3. ASSUME NEW i \in StartsOf(c) PROVE \E m \in a..(b - 1) : i = o[m]
  <2>1. i \in 1..Len(c) /\ c[i] # NUL /\ (i = 1 \/ c[i - 1] = NUL)
    BY DEF StartsOf
  <2>2. o[a] \in Nat /\ o[b] \in Nat /\ i \in Int
    BY <1>1, <2>1
  <2>3. o[a] <= i /\ i < o[b]
    BY <1>1, <2>1, <2>2
  <2>4. \A m \in a..b : o[m] \in Int
    BY <1>1
  <2>5. PICK m \in a..(b - 1) : o[m] <= i /\ i < o[m + 1]
    BY <1>1, <2>2, <2>3, <2>4, Covered
  <2>6. o[m] \in Nat /\ ls[m] \in Nat /\ o[m + 1] = o[m] + ls[m] /\ o[m] >= 1
    BY <1>1, <1>2
  <2>7. CASE i = o[m]
    BY <2>7
  <2>8. CASE i # o[m]
    <3>1. PICK h \in Int : h = i - 1
      BY <2>2
    <3>2. o[m] <= h /\ h < o[m] + ls[m] /\ h # o[m] + ls[m] - 1
      BY <2>2, <2>5, <2>6, <2>8, <3>1
    <3>3. c[h] # NUL
      BY <3>2, LaidBytes
    <3>4. i # 1
      BY <2>5, <2>6, <2>8
    <3> QED
      BY <2>1, <3>1, <3>3, <3>4
  <2> QED
    BY <2>7, <2>8
<1>4. ASSUME NEW m \in a..(b - 1) PROVE o[m] \in StartsOf(c)
  <2>1. PICK i \in Int : i = o[m]
    BY <1>2
  <2>2. ls[m] \in Nat /\ ls[m] >= 2 /\ o[m] \in Nat
    BY <1>1, <1>2
  <2>3. i \in 1..Len(c) /\ c[i] # NUL
    <3>1. o[m] <= i /\ i < o[m] + ls[m] /\ i # o[m] + ls[m] - 1
      BY <2>1, <2>2
    <3> QED
      BY <3>1, LaidBytes
  <2>4. CASE m = a
    <3>1. i = 1 \/ i - 1 \in 1..(o[a] - 1)
      BY <2>1, <2>2, <2>3, <2>4
    <3>2. i = 1 \/ c[i - 1] = NUL
      BY <3>1, <1>1
    <3> QED
      BY <2>1, <2>3, <3>2 DEF StartsOf
  <2>5. CASE m # a
    <3>1. PICK l \in a..(b - 1) : l = m - 1 /\ l + 1 = m
      BY <1>1, <2>5
    <3>2. o[m] = o[l] + ls[l] /\ ls[l] \in Nat /\ ls[l] >= 2 /\ o[l] \in Nat
      BY <1>1, <1>2, <3>1
    <3>3. PICK h \in Int : h = i - 1
      OBVIOUS
    <3>4. o[l] <= h /\ h < o[l] + ls[l] /\ h = o[l] + ls[l] - 1
      BY <2>1, <3>2, <3>3
    <3>5. c[h] = NUL
      BY <3>4, LaidBytes
    <3> QED
      BY <2>1, <2>3, <3>3, <3>5 DEF StartsOf
  <2> QED
    BY <2>4, <2>5
<1> QED
  BY <1>3, <1>4

LEMMA LaidEnds ==
  ASSUME NEW c, Len(c) \in Nat, NEW ls, NEW o, NEW a, NEW b, Laid(c, ls, o, a, b),
         NEW m \in a..(b - 1)
  PROVE  EndOf(c, o[m]) = o[m] + ls[m] - 2
<1>1. /\ o[m] \in Nat /\ ls[m] \in Nat /\ ls[m] >= 2 /\ o[m] >= 1
      /\ o[m] + ls[m] <= Len(c) + 1
  <2>1. m \in a..b /\ o[m] >= 1 /\ o[m] + ls[m] <= Len(c) + 1
    BY LaidPlaces
  <2>2. o[m] \in Nat /\ ls[m] \in Nat /\ ls[m] >= 2
    BY <2>1 DEF Laid
  <2> QED
    BY <2>1, <2>2
<1>2. PICK s \in Int : s = o[m]
  BY <1>1
<1>3. PICK e \in Int : e = o[m] + ls[m] - 2
  BY <1>1
<1>4. s <= e /\ e < Len(c) /\ s >= 1
  BY <1>1, <1>2, <1>3
<1>5. c[e + 1] = NUL
  <2>1. PICK h \in Int : h = e + 1
    OBVIOUS
  <2>2. o[m] <= h /\ h < o[m] + ls[m] /\ h = o[m] + ls[m] - 1
    BY <1>1, <1>3, <2>1
  <2> QED
    BY <2>1, <2>2, LaidBytes
<1>6. ASSUME NEW k \in s..e PROVE c[k] # NUL
  <2>1. k \in Int /\ o[m] <= k /\ k < o[m] + ls[m] /\ k # o[m] + ls[m] - 1
    BY <1>1, <1>2, <1>3
  <2> QED
    BY <2>1, LaidBytes
<1> DEFINE P(j) == (j = Len(c) \/ c[j + 1] = NUL) /\ \A k \in s..j : c[k] # NUL
<1>7. e \in s..Len(c) /\ P(e)
  BY <1>4, <1>5, <1>6
<1>8. ASSUME NEW j \in s..Len(c), P(j) PROVE j = e
  <2>1. CASE j < e
    <3>1. j + 1 \in s..e /\ j # Len(c)
      BY <1>4, <2>1
    <3> QED
      BY <1>6, <1>8, <3>1
  <2>2. CASE j > e
    <3>1. e + 1 \in s..j
      BY <1>4, <2>2
    <3> QED
      BY <1>5, <1>8, <3>1
  <2> QED
    BY <2>1, <2>2
<1>9. EndOf(c, s) = CHOOSE j \in s..Len(c) : P(j)
  BY DEF EndOf
<1> HIDE DEF P
<1>10. EndOf(c, s) = e
  BY <1>7, <1>8, <1>9
<1> QED
  BY <1>2, <1>3, <1>10

(* The string that starts where a message does.                            *)
LEMMA LaidString ==
  ASSUME NEW c, Len(c) \in Nat, NEW ls, NEW o, NEW a, NEW b, Laid(c, ls, o, a, b),
         NEW m \in a..(b - 1)
  PROVE  SubSeq(c, o[m], EndOf(c, o[m])) = [i \in 1..(ls[m] - 1) |-> <<m, i>>]
<1>3. EndOf(c, o[m]) = o[m] + ls[m] - 2
  BY LaidEnds
<1>4. o[m] \in Nat /\ ls[m] \in Nat /\ ls[m] >= 2
  <2>1. m \in a..b
    BY LaidPlaces
  <2> QED
    BY <2>1 DEF Laid
<1>5. PICK s \in Int, z \in Int : s = o[m] /\ z = ls[m]
  BY <1>4
<1>6. z >= 2
  BY <1>4, <1>5
<1>7. PICK f \in Int, l \in Nat : f = s + z - 2 /\ l = z - 1 /\ f - s + 1 = l /\ s <= f
  <2>1. s + z - 2 \in Int /\ z - 1 \in Nat /\ (s + z - 2) - s + 1 = z - 1 /\ s <= s + z - 2
    BY <1>6
  <2> QED
    BY <2>1
<1>8. ASSUME NEW i \in 1..l PROVE c[s + i - 1] = <<m, i>>
  <2>1. PICK h \in Int : h = s + i - 1
    OBVIOUS
  <2>2. s <= h /\ h < s + z /\ h # s + z - 1 /\ h - s + 1 = i
    BY <1>6, <1>7, <2>1
  <2>3. o[m] <= h /\ h < o[m] + ls[m] /\ h # o[m] + ls[m] - 1 /\ h - o[m] + 1 = i
    BY <1>5, <2>2
  <2>4. c[h] = <<m, h - o[m] + 1>>
    BY <2>3, LaidBytes
  <2> QED
    BY <2>1, <2>3, <2>4
<1>9. SubSeq(c, s, f) = [i \in 1..l |-> <<m, i>>]
  <2>1. PICK V : V = {c[i] : i \in s..f}
    OBVIOUS
  <2>2. \A i \in s..f : c[i] \in V
    BY <2>1
  <2>3. PICK q : q = SubSeq(c, s, f)
    OBVIOUS
  <2>4. /\ q \in Seq(V) /\ Len(q) = IF s <= f THEN f - s + 1 ELSE 0
        /\ \A i \in 1..(f - s + 1) : q[i] = c[s + i - 1]
    BY <2>2, <2>3, SubSeqProperties
  <2>5. q \in Seq(V) /\ Len(q) = l /\ \A i \in 1..l : q[i] = c[s + i - 1]
    BY <1>7, <2>4
  <2>6. \A i \in 1..l : q[i] = <<m, i>>
    BY <1>8, <2>5
  <2>7. q = [i \in 1..l |-> q[i]]
    BY <2>5
  <2>8. q = [i \in 1..l |-> <<m, i>>]
    BY <2>6, <2>7
  <2> QED
    BY <2>3, <2>8
<1>10. f = o[m] + ls[m] - 2 /\ l = ls[m] - 1
  BY <1>5, <1>7
<1> QED
  BY <1>3, <1>5, <1>9, <1>10

(* The starts in ascending order, and the string from each of them.        *)
LEMMA LaidStrings ==
  ASSUME NEW c, Len(c) \in Nat, NEW ls, NEW o, NEW a, NEW b, Laid(c, ls, o, a, b)
  PROVE  /\ DOMAIN InOrder(StartsOf(c)) = 1..(b - a)
         /\ \A k \in 1..(b - a) :
              SubSeq(c, InOrder(StartsOf(c))[k], EndOf(c, InOrder(StartsOf(c))[k]))
                = [i \in 1..(ls[a + k - 1] - 1) |-> <<a + k - 1, i>>]
<1>1. a \in Nat /\ b \in Nat /\ a <= b /\ \A m \in a..b : o[m] \in Nat
  BY DEF Laid
<1>2. \A k \in 1..(b - a) : a + k - 1 \in a..(b - 1) /\ a + k - 1 \in a..b
  BY <1>1
<1>3. PICK n \in Nat : n = b - a
  BY <1>1
<1>4. PICK S : S = {o[m] : m \in a..(b - 1)}
  OBVIOUS
<1> DEFINE e == [k \in 1..n |-> o[a + k - 1]]
<1>5. S \subseteq Int
  <2>1. \A m \in a..(b - 1) : o[m] \in Int
    BY <1>1
  <2> QED
    BY <1>4, <2>1
<1>6. e \in [1..n -> S]
  BY <1>2, <1>3, <1>4
<1>7. Climbs(e, n)
  <2> SUFFICES ASSUME NEW i \in 1..n, NEW j \in 1..n, i < j PROVE o[a + i - 1] < o[a + j - 1]
    BY DEF Climbs
  <2>1. PICK x \in a..b, y \in a..b : x = a + i - 1 /\ y = a + j - 1 /\ x < y
    BY <1>1, <1>2, <1>3
  <2> QED
    BY <2>1, LaidPlaces
<1>8. Onto(e, n, S)
  <2> SUFFICES ASSUME NEW m \in a..(b - 1) PROVE \E k \in 1..n : o[a + k - 1] = o[m]
    BY <1>4 DEF Onto
  <2>1. PICK k \in 1..n : a + k - 1 = m
    <3>1. m - a + 1 \in 1..n /\ a + (m - a + 1) - 1 = m
      BY <1>1, <1>3
    <3> QED
      BY <3>1
  <2> QED
    BY <2>1
<1>9. InOrder(S) = e
  <2> HIDE DEF e
  <2> QED
    BY <1>5, <1>6, <1>7, <1>8, InOrderIs
<1>10. StartsOf(c) = S
  BY <1>4, LaidStarts
<1>11. DOMAIN InOrder(StartsOf(c)) = 1..(b - a)
  BY <1>3, <1>9, <1>10
<1>12. ASSUME NEW k \in 1..(b - a)
       PROVE  SubSeq(c, InOrder(StartsOf(c))[k], EndOf(c, InOrder(StartsOf(c))[k]))
                = [i \in 1..(ls[a + k - 1] - 1) |-> <<a + k - 1, i>>]
  <2>1. PICK m \in a..(b - 1) : m = a + k - 1 /\ m \in a..b
    BY <1>2
  <2>2. InOrder(StartsOf(c))[k] = o[m]
    BY <1>3, <1>9, <1>10, <2>1
  <2> QED
    BY <2>1, <2>2, LaidString
<1> QED
  BY <1>11, <1>12

(* What is printed of a copy c, and that it is the messages from a on.     *)
PrintedOf(c) ==
  [k \in DOMAIN InOrder(StartsOf(c)) |->
     SubSeq(c, InOrder(StartsOf(c))[k], EndOf(c, InOrder(StartsOf(c))[k]))]
Prints(c, ls, a) ==
  PrintedOf(c) =
    [k \in 1..(Len(ls) + 1 - a) |-> [i \in 1..(ls[a + k - 1] - 1) |-> <<a + k - 1, i>>]]

LEMMA ShowsIs ==
  ASSUME NEW r, NEW m
  PROVE  Shows(r, m) <=> Prints(copy[r], lens, m)
<1>1. Printed(r) = PrintedOf(copy[r])
  BY DEF Printed, PrintedOf, StartsOf, EndOf
<1>2. [k \in 1..(Newest + 1 - m) |-> Message(m + k - 1)]
        = [k \in 1..(Len(lens) + 1 - m) |->
             [i \in 1..(lens[m + k - 1] - 1) |-> <<m + k - 1, i>>]]
  BY DEF Message, Newest
<1> QED
  BY <1>1, <1>2 DEF Shows, Prints

LEMMA LaidPrints ==
  ASSUME NEW c, Len(c) \in Nat, NEW o, NEW a, NEW ls, Len(ls) \in Nat,
         NEW b, b = Len(ls) + 1, Laid(c, ls, o, a, b)
  PROVE  Prints(c, ls, a)
<1>1. PICK order : order = InOrder(StartsOf(c))
  OBVIOUS
<1>2. /\ DOMAIN order = 1..(b - a)
      /\ \A k \in 1..(b - a) : SubSeq(c, order[k], EndOf(c, order[k]))
                                 = [i \in 1..(ls[a + k - 1] - 1) |-> <<a + k - 1, i>>]
  BY <1>1, LaidStrings
<1>3. PrintedOf(c) = [k \in DOMAIN order |-> SubSeq(c, order[k], EndOf(c, order[k]))]
  BY <1>1 DEF PrintedOf
<1>4. PICK D : D = 1..(b - a)
  OBVIOUS
<1>5. PrintedOf(c) = [k \in D |-> [i \in 1..(ls[a + k - 1] - 1) |-> <<a + k - 1, i>>]]
  BY <1>2, <1>3, <1>4
<1>6. D = 1..(Len(ls) + 1 - a)
  <2>1. PICK n \in Nat : n = Len(ls)
    OBVIOUS
  <2>2. b = n + 1 /\ a \in Nat
    BY <2>1 DEF Laid
  <2>3. D = 1..(n + 1 - a)
    BY <1>4, <2>2
  <2> QED
    BY <2>1, <2>3
<1> QED
  BY <1>5, <1>6, Zenon DEF Prints


-----------------------------------------------------------------------------
(* The log as a line of bytes that has no end: the messages from first to  *)
(* n lie in w one behind the other, from the places off on, and there are  *)
(* only NULs before them.                                                  *)
Text(w, off, first, ls, n) ==
  /\ n \in Nat /\ first \in 1..(n + 1)
  /\ \A m \in first..(n + 1) : off[m] \in Int
  /\ \A m \in first..n : ls[m] \in Nat /\ ls[m] >= 2 /\ off[m + 1] = off[m] + ls[m]
  /\ \A m \in first..n : \A j \in 1..ls[m] :
       w[off[m] + j - 1] = IF j = ls[m] THEN NUL ELSE <<m, j>>
  /\ \A p \in Int : p < off[first] => w[p] = NUL

(* The ring d with the tail t holds the last Size bytes of that line.      *)
InRing(d, t, w, base) ==
  /\ base \in Int
  /\ \A i \in 0..(Size - 1) : /\ i < t => d[i] = w[base + i]
                              /\ i >= t => d[i] = w[base + i - Size]

LEMMA TextPlaces ==
  ASSUME NEW w, NEW off, NEW first, NEW ls, NEW n, Text(w, off, first, ls, n)
  PROVE  /\ first \in Nat /\ n + 1 \in Nat /\ first <= n + 1
         /\ \A x, y \in first..(n + 1) : x < y => off[x] < off[y]
         /\ \A x, y \in first..(n + 1) : x <= y => off[x] <= off[y]
<1>1. /\ n \in Nat /\ first \in 1..(n + 1)
      /\ \A m \in first..(n + 1) : off[m] \in Int
      /\ \A m \in first..n : ls[m] \in Nat /\ ls[m] >= 2 /\ off[m + 1] = off[m] + ls[m]
  BY DEF Text
<1>2. PICK b \in Nat : b = n + 1 /\ b - 1 = n
  BY <1>1
<1>3. ASSUME NEW m \in first..(b - 1) PROVE off[m] < off[m + 1]
  <2>1. m \in first..(n + 1) /\ m \in first..n
    BY <1>1, <1>2
  <2>2. off[m] \in Int /\ ls[m] \in Nat /\ ls[m] >= 2 /\ off[m + 1] = off[m] + ls[m]
    BY <1>1, <2>1
  <2> QED
    BY <2>2
<1>4. first \in Nat /\ \A m \in first..b : off[m] \in Int
  BY <1>1, <1>2
<1>5. \A x, y \in first..b : x < y => off[x] < off[y]
  BY <1>3, <1>4, Ascending
<1>6. ASSUME NEW x \in first..b, NEW y \in first..b, x <= y PROVE off[x] <= off[y]
  <2>1. off[x] \in Int /\ off[y] \in Int /\ (x = y \/ off[x] < off[y])
    BY <1>4, <1>5, <1>6
  <2> QED
    BY <2>1
<1> QED
  BY <1>1, <1>2, <1>4, <1>5, <1>6

(* c is the piece of the line from the place q on; there are only NULs     *)
(* from q to z.                                                            *)
Piece(c, w, q) == Len(c) \in Nat /\ \A i \in 1..Len(c) : c[i] = w[q + i - 1]
Blank(w, q, z) == \A p \in Int : q <= p /\ p < z => w[p] = NUL

(* A copy of the line up to the end of message n, from a place q before    *)
(* message a with only NULs between, is laid out from message a on.        *)
LEMMA CopyLaid ==
  ASSUME NEW w, NEW off, NEW first, NEW ls, NEW n, Text(w, off, first, ls, n),
         NEW c, NEW q \in Int, Piece(c, w, q), off[n + 1] = q + Len(c),
         NEW a \in first..(n + 1), q <= off[a], Blank(w, q, off[a])
  PROVE  \E o : Laid(c, ls, o, a, n + 1)
<1> DEFINE o == [m \in Nat |-> off[m] - q + 1]
<1>0. /\ Len(c) \in Nat /\ \A i \in 1..Len(c) : c[i] = w[q + i - 1]
      /\ \A p \in Int : q <= p /\ p < off[a] => w[p] = NUL
  BY DEF Piece, Blank
<1>1. /\ n \in Nat /\ first \in 1..(n + 1)
      /\ \A m \in first..(n + 1) : off[m] \in Int
      /\ \A m \in first..n : ls[m] \in Nat /\ ls[m] >= 2 /\ off[m + 1] = off[m] + ls[m]
      /\ \A m \in first..n : \A j \in 1..ls[m] :
           w[off[m] + j - 1] = IF j = ls[m] THEN NUL ELSE <<m, j>>
  BY DEF Text
<1>2. a \in Nat /\ n + 1 \in Nat /\ 1 <= a /\ a <= n + 1 /\ (n + 1) - 1 = n
  <2>1. n \in Nat /\ first \in 1..(n + 1)
    BY <1>1
  <2>2. first \in Nat /\ 1 <= first
    BY <2>1
  <2>3. first <= a /\ a <= n + 1 /\ a \in Int
    BY <2>1, <2>2
  <2> QED
    BY <2>1, <2>2, <2>3
<1>3. \A m \in a..(n + 1) : m \in first..(n + 1) /\ m \in Nat
  <2>1. first \in Int /\ first <= a /\ n \in Int
    BY <1>1
  <2> QED
    BY <1>2, <2>1
<1>4. \A m \in a..n : m \in first..n /\ m \in a..(n + 1) /\ m + 1 \in a..(n + 1)
  <2>1. first \in Int /\ first <= a /\ n \in Int
    BY <1>1
  <2> QED
    BY <1>2, <2>1
<1>5. ASSUME NEW m \in a..(n + 1)
      PROVE  o[m] = off[m] - q + 1 /\ o[m] \in Nat /\ off[m] \in Int /\ o[m] >= 1
                  /\ off[m] <= q + Len(c)
  <2>1. off[a] <= off[m] /\ off[m] <= off[n + 1]
    <3>1. m \in first..(n + 1) /\ n + 1 \in first..(n + 1) /\ a <= m /\ m <= n + 1
      BY <1>1, <1>2, <1>3
    <3> QED
      BY <3>1, TextPlaces
  <2>2. off[a] \in Int /\ off[m] \in Int
    BY <1>1, <1>3
  <2>3. PICK x \in Int, y \in Int : x = off[a] /\ y = off[m]
    BY <2>2
  <2>4. q <= y /\ y <= q + Len(c)
    BY <1>0, <2>1, <2>3
  <2>5. y - q + 1 \in Nat /\ y - q + 1 >= 1
    BY <2>4
  <2> QED
    BY <2>3, <2>4, <2>5, <1>3
<1>6. o[n + 1] = Len(c) + 1
  <2>1. n + 1 \in a..(n + 1)
    BY <1>2
  <2>2. o[n + 1] = off[n + 1] - q + 1
    BY <2>1, <1>5
  <2>3. o[n + 1] = (q + Len(c)) - q + 1
    BY <2>2
  <2> QED
    BY <2>3
<1>7. ASSUME NEW m \in a..n
      PROVE  ls[m] \in Nat /\ ls[m] >= 2 /\ o[m + 1] = o[m] + ls[m]
  <2>1. ls[m] \in Nat /\ ls[m] >= 2 /\ off[m + 1] = off[m] + ls[m]
    BY <1>1, <1>4
  <2>2. /\ o[m] = off[m] - q + 1 /\ off[m] \in Int
        /\ o[m + 1] = off[m + 1] - q + 1
    BY <1>4, <1>5
  <2> HIDE DEF o
  <2>3. PICK x \in Int, z \in Int : x = off[m] /\ z = ls[m]
    BY <2>1, <2>2
  <2>4. o[m + 1] = (x + z) - q + 1 /\ o[m] = x - q + 1
    BY <2>1, <2>2, <2>3
  <2>5. o[m + 1] = o[m] + z
    BY <2>4
  <2> QED
    BY <2>1, <2>3, <2>5
<1>8. ASSUME NEW m \in a..n, NEW j \in 1..ls[m]
      PROVE  c[o[m] + j - 1] = IF j = ls[m] THEN NUL ELSE <<m, j>>
  <2>1. w[off[m] + j - 1] = IF j = ls[m] THEN NUL ELSE <<m, j>>
    BY <1>1, <1>4
  <2>2. /\ ls[m] \in Nat /\ o[m] = off[m] - q + 1 /\ off[m] \in Int /\ o[m] >= 1
        /\ off[m] + ls[m] <= q + Len(c) /\ j \in Int /\ j <= ls[m] /\ 1 <= j
    <3>1. ls[m] \in Nat /\ off[m + 1] = off[m] + ls[m]
      BY <1>1, <1>4
    <3>2. /\ o[m] = off[m] - q + 1 /\ off[m] \in Int /\ o[m] >= 1
          /\ off[m + 1] <= q + Len(c)
      BY <1>4, <1>5
    <3>3. j \in Int /\ j <= ls[m] /\ 1 <= j
      BY <3>1
    <3> HIDE DEF o
    <3>4. off[m] + ls[m] <= q + Len(c)
      BY <3>1, <3>2
    <3> QED
      BY <3>1, <3>2, <3>3, <3>4
  <2> HIDE DEF o
  <2>3. PICK x \in Int, z \in Int : x = off[m] /\ z = ls[m]
    BY <2>2
  <2>4. PICK i \in Int : i = x - q + j
    OBVIOUS
  <2>5. o[m] = x - q + 1 /\ x - q + 1 >= 1 /\ x + z <= q + Len(c) /\ j <= z
    BY <2>2, <2>3
  <2>6. i \in 1..Len(c) /\ q + i - 1 = x + j - 1
    BY <2>2, <2>4, <2>5
  <2>7. o[m] + j - 1 = i
    BY <2>2, <2>4, <2>5
  <2>8. c[i] = w[x + j - 1]
    BY <1>0, <2>6
  <2>9. c[o[m] + j - 1] = w[off[m] + j - 1]
    BY <2>3, <2>7, <2>8
  <2> QED
    BY <2>1, <2>9
<1>9. ASSUME NEW i \in 1..(o[a] - 1) PROVE c[i] = NUL
  <2>1. a \in a..(n + 1)
    BY <1>2
  <2>2. o[a] = off[a] - q + 1 /\ off[a] \in Int /\ off[a] <= q + Len(c)
    BY <2>1, <1>5
  <2> HIDE DEF o
  <2>3. PICK x \in Int : x = off[a]
    BY <2>2
  <2>4. o[a] = x - q + 1 /\ x <= q + Len(c)
    BY <2>2, <2>3
  <2>5. PICK p \in Int : p = q + i - 1
    BY <2>4
  <2>6. i \in 1..Len(c) /\ q <= p /\ p < x
    BY <2>4, <2>5
  <2>7. w[p] = NUL /\ c[i] = w[p]
    BY <1>0, <2>3, <2>5, <2>6
  <2> QED
    BY <2>7
<1>10. (\A m \in a..(n + 1) : o[m] \in Nat) /\ o[a] >= 1
  <2>1. a \in a..(n + 1)
    BY <1>2
  <2> HIDE DEF o
  <2> QED
    BY <2>1, <1>5
<1> HIDE DEF o
<1>11. Laid(c, ls, o, a, n + 1)
  <2>1. \A m \in a..((n + 1) - 1) : ls[m] \in Nat /\ ls[m] >= 2 /\ o[m + 1] = o[m] + ls[m]
    BY <1>2, <1>7
  <2>2. \A m \in a..((n + 1) - 1) : \A j \in 1..ls[m] :
          c[o[m] + j - 1] = IF j = ls[m] THEN NUL ELSE <<m, j>>
    BY <1>2, <1>8
  <2> QED
    BY <1>2, <1>6, <1>9, <1>10, <2>1, <2>2 DEF Laid
<1> QED
  BY <1>11

(* Every place between the first message and the end is one of a message.  *)
LEMMA ByteAt ==
  ASSUME NEW w, NEW off, NEW first, NEW ls, NEW n, Text(w, off, first, ls, n),
         NEW p \in Int, off[first] <= p, p < off[n + 1]
  PROVE  \E m \in first..n : \E j \in 1..ls[m] :
           /\ ls[m] \in Nat /\ off[m] \in Int /\ off[m + 1] = off[m] + ls[m]
           /\ p = off[m] + j - 1 /\ w[p] = IF j = ls[m] THEN NUL ELSE <<m, j>>
<1>1. /\ n \in Nat /\ first \in 1..(n + 1)
      /\ \A m \in first..(n + 1) : off[m] \in Int
      /\ \A m \in first..n : ls[m] \in Nat /\ ls[m] >= 2 /\ off[m + 1] = off[m] + ls[m]
      /\ \A m \in first..n : \A j \in 1..ls[m] :
           w[off[m] + j - 1] = IF j = ls[m] THEN NUL ELSE <<m, j>>
  BY DEF Text
<1>2. PICK b \in Nat : b = n + 1 /\ b - 1 = n
  BY <1>1
<1>3. first \in Nat /\ first <= b /\ \A m \in first..b : off[m] \in Int
  BY <1>1, <1>2
<1>4. \E m \in first..(b - 1) : off[m] <= p /\ p < off[m + 1]
  BY <1>2, <1>3, Covered
<1>5. PICK m \in first..n : off[m] <= p /\ p < off[m + 1]
  BY <1>2, <1>4
<1>6. /\ ls[m] \in Nat /\ off[m + 1] = off[m] + ls[m] /\ off[m] \in Int
      /\ \A j \in 1..ls[m] : w[off[m] + j - 1] = IF j = ls[m] THEN NUL ELSE <<m, j>>
  <2>1. m \in first..b
    BY <1>1, <1>2
  <2> QED
    BY <1>1, <1>3, <2>1
<1>7. PICK x \in Int, z \in Nat : x = off[m] /\ z = ls[m]
  BY <1>6
<1>8. x <= p /\ p < x + z
  BY <1>5, <1>6, <1>7
<1>9. PICK j \in 1..z : p = x + j - 1
  <2>1. p - x + 1 \in 1..z /\ p = x + (p - x + 1) - 1
    BY <1>8
  <2> QED
    BY <2>1
<1>10. j \in 1..ls[m] /\ p = off[m] + j - 1
  BY <1>7, <1>9
<1>11. w[p] = IF j = ls[m] THEN NUL ELSE <<m, j>>
  BY <1>6, <1>10
<1> QED
  BY <1>6, <1>10, <1>11

(* Behind a NUL there are NULs up to the start of a message, or to the end.*)
LEMMA BehindNul ==
  ASSUME NEW w, NEW off, NEW first, NEW ls, NEW n, Text(w, off, first, ls, n),
         NEW q \in Int, q <= off[n + 1], w[q - 1] = NUL
  PROVE  \E a \in first..(n + 1) : q <= off[a] /\ Blank(w, q, off[a])
<1>1. /\ n \in Nat /\ first \in 1..(n + 1) /\ off[first] \in Int
      /\ \A p \in Int : p < off[first] => w[p] = NUL
  <2>1. n \in Nat /\ first \in 1..(n + 1) /\ \A m \in first..(n + 1) : off[m] \in Int
    BY DEF Text
  <2>2. first \in first..(n + 1)
    BY <2>1
  <2> QED
    BY <2>1, <2>2 DEF Text
<1>2. CASE q <= off[first]
  <2>1. first \in first..(n + 1)
    BY <1>1
  <2> QED
    BY <1>1, <1>2, <2>1 DEF Blank
<1>3. CASE ~ (q <= off[first])
  <2>1. PICK h \in Int : h = q - 1
    OBVIOUS
  <2>2. off[first] <= h /\ h < off[n + 1]
    <3>1. off[n + 1] \in Int
      <4>1. n + 1 \in first..(n + 1)
        BY <1>1
      <4> QED
        BY <4>1 DEF Text
    <3> QED
      BY <1>1, <1>3, <2>1, <3>1
  <2>3. PICK m \in first..n : \E j \in 1..ls[m] :
           /\ ls[m] \in Nat /\ off[m] \in Int /\ off[m + 1] = off[m] + ls[m]
           /\ h = off[m] + j - 1 /\ w[h] = IF j = ls[m] THEN NUL ELSE <<m, j>>
    BY <2>2, ByteAt
  <2>4. PICK j \in 1..ls[m] :
           /\ ls[m] \in Nat /\ off[m] \in Int /\ off[m + 1] = off[m] + ls[m]
           /\ h = off[m] + j - 1 /\ w[h] = IF j = ls[m] THEN NUL ELSE <<m, j>>
    BY <2>3
  <2>5. m # 0 /\ m + 1 \in first..(n + 1)
    <3>1. first \in Int /\ 1 <= first
      BY <1>1
    <3> QED
      BY <1>1, <3>1
  <2>6. j = ls[m]
    <3>1. <<m, j>> # NUL
      BY <2>5 DEF NUL
    <3>2. w[h] = NUL
      BY <2>1
    <3> QED
      BY <2>4, <3>1, <3>2
  <2>7. PICK x \in Int, z \in Nat : x = off[m] /\ z = ls[m]
    BY <2>4
  <2>8. off[m + 1] = x + z /\ h = x + z - 1
    BY <2>4, <2>6, <2>7
  <2>9. off[m + 1] = q
    BY <2>1, <2>8
  <2>10. q <= off[m + 1] /\ \A p \in Int : ~ (q <= p /\ p < off[m + 1])
    BY <2>9
  <2> QED
    BY <2>5, <2>10 DEF Blank
<1> QED
  BY <1>2, <1>3

(* The first byte of the last message is where that message starts.        *)
LEMMA StartOfLast ==
  ASSUME NEW w, NEW off, NEW first, NEW ls, NEW n, Text(w, off, first, ls, n), n # 0,
         NEW p \in Int, p < off[n + 1], w[p] = <<n, 1>>
  PROVE  n \in first..(n + 1) /\ off[n] = p
<1>1. n \in Nat /\ first \in 1..(n + 1) /\ off[first] \in Int
  <2>1. n \in Nat /\ first \in 1..(n + 1) /\ \A m \in first..(n + 1) : off[m] \in Int
    BY DEF Text
  <2>2. first \in first..(n + 1)
    BY <2>1
  <2> QED
    BY <2>1, <2>2
<1>2. w[p] # NUL
  BY DEF NUL
<1>3. off[first] <= p
  BY <1>1, <1>2 DEF Text
<1>4. PICK m \in first..n : \E j \in 1..ls[m] :
         /\ ls[m] \in Nat /\ off[m] \in Int /\ off[m + 1] = off[m] + ls[m]
         /\ p = off[m] + j - 1 /\ w[p] = IF j = ls[m] THEN NUL ELSE <<m, j>>
  BY <1>3, ByteAt
<1>5. PICK j \in 1..ls[m] :
         /\ ls[m] \in Nat /\ off[m] \in Int
         /\ p = off[m] + j - 1 /\ w[p] = IF j = ls[m] THEN NUL ELSE <<m, j>>
  BY <1>4
<1>6. <<m, j>> = <<n, 1>>
  BY <1>2, <1>5
<1>7. m = n /\ j = 1
  BY <1>6
<1>8. off[n] = p
  BY <1>5, <1>7
<1>9. n \in first..(n + 1)
  BY <1>1, <1>7
<1> QED
  BY <1>8, <1>9

(* The length and the bytes of what logread copies.                        *)
LEMMA BetweenIs ==
  ASSUME NEW c \in 0..(Size - 1), NEW t \in 0..(Size - 1), NEW n,
         n = IF t >= c THEN t - c ELSE t - c + Size
  PROVE  /\ n \in Nat /\ Len(Between(c, t)) = n
         /\ \A i \in 1..n : Between(c, t)[i] = data[(c + i - 1) % Size]
<1>1. Size \in Nat /\ Size > 2
  BY Constants
<1>2. n \in Nat
  BY <1>1
<1>3. PICK v : v = [i \in 1..n |-> data[(c + i - 1) % Size]]
  OBVIOUS
<1>4. Between(c, t) = v
  BY <1>3 DEF Between
<1>5. Len(v) = n
  <2>1. PICK V : V = {v[i] : i \in 1..n}
    OBVIOUS
  <2>2. v \in [1..n -> V]
    BY <1>3, <2>1
  <2>3. v \in Seq(V)
    BY <1>2, <2>2
  <2>4. DOMAIN v = 1..Len(v) /\ Len(v) \in Nat
    BY <2>3, LenProperties
  <2>5. 1..Len(v) = 1..n
    BY <2>2, <2>4
  <2> QED
    BY <1>2, <2>4, <2>5
<1> QED
  BY <1>2, <1>3, <1>4, <1>5

(* A copy up to the tail is a piece of the line that ends there; the byte  *)
(* before it in the ring is the one before it in the line.                 *)
LEMMA CopyOfLine ==
  ASSUME NEW w, NEW base, InRing(data, tail, w, base), tail \in 0..(Size - 1),
         NEW c \in 0..(Size - 1), NEW t, t = tail,
         NEW q, q = IF c <= t THEN base + c ELSE base + c - Size
  PROVE  /\ q \in Int /\ Len(Between(c, t)) \in Nat
         /\ q + Len(Between(c, t)) = base + t
         /\ \A i \in 1..Len(Between(c, t)) : Between(c, t)[i] = w[q + i - 1]
         /\ w[q - 1] = data[Before(c)]
<1>1. Size \in Nat /\ Size > 2 /\ base \in Int /\ t \in 0..(Size - 1)
  BY Constants DEF InRing
<1>2. \A i \in 0..(Size - 1) : /\ i < t => data[i] = w[base + i]
                               /\ i >= t => data[i] = w[base + i - Size]
  BY DEF InRing
<1>3. PICK n : n = IF t >= c THEN t - c ELSE t - c + Size
  OBVIOUS
<1>4. /\ n \in Nat /\ Len(Between(c, t)) = n
      /\ \A i \in 1..n : Between(c, t)[i] = data[(c + i - 1) % Size]
  BY <1>1, <1>3, BetweenIs
<1>5. q \in Int /\ q + n = base + t
  BY <1>1, <1>3
<1>6. ASSUME NEW i \in 1..n PROVE data[(c + i - 1) % Size] = w[q + i - 1]
  <2>1. PICK v \in Int : v = c + i - 1
    BY <1>1, <1>4
  <2>2. v >= 0 /\ v < Size + t /\ (c <= t => v < t) /\ (~ (c <= t) => v >= t)
    BY <1>1, <1>3, <1>4, <2>1
  <2>3. CASE v < Size
    <3>1. v \in 0..(Size - 1) /\ v % Size = v
      BY <1>1, <2>2, <2>3
    <3>2. CASE c <= t
      <4>1. q + i - 1 = base + v
        BY <1>1, <1>4, <2>1, <3>2
      <4> QED
        BY <1>2, <2>1, <2>2, <3>1, <3>2, <4>1
    <3>3. CASE ~ (c <= t)
      <4>1. q + i - 1 = base + v - Size
        BY <1>1, <1>4, <2>1, <3>3
      <4> QED
        BY <1>2, <2>1, <2>2, <3>1, <3>3, <4>1
    <3> QED
      BY <3>2, <3>3
  <2>4. CASE ~ (v < Size)
    <3>1. PICK u \in Int : u = v - Size
      BY <1>1
    <3>2. u \in 0..(Size - 1) /\ u < t /\ v % Size = u /\ ~ (c <= t)
      <4>1. v \in Size..(2 * Size - 1)
        BY <1>1, <2>2, <2>4
      <4>2. v % Size = v - Size
        BY <1>1, <4>1
      <4> QED
        BY <1>1, <2>2, <2>4, <3>1, <4>2
    <3>3. q + i - 1 = base + u
      BY <1>1, <1>4, <2>1, <3>1, <3>2
    <3> QED
      BY <1>2, <2>1, <3>2, <3>3
  <2> QED
    BY <2>3, <2>4
<1>7. w[q - 1] = data[Before(c)]
  <2>1. PICK z \in Int : z = Before(c)
    BY <1>1 DEF Before
  <2>2. z = IF c = 0 THEN Size - 1 ELSE c - 1
    BY <2>1 DEF Before
  <2>3. z \in 0..(Size - 1)
    BY <1>1, <2>2
  <2>4. CASE c = 0
    <3>1. z >= t /\ q - 1 = base + z - Size
      BY <1>1, <2>2, <2>4
    <3> QED
      BY <1>2, <2>1, <2>3, <3>1
  <2>5. CASE c # 0 /\ c <= t
    <3>1. z < t /\ q - 1 = base + z
      BY <1>1, <2>2, <2>5
    <3> QED
      BY <1>2, <2>1, <2>3, <3>1
  <2>6. CASE c # 0 /\ ~ (c <= t)
    <3>1. z >= t /\ q - 1 = base + z - Size
      BY <1>1, <2>2, <2>6
    <3> QED
      BY <1>2, <2>1, <2>3, <3>1
  <2> QED
    BY <2>4, <2>5, <2>6
<1> QED
  BY <1>4, <1>5, <1>6, <1>7

(* logread starts to copy behind a NUL.                                    *)
LEMMA OldestIs ==
  ASSUME NEW c \in 0..(Size - 1), NEW t \in 0..(Size - 1), data[Size] = NUL, Oldest(c, t) # -1
  PROVE  Oldest(c, t) \in 0..(Size - 1) /\ data[Before(Oldest(c, t))] = NUL
<1>1. Size \in Nat /\ Size > 2
  BY Constants
<1>2. ASSUME NEW i \in 0..Size PROVE NulFrom(i) \in i..Size /\ data[NulFrom(i)] = NUL
  BY <1>1, NulFromFacts
<1>3. PICK a \in Int : a = NulFrom(c) /\ a \in c..Size /\ data[a] = NUL
  <2>1. c \in 0..Size
    BY <1>1
  <2>2. NulFrom(c) \in c..Size /\ data[NulFrom(c)] = NUL
    BY <1>2, <2>1
  <2> QED
    BY <1>1, <2>2
<1>4. PICK z \in Int : z = NulFrom(0) /\ z \in 0..Size /\ data[z] = NUL
  <2>1. 0 \in 0..Size
    BY <1>1
  <2>2. NulFrom(0) \in 0..Size /\ data[NulFrom(0)] = NUL
    BY <1>2, <2>1
  <2> QED
    BY <1>1, <2>2
<1>5. PICK b \in Int : b = IF a < Size THEN a ELSE z
  OBVIOUS
<1>6. Oldest(c, t) = IF a >= Size /\ b >= t THEN -1 ELSE IF b + 1 >= Size THEN 0 ELSE b + 1
  BY <1>3, <1>4, <1>5 DEF Oldest
<1>7. b \in 0..(Size - 1) /\ data[b] = NUL
  BY <1>1, <1>3, <1>4, <1>5, <1>6
<1>8. PICK y : y = Oldest(c, t)
  OBVIOUS
<1>9. y = IF b + 1 >= Size THEN 0 ELSE b + 1
  BY <1>6, <1>8
<1>10. y \in 0..(Size - 1) /\ Before(y) = b
  BY <1>1, <1>7, <1>9 DEF Before
<1> QED
  BY <1>7, <1>8, <1>10

(* The log is in the ring, up to the newest message.                       *)
LEMMA NewestNat ==
  ASSUME lens \in Seq(Lens)
  PROVE  Len(lens) \in Nat /\ Newest = Len(lens)
BY LenProperties DEF Newest

(* A copy from the place q of the line up to the tail.                     *)
LEMMA CopyPrints ==
  ASSUME lens \in Seq(Lens), tail \in 0..(Size - 1),
         NEW w, NEW off, NEW first, Text(w, off, first, lens, Newest),
         NEW base, InRing(data, tail, w, base), off[Newest + 1] = base + tail,
         NEW c \in 0..(Size - 1),
         NEW q, q = IF c <= tail THEN base + c ELSE base + c - Size,
         NEW a \in first..(Newest + 1), q <= off[a], Blank(w, q, off[a])
  PROVE  Prints(Between(c, tail), lens, a)
<1>1. PICK n \in Nat : n = Newest /\ n = Len(lens)
  BY NewestNat
<1>2. PICK t \in 0..(Size - 1) : t = tail
  OBVIOUS
<1>3. PICK ls : ls = lens
  OBVIOUS
<1>4. q = IF c <= t THEN base + c ELSE base + c - Size
  BY <1>2
<1>5. PICK v : v = Between(c, t)
  OBVIOUS
<1>6. /\ q \in Int /\ Len(v) \in Nat /\ q + Len(v) = base + t
      /\ \A i \in 1..Len(v) : v[i] = w[q + i - 1]
  <2>1. /\ q \in Int /\ Len(Between(c, t)) \in Nat
        /\ q + Len(Between(c, t)) = base + t
        /\ \A i \in 1..Len(Between(c, t)) : Between(c, t)[i] = w[q + i - 1]
    BY <1>2, <1>4, CopyOfLine
  <2> QED
    BY <1>5, <2>1
<1>7. Text(w, off, first, ls, n) /\ off[n + 1] = q + Len(v) /\ a \in first..(n + 1)
  BY <1>1, <1>2, <1>3, <1>6
<1>8. Piece(v, w, q)
  BY <1>6 DEF Piece
<1>9. PICK o : Laid(v, ls, o, a, n + 1)
  BY <1>6, <1>7, <1>8, CopyLaid
<1>10. PICK b : b = n + 1
  OBVIOUS
<1>11. b = Len(ls) + 1 /\ Laid(v, ls, o, a, b) /\ Len(ls) \in Nat
  BY <1>1, <1>3, <1>9, <1>10
<1>12. Prints(v, ls, a)
  BY <1>6, <1>11, LaidPrints
<1> QED
  BY <1>2, <1>3, <1>5, <1>12

(* What logread copies from behind a NUL up to the tail.                   *)
LEMMA CopyAllPrints ==
  ASSUME lens \in Seq(Lens), tail \in 0..(Size - 1),
         NEW w, NEW off, NEW first, Text(w, off, first, lens, Newest),
         NEW base, InRing(data, tail, w, base), off[Newest + 1] = base + tail,
         NEW c \in 0..(Size - 1), data[Before(c)] = NUL
  PROVE  \E a \in 1..(Newest + 1) : Prints(Between(c, tail), lens, a)
<1>1. PICK n \in Nat : n = Newest /\ n = Len(lens)
  BY NewestNat
<1>2. PICK t \in 0..(Size - 1) : t = tail
  OBVIOUS
<1>3. PICK ls : ls = lens
  OBVIOUS
<1>4. PICK q : q = IF c <= t THEN base + c ELSE base + c - Size
  OBVIOUS
<1>5. q \in Int /\ q <= base + t /\ w[q - 1] = NUL
  <2>1. q \in Int /\ w[q - 1] = NUL
    BY <1>2, <1>4, CopyOfLine
  <2>2. Size \in Nat /\ base \in Int
    BY Constants DEF InRing
  <2>3. q <= base + t
    BY <1>4, <2>2
  <2> QED
    BY <2>1, <2>3
<1>6. Text(w, off, first, ls, n) /\ q <= off[n + 1]
  BY <1>1, <1>2, <1>3, <1>5
<1>7. PICK a \in first..(n + 1) : q <= off[a] /\ Blank(w, q, off[a])
  BY <1>5, <1>6, BehindNul
<1>8. Prints(Between(c, tail), lens, a)
  <2>1. a \in first..(Newest + 1) /\ q = IF c <= tail THEN base + c ELSE base + c - Size
    BY <1>1, <1>2, <1>4
  <2> QED
    BY <1>7, <2>1, CopyPrints
<1>9. a \in 1..(n + 1)
  <2>1. first \in 1..(n + 1)
    BY <1>6 DEF Text
  <2>2. first \in Int /\ 1 <= first
    BY <2>1
  <2> QED
    BY <2>2
<1> QED
  BY <1>1, <1>8, <1>9

(* What it copies from a place that it has kept.                           *)
LEMMA CopyNewPrints ==
  ASSUME lens \in Seq(Lens), tail \in 0..(Size - 1),
         NEW w, NEW off, NEW first, Text(w, off, first, lens, Newest),
         NEW base, InRing(data, tail, w, base), off[Newest + 1] = base + tail,
         NEW c \in 0..(Size - 1), NEW l \in Nat, l < Size, c \in {tail - l, tail - l + Size},
         NEW a \in first..(Newest + 1), off[a] = base + tail - l
  PROVE  Prints(Between(c, tail), lens, a)
<1>1. PICK t \in 0..(Size - 1) : t = tail
  OBVIOUS
<1>2. PICK q : q = IF c <= t THEN base + c ELSE base + c - Size
  OBVIOUS
<1>3. Size \in Nat /\ base \in Int
  BY Constants DEF InRing
<1>4. off[a] = q /\ q \in Int
  <2>1. q = base + t - l
    BY <1>1, <1>2, <1>3
  <2> QED
    BY <1>1, <1>3, <2>1
<1>5. q <= off[a] /\ Blank(w, q, off[a])
  BY <1>4 DEF Blank
<1>6. q = IF c <= tail THEN base + c ELSE base + c - Size
  BY <1>1, <1>2
<1> QED
  BY <1>5, <1>6, CopyPrints

(* Of a buffer that is clear nothing is printed.                           *)
LEMMA ZerosPrint ==
  ASSUME lens \in Seq(Lens), data = Zeros, NEW c \in 0..(Size - 1), NEW t \in 0..(Size - 1)
  PROVE  Prints(Between(c, t), lens, Newest + 1)
<1>1. PICK n \in Nat : n = Newest /\ n = Len(lens)
  BY NewestNat
<1>2. PICK ls : ls = lens
  OBVIOUS
<1>3. PICK v : v = Between(c, t)
  OBVIOUS
<1>4. PICK l : l = IF t >= c THEN t - c ELSE t - c + Size
  OBVIOUS
<1>5. /\ l \in Nat /\ Len(v) = l
      /\ \A i \in 1..l : v[i] = data[(c + i - 1) % Size]
  BY <1>3, <1>4, BetweenIs
<1>6. ASSUME NEW i \in 1..l PROVE v[i] = NUL
  <2>1. Size \in Nat /\ Size > 2
    BY Constants
  <2>2. PICK x \in Int : x = c + i - 1
    BY <1>5
  <2>3. x % Size \in 0..(Size - 1)
    BY <2>1, <2>2
  <2>4. x % Size \in 0..Size
    BY <2>1, <2>3
  <2>5. data[x % Size] = NUL
    BY <2>4 DEF Zeros
  <2> QED
    BY <1>5, <2>2, <2>5
<1>7. PICK b \in Nat : b = n + 1
  OBVIOUS
<1>8. PICK o : o = [m \in Nat |-> l + 1]
  OBVIOUS
<1>9. Laid(v, ls, o, b, b)
  <2>1. o[b] = l + 1 /\ b..(b - 1) = {} /\ b..b = {b} /\ 1 <= b
    BY <1>5, <1>7, <1>8
  <2>2. l + 1 \in Nat /\ l + 1 >= 1 /\ (l + 1) - 1 = l
    BY <1>5
  <2>3. \A m \in b..b : o[m] \in Nat
    BY <2>1, <2>2
  <2>4. \A i \in 1..(o[b] - 1) : v[i] = NUL
    BY <1>6, <2>1, <2>2
  <2>5. o[b] >= 1 /\ o[b] = Len(v) + 1
    BY <1>5, <2>1, <2>2
  <2> QED
    BY <2>1, <2>3, <2>4, <2>5 DEF Laid
<1>10. Prints(v, ls, b)
  <2>1. Len(ls) \in Nat /\ b = Len(ls) + 1 /\ Len(v) \in Nat
    BY <1>1, <1>2, <1>5, <1>7
  <2> QED
    BY <1>9, <2>1, LaidPrints
<1> QED
  BY <1>1, <1>2, <1>3, <1>7, <1>10


-----------------------------------------------------------------------------
(* The inductive invariant of what is printed.                             *)

(* The writer's semaphore is not held by a syslogd that is gone.           *)
Sound == sem[2] = 0 \/ wpc \in {"store", "unlock"}

(* The line ends at e: at the tail, which is at its place p, or behind     *)
(* what syslogd still has to store.                                        *)
Ends(w, p, e) ==
  IF wpc = "store" THEN p + Len(rest) = e /\ Piece(rest, w, p) ELSE p = e

(* logread has kept the place where message from[r] starts.                *)
Placed(r, off, first, p) ==
  /\ from[r] \in first..(Newest + 1) /\ off[from[r]] = p - lag[r]
  /\ cur[r] \in {tail - lag[r], tail - lag[r] + Size}

Waits(r) == rpc[r] \in {"lock", "read"} /\ lag[r] < Size

Ring(w, off, first, base) ==
  /\ Text(w, off, first, lens, Newest)
  /\ InRing(data, tail, w, base)
  /\ Ends(w, base + tail, off[Newest + 1])
  /\ \A r \in Readers : Waits(r) => Placed(r, off, first, base + tail)

RingInv == Sound => \E w, off, first, base : Ring(w, off, first, base)

(* The tail that logread saw is still the tail, or the buffer was cleared  *)
(* since and is empty; what it has copied are whole messages.              *)
ReaderInv(r) ==
  /\ rpc[r] = "read" => seen[r] = tail \/ (lag[r] = Reset /\ data = Zeros)
  /\ rpc[r] = "unlock" => cur[r] = seen[r] /\ (seen[r] = tail \/ lag[r] = Reset)
  /\ CopyDone(r, {"", "F"}) => \E m \in 1..(Newest + 1) : Prints(copy[r], lens, m)
  /\ CopyDone(r, {"f"}) /\ lag[r] < Size => Prints(copy[r], lens, from[r])

CopyInv ==
  /\ RingInv /\ copy = [r \in Readers |-> copy[r]]
  /\ \A r \in Readers : ReaderInv(r)

-----------------------------------------------------------------------------
(* The ring. *)

(* A position that is taken now.                                           *)
Fresh(r) ==
  /\ lag'[r] = 0 /\ cur'[r] = tail
  /\ \/ from'[r] = Newest + 1 /\ (wpc = "store" => rest = << >>)
     \/ from'[r] = Newest /\ wpc = "store" /\ rest # << >> /\ rest[1] = <<Newest, 1>>

Keeps(r) ==
  rpc[r] \in {"lock", "read"} /\ lag'[r] = lag[r] /\ from'[r] = from[r] /\ cur'[r] = cur[r]

LEMMA FreshPlaced ==
  ASSUME WriterType, RestInv, NEW w, NEW off, NEW first, NEW base, Ring(w, off, first, base),
         NEW r \in Readers, Fresh(r)
  PROVE  /\ from'[r] \in first..(Newest + 1) /\ off[from'[r]] = (base + tail) - lag'[r]
         /\ cur'[r] \in {tail - lag'[r], tail - lag'[r] + Size}
<1>1. /\ Text(w, off, first, lens, Newest) /\ Ends(w, base + tail, off[Newest + 1])
      /\ base \in Int
  BY DEF Ring, InRing
<1>2. tail \in 0..(Size - 1) /\ Size \in Nat /\ lens \in Seq(Lens)
  BY Constants DEF WriterType
<1>3. PICK n \in Nat : n = Newest
  BY <1>2, NewestNat
<1>4. first \in 1..(n + 1)
  BY <1>1, <1>3 DEF Text
<1>5. PICK p \in Int : p = base + tail
  BY <1>1, <1>2
<1>6. cur'[r] \in {tail - lag'[r], tail - lag'[r] + Size} /\ p - lag'[r] = p
  BY <1>2 DEF Fresh
<1>7. CASE from'[r] = Newest + 1 /\ (wpc = "store" => rest = << >>)
  <2>1. off[Newest + 1] = p
    <3>1. CASE wpc = "store"
      <4>1. p + Len(rest) = off[Newest + 1] /\ Len(rest) = 0
        BY <1>1, <1>5, <1>7, <3>1 DEF Ends
      <4> QED
        BY <4>1
    <3>2. CASE wpc # "store"
      BY <1>1, <1>5, <3>2 DEF Ends
    <3> QED
      BY <3>1, <3>2
  <2>2. n + 1 \in first..(n + 1)
    BY <1>4
  <2> QED
    BY <1>3, <1>5, <1>6, <1>7, <2>1, <2>2
<1>8. CASE from'[r] = Newest /\ wpc = "store" /\ rest # << >> /\ rest[1] = <<Newest, 1>>
  <2>1. p + Len(rest) = off[n + 1] /\ Piece(rest, w, p)
    BY <1>1, <1>3, <1>5, <1>8 DEF Ends
  <2>2. Len(rest) \in Nat /\ Len(rest) > 0
    <3>1. rest \in Seq(Bytes)
      BY <1>8 DEF RestInv
    <3> QED
      BY <1>8, <3>1, EmptySeq, LenProperties
  <2>3. w[p] = <<n, 1>> /\ p < off[n + 1]
    <3>1. 1 \in 1..Len(rest) /\ p + 1 - 1 = p
      BY <2>2
    <3>2. rest[1] = w[p + 1 - 1]
      BY <2>1, <3>1 DEF Piece
    <3> QED
      BY <1>3, <1>8, <2>1, <2>2, <3>1, <3>2
  <2>4. n # 0
    <3>1. rest \in Seq(Bytes) /\ 1 \in 1..Len(rest)
      BY <1>8, <2>2 DEF RestInv
    <3>2. rest[1] \in Bytes
      BY <3>1, ElementOfSeq
    <3>3. <<n, 1>> \in {NUL} \cup (1..MaxMsgs) \X (1..Size)
      BY <1>3, <1>8, <3>2 DEF Bytes
    <3> QED
      BY <3>3 DEF NUL
  <2>5. n \in first..(n + 1) /\ off[n] = p
    <3>1. PICK ls : ls = lens
      OBVIOUS
    <3>2. Text(w, off, first, ls, n)
      BY <1>1, <1>3, <3>1
    <3> QED
      BY <2>3, <2>4, <3>2, StartOfLast
  <2> QED
    BY <1>3, <1>5, <1>6, <1>8, <2>5
<1> QED
  BY <1>7, <1>8 DEF Fresh

LEMMA RingSame ==
  ASSUME WriterType, RestInv, RingInv, data' = data, tail' = tail, lens' = lens,
         wpc' = "store" <=> wpc = "store", wpc = "store" => rest' = rest, Sound' => Sound,
         \A r \in Readers : Waits(r)' => Keeps(r) \/ Fresh(r)
  PROVE  RingInv'
<1> SUFFICES ASSUME Sound' PROVE \E w, off, first, base : Ring(w, off, first, base)'
  BY DEF RingInv
<1>1. PICK w, off, first, base : Ring(w, off, first, base)
  BY DEF RingInv
<1>2. Text(w, off, first, lens', Newest') /\ InRing(data', tail', w, base) /\ Newest' = Newest
  BY <1>1 DEF Ring, Newest
<1>3. Ends(w, base + tail, off[Newest + 1])'
  BY <1>1, <1>2 DEF Ring, Ends, Piece
<1>4. ASSUME NEW r \in Readers, Waits(r)' PROVE Placed(r, off, first, base + tail)'
  <2>1. CASE Keeps(r)
    <3>1. Waits(r)
      BY <1>4, <2>1 DEF Waits, Keeps
    <3>2. Placed(r, off, first, base + tail)
      BY <1>1, <3>1 DEF Ring
    <3> QED
      BY <1>2, <2>1, <3>2 DEF Placed, Keeps
  <2>2. CASE Fresh(r)
    <3>1. /\ from'[r] \in first..(Newest + 1) /\ off[from'[r]] = (base + tail) - lag'[r]
          /\ cur'[r] \in {tail - lag'[r], tail - lag'[r] + Size}
      BY <1>1, <2>2, FreshPlaced
    <3> QED
      BY <1>2, <3>1 DEF Placed
  <2> QED
    BY <1>4, <2>1, <2>2
<1> QED
  BY <1>2, <1>3, <1>4 DEF Ring

LEMMA RingClear ==
  ASSUME lens \in Seq(Lens), data' = Zeros, tail' = 0, lens' = lens, wpc' # "store",
         \A r \in Readers : ~ Waits(r)'
  PROVE  RingInv'
<1>1. PICK n \in Nat : n = Newest
  BY NewestNat
<1> DEFINE w == [p \in Int |-> NUL]
           off == [m \in Nat |-> 0]
<1>2. Newest' = n
  BY <1>1 DEF Newest
<1>3. PICK b \in Nat : b = n + 1
  OBVIOUS
<1>4. Text(w, off, b, lens', n)
  <2>1. b \in 1..(n + 1) /\ b..n = {} /\ \A m \in b..(n + 1) : m \in Nat
    BY <1>3
  <2>2. \A m \in b..(n + 1) : off[m] \in Int
    BY <2>1
  <2>3. \A p \in Int : w[p] = NUL
    OBVIOUS
  <2> HIDE DEF off, w
  <2> QED
    BY <2>1, <2>2, <2>3 DEF Text
<1>5. InRing(data', tail', w, 0)
  <2>1. Size \in Nat
    BY Constants
  <2>2. ASSUME NEW i \in 0..(Size - 1)
        PROVE  data'[i] = NUL /\ w[0 + i - Size] = NUL /\ w[0 + i] = NUL
    BY <2>1 DEF Zeros
  <2> HIDE DEF w
  <2> QED
    BY <2>1, <2>2 DEF InRing
<1>6. Ends(w, 0 + tail, off[Newest + 1])'
  <2>1. off[Newest' + 1] = 0
    BY <1>2
  <2> HIDE DEF off, w
  <2> QED
    BY <2>1 DEF Ends
<1>7. Ring(w, off, b, 0)'
  <2> HIDE DEF off, w
  <2> QED
    BY <1>2, <1>4, <1>5, <1>6 DEF Ring
<1> HIDE DEF off, w
<1> QED
  BY <1>7 DEF RingInv

(* A message is added at the end of the line.                              *)
LEMMA TextAppend ==
  ASSUME NEW w, NEW off, NEW first, NEW ls, NEW n, Text(w, off, first, ls, n),
         NEW e \in Int, off[n + 1] = e, NEW k \in Nat, k >= 2,
         NEW ls2, \A m \in 1..n : ls2[m] = ls[m], ls2[n + 1] = k,
         NEW w2, \A p \in Int : p < e => w2[p] = w[p],
         \A j \in 1..k : w2[e + j - 1] = IF j = k THEN NUL ELSE <<n + 1, j>>,
         NEW off2, \A m \in first..(n + 1) : off2[m] = off[m], off2[n + 2] = e + k
  PROVE  Text(w2, off2, first, ls2, n + 1)
<1>1. /\ n \in Nat /\ first \in 1..(n + 1)
      /\ \A m \in first..(n + 1) : off[m] \in Int
      /\ \A m \in first..n : ls[m] \in Nat /\ ls[m] >= 2 /\ off[m + 1] = off[m] + ls[m]
      /\ \A m \in first..n : \A j \in 1..ls[m] :
           w[off[m] + j - 1] = IF j = ls[m] THEN NUL ELSE <<m, j>>
      /\ \A p \in Int : p < off[first] => w[p] = NUL
  BY DEF Text
<1>2. first \in Int /\ 1 <= first /\ first <= n + 1
  BY <1>1
<1>3. PICK N \in Nat : N = n + 1 /\ n = N - 1 /\ N + 1 = n + 2
  BY <1>1
<1>4. ASSUME NEW m \in first..(N + 1) PROVE m = N + 1 \/ m \in first..N
  BY <1>2, <1>3
<1>5. \A m \in first..(N + 1) : off2[m] \in Int
  <2>1. off2[N + 1] \in Int
    BY <1>3
  <2>2. \A m \in first..N : off2[m] \in Int
    BY <1>1, <1>3
  <2> QED
    BY <1>4, <2>1, <2>2
<1>6. ASSUME NEW m \in first..N, m # N
      PROVE  /\ m \in first..n /\ m \in 1..n /\ m \in first..(n + 1) /\ m + 1 \in first..(n + 1)
  BY <1>2, <1>3, <1>6
<1>7. ASSUME NEW m \in first..N
      PROVE  /\ ls2[m] \in Nat /\ ls2[m] >= 2 /\ off2[m + 1] = off2[m] + ls2[m]
  <2>1. CASE m = N
    <3>1. N \in first..(n + 1)
      BY <1>2, <1>3
    <3>2. off2[N] = e /\ ls2[N] = k /\ off2[N + 1] = e + k
      BY <1>3, <3>1
    <3> QED
      BY <2>1, <3>2
  <2>2. CASE m # N
    <3>1. off2[m] = off[m] /\ off2[m + 1] = off[m + 1] /\ ls2[m] = ls[m]
      BY <1>6, <2>2
    <3>2. ls[m] \in Nat /\ ls[m] >= 2 /\ off[m + 1] = off[m] + ls[m]
      BY <1>1, <1>6, <2>2
    <3> QED
      BY <3>1, <3>2
  <2> QED
    BY <2>1, <2>2
<1>8. ASSUME NEW m \in first..N, NEW j \in 1..ls2[m]
      PROVE  w2[off2[m] + j - 1] = IF j = ls2[m] THEN NUL ELSE <<m, j>>
  <2>1. CASE m = N
    <3>1. N \in first..(n + 1)
      BY <1>2, <1>3
    <3>2. off2[N] = e /\ ls2[N] = k
      BY <1>3, <3>1
    <3>3. j \in 1..k
      BY <2>1, <3>2
    <3>4. w2[e + j - 1] = IF j = k THEN NUL ELSE <<n + 1, j>>
      BY <3>3
    <3> QED
      BY <1>3, <2>1, <3>2, <3>4
  <2>2. CASE m # N
    <3>1. off2[m] = off[m] /\ ls2[m] = ls[m]
      BY <1>6, <2>2
    <3>2. ls[m] \in Nat /\ off[m + 1] = off[m] + ls[m] /\ off[m] \in Int
      BY <1>1, <1>6, <2>2
    <3>3. off[m + 1] <= off[n + 1]
      <4>1. m + 1 \in first..(n + 1) /\ n + 1 \in first..(n + 1) /\ m + 1 <= n + 1
        BY <1>2, <1>3, <1>6, <2>2
      <4> QED
        BY <4>1, TextPlaces
    <3>4. PICK x \in Int, z \in Nat : x = off[m] /\ z = ls[m]
      BY <3>2
    <3>5. x + z <= e /\ j \in 1..z
      BY <3>1, <3>2, <3>3, <3>4
    <3>6. PICK p \in Int : p = x + j - 1 /\ p < e
      BY <3>5
    <3>7. w2[p] = w[p]
      BY <3>6
    <3>8. w[off[m] + j - 1] = IF j = ls[m] THEN NUL ELSE <<m, j>>
      BY <1>1, <1>6, <2>2, <3>4, <3>5
    <3> QED
      BY <3>1, <3>4, <3>6, <3>7, <3>8
  <2> QED
    BY <2>1, <2>2
<1>9. ASSUME NEW p \in Int, p < off2[first] PROVE w2[p] = NUL
  <2>1. first \in first..(n + 1) /\ n + 1 \in first..(n + 1)
    BY <1>2, <1>1
  <2>2. off2[first] = off[first] /\ off[first] <= off[n + 1] /\ off[first] \in Int
    BY <1>1, <1>2, <2>1, TextPlaces
  <2>3. p < off[first] /\ p < e
    BY <1>9, <2>2
  <2> QED
    BY <1>1, <2>3
<1>10. first \in 1..(N + 1)
  BY <1>2, <1>3
<1>11. Text(w2, off2, first, ls2, N)
  BY <1>5, <1>7, <1>8, <1>9, <1>10 DEF Text
<1> QED
  BY <1>3, <1>11

LEMMA RingWriteLock ==
  ASSUME LogInv, RingInv, WriteLock
  PROVE  RingInv'
<1>0. WriterType /\ ReaderType /\ SemInv /\ RestInv
  BY LogParts
<1>1. /\ wpc = "lock" /\ sem = <<0, 0>> /\ wpc' = "store" /\ data' = data /\ tail' = tail
      /\ rpc' = rpc /\ cur' = cur /\ from' = from /\ lag' = lag
  BY DEF WriteLock, shmVars, readerVars
<1>2. PICK k \in Lens :
        /\ lens' = Append(lens, k)
        /\ rest' = [i \in 1..k |-> IF i = k THEN NUL ELSE <<Newest + 1, i>>]
  BY DEF WriteLock
<1>3. /\ Size \in Nat /\ Size > 2 /\ tail \in 0..(Size - 1)
      /\ lens \in Seq(Lens) /\ Lens \subseteq 2..(Size - 1)
  BY <1>0, Constants DEF WriterType
<1>4. k \in Nat /\ k >= 2
  BY <1>3
<1>5. PICK w, off, first, base : Ring(w, off, first, base)
  <2>1. Sound
    BY <1>1 DEF Sound
  <2> QED
    BY <2>1 DEF RingInv
<1>6. /\ Text(w, off, first, lens, Newest) /\ InRing(data, tail, w, base)
      /\ base \in Int /\ base + tail = off[Newest + 1]
      /\ \A r \in Readers : Waits(r) => Placed(r, off, first, base + tail)
  BY <1>1, <1>5 DEF Ring, Ends, InRing
<1>7. PICK n \in Nat : n = Newest /\ n = Len(lens)
  BY <1>3, NewestNat
<1>8. PICK e \in Int : e = base + tail
  BY <1>3, <1>6
<1>9. Newest' = n + 1 /\ lens'[n + 1] = k /\ \A m \in 1..n : lens'[m] = lens[m]
  <2>1. /\ Len(lens') = Len(lens) + 1
        /\ \A i \in 1..Len(lens) : lens'[i] = lens[i]
        /\ lens'[Len(lens) + 1] = k
    BY <1>2, <1>3, AppendProperties
  <2> QED
    BY <1>7, <2>1 DEF Newest
<1>10. PICK s : s = rest'
  OBVIOUS
<1>11. s = [i \in 1..k |-> IF i = k THEN NUL ELSE <<n + 1, i>>] /\ Len(s) = k
  <2>1. s = [i \in 1..k |-> IF i = k THEN NUL ELSE <<n + 1, i>>]
    BY <1>2, <1>7, <1>10
  <2>2. PICK V : V = {s[i] : i \in 1..k}
    OBVIOUS
  <2>3. s \in [1..k -> V]
    BY <2>1, <2>2
  <2>4. s \in Seq(V)
    BY <1>4, <2>3
  <2>5. DOMAIN s = 1..Len(s) /\ Len(s) \in Nat
    BY <2>4, LenProperties
  <2>6. 1..Len(s) = 1..k
    BY <2>3, <2>5
  <2>7. Len(s) = k
    <3>1. PICK l \in Nat : l = Len(s) /\ 1..l = 1..k
      BY <2>5, <2>6
    <3>2. l = k
      BY <1>4, <3>1
    <3> QED
      BY <3>1, <3>2
  <2> QED
    BY <2>1, <2>7
<1> DEFINE w2 == [p \in Int |-> IF p < e THEN w[p] ELSE s[p - e + 1]]
           off2 == [m \in Nat |-> IF m = n + 2 THEN e + k ELSE off[m]]
<1>12. \A p \in Int : p < e => w2[p] = w[p]
  OBVIOUS
<1>13. ASSUME NEW j \in 1..k PROVE w2[e + j - 1] = s[j]
  <2>1. PICK p \in Int : p = e + j - 1 /\ ~ (p < e) /\ p - e + 1 = j
    BY <1>4
  <2>2. w2[p] = s[j]
    BY <2>1
  <2> QED
    BY <2>1, <2>2
<1>14. first \in 1..(n + 1)
  BY <1>6, <1>7 DEF Text
<1>15. ASSUME NEW m \in first..(n + 1) PROVE off2[m] = off[m]
  <2>1. m \in Nat /\ m # n + 2
    BY <1>14
  <2> QED
    BY <2>1
<1>16. off2[n + 2] = e + k
  OBVIOUS
<1> HIDE DEF w2, off2
<1>17. Text(w2, off2, first, lens', n + 1)
  <2>1. PICK ls, ls2 : ls = lens /\ ls2 = lens'
    OBVIOUS
  <2>2. Text(w, off, first, ls, n) /\ off[n + 1] = e
    BY <1>6, <1>7, <1>8, <2>1
  <2>3. ls2[n + 1] = k /\ \A m \in 1..n : ls2[m] = ls[m]
    BY <1>9, <2>1
  <2>4. \A j \in 1..k : w2[e + j - 1] = IF j = k THEN NUL ELSE <<n + 1, j>>
    BY <1>11, <1>13
  <2>5. Text(w2, off2, first, ls2, n + 1)
    BY <1>4, <1>12, <1>15, <1>16, <2>2, <2>3, <2>4, TextAppend
  <2> QED
    BY <2>1, <2>5
<1>18. InRing(data, tail, w2, base)
  <2>1. ASSUME NEW i \in 0..(Size - 1)
        PROVE  /\ i < tail => data[i] = w2[base + i]
               /\ i >= tail => data[i] = w2[base + i - Size]
    <3>1. (i < tail => data[i] = w[base + i]) /\ (i >= tail => data[i] = w[base + i - Size])
      BY <1>6 DEF InRing
    <3>2. PICK x \in Int, y \in Int : x = base + i /\ y = base + i - Size
      BY <1>3, <1>6
    <3>3. (i < tail => x < e) /\ y < e
      BY <1>3, <1>6, <1>8, <3>2
    <3> QED
      BY <1>12, <3>1, <3>2, <3>3
  <2> QED
    BY <1>6, <2>1 DEF InRing
<1>19. Ends(w2, base + tail, off2[Newest + 1])'
  <2>1. off2[Newest' + 1] = e + k
    BY <1>9, <1>16
  <2>2. base + tail' = e /\ Len(rest') = k
    BY <1>1, <1>8, <1>10, <1>11
  <2>3. Piece(s, w2, e)
    BY <1>4, <1>11, <1>13 DEF Piece
  <2> QED
    BY <1>1, <1>4, <1>10, <2>1, <2>2, <2>3 DEF Ends
<1>20. ASSUME NEW r \in Readers, Waits(r)' PROVE Placed(r, off2, first, base + tail)'
  <2>1. Placed(r, off, first, base + tail)
    BY <1>1, <1>6, <1>20 DEF Waits
  <2>2. /\ from[r] \in first..(n + 1) /\ off[from[r]] = e - lag[r]
        /\ cur[r] \in {tail - lag[r], tail - lag[r] + Size}
    BY <1>7, <1>8, <2>1, Zenon DEF Placed
  <2>3. PICK f \in first..(n + 1) : f = from[r]
    BY <2>2
  <2>4. off2[f] = off[f] /\ f \in first..((n + 1) + 1)
    BY <1>14, <1>15
  <2>5. from[r] \in first..((n + 1) + 1) /\ off2[from[r]] = e - lag[r]
    BY <2>2, <2>3, <2>4
  <2>6. base + tail' = e
    BY <1>1, <1>8
  <2> QED
    BY <1>1, <1>9, <2>2, <2>5, <2>6, Zenon DEF Placed
<1>21. Ring(w2, off2, first, base)'
  BY <1>1, <1>9, <1>17, <1>18, <1>19, <1>20 DEF Ring
<1> QED
  BY <1>21 DEF RingInv

LEMMA RingStore ==
  ASSUME LogInv, RingInv, Store
  PROVE  RingInv'
<1>0. WriterType /\ ReaderType /\ SemInv /\ RestInv
  BY LogParts
<1>1. Size \in Nat /\ Size > 2 /\ tail \in 0..(Size - 1) /\ lens \in Seq(Lens)
  BY <1>0, Constants DEF WriterType
<1>2. wpc = "store" /\ rest \in Seq(Bytes)
  BY <1>0 DEF Store, RestInv
<1>3. PICK n \in Nat : n = Len(rest)
  BY <1>2, LenProperties
<1>4. PICK t \in 0..(Size - 1) : t = tail
  BY <1>1
<1>5. PICK k : k = IF t + n < Size THEN n ELSE Size - t
  OBVIOUS
<1>6. k \in Nat /\ k <= n /\ t + k <= Size
  BY <1>1, <1>5
<1>7. /\ data' = Stored(k) /\ tail' = (IF t + n < Size THEN t + n ELSE 0)
      /\ rest' = SubSeq(rest, k + 1, n)
      /\ wpc' = (IF t + n < Size THEN "unlock" ELSE "store")
      /\ lag' = [r \in Readers |-> IF ~ Located(r) THEN 0
                                   ELSE IF lag[r] + k < Size THEN lag[r] + k ELSE Size]
      /\ lens' = lens /\ rpc' = rpc /\ cur' = cur /\ from' = from
  BY <1>3, <1>4, <1>5 DEF Store, Fits, readerVars
<1>8. PICK w, off, first, base : Ring(w, off, first, base)
  <2>1. Sound
    BY <1>2 DEF Sound
  <2> QED
    BY <2>1 DEF RingInv
<1>9. /\ Text(w, off, first, lens, Newest) /\ InRing(data, tail, w, base) /\ base \in Int
      /\ (base + tail) + Len(rest) = off[Newest + 1] /\ Piece(rest, w, base + tail)
      /\ \A r \in Readers : Waits(r) => Placed(r, off, first, base + tail)
  BY <1>2, <1>8 DEF Ring, Ends, InRing
<1>10. PICK e \in Int : e = base + t
  BY <1>9
<1>11. e + n = off[Newest + 1] /\ \A j \in 1..n : rest[j] = w[e + j - 1]
  BY <1>3, <1>4, <1>9, <1>10 DEF Piece
<1>12. PICK b2 \in Int : b2 = IF t + n < Size THEN base ELSE base + Size
  BY <1>1, <1>9
<1>13. PICK t2 \in 0..(Size - 1) : t2 = tail' /\ t2 = (IF t + n < Size THEN t + n ELSE 0)
  <2>1. (IF t + n < Size THEN t + n ELSE 0) \in 0..(Size - 1)
    BY <1>1
  <2> QED
    BY <1>7, <2>1
<1>14. b2 + t2 = e + k
  BY <1>1, <1>5, <1>9, <1>10, <1>12, <1>13
<1>15. InRing(data', t2, w, b2)
  <2>1. ASSUME NEW i \in 0..(Size - 1)
        PROVE  /\ i < t2 => data'[i] = w[b2 + i]
               /\ i >= t2 => data'[i] = w[b2 + i - Size]
    <3>1. (i < t => data[i] = w[base + i]) /\ (i >= t => data[i] = w[base + i - Size])
      BY <1>4, <1>9 DEF InRing
    <3>2. i \in 0..Size
      BY <1>1
    <3>3. data'[i] = IF i \in t..(t + k - 1) THEN rest[i - t + 1] ELSE data[i]
      BY <1>4, <1>7, <3>2 DEF Stored
    <3>4. CASE i \in t..(t + k - 1)
      <4>1. i - t + 1 \in 1..n /\ e + (i - t + 1) - 1 = base + i
        BY <1>1, <1>6, <1>9, <1>10, <3>4
      <4>2. data'[i] = w[base + i]
        BY <1>11, <3>3, <3>4, <4>1
      <4>3. (i < t2 => b2 + i = base + i) /\ (i >= t2 => b2 + i - Size = base + i)
        BY <1>1, <1>5, <1>9, <1>12, <1>13, <3>4
      <4> QED
        BY <4>2, <4>3
    <3>5. CASE i < t
      <4>1. data'[i] = w[base + i]
        BY <3>1, <3>3, <3>5
      <4>2. (i < t2 => b2 + i = base + i) /\ (i >= t2 => b2 + i - Size = base + i)
        BY <1>1, <1>5, <1>9, <1>12, <1>13, <3>5
      <4> QED
        BY <4>1, <4>2
    <3>6. CASE i >= t /\ i \notin t..(t + k - 1)
      <4>1. data'[i] = w[base + i - Size]
        BY <3>1, <3>3, <3>6
      <4>2. i >= t2 /\ b2 = base /\ ~ (i < t2)
        BY <1>1, <1>5, <1>6, <1>12, <1>13, <3>6
      <4> QED
        BY <4>1, <4>2
    <3> QED
      BY <1>1, <3>4, <3>5, <3>6
  <2> QED
    BY <2>1 DEF InRing
<1>16. Ends(w, b2 + tail, off[Newest + 1])'
  <2>1. Newest' = Newest
    BY <1>7 DEF Newest
  <2>2. b2 + tail' = e + k
    BY <1>13, <1>14
  <2>3. CASE t + n < Size
    <3>1. wpc' # "store" /\ k = n
      BY <1>5, <1>7, <2>3
    <3> QED
      BY <1>11, <2>1, <2>2, <3>1 DEF Ends
  <2>4. CASE ~ (t + n < Size)
    <3>1. wpc' = "store"
      BY <1>7, <2>4
    <3>2. PICK s : s = rest'
      OBVIOUS
    <3>3. s \in Seq(Bytes) /\ Len(s) = n - k /\ \A j \in 1..(n - k) : s[j] = rest[k + j]
      <4>1. PICK f \in Int : f = k + 1
        BY <1>6
      <4>2. \A i \in f..n : rest[i] \in Bytes
        <5>1. \A i \in f..n : i \in 1..Len(rest)
          BY <1>3, <1>6, <4>1
        <5> QED
          BY <1>2, <5>1, ElementOfSeq
      <4>3. PICK q : q = SubSeq(rest, f, n)
        OBVIOUS
      <4>4. /\ q \in Seq(Bytes) /\ Len(q) = IF f <= n THEN n - f + 1 ELSE 0
            /\ \A i \in 1..(n - f + 1) : q[i] = rest[f + i - 1]
        BY <4>2, <4>3, SubSeqProperties
      <4>5. Len(q) = n - k /\ n - f + 1 = n - k /\ \A i \in Int : f + i - 1 = k + i
        <5>1. (IF f <= n THEN n - f + 1 ELSE 0) = n - k
          BY <1>6, <4>1
        <5>2. n - f + 1 = n - k /\ \A i \in Int : f + i - 1 = k + i
          BY <1>6, <4>1
        <5> QED
          BY <4>4, <5>1, <5>2
      <4>6. s = q
        BY <1>7, <3>2, <4>1, <4>3
      <4>7. ASSUME NEW j \in 1..(n - k) PROVE q[j] = rest[k + j]
        <5>1. j \in 1..(n - f + 1) /\ f + j - 1 = k + j
          BY <1>6, <4>1
        <5> QED
          BY <4>4, <5>1
      <4> QED
        BY <4>4, <4>5, <4>6, <4>7
    <3>4. Piece(s, w, e + k)
      <4>1. ASSUME NEW j \in 1..(n - k) PROVE s[j] = w[(e + k) + j - 1]
        <5>1. PICK i \in 1..n : i = k + j /\ e + i - 1 = (e + k) + j - 1
          BY <1>6
        <5>2. rest[i] = w[e + i - 1]
          BY <1>11
        <5> QED
          BY <3>3, <5>1, <5>2
      <4>2. n - k \in Nat
        BY <1>6
      <4> QED
        BY <3>3, <4>1, <4>2 DEF Piece
    <3>5. (e + k) + Len(s) = e + n
      BY <1>6, <3>3
    <3> QED
      BY <1>11, <2>1, <2>2, <3>1, <3>2, <3>4, <3>5 DEF Ends
  <2> QED
    BY <2>3, <2>4
<1>17. ASSUME NEW r \in Readers, Waits(r)' PROVE Placed(r, off, first, b2 + tail)'
  <2>1. rpc[r] \in {"lock", "read"} /\ lag'[r] < Size
    BY <1>7, <1>17 DEF Waits
  <2>2. Located(r) /\ lag[r] \in 0..Reset
    BY <1>0, <2>1 DEF Located, ReaderType
  <2>3. PICK l \in Nat : l = lag[r]
    BY <1>1, <2>2 DEF Reset
  <2>4. lag'[r] = IF l + k < Size THEN l + k ELSE Size
    BY <1>7, <2>2, <2>3
  <2>5. lag'[r] = l + k /\ l + k < Size /\ l < Size
    BY <1>1, <1>6, <2>1, <2>4
  <2>6. Placed(r, off, first, base + tail)
    BY <1>9, <2>1, <2>3, <2>5 DEF Waits
  <2>7. from[r] \in first..(Newest + 1) /\ off[from[r]] = (base + tail) - lag[r]
    BY <2>6 DEF Placed
  <2>8. cur[r] \in {tail - lag[r], tail - lag[r] + Size}
    BY <2>6 DEF Placed
  <2>9. PICK c \in 0..(Size - 1) : c = cur[r]
    BY <1>0 DEF ReaderType
  <2>10. c \in {t - l, t - l + Size}
    BY <1>4, <2>3, <2>8, <2>9
  <2>11. c \in {t2 - (l + k), t2 - (l + k) + Size}
    BY <1>1, <1>5, <1>6, <1>13, <2>5, <2>10
  <2>12. off[from[r]] = (b2 + t2) - (l + k)
    <3>1. off[from[r]] = e - l
      BY <1>4, <1>10, <2>3, <2>7
    <3>2. e - l = (b2 + t2) - (l + k)
      BY <1>6, <1>14
    <3> QED
      BY <3>1, <3>2
  <2>13. Newest' = Newest /\ from'[r] = from[r] /\ cur'[r] = c
    BY <1>7, <2>9 DEF Newest
  <2> QED
    BY <1>13, <2>5, <2>7, <2>11, <2>12, <2>13 DEF Placed
<1>18. Ring(w, off, first, b2)'
  <2>1. Text(w, off, first, lens', Newest')
    BY <1>7, <1>9 DEF Newest
  <2>2. InRing(data', tail', w, b2)
    BY <1>13, <1>15
  <2> QED
    BY <1>16, <1>17, <2>1, <2>2 DEF Ring
<1> QED
  BY <1>18 DEF RingInv


-----------------------------------------------------------------------------
(* The steps. *)

ReaderSame(r) ==
  /\ rpc'[r] = rpc[r] /\ follow'[r] = follow[r] /\ cur'[r] = cur[r] /\ seen'[r] = seen[r]
  /\ copy'[r] = copy[r] /\ from'[r] = from[r]

(* A logread that does not move, while the buffer stays or is cleared.     *)
LEMMA ReaderStays ==
  ASSUME NEW r \in Readers, ReaderInv(r), ReaderSame(r), lens' = lens,
         \/ tail' = tail /\ data' = data /\ lag'[r] = lag[r]
         \/ lag'[r] = Reset /\ data' = Zeros
  PROVE  ReaderInv(r)'
<1>1. Newest' = Newest
  BY DEF Newest
<1>2. ~ (Reset < Size)
  <2>1. Size \in Nat
    BY Constants
  <2> QED
    BY <2>1 DEF Reset
<1>3. rpc'[r] = "read" => seen'[r] = tail' \/ (lag'[r] = Reset /\ data' = Zeros)
  BY DEF ReaderInv, ReaderSame
<1>4. rpc'[r] = "unlock" => cur'[r] = seen'[r] /\ (seen'[r] = tail' \/ lag'[r] = Reset)
  BY DEF ReaderInv, ReaderSame
<1>5. CopyDone(r, {"", "F"})' => \E m \in 1..(Newest' + 1) : Prints(copy'[r], lens', m)
  BY <1>1 DEF ReaderInv, ReaderSame, CopyDone
<1>6. CopyDone(r, {"f"})' /\ lag'[r] < Size => Prints(copy'[r], lens', from'[r])
  BY <1>2 DEF ReaderInv, ReaderSame, CopyDone
<1> QED
  BY <1>3, <1>4, <1>5, <1>6 DEF ReaderInv, Zeros, NUL, Reset

LEMMA ReaderAway ==
  ASSUME NEW r \in Readers, rpc'[r] \notin {"read", "unlock"}
  PROVE  ReaderInv(r)'
BY DEF ReaderInv, CopyDone

LEMMA NobodyReads ==
  ASSUME LogInv, wpc \in {"store", "unlock"} \/ sem = <<0, 0>>
  PROVE  \A r \in Readers : rpc[r] \notin {"read", "unlock"}
<1>1. SemInv
  BY LogParts
<1>2. sem[1] = 0
  BY <1>1 DEF SemInv
<1> QED
  BY <1>1, <1>2, NobodyHolds DEF Holds

(* A logread that reads has a sound ring, which syslogd does not change.   *)
LEMMA HolderSound ==
  ASSUME LogInv, NEW r \in Readers, rpc[r] \in {"read", "unlock"}
  PROVE  Sound /\ wpc # "store"
<1>1. SemInv /\ WriterType
  BY LogParts
<1>2. sem[1] # 0
  <2>1. Holds(r)
    BY DEF Holds
  <2> QED
    BY <1>1, <2>1, NobodyHolds
<1>3. sem[2] \in {0, 1}
  BY <1>1, SemFacts DEF WriterType
<1> QED
  BY <1>1, <1>2, <1>3 DEF SemInv, Sound

(* What a step of logread r has to keep.                                   *)
LEMMA ReaderCopies ==
  ASSUME LogInv, CopyInv, NEW r \in Readers, UNCHANGED <<shmVars, writerVars>>,
         sem'[2] = sem[2],
         \A q \in Readers \ {r} : ReaderSame(q) /\ lag'[q] = lag[q],
         Waits(r)' => Keeps(r) \/ Fresh(r), ReaderInv(r)',
         copy' = [q \in Readers |-> copy'[q]]
  PROVE  CopyInv'
<1>0. WriterType /\ RestInv /\ RingInv
  BY LogParts DEF CopyInv
<1>1. data' = data /\ tail' = tail /\ wpc' = wpc /\ rest' = rest /\ lens' = lens
  BY DEF shmVars, writerVars
<1>2. Sound' => Sound
  BY <1>1 DEF Sound
<1>3. ASSUME NEW q \in Readers, Waits(q)' PROVE Keeps(q) \/ Fresh(q)
  <2>1. CASE q = r
    BY <1>3, <2>1
  <2>2. CASE q # r
    BY <1>3, <2>2 DEF Waits, Keeps, ReaderSame
  <2> QED
    BY <2>1, <2>2
<1>4. RingInv'
  BY <1>0, <1>1, <1>2, <1>3, RingSame
<1>5. ASSUME NEW q \in Readers PROVE ReaderInv(q)'
  <2>1. CASE q = r
    BY <2>1
  <2>2. CASE q # r
    <3>1. ReaderInv(q) /\ ReaderSame(q) /\ lag'[q] = lag[q]
      BY <2>2 DEF CopyInv
    <3> QED
      BY <1>1, <3>1, ReaderStays
  <2> QED
    BY <2>1, <2>2
<1> QED
  BY <1>4, <1>5 DEF CopyInv

LEMMA LeaveSame ==
  ASSUME NEW R, Leave(R)
  PROVE  /\ \A q \in Readers \ R : ReaderSame(q) /\ lag'[q] = lag[q]
         /\ \A q \in Readers \cap R : rpc'[q] = "gone"
         /\ copy' = [q \in Readers |-> copy'[q]]
BY DEF Leave, ReaderSame

LEMMA InitCopies ==
  ASSUME LogInv, CopyInv, ipcsyslog_init
  PROVE  CopyInv'
<1>0. WriterType /\ ReaderType
  BY LogParts
<1>1. /\ data' = Zeros /\ tail' = 0 /\ wpc' = "lock" /\ lens' = lens
      /\ lag' = [r \in Readers |-> IF Located(r) THEN Reset ELSE 0]
      /\ rpc' = rpc /\ follow' = follow /\ cur' = cur /\ seen' = seen
      /\ copy' = copy /\ from' = from
  BY DEF ipcsyslog_init, readerVars
<1>2. ~ (Reset < Size)
  <2>1. Size \in Nat
    BY Constants
  <2> QED
    BY <2>1 DEF Reset
<1>3. ASSUME NEW r \in Readers PROVE ~ Waits(r)'
  BY <1>1, <1>2 DEF Waits, Located
<1>4. RingInv'
  <2>1. lens \in Seq(Lens)
    BY <1>0 DEF WriterType
  <2> QED
    BY <1>1, <1>3, <2>1, RingClear
<1>5. ASSUME NEW r \in Readers PROVE ReaderInv(r)'
  <2>1. CASE Located(r)
    <3>1. ReaderInv(r) /\ ReaderSame(r) /\ lag'[r] = Reset
      BY <1>1, <2>1 DEF CopyInv, ReaderSame
    <3> QED
      BY <1>1, <3>1, ReaderStays
  <2>2. CASE ~ Located(r)
    <3>1. rpc'[r] \notin {"read", "unlock"}
      BY <1>1, <2>2 DEF Located
    <3> QED
      BY <3>1, ReaderAway
  <2> QED
    BY <2>1, <2>2
<1> QED
  BY <1>1, <1>4, <1>5 DEF CopyInv

(* syslogd goes on without touching the buffer.                            *)
LEMMA WriterPauses ==
  ASSUME LogInv, CopyInv, data' = data, tail' = tail, lens' = lens, UNCHANGED readerVars,
         lag' = lag, Sound' => Sound,
         Sound' => (wpc' = "store" <=> wpc = "store") /\ (wpc = "store" => rest' = rest)
  PROVE  CopyInv'
<1>0. WriterType /\ RestInv /\ RingInv
  BY LogParts DEF CopyInv
<1>1. /\ rpc' = rpc /\ follow' = follow /\ cur' = cur /\ seen' = seen
      /\ copy' = copy /\ from' = from
  BY DEF readerVars
<1>2. \A r \in Readers : Waits(r)' => Keeps(r) \/ Fresh(r)
  BY <1>1 DEF Waits, Keeps
<1>3. RingInv'
  <2>1. CASE Sound'
    BY <1>0, <1>2, <2>1, RingSame
  <2>2. CASE ~ Sound'
    BY <2>2 DEF RingInv
  <2> QED
    BY <2>1, <2>2
<1>4. ASSUME NEW r \in Readers PROVE ReaderInv(r)'
  <2>1. ReaderInv(r) /\ ReaderSame(r) /\ lag'[r] = lag[r]
    BY <1>1 DEF CopyInv, ReaderSame
  <2> QED
    BY <2>1, ReaderStays
<1> QED
  BY <1>1, <1>3, <1>4 DEF CopyInv

LEMMA ReceiveCopies ==
  ASSUME LogInv, CopyInv, Receive
  PROVE  CopyInv'
<1>1. /\ wpc = "idle" /\ wpc' = "lock" /\ sem' = sem /\ data' = data /\ tail' = tail
      /\ lens' = lens /\ UNCHANGED readerVars /\ lag' = lag
  BY DEF Receive, shmVars
<1>2. Sound' => Sound
  BY <1>1 DEF Sound
<1> QED
  BY <1>1, <1>2, WriterPauses

LEMMA KillCopies ==
  ASSUME LogInv, CopyInv, Kill
  PROVE  CopyInv'
<1>1. /\ wpc' = "gone" /\ sem' = sem /\ data' = data /\ tail' = tail
      /\ lens' = lens /\ UNCHANGED readerVars /\ lag' = lag
  BY DEF Kill, shmVars
<1>2. Sound' => sem[2] = 0
  BY <1>1 DEF Sound
<1>3. sem[2] = 0 => wpc # "store"
  BY LogParts DEF SemInv
<1>4. Sound' => Sound
  BY <1>2 DEF Sound
<1> QED
  BY <1>1, <1>2, <1>3, <1>4, WriterPauses

LEMMA WriteLockCopies ==
  ASSUME LogInv, CopyInv, WriteLock
  PROVE  CopyInv'
<1>1. sem = <<0, 0>> /\ rpc' = rpc /\ copy' = copy
  BY DEF WriteLock, readerVars
<1>2. \A r \in Readers : rpc[r] \notin {"read", "unlock"}
  BY <1>1, NobodyReads
<1>3. RingInv'
  BY RingWriteLock DEF CopyInv
<1>4. \A r \in Readers : ReaderInv(r)'
  BY <1>1, <1>2, ReaderAway
<1> QED
  BY <1>1, <1>3, <1>4 DEF CopyInv

LEMMA StoreCopies ==
  ASSUME LogInv, CopyInv, Store
  PROVE  CopyInv'
<1>1. wpc = "store" /\ rpc' = rpc /\ copy' = copy
  BY DEF Store, readerVars
<1>2. \A r \in Readers : rpc[r] \notin {"read", "unlock"}
  BY <1>1, NobodyReads
<1>3. RingInv'
  BY RingStore DEF CopyInv
<1>4. \A r \in Readers : ReaderInv(r)'
  BY <1>1, <1>2, ReaderAway
<1> QED
  BY <1>1, <1>3, <1>4 DEF CopyInv

LEMMA WriteUnlockCopies ==
  ASSUME LogInv, CopyInv, WriteUnlock
  PROVE  CopyInv'
<1>1. wpc = "unlock" /\ lens' = lens /\ wpc' # "store"
  BY DEF WriteUnlock
<1>2. CASE ~ term
  <2>1. wpc' = "idle" /\ data' = data /\ tail' = tail /\ UNCHANGED readerVars /\ lag' = lag
    BY <1>2 DEF WriteUnlock, shmVars
  <2>2. Sound
    BY <1>1 DEF Sound
  <2> QED
    BY <1>1, <2>1, <2>2, WriterPauses
<1>3. CASE term
  <2>1. data' = Zeros /\ tail' = 0 /\ Leave(Readers)
    BY <1>3 DEF WriteUnlock
  <2>2. (\A r \in Readers : rpc'[r] = "gone") /\ copy' = [q \in Readers |-> copy'[q]]
    BY <2>1, LeaveSame
  <2>3. \A r \in Readers : ~ Waits(r)'
    BY <2>2 DEF Waits
  <2>4. lens \in Seq(Lens)
    BY LogParts DEF WriterType
  <2>5. RingInv'
    BY <1>1, <2>1, <2>3, <2>4, RingClear
  <2>6. \A r \in Readers : ReaderInv(r)'
    BY <2>2, ReaderAway
  <2> QED
    BY <2>2, <2>5, <2>6 DEF CopyInv
<1> QED
  BY <1>2, <1>3

(* One reader's component of a function is replaced.                       *)
LEMMA Replaced ==
  ASSUME NEW r \in Readers, NEW f, f = [q \in Readers |-> f[q]],
         NEW v, NEW g, g = [f EXCEPT ![r] = v]
  PROVE  /\ g[r] = v /\ g = [q \in Readers |-> g[q]]
         /\ \A q \in Readers \ {r} : g[q] = f[q]
OBVIOUS

LEMMA ReaderFunctions ==
  ASSUME ReaderType, CopyInv
  PROVE  /\ rpc = [q \in Readers |-> rpc[q]] /\ follow = [q \in Readers |-> follow[q]]
         /\ cur = [q \in Readers |-> cur[q]] /\ seen = [q \in Readers |-> seen[q]]
         /\ copy = [q \in Readers |-> copy[q]] /\ from = [q \in Readers |-> from[q]]
         /\ lag = [q \in Readers |-> lag[q]]
BY DEF ReaderType, CopyInv

LEMMA SemOther ==
  ASSUME WriterType, NEW x, sem' = [sem EXCEPT ![1] = x]
  PROVE  sem'[2] = sem[2]
<1>1. sem \in Nat \X {0, 1}
  BY DEF WriterType
<1> QED
  BY <1>1

LEMMA AttachCopies ==
  ASSUME LogInv, CopyInv, NEW r \in Readers, Attach(r)
  PROVE  CopyInv'
<1>0. WriterType /\ ReaderType
  BY LogParts
<1>1. /\ rpc' = [rpc EXCEPT ![r] = "attached"] /\ UNCHANGED <<shmVars, writerVars>>
      /\ sem' = sem /\ cur' = cur /\ seen' = seen /\ copy' = copy /\ from' = from /\ lag' = lag
  BY DEF Attach, Goto
<1>2. PICK o : follow' = [follow EXCEPT ![r] = o]
  BY DEF Attach
<1>3. rpc'[r] = "attached" /\ \A q \in Readers \ {r} : rpc'[q] = rpc[q]
  BY <1>0, <1>1, ReaderFunctions, Replaced
<1>4. \A q \in Readers \ {r} : follow'[q] = follow[q]
  BY <1>0, <1>2, ReaderFunctions, Replaced
<1>5. \A q \in Readers \ {r} : ReaderSame(q) /\ lag'[q] = lag[q]
  BY <1>1, <1>3, <1>4 DEF ReaderSame
<1>6. ReaderInv(r)' /\ ~ Waits(r)'
  <2>1. rpc'[r] \notin {"read", "unlock"}
    BY <1>3
  <2> QED
    BY <1>3, <2>1, ReaderAway DEF Waits
<1>7. copy' = [q \in Readers |-> copy'[q]]
  BY <1>1 DEF CopyInv
<1> QED
  BY <1>1, <1>5, <1>6, <1>7, ReaderCopies

LEMMA TakeTailCopies ==
  ASSUME LogInv, CopyInv, NEW r \in Readers, TakeTail(r)
  PROVE  CopyInv'
<1>0. WriterType /\ ReaderType
  BY LogParts
<1> DEFINE in == wpc = "store" /\ rest # << >>
           whole == in /\ rest[1] = <<Newest, 1>>
<1>1. /\ rpc' = [rpc EXCEPT ![r] = "lock"] /\ UNCHANGED <<shmVars, writerVars>>
      /\ cur' = [cur EXCEPT ![r] = tail]
      /\ from' = [from EXCEPT ![r] = IF whole THEN Newest ELSE Newest + 1]
      /\ lag' = [lag EXCEPT ![r] = IF in /\ ~ whole THEN Size ELSE 0]
      /\ sem' = sem /\ seen' = seen /\ copy' = copy /\ follow' = follow
  BY DEF TakeTail, Goto
<1>2. rpc'[r] = "lock" /\ \A q \in Readers \ {r} : rpc'[q] = rpc[q]
  BY <1>0, <1>1, ReaderFunctions, Replaced
<1>3. cur'[r] = tail /\ \A q \in Readers \ {r} : cur'[q] = cur[q]
  BY <1>0, <1>1, ReaderFunctions, Replaced
<1>4. /\ from'[r] = (IF whole THEN Newest ELSE Newest + 1)
      /\ \A q \in Readers \ {r} : from'[q] = from[q]
  <2> HIDE DEF in, whole
  <2> QED
    BY <1>0, <1>1, ReaderFunctions, Replaced
<1>5. /\ lag'[r] = (IF in /\ ~ whole THEN Size ELSE 0)
      /\ \A q \in Readers \ {r} : lag'[q] = lag[q]
  <2> HIDE DEF in, whole
  <2> QED
    BY <1>0, <1>1, ReaderFunctions, Replaced
<1>6. \A q \in Readers \ {r} : ReaderSame(q) /\ lag'[q] = lag[q]
  BY <1>1, <1>2, <1>3, <1>4, <1>5 DEF ReaderSame
<1>7. ReaderInv(r)'
  BY <1>2, ReaderAway
<1>8. ASSUME Waits(r)' PROVE Fresh(r)
  <2>1. ~ (Size < Size)
    <3>1. Size \in Nat
      BY Constants
    <3> QED
      BY <3>1
  <2>2. ~ (in /\ ~ whole) /\ lag'[r] = 0
    <3> HIDE DEF in, whole
    <3> QED
      BY <1>5, <1>8, <2>1 DEF Waits
  <2>3. CASE whole
    BY <1>3, <1>4, <2>2, <2>3 DEF Fresh
  <2>4. CASE ~ in
    BY <1>3, <1>4, <2>2, <2>4 DEF Fresh
  <2> QED
    BY <2>2, <2>3, <2>4
<1>9. copy' = [q \in Readers |-> copy'[q]] /\ sem'[2] = sem[2]
  BY <1>1 DEF CopyInv
<1> QED
  BY <1>1, <1>6, <1>7, <1>8, <1>9, ReaderCopies

LEMMA ReadLockCopies ==
  ASSUME LogInv, CopyInv, NEW r \in Readers, ReadLock(r)
  PROVE  CopyInv'
<1>0. WriterType /\ ReaderType
  BY LogParts
<1>1. /\ rpc[r] = "lock" /\ rpc' = [rpc EXCEPT ![r] = "read"] /\ UNCHANGED <<shmVars, writerVars>>
      /\ seen' = [seen EXCEPT ![r] = tail] /\ follow' = follow /\ cur' = cur /\ copy' = copy
      /\ from' = from /\ lag' = lag /\ tail' = tail
  BY DEF ReadLock, Goto, shmVars
<1>2. rpc'[r] = "read" /\ \A q \in Readers \ {r} : rpc'[q] = rpc[q]
  BY <1>0, <1>1, ReaderFunctions, Replaced
<1>3. seen'[r] = tail /\ \A q \in Readers \ {r} : seen'[q] = seen[q]
  BY <1>0, <1>1, ReaderFunctions, Replaced
<1>4. \A q \in Readers \ {r} : ReaderSame(q) /\ lag'[q] = lag[q]
  BY <1>1, <1>2, <1>3 DEF ReaderSame
<1>5. ReaderInv(r)'
  BY <1>1, <1>2, <1>3 DEF ReaderInv, CopyDone
<1>6. Keeps(r)
  BY <1>1 DEF Keeps
<1>7. sem'[2] = sem[2]
  BY <1>0, SemOther DEF ReadLock
<1>8. copy' = [q \in Readers |-> copy'[q]]
  BY <1>1 DEF CopyInv
<1> QED
  BY <1>1, <1>4, <1>5, <1>6, <1>7, <1>8, ReaderCopies

LEMMA ReadAllCopies ==
  ASSUME LogInv, CopyInv, NEW r \in Readers, ReadAll(r)
  PROVE  CopyInv'
<1>0. WriterType /\ ReaderType /\ NulInv /\ RingInv
  BY LogParts DEF CopyInv
<1>1. /\ rpc[r] = "read" /\ follow[r] # "f" /\ UNCHANGED <<shmVars, writerVars>>
      /\ sem' = sem /\ follow' = follow /\ seen' = seen /\ from' = from /\ lag' = lag
      /\ lens' = lens /\ tail' = tail /\ data' = data
  BY DEF ReadAll, shmVars, writerVars
<1>2. PICK s \in 0..(Size - 1) : s = cur[r]
  BY <1>0 DEF ReaderType
<1>3. PICK t \in 0..(Size - 1) : t = seen[r]
  BY <1>0 DEF ReaderType
<1>4. data[Size] = NUL /\ data[Before(t)] = NUL
  BY <1>0, <1>1, <1>3 DEF WriterType, NulInv
<1>5. Oldest(s, t) # -1
  BY <1>4, OldestFound
<1>6. PICK c \in 0..(Size - 1) : c = Oldest(s, t) /\ data[Before(c)] = NUL
  BY <1>4, <1>5, OldestIs
<1>7. /\ rpc' = [rpc EXCEPT ![r] = "unlock"]
      /\ copy' = [copy EXCEPT ![r] = Between(c, t)] /\ cur' = [cur EXCEPT ![r] = t]
  BY <1>2, <1>3, <1>5, <1>6 DEF ReadAll, Goto
<1>8. rpc'[r] = "unlock" /\ \A q \in Readers \ {r} : rpc'[q] = rpc[q]
  BY <1>0, <1>7, ReaderFunctions, Replaced
<1>9. cur'[r] = t /\ \A q \in Readers \ {r} : cur'[q] = cur[q]
  BY <1>0, <1>7, ReaderFunctions, Replaced
<1>10. /\ copy'[r] = Between(c, t) /\ copy' = [q \in Readers |-> copy'[q]]
       /\ \A q \in Readers \ {r} : copy'[q] = copy[q]
  <2>1. PICK v : v = Between(c, t)
    OBVIOUS
  <2>2. copy' = [copy EXCEPT ![r] = v]
    BY <1>7, <2>1
  <2> QED
    BY <1>0, <2>1, <2>2, ReaderFunctions, Replaced
<1>11. lens \in Seq(Lens) /\ tail \in 0..(Size - 1)
  BY <1>0 DEF WriterType
<1>12. seen[r] = tail \/ (lag[r] = Reset /\ data = Zeros)
  BY <1>1 DEF CopyInv, ReaderInv
<1>13. \E m \in 1..(Newest + 1) : Prints(copy'[r], lens, m)
  <2>1. CASE seen[r] = tail
    <3>1. Sound /\ wpc # "store"
      BY <1>1, HolderSound
    <3>2. PICK w, off, first, base : Ring(w, off, first, base)
      BY <1>0, <3>1 DEF RingInv
    <3>3. /\ Text(w, off, first, lens, Newest) /\ InRing(data, tail, w, base)
          /\ off[Newest + 1] = base + tail
      BY <3>1, <3>2 DEF Ring, Ends
    <3>4. \E m \in 1..(Newest + 1) : Prints(Between(c, tail), lens, m)
      BY <1>6, <1>11, <3>3, CopyAllPrints
    <3> QED
      BY <1>3, <1>10, <2>1, <3>4
  <2>2. CASE data = Zeros
    <3>1. Prints(Between(c, t), lens, Newest + 1)
      BY <1>11, <2>2, ZerosPrint
    <3>2. Newest + 1 \in 1..(Newest + 1)
      BY <1>11, NewestNat
    <3> QED
      BY <1>10, <3>1, <3>2
  <2> QED
    BY <1>12, <2>1, <2>2
<1>14. ReaderInv(r)'
  <2>1. Newest' = Newest
    BY <1>1 DEF Newest
  <2> QED
    BY <1>1, <1>3, <1>8, <1>9, <1>12, <1>13, <2>1 DEF ReaderInv, CopyDone, Reset
<1>15. \A q \in Readers \ {r} : ReaderSame(q) /\ lag'[q] = lag[q]
  BY <1>1, <1>8, <1>9, <1>10 DEF ReaderSame
<1>16. ~ Waits(r)' /\ sem'[2] = sem[2]
  BY <1>1, <1>8 DEF Waits
<1> QED
  BY <1>1, <1>10, <1>14, <1>15, <1>16, ReaderCopies

LEMMA ReadNewCopies ==
  ASSUME LogInv, CopyInv, NEW r \in Readers, ReadNew(r)
  PROVE  CopyInv'
<1>0. WriterType /\ ReaderType /\ RingInv
  BY LogParts DEF CopyInv
<1>1. /\ rpc[r] = "read" /\ follow[r] = "f" /\ UNCHANGED <<shmVars, writerVars>>
      /\ sem' = sem /\ follow' = follow /\ seen' = seen /\ from' = from /\ lag' = lag
      /\ lens' = lens /\ tail' = tail /\ data' = data
  BY DEF ReadNew, shmVars, writerVars
<1>2. PICK c \in 0..(Size - 1) : c = cur[r]
  BY <1>0 DEF ReaderType
<1>3. PICK t \in 0..(Size - 1) : t = seen[r]
  BY <1>0 DEF ReaderType
<1>4. /\ rpc' = [rpc EXCEPT ![r] = "unlock"]
      /\ copy' = [copy EXCEPT ![r] = Between(c, t)] /\ cur' = [cur EXCEPT ![r] = t]
  BY <1>2, <1>3 DEF ReadNew, Goto
<1>5. rpc'[r] = "unlock" /\ \A q \in Readers \ {r} : rpc'[q] = rpc[q]
  BY <1>0, <1>4, ReaderFunctions, Replaced
<1>6. cur'[r] = t /\ \A q \in Readers \ {r} : cur'[q] = cur[q]
  BY <1>0, <1>4, ReaderFunctions, Replaced
<1>7. /\ copy'[r] = Between(c, t) /\ copy' = [q \in Readers |-> copy'[q]]
      /\ \A q \in Readers \ {r} : copy'[q] = copy[q]
  <2>1. PICK v : v = Between(c, t)
    OBVIOUS
  <2>2. copy' = [copy EXCEPT ![r] = v]
    BY <1>4, <2>1
  <2> QED
    BY <1>0, <2>1, <2>2, ReaderFunctions, Replaced
<1>8. lens \in Seq(Lens) /\ tail \in 0..(Size - 1)
  BY <1>0 DEF WriterType
<1>9. seen[r] = tail \/ (lag[r] = Reset /\ data = Zeros)
  BY <1>1 DEF CopyInv, ReaderInv
<1>10. ASSUME lag[r] < Size PROVE Prints(copy'[r], lens, from[r])
  <2>1. PICK l \in Nat : l = lag[r] /\ l < Size
    <3>1. Size \in Nat /\ lag[r] \in 0..Reset
      BY <1>0, Constants DEF ReaderType
    <3> QED
      BY <1>10, <3>1 DEF Reset
  <2>2. lag[r] # Reset
    <3>1. Size \in Nat
      BY Constants
    <3> QED
      BY <2>1, <3>1 DEF Reset
  <2>3. seen[r] = tail
    BY <1>9, <2>2
  <2>4. Sound /\ wpc # "store"
    BY <1>1, HolderSound
  <2>5. PICK w, off, first, base : Ring(w, off, first, base)
    BY <1>0, <2>4 DEF RingInv
  <2>6. /\ Text(w, off, first, lens, Newest) /\ InRing(data, tail, w, base)
        /\ off[Newest + 1] = base + tail
    BY <2>4, <2>5 DEF Ring, Ends
  <2>7. Waits(r)
    BY <1>1, <1>10 DEF Waits
  <2>8. PICK p \in Int : p = base + tail
    <3>1. base \in Int /\ Size \in Nat
      BY <2>6, Constants DEF InRing
    <3> QED
      BY <1>8, <3>1
  <2>9. PICK a \in first..(Newest + 1) : a = from[r] /\ off[a] = base + tail - l
    <3>1. Placed(r, off, first, p)
      BY <2>5, <2>7, <2>8 DEF Ring
    <3>2. from[r] \in first..(Newest + 1) /\ off[from[r]] = p - lag[r]
      BY <3>1 DEF Placed
    <3>3. off[from[r]] = p - l
      BY <2>1, <3>2
    <3>4. p - l = base + tail - l
      <4>1. base \in Int /\ Size \in Nat
        BY <2>6, Constants DEF InRing
      <4> QED
        BY <1>8, <2>8, <4>1
    <3> QED
      BY <3>2, <3>3, <3>4
  <2>10. c \in {tail - l, tail - l + Size}
    <3>1. Placed(r, off, first, base + tail)
      BY <2>5, <2>7 DEF Ring
    <3> QED
      BY <1>2, <2>1, <3>1 DEF Placed
  <2>11. Prints(Between(c, tail), lens, a)
    BY <1>8, <2>1, <2>6, <2>9, <2>10, CopyNewPrints
  <2> QED
    BY <1>3, <1>7, <2>3, <2>9, <2>11
<1>11. ReaderInv(r)'
  <2>1. Newest' = Newest
    BY <1>1 DEF Newest
  <2> QED
    BY <1>1, <1>3, <1>5, <1>6, <1>9, <1>10, <2>1 DEF ReaderInv, CopyDone, Reset
<1>12. \A q \in Readers \ {r} : ReaderSame(q) /\ lag'[q] = lag[q]
  BY <1>1, <1>5, <1>6, <1>7 DEF ReaderSame
<1>13. ~ Waits(r)' /\ sem'[2] = sem[2]
  BY <1>1, <1>5 DEF Waits
<1> QED
  BY <1>1, <1>7, <1>11, <1>12, <1>13, ReaderCopies

(* A logread that is done is at the tail, unless the buffer was cleared.   *)
LEMMA AllReadFresh ==
  ASSUME LogInv, CopyInv, NEW r \in Readers, rpc[r] \in {"read", "unlock"},
         cur[r] = seen[r], cur'[r] = cur[r], AllRead(r)
  PROVE  /\ Waits(r)' => Fresh(r)
         /\ \A q \in Readers \ {r} : from'[q] = from[q] /\ lag'[q] = lag[q]
<1>0. WriterType /\ ReaderType
  BY LogParts
<1>1. /\ from' = [from EXCEPT ![r] = Newest + 1]
      /\ lag' = [lag EXCEPT ![r] = IF lag[r] = Reset THEN Size ELSE 0]
  BY DEF AllRead
<1>2. from'[r] = Newest + 1 /\ \A q \in Readers \ {r} : from'[q] = from[q]
  <2>1. PICK v : v = Newest + 1
    OBVIOUS
  <2>2. from' = [from EXCEPT ![r] = v]
    BY <1>1, <2>1
  <2> QED
    BY <1>0, <2>1, <2>2, ReaderFunctions, Replaced
<1>3. /\ lag'[r] = (IF lag[r] = Reset THEN Size ELSE 0)
      /\ \A q \in Readers \ {r} : lag'[q] = lag[q]
  <2>1. PICK v : v = IF lag[r] = Reset THEN Size ELSE 0
    OBVIOUS
  <2>2. lag' = [lag EXCEPT ![r] = v]
    BY <1>1, <2>1
  <2> QED
    BY <1>0, <2>1, <2>2, ReaderFunctions, Replaced
<1>4. ASSUME Waits(r)' PROVE Fresh(r)
  <2>1. ~ (Size < Size)
    <3>1. Size \in Nat
      BY Constants
    <3> QED
      BY <3>1
  <2>2. lag[r] # Reset /\ lag'[r] = 0
    BY <1>3, <1>4, <2>1 DEF Waits
  <2>3. seen[r] = tail
    BY <2>2 DEF CopyInv, ReaderInv
  <2>4. wpc # "store"
    BY HolderSound
  <2> QED
    BY <1>2, <2>2, <2>3, <2>4 DEF Fresh
<1> QED
  BY <1>2, <1>3, <1>4

LEMMA SleepCopies ==
  ASSUME LogInv, CopyInv, NEW r \in Readers, Sleep(r)
  PROVE  CopyInv'
<1>0. WriterType /\ ReaderType
  BY LogParts
<1>1. /\ rpc[r] = "read" /\ cur[r] = seen[r] /\ rpc' = [rpc EXCEPT ![r] = "lock"]
      /\ UNCHANGED <<shmVars, writerVars>> /\ AllRead(r)
      /\ follow' = follow /\ cur' = cur /\ seen' = seen /\ copy' = copy
  BY DEF Sleep, Goto, AtTail
<1>2. rpc'[r] = "lock" /\ \A q \in Readers \ {r} : rpc'[q] = rpc[q]
  BY <1>0, <1>1, ReaderFunctions, Replaced
<1>3. /\ Waits(r)' => Fresh(r)
      /\ \A q \in Readers \ {r} : from'[q] = from[q] /\ lag'[q] = lag[q]
  BY <1>1, AllReadFresh
<1>4. \A q \in Readers \ {r} : ReaderSame(q) /\ lag'[q] = lag[q]
  BY <1>1, <1>2, <1>3 DEF ReaderSame
<1>5. ReaderInv(r)'
  BY <1>2, ReaderAway
<1>6. sem'[2] = sem[2]
  BY <1>0, SemOther DEF Sleep
<1>7. copy' = [q \in Readers |-> copy'[q]]
  BY <1>1 DEF CopyInv
<1> QED
  BY <1>1, <1>3, <1>4, <1>5, <1>6, <1>7, ReaderCopies

(* A logread ends.                                                         *)
LEMMA LeaveCopies ==
  ASSUME LogInv, CopyInv, NEW r \in Readers, Leave({r}), UNCHANGED <<shmVars, writerVars>>,
         sem'[2] = sem[2]
  PROVE  CopyInv'
<1>1. /\ \A q \in Readers \ {r} : ReaderSame(q) /\ lag'[q] = lag[q]
      /\ rpc'[r] = "gone" /\ copy' = [q \in Readers |-> copy'[q]]
  BY LeaveSame
<1>2. ReaderInv(r)' /\ ~ Waits(r)'
  <2>1. rpc'[r] \notin {"read", "unlock"}
    BY <1>1
  <2> QED
    BY <1>1, <2>1, ReaderAway DEF Waits
<1> QED
  BY <1>1, <1>2, ReaderCopies

LEMMA ReadUnlockCopies ==
  ASSUME LogInv, CopyInv, NEW r \in Readers, ReadUnlock(r)
  PROVE  CopyInv'
<1>0. WriterType /\ ReaderType
  BY LogParts
<1>1. rpc[r] = "unlock" /\ UNCHANGED <<shmVars, writerVars>>
  BY DEF ReadUnlock
<1>2. sem'[2] = sem[2]
  BY <1>0, SemOther DEF ReadUnlock
<1>3. CASE Leave({r})
  BY <1>1, <1>2, <1>3, LeaveCopies
<1>4. CASE ~ Leave({r})
  <2>1. /\ rpc' = [rpc EXCEPT ![r] = "lock"] /\ follow' = [follow EXCEPT ![r] = "f"]
        /\ copy' = [copy EXCEPT ![r] = << >>] /\ AllRead(r) /\ cur' = cur /\ seen' = seen
    BY <1>4 DEF ReadUnlock, Goto
  <2>2. rpc'[r] = "lock" /\ \A q \in Readers \ {r} : rpc'[q] = rpc[q]
    BY <1>0, <2>1, ReaderFunctions, Replaced
  <2>3. \A q \in Readers \ {r} : follow'[q] = follow[q]
    BY <1>0, <2>1, ReaderFunctions, Replaced
  <2>4. copy' = [q \in Readers |-> copy'[q]] /\ \A q \in Readers \ {r} : copy'[q] = copy[q]
    BY <1>0, <2>1, ReaderFunctions, Replaced
  <2>5. cur[r] = seen[r]
    BY <1>1 DEF CopyInv, ReaderInv
  <2>6. /\ Waits(r)' => Fresh(r)
        /\ \A q \in Readers \ {r} : from'[q] = from[q] /\ lag'[q] = lag[q]
    BY <1>1, <2>1, <2>5, AllReadFresh
  <2>7. \A q \in Readers \ {r} : ReaderSame(q) /\ lag'[q] = lag[q]
    BY <2>1, <2>2, <2>3, <2>4, <2>6 DEF ReaderSame
  <2>8. ReaderInv(r)'
    BY <2>2, ReaderAway
  <2> QED
    BY <1>1, <1>2, <2>4, <2>6, <2>7, <2>8, ReaderCopies
<1> QED
  BY <1>3, <1>4

LEMMA InterruptedCopies ==
  ASSUME LogInv, CopyInv, NEW r \in Readers, Interrupted(r)
  PROVE  CopyInv'
<1>0. WriterType
  BY LogParts
<1>1. Leave({r}) /\ UNCHANGED <<shmVars, writerVars>>
  BY DEF Interrupted
<1>2. sem'[2] = sem[2]
  <2>1. CASE sem' = sem
    BY <2>1
  <2>2. CASE sem' # sem
    BY <1>0, <2>2, SemOther DEF Interrupted
  <2> QED
    BY <2>1, <2>2
<1> QED
  BY <1>1, <1>2, LeaveCopies

LEMMA InitCopyInv ==
  ASSUME Init
  PROVE  CopyInv
<1>1. /\ data = Zeros /\ tail = 0 /\ wpc = "gone" /\ lens = << >>
      /\ rpc = [r \in Readers |-> "gone"] /\ copy = [r \in Readers |-> << >>]
  BY DEF Init
<1> DEFINE w == [p \in Int |-> NUL]
           off == [m \in Nat |-> 0]
<1>2. Newest = 0
  BY <1>1 DEF Newest
<1>3. Text(w, off, 1, lens, 0)
  <2>1. 1 \in 1..(0 + 1) /\ 1..0 = {} /\ (\A m \in 1..(0 + 1) : m \in Nat)
    OBVIOUS
  <2>2. \A m \in 1..(0 + 1) : off[m] \in Int
    BY <2>1
  <2>3. \A p \in Int : w[p] = NUL
    OBVIOUS
  <2> HIDE DEF off, w
  <2> QED
    BY <2>1, <2>2, <2>3 DEF Text
<1>4. InRing(data, tail, w, 0)
  <2>1. Size \in Nat
    BY Constants
  <2>2. ASSUME NEW i \in 0..(Size - 1)
        PROVE  data[i] = NUL /\ w[0 + i - Size] = NUL /\ w[0 + i] = NUL
    BY <1>1, <2>1 DEF Zeros
  <2> HIDE DEF w
  <2> QED
    BY <2>1, <2>2 DEF InRing
<1>5. Ends(w, 0 + tail, off[Newest + 1])
  <2>1. off[Newest + 1] = 0
    BY <1>2
  <2> HIDE DEF off, w
  <2> QED
    BY <1>1, <2>1 DEF Ends
<1>6. \A r \in Readers : ~ Waits(r)
  BY <1>1 DEF Waits
<1>7. Ring(w, off, 1, 0)
  <2> HIDE DEF off, w
  <2> QED
    BY <1>2, <1>3, <1>4, <1>5, <1>6 DEF Ring
<1>8. RingInv
  <2> HIDE DEF off, w
  <2> QED
    BY <1>7 DEF RingInv
<1>9. \A r \in Readers : ReaderInv(r)
  BY <1>1 DEF ReaderInv, CopyDone
<1> QED
  BY <1>1, <1>8, <1>9 DEF CopyInv

LEMMA CopyStep ==
  ASSUME LogInv, CopyInv, [Next]_vars
  PROVE  CopyInv'
<1>1. CASE Syslogd \/ Receive \/ Kill
  BY <1>1, InitCopies, WriteLockCopies, StoreCopies, WriteUnlockCopies, ReceiveCopies, KillCopies
     DEF Syslogd
<1>2. ASSUME NEW r \in Readers, LogreadStep(r) \/ ReadLock(r) \/ Attach(r) \/ Interrupted(r)
      PROVE  CopyInv'
  BY <1>2, TakeTailCopies, ReadAllCopies, ReadNewCopies, SleepCopies, ReadUnlockCopies,
     ReadLockCopies, AttachCopies, InterruptedCopies DEF LogreadStep
<1>3. CASE UNCHANGED vars
  <2>1. /\ data' = data /\ tail' = tail /\ sem' = sem /\ wpc' = wpc
        /\ rest' = rest /\ lens' = lens /\ UNCHANGED readerVars /\ lag' = lag
    BY <1>3 DEF vars, shmVars, writerVars
  <2>2. Sound' => Sound
    BY <2>1 DEF Sound
  <2> QED
    BY <2>1, <2>2, WriterPauses
<1> QED
  BY <1>1, <1>2, <1>3 DEF Next

LEMMA CopyInvAlways == Spec => []CopyInv
<1>1. Spec => Init /\ [][Next]_vars
  BY PTL DEF Spec
<1>2. Init => CopyInv
  BY InitCopyInv
<1>3. LogInv /\ CopyInv /\ [Next]_vars => CopyInv'
  BY CopyStep
<1> QED
  BY <1>1, <1>2, <1>3, LogInvAlways, PTL

(* Without -f, and in the first pass with -F, logread_main prints whole    *)
(* messages in the order in which log_to_shmem stored them, up to the last *)
(* one or none at all: however far syslogd has gone round the buffer       *)
(* between the read of the tail outside the lock and the copy, and after   *)
(* every restart of syslogd.                                               *)
THEOREM PrintsWholeMessages == Spec => []PrintsWhole
<1>1. CopyInv => PrintsWhole
  <2> SUFFICES ASSUME CopyInv, NEW r \in Readers, CopyDone(r, {"", "F"})
               PROVE  \E m \in 1..(Newest + 1) : Shows(r, m)
    BY DEF PrintsWhole
  <2>1. PICK m \in 1..(Newest + 1) : Prints(copy[r], lens, m)
    BY DEF CopyInv, ReaderInv
  <2> QED
    BY <2>1, ShowsIs
<1> QED
  BY <1>1, CopyInvAlways, PTL

(* With -f, logread_main prints every message stored since its last pass   *)
(* once, whole and in order, as long as fewer bytes than the size of the   *)
(* buffer were stored in between.                                          *)
THEOREM FollowsExactlyOnce == Spec => []FollowsExactly
<1>1. CopyInv => FollowsExactly
  <2> SUFFICES ASSUME CopyInv, NEW r \in Readers, CopyDone(r, {"f"}), lag[r] < Size
               PROVE  Shows(r, from[r])
    BY DEF FollowsExactly
  <2>1. Prints(copy[r], lens, from[r])
    BY DEF CopyInv, ReaderInv
  <2> QED
    BY <2>1, ShowsIs
<1> QED
  BY <1>1, CopyInvAlways, PTL
=============================================================================
