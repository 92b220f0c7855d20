----------------------------- MODULE DhcpdProofs -----------------------------
(***************************************************************************)
(* Theorems about udhcpd and its clients.                                  *)
(***************************************************************************)
EXTENDS Dhcpd, SequenceTheorems, WellFoundedInduction, TLAPS

-----------------------------------------------------------------------------
(* The least member of a set of numbers, of a set of slots. *)

(* A set of natural numbers has a smallest member.                         *)
LEMMA Smallest ==
  ASSUME NEW T, T \subseteq Nat, T # {}
  PROVE  \E x \in T : \A y \in T : x <= y
<1> DEFINE R == {ss \in Nat \X Nat : ss[1] < ss[2]}
<1>1. IsWellFoundedOn(R, Nat)
  BY NatLessThanWellFounded, Zenon DEF OpToRel
<1>2. PICK x \in T : \A y \in T : ~ (<<y, x>> \in R)
  <2> HIDE DEF R
  <2> QED
    BY <1>1, WFMin
<1>3. \A y \in T : ~ (y < x)
  BY <1>2
<1> QED
  BY <1>3

(* A bounded one has a largest member.                                     *)
LEMMA Largest ==
  ASSUME NEW n \in Nat, NEW T, T \subseteq 1..n, T # {}
  PROVE  \E x \in T : \A y \in T : y <= x
<1> DEFINE U == {m \in Nat : n - m \in T}
<1>1. U # {}
  <2>1. PICK x : x \in T
    OBVIOUS
  <2>2. n - x \in Nat /\ n - (n - x) = x
    BY <2>1
  <2> QED
    BY <2>1, <2>2
<1>2. PICK u \in U : \A v \in U : u <= v
  <2>1. U \subseteq Nat
    OBVIOUS
  <2> HIDE DEF U
  <2> QED
    BY <1>1, <2>1, Smallest
<1>3. \A y \in T : n - y \in U
  <2>1. \A y \in T : y \in 1..n /\ n - y \in Nat /\ n - (n - y) = y
    OBVIOUS
  <2> QED
    BY <2>1
<1>4. \A y \in T : y <= n - u
  BY <1>2, <1>3
<1> QED
  BY <1>2, <1>4

LEMMA FirstFacts ==
  ASSUME NEW S \in SUBSET Slots
  PROVE  /\ First(S) \in S \cup {0}
         /\ First(S) = 0 <=> S = {}
<1>1. S \subseteq Nat /\ 0 \notin S
  BY DEF Slots
<1>2. CASE S = {}
  BY <1>2 DEF First
<1>3. CASE S # {}
  <2>1. \E x \in S : \A y \in S : x <= y
    BY <1>1, <1>3, Smallest
  <2> QED
    BY <1>1, <1>3, <2>1 DEF First
<1> QED
  BY <1>2, <1>3

(* find_lease_by_mac and find_lease_by_nip find an entry if there is one.  *)
LEMMA FindFacts ==
  ASSUME NEW t, NEW x
  PROVE  /\ \/ find_lease_by_mac(t, x) = 0 /\ \A i \in Slots : t[i].mac # x
            \/ find_lease_by_mac(t, x) \in Slots /\ t[find_lease_by_mac(t, x)].mac = x
         /\ \/ find_lease_by_nip(t, x) = 0 /\ \A i \in Slots : t[i].nip # x
            \/ find_lease_by_nip(t, x) \in Slots /\ t[find_lease_by_nip(t, x)].nip = x
<1> DEFINE M == {i \in Slots : t[i].mac = x}
           A == {i \in Slots : t[i].nip = x}
<1>1. First(M) \in M \cup {0} /\ (First(M) = 0 <=> M = {})
  BY FirstFacts
<1>2. First(A) \in A \cup {0} /\ (First(A) = 0 <=> A = {})
  BY FirstFacts
<1> QED
  BY <1>1, <1>2 DEF find_lease_by_mac, find_lease_by_nip

(* A table with numbers for expiry times.                                  *)
Table(t) == t \in [Slots -> Entries]

(* oldest_expired_lease returns an entry that is empty or expired, or none *)
(* when all are in force.                                                  *)
LEMMA OldestFacts ==
  ASSUME NEW t, Table(t), DhcpdAssumption, now \in Nat
  PROVE  \/ Oldest(t) = 0 /\ \A i \in Slots : t[i].expires # 0 /\ t[i].expires >= now
         \/ /\ Oldest(t) \in Slots
            /\ t[Oldest(t)].expires = 0 \/ t[Oldest(t)].expires < now
<1> DEFINE empty == {i \in Slots : t[i].expires = 0}
           old == {i \in Slots : is_expired_lease(t, i)}
<1>0. MaxLeases \in Nat
  BY UdhcpcAssumption DEF DhcpdAssumption, UdhcpcAssumption
<1>1. CASE empty # {}
  <2>1. \E x \in empty : \A y \in empty : y <= x
    BY <1>0, <1>1, Largest DEF Slots
  <2>2. Oldest(t) = CHOOSE x \in empty : \A y \in empty : y <= x
    BY <1>1 DEF Oldest
  <2>3. Oldest(t) \in empty
    BY <2>1, <2>2
  <2> QED
    BY <2>3
<1>2. CASE empty = {} /\ old # {}
  <2> DEFINE E == {t[i].expires : i \in old}
  <2>1. E \subseteq Nat /\ E # {}
    BY <1>2 DEF Table, Entries
  <2>2. PICK e \in E : \A f \in E : e <= f
    <3> HIDE DEF E
    <3> QED
      BY <2>1, Smallest
  <2> DEFINE O == {i \in old : t[i].expires = e}
  <2>3. O \subseteq Nat /\ O # {}
    BY <2>2 DEF Slots
  <2>4. PICK o \in O : \A j \in O : o <= j
    <3> HIDE DEF O
    <3> QED
      BY <2>3, Smallest
  <2>5. \A j \in old : t[j].expires \in Nat /\ j \in Nat
    BY DEF Table, Entries, Slots
  <2>6. \A j \in old : t[o].expires < t[j].expires \/ (t[o].expires = t[j].expires /\ o <= j)
    <3> TAKE j \in old
    <3>1. t[o].expires = e /\ e <= t[j].expires
      BY <2>2, <2>4
    <3>2. CASE t[j].expires = e
      BY <2>4, <3>1, <3>2
    <3> QED
      BY <2>1, <2>5, <3>1, <3>2
  <2>7. Oldest(t) = CHOOSE i \in old : \A j \in old :
                  \/ t[i].expires < t[j].expires
                  \/ (t[i].expires = t[j].expires /\ i <= j)
    BY <1>2 DEF Oldest
  <2>8. Oldest(t) \in old
    <3> HIDE DEF old
    <3> QED
      BY <2>4, <2>6, <2>7
  <2> QED
    BY <2>8 DEF is_expired_lease
<1>3. CASE empty = {} /\ old = {}
  <2>1. Oldest(t) = 0
    BY <1>3 DEF Oldest
  <2>2. \A i \in Slots : t[i].expires # 0 /\ t[i].expires >= now
    BY <1>3 DEF is_expired_lease, Table, Entries
  <2> QED
    BY <2>1, <2>2
<1> QED
  BY <1>1, <1>2, <1>3

-----------------------------------------------------------------------------
(* The table. *)

LEMMA Constants ==
  /\ MaxLeases \in Nat \ {0} /\ NumIps \in Nat \ {0} /\ Wrap \in Nat \ {0}
  /\ Zero \notin Macs /\ NULL \notin Macs /\ Zero # NULL
  BY UdhcpcAssumption, DhcpdAssumption
  DEF UdhcpcAssumption, DhcpdAssumption, Zero, NULL

LEMMA EmptyTable == Table(NoLeases) /\ Empty \in Entries /\ OneEntry(NoLeases)
  BY Constants DEF Table, NoLeases, Empty, Entries, OneEntry

(* clear_leases empties the entries of the client and of the address.      *)
LEMMA ClearFacts ==
  ASSUME NEW t, Table(t), NEW m, NEW a
  PROVE  /\ Table(clear_leases(t, m, a))
         /\ \A i \in Slots : clear_leases(t, m, a)[i] =
              IF (m # NULL /\ t[i].mac = m) \/ (a # 0 /\ t[i].nip = a) THEN Empty ELSE t[i]
  BY EmptyTable DEF Table, clear_leases

NewEntry(m, a, secs) ==
  [mac |-> IF m = NULL THEN Zero ELSE m, nip |-> a, expires |-> (now + secs) % Wrap]

(* add_lease leaves a table, puts the lease into an entry that was empty,  *)
(* cleared or expired, if there is one, and changes no other entry but     *)
(* those of the client and of the address.                                 *)
LEMMA AddFacts ==
  ASSUME NEW t, Table(t), NEW m \in Macs \cup {Zero, NULL}, NEW a \in 0..NumIps,
         NEW secs \in Nat, now \in Nat
  PROVE  /\ Table(add_lease(t, m, a, secs))
         /\ \A i \in Slots :
              \/ add_lease(t, m, a, secs)[i] = clear_leases(t, m, a)[i]
              \/ /\ Added(t, m, a) /\ i = Oldest(clear_leases(t, m, a))
                 /\ add_lease(t, m, a, secs)[i] = NewEntry(m, a, secs)
                 /\ \/ clear_leases(t, m, a)[i].expires = 0
                    \/ clear_leases(t, m, a)[i].expires < now
         /\ Added(t, m, a) =>
              /\ Oldest(clear_leases(t, m, a)) \in Slots
              /\ add_lease(t, m, a, secs)[Oldest(clear_leases(t, m, a))] =
                   NewEntry(m, a, secs)
<1> DEFINE u == clear_leases(t, m, a)
           e == NewEntry(m, a, secs)
           v == add_lease(t, m, a, secs)
<1>1. Table(u)
  BY ClearFacts
<1>2. \/ Oldest(u) = 0
      \/ Oldest(u) \in Slots /\ (u[Oldest(u)].expires = 0 \/ u[Oldest(u)].expires < now)
  <2> HIDE DEF u
  <2> QED
    BY <1>1, OldestFacts, DhcpdAssumption
<1>3. e \in Entries
  BY Constants DEF Entries, NewEntry
<1>4. v = IF Oldest(u) = 0 THEN u ELSE [u EXCEPT ![Oldest(u)] = e]
  BY DEF add_lease, NewEntry
<1>5. 0 \notin Slots
  BY Constants DEF Slots
<1>6. Added(t, m, a) <=> Oldest(u) # 0
  BY DEF Added
<1> HIDE DEF u, e, v
<1>7. CASE Oldest(u) = 0
  BY <1>1, <1>4, <1>6, <1>7 DEF u, v, Table
<1>8. CASE Oldest(u) # 0
  <2>1. v = [u EXCEPT ![Oldest(u)] = e] /\ Oldest(u) \in Slots
    BY <1>2, <1>4, <1>8
  <2>2. Table(v)
    BY <1>1, <1>3, <2>1 DEF Table
  <2>3. \A i \in Slots : v[i] = IF i = Oldest(u) THEN e ELSE u[i]
    BY <1>1, <2>1 DEF Table
  <2>4. v[Oldest(u)] = e
    BY <2>1, <2>3
  <2> QED
    BY <1>2, <1>6, <1>8, <2>1, <2>2, <2>3, <2>4 DEF u, e, v
<1> QED
  BY <1>7, <1>8

(* One entry per client and per address stays so. *)
LEMMA AddUnique ==
  ASSUME NEW t, Table(t), OneEntry(t), NEW m \in Macs \cup {Zero, NULL},
         NEW a \in 0..NumIps, NEW secs \in Nat, now \in Nat
  PROVE  OneEntry(add_lease(t, m, a, secs))
<1> DEFINE u == clear_leases(t, m, a)
           v == add_lease(t, m, a, secs)
           M == IF m = NULL THEN Zero ELSE m
<1>1. \A i \in Slots : u[i] = IF (m # NULL /\ t[i].mac = m) \/ (a # 0 /\ t[i].nip = a)
                             THEN Empty ELSE t[i]
  BY ClearFacts
<1>2. \A i \in Slots : \/ v[i] = u[i]
                       \/ i = Oldest(u) /\ v[i].mac = M /\ v[i].nip = a
  <2>1. \A i \in Slots : v[i] = u[i] \/ (i = Oldest(u) /\ v[i] = NewEntry(m, a, secs))
    BY AddFacts, Zenon
  <2> QED
    BY <2>1 DEF NewEntry
<1> HIDE DEF u, v
<1>3. \A i \in Slots : /\ M # Zero => u[i].mac # M
                       /\ a # 0 => u[i].nip # a
  BY <1>1 DEF Empty
<1>4. OneEntry(u)
  BY <1>1 DEF OneEntry, Empty
<1>5. \A i, j \in Slots : i # j => /\ v[i].nip # 0 => v[i].nip # v[j].nip
                                   /\ v[i].mac # Zero => v[i].mac # v[j].mac
  <2> TAKE i, j \in Slots
  <2> HAVE i # j
  <2>1. CASE v[i] = u[i] /\ v[j] = u[j]
    BY <1>4, <2>1 DEF OneEntry
  <2>2. CASE v[i] = u[i] /\ v[j].mac = M /\ v[j].nip = a
    BY <1>3, <2>2
  <2>3. CASE v[i].mac = M /\ v[i].nip = a /\ v[j] = u[j]
    BY <1>3, <2>3
  <2> QED
    BY <1>2, <2>1, <2>2, <2>3
<1>6. OneEntry(v)
  BY <1>5 DEF OneEntry
<1> QED
  BY <1>6 DEF v

(* The lease file has the entries of the table, or empty ones.             *)
LEMMA WrittenFacts ==
  ASSUME NEW t, Table(t), NEW n \in Nat, now \in Nat
  PROVE  /\ Written(t, n) \in [at : Nat, recs : [Slots -> Entries]]
         /\ Written(t, n).at = now
         /\ OneEntry(t) => OneEntry(Written(t, n).recs)
         /\ \A i \in Slots :
              \/ Written(t, n).recs[i] = Empty /\ (i > n \/ t[i].nip = 0)
              \/ /\ Written(t, n).recs[i].mac = t[i].mac
                 /\ Written(t, n).recs[i].nip = t[i].nip
                 /\ Written(t, n).recs[i].expires =
                      IF t[i].expires < now THEN 0 ELSE t[i].expires - now
<1> DEFINE w == Written(t, n).recs
<1>1. /\ Written(t, n).at = now
      /\ w = [i \in Slots |-> IF i > n \/ t[i].nip = 0 THEN Empty
                 ELSE [t[i] EXCEPT !.expires = IF @ < now THEN 0 ELSE @ - now]]
      /\ Written(t, n) = [at |-> now, recs |-> w]
  BY DEF Written
<1> HIDE DEF w
<1>2. \A i \in Slots :
              \/ w[i] = Empty /\ (i > n \/ t[i].nip = 0)
              \/ /\ w[i].mac = t[i].mac
                 /\ w[i].nip = t[i].nip
                 /\ w[i].expires = IF t[i].expires < now THEN 0 ELSE t[i].expires - now
  BY <1>1 DEF Table, Entries
<1>3. \A i \in Slots : w[i] \in Entries
  <2> TAKE i \in Slots
  <2>1. t[i] \in Entries /\ t[i].expires \in Nat
    BY DEF Table, Entries
  <2>2. CASE i > n \/ t[i].nip = 0
    BY <1>1, <2>2, EmptyTable
  <2>3. CASE ~ (i > n \/ t[i].nip = 0)
    <3>1. w[i] = [t[i] EXCEPT !.expires = IF t[i].expires < now THEN 0 ELSE t[i].expires - now]
      BY <1>1, <2>3
    <3>2. (IF t[i].expires < now THEN 0 ELSE t[i].expires - now) \in Nat
      BY <2>1
    <3> QED
      BY <2>1, <3>1, <3>2 DEF Entries
  <2> QED
    BY <2>2, <2>3
<1>4. w \in [Slots -> Entries]
  BY <1>1, <1>3
<1>5. OneEntry(t) => OneEntry(w)
  BY <1>2 DEF OneEntry, Empty
<1> QED
  BY <1>1, <1>2, <1>4, <1>5 DEF w

-----------------------------------------------------------------------------
(* The sockets. *)

LEMMA QueueFacts ==
  ASSUME NEW S, NEW q \in Seq(S)
  PROVE  /\ Len(q) \in Nat /\ DOMAIN q = 1..Len(q) /\ q \in [1..Len(q) -> S]
         /\ (q = << >>) <=> (Len(q) = 0)
         /\ \A i \in 1..Len(q) : q[i] \in S
  BY LenProperties, EmptySeq

LEMMA PutFacts ==
  ASSUME NEW S, NEW q \in Seq(S), NEW m \in S
  PROVE  /\ Put(q, m) \in Seq(S)
         /\ \/ Put(q, m) = q
            \/ /\ Len(Put(q, m)) = Len(q) + 1
               /\ Put(q, m)[Len(q) + 1] = m
               /\ \A i \in 1..Len(q) : Put(q, m)[i] = q[i]
  BY AppendProperties DEF Put

LEMMA TakeFacts ==
  ASSUME NEW S, NEW q \in Seq(S), q # << >>
  PROVE  /\ Head(q) \in S /\ Head(q) = q[1] /\ Len(q) >= 1
         /\ Tail(q) \in Seq(S)
         /\ Len(Tail(q)) = Len(q) - 1
         /\ \A i \in 1..Len(q) - 1 : Tail(q)[i] = q[i + 1]
  BY HeadTailProperties, QueueFacts

(* A new round of packets leaves the others as they are, but not current.  *)
LEMMA AgedFacts ==
  ASSUME NEW S \in {Requests, Replies}, NEW q \in Seq(S)
  PROVE  /\ Aged(q) \in Seq(S)
         /\ Len(Aged(q)) = Len(q)
         /\ \A i \in 1..Len(q) : /\ Aged(q)[i].type = q[i].type
                                 /\ ~ Aged(q)[i].cur
<1>1. Len(q) \in Nat /\ DOMAIN q = 1..Len(q) /\ q \in [1..Len(q) -> S]
  BY QueueFacts
<1>2. Aged(q) = [i \in 1..Len(q) |-> [q[i] EXCEPT !.cur = FALSE]]
  BY <1>1 DEF Aged
<1>3. \A i \in 1..Len(q) : /\ Aged(q)[i] \in S
                           /\ Aged(q)[i].type = q[i].type /\ ~ Aged(q)[i].cur
  <2> TAKE i \in 1..Len(q)
  <2>1. Aged(q)[i] = [q[i] EXCEPT !.cur = FALSE] /\ q[i] \in S
    BY <1>1, <1>2
  <2>2. CASE S = Requests
    BY <2>1, <2>2 DEF Requests
  <2>3. CASE S = Replies
    BY <2>1, <2>3 DEF Replies
  <2> QED
    BY <2>2, <2>3
<1>4. Aged(q) \in [1..Len(q) -> S]
  BY <1>2, <1>3
<1>5. Seq(S) = UNION {[1..n -> S] : n \in Nat}
  BY SeqDef
<1>6. Aged(q) \in Seq(S)
  BY <1>1, <1>4, <1>5
<1>7. DOMAIN Aged(q) = 1..Len(q) /\ DOMAIN Aged(q) = 1..Len(Aged(q)) /\ Len(Aged(q)) \in Nat
  BY <1>2, <1>6, QueueFacts
<1>8. Len(Aged(q)) = Len(q)
  BY <1>1, <1>7
<1> QED
  BY <1>3, <1>6, <1>8

(* What a client does to the packets it has sent: they stay, perhaps with  *)
(* their xid outdated, and at most one is put behind them.                 *)
Sends(q, r) ==
  \E b \in {q, Aged(q)} : r = b \/ \E m \in Requests : r = Put(b, m)

LEMMA SendsFacts ==
  ASSUME NEW q \in Seq(Requests), NEW r, Sends(q, r)
  PROVE  /\ r \in Seq(Requests)
         /\ q # << >> => r # << >> /\ Head(r).type = Head(q).type
<1>1. PICK b \in {q, Aged(q)} : r = b \/ \E m \in Requests : r = Put(b, m)
  BY DEF Sends
<1>2. /\ b \in Seq(Requests) /\ Len(b) = Len(q)
      /\ \A i \in 1..Len(q) : b[i].type = q[i].type
  <2>1. Requests \in {Requests, Replies}
    OBVIOUS
  <2>2. /\ Aged(q) \in Seq(Requests) /\ Len(Aged(q)) = Len(q)
        /\ \A i \in 1..Len(q) : Aged(q)[i].type = q[i].type
    BY <2>1, AgedFacts
  <2> QED
    BY <1>1, <2>2
<1>3. /\ r \in Seq(Requests)
      /\ r = b \/ (Len(r) = Len(b) + 1 /\ \A i \in 1..Len(b) : r[i] = b[i])
  <2>0. b \in Seq(Requests)
    BY <1>2
  <2>1. ASSUME NEW m \in Requests, r = Put(b, m)
        PROVE  /\ r \in Seq(Requests)
               /\ r = b \/ (Len(r) = Len(b) + 1 /\ \A i \in 1..Len(b) : r[i] = b[i])
    <3>1. /\ Put(b, m) \in Seq(Requests)
          /\ \/ Put(b, m) = b
             \/ /\ Len(Put(b, m)) = Len(b) + 1
                /\ \A i \in 1..Len(b) : Put(b, m)[i] = b[i]
      BY <2>0, PutFacts
    <3> QED
      BY <2>1, <3>1
  <2> QED
    BY <1>1, <1>2, <2>1
<1>4. ASSUME q # << >>
      PROVE  r # << >> /\ Head(r).type = Head(q).type
  <2>1. Len(q) \in Nat /\ Len(q) # 0 /\ 1 \in 1..Len(q) /\ Head(q) = q[1]
    BY <1>4, QueueFacts, TakeFacts
  <2>2. Len(r) \in Nat /\ Len(r) # 0 /\ r[1] = b[1]
    BY <1>2, <1>3, <2>1, QueueFacts
  <2>3. r # << >> /\ Head(r) = r[1]
    BY <1>3, <2>2, QueueFacts, TakeFacts
  <2> QED
    BY <1>2, <2>1, <2>2, <2>3
<1> QED
  BY <1>3, <1>4

-----------------------------------------------------------------------------
(* Types: the client's steps. *)

ClientType ==
  /\ st \in [Macs -> States] /\ ip \in [Macs -> 0..NumIps]
  /\ num \in [Macs -> Nat] /\ timeout \in [Macs -> Nat] /\ waited \in [Macs -> Nat]
  /\ conf \in [Macs -> 0..NumIps]
NetType == toServer \in [Macs -> Seq(Requests)] /\ toClient \in [Macs -> Seq(Replies)]

(* A step of client c: the other clients and their sockets stay as they    *)
(* are, and so does what c has sent.                                       *)
OnlyOf(c) ==
  /\ \A d \in Macs \ {c} :
       /\ st'[d] = st[d] /\ ip'[d] = ip[d] /\ conf'[d] = conf[d]
       /\ num'[d] = num[d] /\ timeout'[d] = timeout[d] /\ waited'[d] = waited[d]
       /\ toServer'[d] = toServer[d] /\ toClient'[d] = toClient[d]
  /\ Sends(toServer[c], toServer'[c])

ClientOK(c) ==
  ClientType' /\ NetType' /\ events' \in 0..MaxEvents /\ OnlyOf(c)

LEMMA EventFacts ==
  ASSUME NEW e, Happens(e), events \in 0..MaxEvents
  PROVE  events' \in 0..MaxEvents
  BY UdhcpcAssumption DEF UdhcpcAssumption, Happens

LEMMA TimerFacts ==
  ASSUME ClientType, NEW c \in Macs, NEW n \in Nat, NEW t \in Nat, Timer(c, n, t)
  PROVE  /\ num' \in [Macs -> Nat] /\ timeout' \in [Macs -> Nat] /\ waited' \in [Macs -> Nat]
         /\ num'[c] = n /\ timeout'[c] = t /\ waited'[c] = 0
         /\ \A d \in Macs \ {c} :
              num'[d] = num[d] /\ timeout'[d] = timeout[d] /\ waited'[d] = waited[d]
  BY DEF ClientType, Timer

LEMMA GoToFacts ==
  ASSUME ClientType, NEW c \in Macs, NEW s \in States, GoTo(c, s)
  PROVE  /\ st' \in [Macs -> States] /\ st'[c] = s
         /\ \A d \in Macs \ {c} : st'[d] = st[d]
  BY DEF ClientType, GoTo

LEMMA DeconfigFacts ==
  ASSUME ClientType, NEW c \in Macs, Deconfig(c)
  PROVE  /\ conf' \in [Macs -> 0..NumIps] /\ conf'[c] = 0
         /\ \A d \in Macs \ {c} : conf'[d] = conf[d]
  BY UdhcpcAssumption DEF ClientType, Deconfig, UdhcpcAssumption

(* One packet to the server.                                               *)
LEMMA ToServerFacts ==
  ASSUME NetType, NEW c \in Macs, NEW type \in {"DISCOVER", "REQUEST", "DECLINE", "RELEASE"},
         NEW sid \in BOOLEAN, NEW req \in 0..NumIps, NEW ci \in 0..NumIps,
         ToServer(c, type, sid, req, ci)
  PROVE  \E m \in Requests :
           /\ m.type = type /\ m.cur = (type \in {"DISCOVER", "REQUEST"})
           /\ toServer'[c] = Put(toServer[c], m)
           /\ toServer' \in [Macs -> Seq(Requests)]
           /\ \A d \in Macs \ {c} : toServer'[d] = toServer[d]
<1> DEFINE m == [type |-> type, sid |-> sid, req |-> req, ci |-> ci,
                 cur |-> type \in {"DISCOVER", "REQUEST"}]
<1>1. m \in Requests /\ m.type = type /\ m.cur = (type \in {"DISCOVER", "REQUEST"})
  BY DEF Requests
<1>2. toServer[c] \in Seq(Requests)
  BY DEF NetType
<1>3. toServer' = [toServer EXCEPT ![c] = Put(toServer[c], m)]
  BY DEF ToServer
<1> HIDE DEF m
<1>4. Put(toServer[c], m) \in Seq(Requests)
  BY <1>1, <1>2, PutFacts
<1>5. /\ toServer' \in [Macs -> Seq(Requests)] /\ toServer'[c] = Put(toServer[c], m)
      /\ \A d \in Macs \ {c} : toServer'[d] = toServer[d]
  BY <1>3, <1>4 DEF NetType
<1> QED
  BY <1>1, <1>5

(* What happens to the packets c has not read yet. *)
LEMMA ToClientFacts ==
  ASSUME NetType, NEW c \in Macs, NEW r \in Seq(Replies),
         toClient' = [toClient EXCEPT ![c] = r]
  PROVE  /\ toClient' \in [Macs -> Seq(Replies)] /\ toClient'[c] = r
         /\ \A d \in Macs \ {c} : toClient'[d] = toClient[d]
  BY DEF NetType

LEMMA ReopenFacts ==
  ASSUME NetType, NEW c \in Macs, Reopen(c)
  PROVE  /\ toClient' \in [Macs -> Seq(Replies)] /\ toClient'[c] = << >>
         /\ \A d \in Macs \ {c} : toClient'[d] = toClient[d]
<1>1. << >> \in Seq(Replies)
  BY EmptySeq
<1> QED
  BY <1>1, ToClientFacts DEF Reopen

LEMMA SameServer ==
  ASSUME NetType, NEW c \in Macs, UNCHANGED toServer
  PROVE  /\ toServer' \in [Macs -> Seq(Requests)]
         /\ Sends(toServer[c], toServer'[c])
         /\ \A d \in Macs \ {c} : toServer'[d] = toServer[d]
  BY DEF NetType, Sends

LEMMA MoreServer ==
  ASSUME NetType, NEW c \in Macs, NEW type \in {"DISCOVER", "REQUEST", "DECLINE", "RELEASE"},
         NEW sid \in BOOLEAN, NEW req \in 0..NumIps, NEW ci \in 0..NumIps,
         ToServer(c, type, sid, req, ci)
  PROVE  /\ toServer' \in [Macs -> Seq(Requests)]
         /\ Sends(toServer[c], toServer'[c])
         /\ \A d \in Macs \ {c} : toServer'[d] = toServer[d]
<1>1. PICK m \in Requests :
           /\ toServer'[c] = Put(toServer[c], m)
           /\ toServer' \in [Macs -> Seq(Requests)]
           /\ \A d \in Macs \ {c} : toServer'[d] = toServer[d]
  BY ToServerFacts
<1> QED
  BY <1>1 DEF Sends

(* What the steps of a client do to its state and to its sockets.  A new   *)
(* round, the request for the offered address, and the end of either:      *)
Discovered(c) ==
  /\ st[c] = "INIT_SELECTING" /\ st'[c] = st[c] /\ ip'[c] = ip[c] /\ conf'[c] = conf[c]
  /\ num'[c] = num[c] + 1
  /\ \E m \in Requests :
       /\ m.type = "DISCOVER"
       /\ \/ /\ num[c] = 0
             /\ toServer'[c] = Put(Aged(toServer[c]), m)
             /\ toClient'[c] = Aged(toClient[c])
          \/ /\ num[c] > 0
             /\ toServer'[c] = Put(toServer[c], m)
             /\ toClient'[c] = toClient[c]
Asked(c) ==
  /\ st[c] = "REQUESTING" /\ st'[c] = st[c] /\ ip'[c] = ip[c] /\ conf'[c] = conf[c]
  /\ num[c] < 3 /\ num'[c] = num[c] + 1 /\ timeout'[c] = Pause /\ waited'[c] = 0
  /\ \E m \in Requests : m.type = "REQUEST" /\ toServer'[c] = Put(toServer[c], m)
  /\ toClient'[c] = toClient[c]
Restarted(c) ==
  /\ st'[c] = "INIT_SELECTING" /\ num'[c] = 0
  /\ toServer'[c] = toServer[c]
  /\ toClient'[c] = << >> \/ (toClient'[c] = toClient[c] /\ st[c] \in {"INIT_SELECTING", "EXIT"})
  /\ conf'[c] = 0 \/ (conf'[c] = conf[c] /\ st[c] # "EXIT" /\ ~ HoldsLease(c))

(* A renewal or a rebinding when a wait of t is over; the farewells; the   *)
(* packets received.                                                       *)
Renewed(c, t) ==
  /\ st'[c] \in {"RENEWING", "REBINDING", "RENEW_REQUESTED"}
  /\ \E m \in Requests : m.type = "REQUEST" /\ toServer'[c] = Put(toServer[c], m)
  /\ timeout'[c] = t \div 2 /\ waited'[c] = 0
  /\ toClient'[c] = << >> \/ (st[c] # "BOUND" /\ toClient'[c] = toClient[c])
  /\ conf'[c] = conf[c]
Left(c) ==
  /\ st'[c] \in {"RELEASED", "EXIT"}
  /\ \/ toServer'[c] = toServer[c]
     \/ /\ HoldsLease(c)
        /\ \E m \in Requests : /\ m.type = "RELEASE" /\ ~ m.cur
                               /\ toServer'[c] = Put(toServer[c], m)
  /\ toClient'[c] = << >>
  /\ st'[c] # "EXIT" => conf'[c] = 0
Declined(c) ==
  /\ toClient[c] # << >> /\ Head(toClient[c]).type = "ACK" /\ Head(toClient[c]).cur
  /\ Listening(c) /\ st[c] # "INIT_SELECTING"
  /\ st'[c] = "INIT_SELECTING" /\ num'[c] = 0
  /\ \E m \in Requests : /\ m.type = "DECLINE" /\ ~ m.cur
                         /\ toServer'[c] = Put(toServer[c], m)
  /\ toClient'[c] = << >>
  /\ conf'[c] = 0 \/ (conf'[c] = conf[c] /\ st[c] = "REQUESTING")
Selected(c) ==
  /\ toClient[c] # << >> /\ Head(toClient[c]).type = "OFFER" /\ Head(toClient[c]).cur
  /\ st[c] = "INIT_SELECTING" /\ st'[c] = "REQUESTING"
  /\ ip'[c] = Head(toClient[c]).yi /\ conf'[c] = conf[c]
  /\ num'[c] = 0 /\ timeout'[c] = 0 /\ waited'[c] = 0
  /\ toServer'[c] = toServer[c] /\ toClient'[c] = Tail(toClient[c])
Ignored(c) ==
  /\ toClient[c] # << >> /\ toClient'[c] = Tail(toClient[c])
  /\ UNCHANGED <<clientVars, toServer>>
NowBound(c) ==
  /\ toClient[c] # << >> /\ Head(toClient[c]).type = "ACK" /\ Head(toClient[c]).cur
  /\ Listening(c) /\ st[c] # "INIT_SELECTING"
  /\ st'[c] = "BOUND" /\ conf'[c] = Head(toClient[c]).yi
  /\ timeout'[c] = LeaseSeconds \div 2 /\ waited'[c] = 0
  /\ toServer'[c] = toServer[c] /\ toClient'[c] = << >>

ClientEffect(c) ==
  \/ Discovered(c) \/ Asked(c) \/ Restarted(c)
  \/ HoldsLease(c) /\ \E t \in 0..timeout[c] : Renewed(c, t)
  \/ Left(c) \/ Declined(c) \/ Selected(c) \/ Ignored(c) \/ NowBound(c)

LEMMA DiscoverTypes ==
  ASSUME ClientType, NetType, events \in 0..MaxEvents, NEW c \in Macs, SendDiscover(c)
  PROVE  ClientOK(c) /\ Discovered(c)
<1> DEFINE m == [type |-> "DISCOVER", sid |-> FALSE, req |-> ip[c], ci |-> 0, cur |-> TRUE]
           b == IF num[c] = 0 THEN Aged(toServer[c]) ELSE toServer[c]
           r == IF num[c] = 0 THEN Aged(toClient[c]) ELSE toClient[c]
<1>1. m \in Requests
  BY UdhcpcAssumption DEF ClientType, Requests, UdhcpcAssumption
<1>2. toServer[c] \in Seq(Requests) /\ toClient[c] \in Seq(Replies)
  BY DEF NetType
<1>3. /\ toServer' = [toServer EXCEPT ![c] = Put(b, m)]
      /\ toClient' = [toClient EXCEPT ![c] = r]
  BY DEF SendDiscover
<1>4. r \in Seq(Replies) /\ b \in {toServer[c], Aged(toServer[c])}
  BY <1>2, AgedFacts
<1> HIDE DEF m, b, r
<1>5. Sends(toServer[c], Put(b, m))
  BY <1>1, <1>4 DEF Sends
<1>6. Put(b, m) \in Seq(Requests)
  BY <1>2, <1>5, SendsFacts
<1>7. /\ toServer' \in [Macs -> Seq(Requests)] /\ toServer'[c] = Put(b, m)
      /\ \A d \in Macs \ {c} : toServer'[d] = toServer[d]
  BY <1>3, <1>6 DEF NetType
<1>8. /\ toClient' \in [Macs -> Seq(Replies)]
      /\ \A d \in Macs \ {c} : toClient'[d] = toClient[d]
  BY <1>3, <1>4, ToClientFacts
<1>9. /\ num' \in [Macs -> Nat] /\ timeout' \in [Macs -> Nat] /\ waited' \in [Macs -> Nat]
      /\ \A d \in Macs \ {c} :
            num'[d] = num[d] /\ timeout'[d] = timeout[d] /\ waited'[d] = waited[d]
  <2>1. num[c] + 1 \in Nat /\ Pause \in Nat /\ Timer(c, num[c] + 1, Pause)
    BY UdhcpcAssumption DEF SendDiscover, ClientType, UdhcpcAssumption
  <2> QED
    BY <2>1, TimerFacts
<1>10. UNCHANGED <<st, ip, conf, events>>
  BY DEF SendDiscover
<1>11. ClientOK(c)
  BY <1>5, <1>7, <1>8, <1>9, <1>10 DEF ClientOK, ClientType, NetType, OnlyOf
<1>12. m.type = "DISCOVER"
  BY DEF m
<1>13. num[c] \in Nat /\ num'[c] = num[c] + 1 /\ st[c] = "INIT_SELECTING"
  BY DEF SendDiscover, Timer, ClientType
<1>14. toClient'[c] = r
  BY <1>3, <1>4, ToClientFacts
<1>15. Discovered(c)
  BY <1>1, <1>7, <1>10, <1>12, <1>13, <1>14 DEF Discovered, b, r
<1> QED
  BY <1>11, <1>15

LEMMA WaitTypes ==
  ASSUME ClientType, NetType, events \in 0..MaxEvents, NEW c \in Macs,
         LeaseFail(c) \/ SendSelect(c)
  PROVE  ClientOK(c) /\ (Restarted(c) \/ Asked(c))
<1>1. CASE LeaseFail(c)
  <2>1. /\ toClient' \in [Macs -> Seq(Replies)]
        /\ toClient'[c] = << >> \/ (toClient'[c] = toClient[c] /\ st[c] = "INIT_SELECTING")
        /\ \A d \in Macs \ {c} : toClient'[d] = toClient[d]
    BY <1>1, ReopenFacts DEF LeaseFail, NetType
  <2>2. /\ st' \in [Macs -> States] /\ st'[c] = "INIT_SELECTING"
        /\ \A d \in Macs \ {c} : st'[d] = st[d]
    BY <1>1, GoToFacts DEF LeaseFail, States
  <2>3. TryAgain \in Nat /\ 0 \in Nat /\ Timer(c, 0, TryAgain)
    BY <1>1, UdhcpcAssumption DEF LeaseFail, UdhcpcAssumption
  <2>4. /\ num' \in [Macs -> Nat] /\ timeout' \in [Macs -> Nat] /\ waited' \in [Macs -> Nat]
        /\ num'[c] = 0
        /\ \A d \in Macs \ {c} :
             num'[d] = num[d] /\ timeout'[d] = timeout[d] /\ waited'[d] = waited[d]
    BY <2>3, TimerFacts
  <2>5. UNCHANGED <<ip, conf, toServer, events>>
    BY <1>1 DEF LeaseFail
  <2>6. ClientOK(c)
    BY <2>1, <2>2, <2>4, <2>5, SameServer DEF ClientOK, ClientType, NetType, OnlyOf
  <2>7. st[c] \in {"INIT_SELECTING", "REQUESTING"}
    BY <1>1 DEF LeaseFail
  <2>8. Restarted(c)
    BY <2>1, <2>2, <2>4, <2>5, <2>7 DEF Restarted, HoldsLease
  <2> QED
    BY <2>6, <2>8
<1>2. CASE SendSelect(c)
  <2>1. ip[c] \in 0..NumIps /\ 0 \in 0..NumIps
    BY UdhcpcAssumption DEF ClientType, UdhcpcAssumption
  <2>2. PICK m \in Requests :
           /\ m.type = "REQUEST"
           /\ toServer'[c] = Put(toServer[c], m)
           /\ toServer' \in [Macs -> Seq(Requests)]
           /\ \A d \in Macs \ {c} : toServer'[d] = toServer[d]
    BY <1>2, <2>1, ToServerFacts DEF SendSelect
  <2>3. num[c] + 1 \in Nat /\ Pause \in Nat /\ Timer(c, num[c] + 1, Pause)
    BY <1>2, UdhcpcAssumption DEF SendSelect, ClientType, UdhcpcAssumption
  <2>4. /\ num' \in [Macs -> Nat] /\ timeout' \in [Macs -> Nat] /\ waited' \in [Macs -> Nat]
        /\ num'[c] = num[c] + 1 /\ timeout'[c] = Pause /\ waited'[c] = 0
        /\ \A d \in Macs \ {c} :
             num'[d] = num[d] /\ timeout'[d] = timeout[d] /\ waited'[d] = waited[d]
    BY <2>3, TimerFacts
  <2>5. UNCHANGED <<st, ip, conf, toClient, events>>
    BY <1>2 DEF SendSelect
  <2>6. Sends(toServer[c], toServer'[c])
    BY <2>2 DEF Sends
  <2>7. ClientOK(c)
    BY <2>2, <2>4, <2>5, <2>6 DEF ClientOK, ClientType, NetType, OnlyOf
  <2>8. Asked(c)
    BY <1>2, <2>2, <2>4, <2>5 DEF Asked, SendSelect
  <2> QED
    BY <2>7, <2>8
<1> QED
  BY <1>1, <1>2

LEMMA HalfFacts ==
  ASSUME NEW t \in Nat
  PROVE  t \div 2 \in Nat /\ 2 * (t \div 2) <= t /\ t \div 2 <= t
  OBVIOUS

LEMMA RebindFacts ==
  ASSUME ClientType, NetType, NEW c \in Macs, NEW t \in Nat,
         Rebind(c, t), Reopen(c), UNCHANGED ip
  PROVE  ClientType' /\ NetType' /\ OnlyOf(c) /\ (Renewed(c, t) \/ Restarted(c))
<1>0. /\ toClient' \in [Macs -> Seq(Replies)] /\ toClient'[c] = << >>
      /\ \A d \in Macs \ {c} : toClient'[d] = toClient[d]
  BY ReopenFacts
<1>1. CASE /\ GoTo(c, "REBINDING")
           /\ ToServer(c, "REQUEST", FALSE, 0, ip[c])
           /\ Timer(c, num[c], t \div 2)
           /\ UNCHANGED conf
  <2>1. ip[c] \in 0..NumIps /\ 0 \in 0..NumIps /\ num[c] \in Nat /\ t \div 2 \in Nat
    BY HalfFacts, UdhcpcAssumption DEF ClientType, UdhcpcAssumption
  <2>2. PICK m \in Requests :
           /\ m.type = "REQUEST"
           /\ toServer'[c] = Put(toServer[c], m)
           /\ toServer' \in [Macs -> Seq(Requests)]
           /\ \A d \in Macs \ {c} : toServer'[d] = toServer[d]
    BY <1>1, <2>1, ToServerFacts
  <2>3. /\ num' \in [Macs -> Nat] /\ timeout' \in [Macs -> Nat] /\ waited' \in [Macs -> Nat]
        /\ timeout'[c] = t \div 2 /\ waited'[c] = 0
        /\ \A d \in Macs \ {c} :
             num'[d] = num[d] /\ timeout'[d] = timeout[d] /\ waited'[d] = waited[d]
    BY <1>1, <2>1, TimerFacts
  <2>4. /\ st' \in [Macs -> States] /\ st'[c] = "REBINDING"
        /\ \A d \in Macs \ {c} : st'[d] = st[d]
    BY <1>1, GoToFacts DEF States
  <2>5. Sends(toServer[c], toServer'[c])
    BY <2>2 DEF Sends
  <2>6. ClientType' /\ NetType' /\ OnlyOf(c)
    BY <1>0, <1>1, <2>2, <2>3, <2>4, <2>5 DEF ClientType, NetType, OnlyOf
  <2>7. Renewed(c, t)
    BY <1>0, <1>1, <2>2, <2>3, <2>4 DEF Renewed
  <2> QED
    BY <2>6, <2>7
<1>2. CASE /\ GoTo(c, "INIT_SELECTING") /\ Deconfig(c)
           /\ Timer(c, 0, 0)
           /\ UNCHANGED toServer
  <2>3. /\ num' \in [Macs -> Nat] /\ timeout' \in [Macs -> Nat] /\ waited' \in [Macs -> Nat]
        /\ num'[c] = 0
        /\ \A d \in Macs \ {c} :
             num'[d] = num[d] /\ timeout'[d] = timeout[d] /\ waited'[d] = waited[d]
    BY <1>2, TimerFacts
  <2>4. /\ st' \in [Macs -> States] /\ st'[c] = "INIT_SELECTING"
        /\ \A d \in Macs \ {c} : st'[d] = st[d]
    BY <1>2, GoToFacts DEF States
  <2>5. /\ conf' \in [Macs -> 0..NumIps] /\ conf'[c] = 0
        /\ \A d \in Macs \ {c} : conf'[d] = conf[d]
    BY <1>2, DeconfigFacts
  <2>6. ClientType' /\ NetType' /\ OnlyOf(c)
    BY <1>0, <1>2, <2>3, <2>4, <2>5, SameServer DEF ClientType, NetType, OnlyOf
  <2>7. Restarted(c)
    BY <1>0, <1>2, <2>3, <2>4, <2>5 DEF Restarted
  <2> QED
    BY <2>6, <2>7
<1> QED
  BY <1>1, <1>2 DEF Rebind

LEMMA RenewFacts ==
  ASSUME ClientType, NetType, NEW c \in Macs, NEW t \in 0..timeout[c], HoldsLease(c),
         NEW s \in {"RENEWING", "REBINDING", "RENEW_REQUESTED"},
         SendRenew(c, s, t), UNCHANGED ip
  PROVE  ClientType' /\ NetType' /\ OnlyOf(c) /\ (Renewed(c, t) \/ Restarted(c))
<1>1. t \in Nat
  BY DEF ClientType
<1>2. CASE Rebind(c, t) /\ Reopen(c)
  BY <1>1, <1>2, RebindFacts
<1>3. CASE /\ GoTo(c, s)
           /\ ToServer(c, "REQUEST", FALSE, 0, ip[c])
           /\ Timer(c, num[c], t \div 2)
           /\ IF st[c] = "BOUND" THEN Reopen(c) ELSE UNCHANGED toClient
           /\ UNCHANGED conf
  <2>1. ip[c] \in 0..NumIps /\ 0 \in 0..NumIps /\ num[c] \in Nat /\ t \div 2 \in Nat
    BY <1>1, HalfFacts, UdhcpcAssumption DEF ClientType, UdhcpcAssumption
  <2>2. PICK m \in Requests :
           /\ m.type = "REQUEST"
           /\ toServer'[c] = Put(toServer[c], m)
           /\ toServer' \in [Macs -> Seq(Requests)]
           /\ \A d \in Macs \ {c} : toServer'[d] = toServer[d]
    BY <1>3, <2>1, ToServerFacts
  <2>3. /\ num' \in [Macs -> Nat] /\ timeout' \in [Macs -> Nat] /\ waited' \in [Macs -> Nat]
        /\ timeout'[c] = t \div 2 /\ waited'[c] = 0
        /\ \A d \in Macs \ {c} :
             num'[d] = num[d] /\ timeout'[d] = timeout[d] /\ waited'[d] = waited[d]
    BY <1>3, <2>1, TimerFacts
  <2>4. /\ st' \in [Macs -> States] /\ st'[c] = s
        /\ \A d \in Macs \ {c} : st'[d] = st[d]
    BY <1>3, GoToFacts DEF States
  <2>5. /\ toClient' \in [Macs -> Seq(Replies)]
        /\ toClient'[c] = << >> \/ (st[c] # "BOUND" /\ toClient'[c] = toClient[c])
        /\ \A d \in Macs \ {c} : toClient'[d] = toClient[d]
    BY <1>3, ReopenFacts DEF NetType
  <2>6. Sends(toServer[c], toServer'[c])
    BY <2>2 DEF Sends
  <2>7. ClientType' /\ NetType' /\ OnlyOf(c)
    BY <1>3, <2>2, <2>3, <2>4, <2>5, <2>6 DEF ClientType, NetType, OnlyOf
  <2>8. Renewed(c, t)
    BY <1>3, <2>2, <2>3, <2>4, <2>5 DEF Renewed
  <2> QED
    BY <2>7, <2>8
<1> QED
  BY <1>2, <1>3 DEF SendRenew

LEMMA TimeoutTypes ==
  ASSUME ClientType, NetType, events \in 0..MaxEvents, NEW c \in Macs,
         RenewTimeout(c) \/ RebindTimeout(c)
  PROVE  ClientOK(c) /\ ClientEffect(c)
<1>1. HoldsLease(c) /\ timeout[c] \in Nat /\ timeout[c] \in 0..timeout[c]
  BY DEF RenewTimeout, RebindTimeout, HoldsLease, ClientType
<1>2. UNCHANGED <<ip, events>>
  BY DEF RenewTimeout, RebindTimeout
<1>3. CASE RenewTimeout(c)
  <2> DEFINE s == IF st[c] = "BOUND" THEN "RENEWING" ELSE st[c]
  <2>1. s \in {"RENEWING", "REBINDING", "RENEW_REQUESTED"} /\ SendRenew(c, s, timeout[c])
    BY <1>3 DEF RenewTimeout
  <2> HIDE DEF s
  <2>2. ClientType' /\ NetType' /\ OnlyOf(c) /\ (Renewed(c, timeout[c]) \/ Restarted(c))
    BY <1>1, <1>2, <2>1, RenewFacts
  <2> QED
    BY <1>1, <1>2, <2>2 DEF ClientOK, ClientEffect
<1>4. CASE RebindTimeout(c)
  <2>1. ClientType' /\ NetType' /\ OnlyOf(c) /\ (Renewed(c, timeout[c]) \/ Restarted(c))
    BY <1>1, <1>2, <1>4, RebindFacts DEF RebindTimeout
  <2> QED
    BY <1>1, <1>2, <2>1 DEF ClientOK, ClientEffect
<1> QED
  BY <1>3, <1>4

LEMMA Usr1Types ==
  ASSUME ClientType, NetType, events \in 0..MaxEvents, NEW c \in Macs, Usr1(c)
  PROVE  ClientOK(c) /\ ClientEffect(c)
<1>1. events' \in 0..MaxEvents /\ UNCHANGED ip
  BY EventFacts DEF Usr1
<1>2. CASE /\ st[c] \in {"BOUND", "RENEWING", "REBINDING"}
           /\ SendRenew(c, "RENEW_REQUESTED", Min2(timeout[c], RenewMin))
  <2>1. Min2(timeout[c], RenewMin) \in 0..timeout[c]
    BY UdhcpcAssumption DEF ClientType, Min2, UdhcpcAssumption
  <2>2. HoldsLease(c)
    BY <1>2 DEF HoldsLease
  <2>3. PICK t \in 0..timeout[c] : SendRenew(c, "RENEW_REQUESTED", t)
    BY <1>2, <2>1
  <2>4. ClientType' /\ NetType' /\ OnlyOf(c) /\ (Renewed(c, t) \/ Restarted(c))
    BY <1>1, <2>2, <2>3, RenewFacts
  <2> QED
    BY <1>1, <2>2, <2>4 DEF ClientOK, ClientEffect
<1>3. CASE /\ st[c] \in {"RENEW_REQUESTED", "REQUESTING", "RELEASED", "INIT_SELECTING"}
           /\ GoTo(c, "INIT_SELECTING")
           /\ Timer(c, 0, 0)
           /\ IF st[c] = "RENEW_REQUESTED" THEN Deconfig(c) ELSE UNCHANGED conf
           /\ IF st[c] = "INIT_SELECTING" THEN UNCHANGED toClient ELSE Reopen(c)
           /\ UNCHANGED toServer
  <2>1. /\ toClient' \in [Macs -> Seq(Replies)]
        /\ toClient'[c] = << >> \/ (toClient'[c] = toClient[c] /\ st[c] = "INIT_SELECTING")
        /\ \A d \in Macs \ {c} : toClient'[d] = toClient[d]
    BY <1>3, ReopenFacts DEF NetType
  <2>2. /\ st' \in [Macs -> States] /\ st'[c] = "INIT_SELECTING"
        /\ \A d \in Macs \ {c} : st'[d] = st[d]
    BY <1>3, GoToFacts DEF States
  <2>3. /\ num' \in [Macs -> Nat] /\ timeout' \in [Macs -> Nat] /\ waited' \in [Macs -> Nat]
        /\ num'[c] = 0
        /\ \A d \in Macs \ {c} :
             num'[d] = num[d] /\ timeout'[d] = timeout[d] /\ waited'[d] = waited[d]
    BY <1>3, TimerFacts
  <2>4. /\ conf' \in [Macs -> 0..NumIps]
        /\ conf'[c] = 0 \/ (conf'[c] = conf[c] /\ st[c] # "RENEW_REQUESTED")
        /\ \A d \in Macs \ {c} : conf'[d] = conf[d]
    BY <1>3, DeconfigFacts DEF ClientType
  <2>5. ClientOK(c)
    BY <1>1, <1>3, <2>1, <2>2, <2>3, <2>4, SameServer DEF ClientOK, ClientType, NetType, OnlyOf
  <2>6. Restarted(c)
    BY <1>3, <2>1, <2>2, <2>3, <2>4 DEF Restarted, HoldsLease
  <2> QED
    BY <2>5, <2>6 DEF ClientEffect
<1> QED
  BY <1>2, <1>3 DEF Usr1

(* perform_release: a RELEASE if there is a lease, and no address any more. *)
LEMMA ReleaseFacts ==
  ASSUME ClientType, NetType, NEW c \in Macs, PerformRelease(c)
  PROVE  /\ NetType'
         /\ \A d \in Macs \ {c} : toServer'[d] = toServer[d] /\ toClient'[d] = toClient[d]
         /\ Sends(toServer[c], toServer'[c])
         /\ \/ toServer'[c] = toServer[c]
            \/ /\ HoldsLease(c)
               /\ \E m \in Requests : /\ m.type = "RELEASE" /\ ~ m.cur
                                      /\ toServer'[c] = Put(toServer[c], m)
         /\ toClient'[c] = << >>
         /\ conf' \in [Macs -> 0..NumIps] /\ conf'[c] = 0
         /\ \A d \in Macs \ {c} : conf'[d] = conf[d]
<1>1. /\ toClient' \in [Macs -> Seq(Replies)] /\ toClient'[c] = << >>
      /\ \A d \in Macs \ {c} : toClient'[d] = toClient[d]
  BY ReopenFacts DEF PerformRelease
<1>2. /\ conf' \in [Macs -> 0..NumIps] /\ conf'[c] = 0
      /\ \A d \in Macs \ {c} : conf'[d] = conf[d]
  BY DeconfigFacts DEF PerformRelease
<1>3. CASE HoldsLease(c)
  <2>0. ToServer(c, "RELEASE", TRUE, 0, ip[c])
    BY <1>3 DEF PerformRelease
  <2>1. ip[c] \in 0..NumIps /\ 0 \in 0..NumIps
    BY UdhcpcAssumption DEF ClientType, UdhcpcAssumption
  <2>2. PICK m \in Requests :
           /\ m.type = "RELEASE" /\ m.cur = ("RELEASE" \in {"DISCOVER", "REQUEST"})
           /\ toServer'[c] = Put(toServer[c], m)
           /\ toServer' \in [Macs -> Seq(Requests)]
           /\ \A d \in Macs \ {c} : toServer'[d] = toServer[d]
    BY <2>0, <2>1, ToServerFacts
  <2>3. Sends(toServer[c], toServer'[c])
    BY <2>2 DEF Sends
  <2>4. ~ m.cur
    BY <2>2
  <2> QED
    BY <1>1, <1>2, <1>3, <2>2, <2>3, <2>4 DEF NetType
<1>4. CASE ~ HoldsLease(c)
  BY <1>1, <1>2, <1>4, SameServer DEF NetType, PerformRelease
<1> QED
  BY <1>3, <1>4

LEMMA LeaveTypes ==
  ASSUME ClientType, NetType, events \in 0..MaxEvents, NEW c \in Macs,
         Usr2(c) \/ Term(c)
  PROVE  ClientOK(c) /\ ClientEffect(c)
<1>0. Forever \in Nat /\ 0 \in Nat /\ 0 \in 0..NumIps
  BY UdhcpcAssumption DEF Forever, UdhcpcAssumption
<1>1. events' \in 0..MaxEvents
  BY EventFacts DEF Usr2, Term
<1>2. CASE Usr2(c)
  <2>1. /\ st' \in [Macs -> States] /\ st'[c] = "RELEASED"
        /\ \A d \in Macs \ {c} : st'[d] = st[d]
    BY <1>2, GoToFacts DEF Usr2, States
  <2>2. /\ timeout' \in [Macs -> Nat]
        /\ \A d \in Macs \ {c} : timeout'[d] = timeout[d]
        /\ UNCHANGED <<ip, num, waited>>
    BY <1>0, <1>2 DEF Usr2, ClientType
  <2>3. PerformRelease(c)
    BY <1>2 DEF Usr2
  <2>4. ClientOK(c)
    BY <1>1, <2>1, <2>2, <2>3, ReleaseFacts DEF ClientOK, ClientType, OnlyOf
  <2>5. Left(c)
    BY <2>1, <2>3, ReleaseFacts DEF Left
  <2> QED
    BY <2>4, <2>5 DEF ClientEffect
<1>3. CASE Term(c)
  <2>1. /\ st' \in [Macs -> States] /\ st'[c] = "EXIT"
        /\ \A d \in Macs \ {c} : st'[d] = st[d]
    BY <1>3, GoToFacts DEF Term, States
  <2>2. /\ num' \in [Macs -> Nat] /\ timeout' \in [Macs -> Nat] /\ waited' \in [Macs -> Nat]
        /\ \A d \in Macs \ {c} :
             num'[d] = num[d] /\ timeout'[d] = timeout[d] /\ waited'[d] = waited[d]
    BY <1>0, <1>3, TimerFacts DEF Term
  <2>3. /\ ip' \in [Macs -> 0..NumIps]
        /\ \A d \in Macs \ {c} : ip'[d] = ip[d]
    BY <1>0, <1>3 DEF Term, ClientType
  <2>4. CASE PerformRelease(c)
    <3>1. ClientOK(c)
      BY <1>1, <2>1, <2>2, <2>3, <2>4, ReleaseFacts DEF ClientOK, ClientType, OnlyOf
    <3>2. Left(c)
      BY <2>1, <2>4, ReleaseFacts DEF Left
    <3> QED
      BY <3>1, <3>2 DEF ClientEffect
  <2>5. CASE Reopen(c) /\ UNCHANGED <<conf, toServer>>
    <3>1. ClientOK(c)
      BY <1>1, <2>1, <2>2, <2>3, <2>5, ReopenFacts, SameServer
      DEF ClientOK, ClientType, NetType, OnlyOf
    <3>2. Left(c)
      BY <2>1, <2>5, ReopenFacts DEF Left
    <3> QED
      BY <3>1, <3>2 DEF ClientEffect
  <2> QED
    BY <1>3, <2>4, <2>5 DEF Term
<1> QED
  BY <1>2, <1>3

LEMMA StartTypes ==
  ASSUME ClientType, NetType, events \in 0..MaxEvents, NEW c \in Macs, Start(c)
  PROVE  ClientOK(c) /\ ClientEffect(c)
<1>1. PICK r \in Ask : ip' = [ip EXCEPT ![c] = r]
  BY DEF Start
<1>2. /\ ip' \in [Macs -> 0..NumIps]
      /\ \A d \in Macs \ {c} : ip'[d] = ip[d]
  BY <1>1, UdhcpcAssumption DEF ClientType, UdhcpcAssumption
<1>3. /\ st' \in [Macs -> States] /\ st'[c] = "INIT_SELECTING"
      /\ \A d \in Macs \ {c} : st'[d] = st[d]
  BY GoToFacts DEF Start, States
<1>4. /\ conf' \in [Macs -> 0..NumIps] /\ conf'[c] = 0
      /\ \A d \in Macs \ {c} : conf'[d] = conf[d]
  BY DeconfigFacts DEF Start
<1>5. /\ num' \in [Macs -> Nat] /\ timeout' \in [Macs -> Nat] /\ waited' \in [Macs -> Nat]
      /\ num'[c] = 0
      /\ \A d \in Macs \ {c} :
           num'[d] = num[d] /\ timeout'[d] = timeout[d] /\ waited'[d] = waited[d]
  BY TimerFacts DEF Start
<1>6. UNCHANGED <<toServer, toClient, events>> /\ st[c] = "EXIT"
  BY DEF Start, netVars
<1>7. ClientOK(c)
  BY <1>2, <1>3, <1>4, <1>5, <1>6, SameServer DEF ClientOK, ClientType, NetType, OnlyOf
<1>8. Restarted(c)
  BY <1>3, <1>4, <1>5, <1>6 DEF Restarted
<1> QED
  BY <1>7, <1>8 DEF ClientEffect

LEMMA BackFacts ==
  ASSUME ClientType, NetType, NEW c \in Macs, NEW t \in Nat, BackToInit(c, t)
  PROVE  /\ ClientType' /\ toClient' \in [Macs -> Seq(Replies)]
         /\ \A d \in Macs \ {c} :
              /\ st'[d] = st[d] /\ ip'[d] = ip[d] /\ conf'[d] = conf[d]
              /\ num'[d] = num[d] /\ timeout'[d] = timeout[d] /\ waited'[d] = waited[d]
              /\ toClient'[d] = toClient[d]
         /\ st'[c] = "INIT_SELECTING" /\ num'[c] = 0 /\ toClient'[c] = << >>
         /\ conf'[c] = 0 \/ (conf'[c] = conf[c] /\ st[c] = "REQUESTING")
<1>1. /\ toClient' \in [Macs -> Seq(Replies)] /\ toClient'[c] = << >>
      /\ \A d \in Macs \ {c} : toClient'[d] = toClient[d]
  BY ReopenFacts DEF BackToInit
<1>2. /\ st' \in [Macs -> States] /\ st'[c] = "INIT_SELECTING"
      /\ \A d \in Macs \ {c} : st'[d] = st[d]
  BY GoToFacts DEF BackToInit, States
<1>3. /\ num' \in [Macs -> Nat] /\ timeout' \in [Macs -> Nat] /\ waited' \in [Macs -> Nat]
      /\ num'[c] = 0
      /\ \A d \in Macs \ {c} :
           num'[d] = num[d] /\ timeout'[d] = timeout[d] /\ waited'[d] = waited[d]
  BY TimerFacts DEF BackToInit
<1>4. /\ ip' \in [Macs -> 0..NumIps]
      /\ \A d \in Macs \ {c} : ip'[d] = ip[d]
  BY UdhcpcAssumption DEF BackToInit, ClientType, UdhcpcAssumption
<1>5. /\ conf' \in [Macs -> 0..NumIps]
      /\ conf'[c] = 0 \/ (conf'[c] = conf[c] /\ st[c] = "REQUESTING")
      /\ \A d \in Macs \ {c} : conf'[d] = conf[d]
  BY DeconfigFacts DEF BackToInit, ClientType
<1> QED
  BY <1>1, <1>2, <1>3, <1>4, <1>5 DEF ClientType

LEMMA ReceiveTypes ==
  ASSUME ClientType, NetType, events \in 0..MaxEvents, NEW c \in Macs, Receive(c)
  PROVE  ClientOK(c) /\ ClientEffect(c)
<1> DEFINE m == Head(toClient[c])
<1>1. toClient[c] \in Seq(Replies) /\ toClient[c] # << >> /\ Listening(c)
  BY DEF Receive, NetType
<1>2. m \in Replies /\ Tail(toClient[c]) \in Seq(Replies)
  BY <1>1, TakeFacts
<1>3. m.yi \in 0..NumIps
  BY <1>2 DEF Replies
<1> HIDE DEF m
<1>4. CASE Ignore(c)
  <2>1. /\ toClient' \in [Macs -> Seq(Replies)] /\ toClient'[c] = Tail(toClient[c])
        /\ \A d \in Macs \ {c} : toClient'[d] = toClient[d]
    BY <1>2, <1>4, ToClientFacts DEF Ignore
  <2>2. UNCHANGED <<st, ip, num, timeout, waited, conf, toServer, events>>
    BY <1>4 DEF Ignore, clientVars, timerVars
  <2>3. ClientOK(c)
    BY <2>1, <2>2, SameServer DEF ClientOK, ClientType, NetType, OnlyOf
  <2>4. Ignored(c)
    BY <1>1, <1>4, <2>1 DEF Ignored, Ignore
  <2> QED
    BY <2>3, <2>4 DEF ClientEffect
<1>5. CASE m.cur /\ st[c] = "INIT_SELECTING" /\ m.type = "OFFER" /\ Select(c, m)
  <2>1. /\ toClient' \in [Macs -> Seq(Replies)] /\ toClient'[c] = Tail(toClient[c])
        /\ \A d \in Macs \ {c} : toClient'[d] = toClient[d]
    BY <1>2, <1>5, ToClientFacts DEF Select
  <2>2. /\ st' \in [Macs -> States] /\ st'[c] = "REQUESTING"
        /\ \A d \in Macs \ {c} : st'[d] = st[d]
    BY <1>5, GoToFacts DEF Select, States
  <2>3. /\ num' \in [Macs -> Nat] /\ timeout' \in [Macs -> Nat] /\ waited' \in [Macs -> Nat]
        /\ num'[c] = 0 /\ timeout'[c] = 0 /\ waited'[c] = 0
        /\ \A d \in Macs \ {c} :
             num'[d] = num[d] /\ timeout'[d] = timeout[d] /\ waited'[d] = waited[d]
    BY <1>5, TimerFacts DEF Select
  <2>4. /\ ip' \in [Macs -> 0..NumIps] /\ ip'[c] = m.yi
        /\ \A d \in Macs \ {c} : ip'[d] = ip[d]
    BY <1>3, <1>5 DEF Select, ClientType
  <2>5. UNCHANGED <<conf, toServer, events>>
    BY <1>5 DEF Select
  <2>6. ClientOK(c)
    BY <2>1, <2>2, <2>3, <2>4, <2>5, SameServer DEF ClientOK, ClientType, NetType, OnlyOf
  <2>7. Selected(c)
    BY <1>1, <1>5, <2>1, <2>2, <2>3, <2>4, <2>5 DEF Selected, m
  <2> QED
    BY <2>6, <2>7 DEF ClientEffect
<1>6. CASE m.cur /\ st[c] # "INIT_SELECTING" /\ m.type = "ACK" /\ Bound(c, m) /\ UNCHANGED events
  <2>1. /\ toClient' \in [Macs -> Seq(Replies)] /\ toClient'[c] = << >>
        /\ \A d \in Macs \ {c} : toClient'[d] = toClient[d]
    BY <1>6, ReopenFacts DEF Bound
  <2>2. /\ st' \in [Macs -> States] /\ st'[c] = "BOUND"
        /\ \A d \in Macs \ {c} : st'[d] = st[d]
    BY <1>6, GoToFacts DEF Bound, States
  <2>3. LeaseSeconds \in Nat /\ LeaseSeconds \div 2 \in Nat /\ num[c] \in Nat
    BY UdhcpcAssumption, HalfFacts DEF UdhcpcAssumption, LeaseSeconds, Max2, ClientType
  <2>4. /\ num' \in [Macs -> Nat] /\ timeout' \in [Macs -> Nat] /\ waited' \in [Macs -> Nat]
        /\ timeout'[c] = LeaseSeconds \div 2 /\ waited'[c] = 0
        /\ \A d \in Macs \ {c} :
             num'[d] = num[d] /\ timeout'[d] = timeout[d] /\ waited'[d] = waited[d]
    BY <1>6, <2>3, TimerFacts DEF Bound
  <2>5. /\ ip' \in [Macs -> 0..NumIps] /\ conf' \in [Macs -> 0..NumIps] /\ conf'[c] = m.yi
        /\ \A d \in Macs \ {c} : ip'[d] = ip[d] /\ conf'[d] = conf[d]
    BY <1>3, <1>6 DEF Bound, ClientType
  <2>6. UNCHANGED toServer
    BY <1>6 DEF Bound
  <2>7. ClientOK(c)
    BY <1>6, <2>1, <2>2, <2>4, <2>5, <2>6, SameServer DEF ClientOK, ClientType, NetType, OnlyOf
  <2>8. NowBound(c)
    BY <1>1, <1>6, <2>1, <2>2, <2>4, <2>5, <2>6 DEF NowBound, m
  <2> QED
    BY <2>7, <2>8 DEF ClientEffect
<1>7. CASE /\ m.cur /\ st[c] # "INIT_SELECTING" /\ m.type = "ACK" /\ Happens("arp")
           /\ ToServer(c, "DECLINE", TRUE, m.yi, 0)
           /\ BackToInit(c, TryAgain)
  <2>1. TryAgain \in Nat /\ 0 \in 0..NumIps
    BY UdhcpcAssumption DEF UdhcpcAssumption
  <2>2. PICK r \in Requests :
           /\ r.type = "DECLINE" /\ r.cur = ("DECLINE" \in {"DISCOVER", "REQUEST"})
           /\ toServer'[c] = Put(toServer[c], r)
           /\ toServer' \in [Macs -> Seq(Requests)]
           /\ \A d \in Macs \ {c} : toServer'[d] = toServer[d]
    BY <1>3, <1>7, <2>1, ToServerFacts
  <2>3. Sends(toServer[c], toServer'[c]) /\ ~ r.cur
    BY <2>2 DEF Sends
  <2>4. events' \in 0..MaxEvents
    BY <1>7, EventFacts
  <2>5. ClientOK(c)
    BY <1>7, <2>1, <2>2, <2>3, <2>4, BackFacts DEF ClientOK, NetType, OnlyOf
  <2>6. /\ st'[c] = "INIT_SELECTING" /\ num'[c] = 0 /\ toClient'[c] = << >>
        /\ conf'[c] = 0 \/ (conf'[c] = conf[c] /\ st[c] = "REQUESTING")
    BY <1>7, <2>1, BackFacts
  <2>7. Declined(c)
    BY <1>1, <1>7, <2>2, <2>3, <2>6 DEF Declined, m
  <2> QED
    BY <2>5, <2>7 DEF ClientEffect
<1>8. CASE /\ st[c] # "INIT_SELECTING"
           /\ BackToInit(c, 0)
           /\ UNCHANGED <<toServer, events>>
  <2>1. ClientOK(c)
    BY <1>8, BackFacts, SameServer DEF ClientOK, NetType, OnlyOf
  <2>2. Restarted(c)
    BY <1>8, BackFacts DEF Restarted, HoldsLease
  <2> QED
    BY <2>1, <2>2 DEF ClientEffect
<1> QED
  BY <1>4, <1>5, <1>6, <1>7, <1>8 DEF Receive, m

(* Every step of a client is one of those kinds, and touches no other one. *)
LEMMA ClientCases ==
  ASSUME ClientType, NetType, events \in 0..MaxEvents, NEW c \in Macs, ClientStep(c)
  PROVE  ClientOK(c) /\ ClientEffect(c)
<1>1. CASE SendDiscover(c)
  BY <1>1, DiscoverTypes DEF ClientEffect
<1>2. CASE LeaseFail(c) \/ SendSelect(c)
  BY <1>2, WaitTypes DEF ClientEffect
<1> QED
  BY <1>1, <1>2, TimeoutTypes, Usr1Types, LeaveTypes, StartTypes, ReceiveTypes
  DEF ClientStep

-----------------------------------------------------------------------------
(* Types: the server's steps. *)

FileType == file \in [at : Nat, recs : [Slots -> Entries]] /\ file.at <= now
SearchType ==
  /\ pc \in {"down", "read", "loop", "find"}
  /\ pos \in Nat
  /\ oldest \in Slots \cup {0}
  /\ served \in Macs \cup {NULL}
  /\ pc = "find" => served \in Macs /\ toServer[served] # << >>
                                    /\ Head(toServer[served]).type = "DISCOVER"

LEMMA TypeParts ==
  TypeOK <=> /\ ClientType /\ NetType /\ events \in 0..MaxEvents /\ now \in Nat
             /\ Table(leases) /\ FileType /\ SearchType
             /\ forgot \in {"nothing", "offers", "leases"}
  BY DEF TypeOK, ClientType, NetType, Table, FileType, SearchType

LEMMA TakenFacts ==
  ASSUME NetType, NEW c \in Macs, toServer[c] # << >>, Taken(c)
  PROVE  /\ toServer' \in [Macs -> Seq(Requests)]
         /\ toServer'[c] = Tail(toServer[c])
         /\ \A d \in Macs \ {c} : toServer'[d] = toServer[d]
         /\ Head(toServer[c]) \in Requests
<1>1. toServer[c] \in Seq(Requests)
  BY DEF NetType
<1>2. Tail(toServer[c]) \in Seq(Requests) /\ Head(toServer[c]) \in Requests
  BY <1>1, TakeFacts
<1> QED
  BY <1>2 DEF NetType, Taken

(* A reply is queued if the client listens and its socket has room for it. *)
Answer(c, type, a) == [type |-> type, yi |-> a, cur |-> Head(toServer[c]).cur]

LEMMA RepliedFacts ==
  ASSUME NetType, NEW c \in Macs, toServer[c] # << >>, NEW type \in {"OFFER", "ACK", "NAK"},
         NEW a \in 0..NumIps, Replied(c, type, a)
  PROVE  /\ toClient' \in [Macs -> Seq(Replies)]
         /\ Answer(c, type, a) \in Replies
         /\ \/ toClient'[c] = toClient[c]
            \/ Listening(c) /\ toClient'[c] = Put(toClient[c], Answer(c, type, a))
         /\ \A d \in Macs \ {c} : toClient'[d] = toClient[d]
<1>1. toServer[c] \in Seq(Requests) /\ toClient[c] \in Seq(Replies)
  BY DEF NetType
<1>2. Head(toServer[c]).cur \in BOOLEAN
  <2>1. Head(toServer[c]) \in Requests
    BY <1>1, TakeFacts
  <2> QED
    BY <2>1 DEF Requests
<1>3. Answer(c, type, a) \in Replies
  BY <1>2 DEF Replies, Answer
<1>4. Put(toClient[c], Answer(c, type, a)) \in Seq(Replies)
  BY <1>1, <1>3, PutFacts
<1>5. toClient' = [toClient EXCEPT ![c] =
         IF Listening(c) THEN Put(toClient[c], Answer(c, type, a)) ELSE toClient[c]]
  BY DEF Replied, Answer
<1>6. CASE Listening(c)
  BY <1>3, <1>4, <1>5, <1>6, ToClientFacts
<1>7. CASE ~ Listening(c)
  BY <1>1, <1>3, <1>5, <1>7, ToClientFacts
<1> QED
  BY <1>6, <1>7

LEMMA LeaseNipFacts ==
  ASSUME Table(leases), NEW c \in Macs
  PROVE  LeaseNip(c) \in 0..NumIps
<1>1. StaticNip \in 0..NumIps /\ 0 \in 0..NumIps
  BY UdhcpcAssumption, DhcpdAssumption DEF UdhcpcAssumption, DhcpdAssumption, Addrs
<1>2. \A i \in Slots : leases[i].nip \in 0..NumIps
  BY DEF Table, Entries
<1>3. find_lease_by_mac(leases, c) \in Slots \cup {0}
  BY FindFacts
<1> QED
  BY <1>1, <1>2, <1>3 DEF LeaseNip

LEMMA TimesFacts ==
  OfferTime \in Nat /\ DeclineTime \in Nat /\ ConflictTime \in Nat /\ LeaseTime \in Nat
  BY UdhcpcAssumption, DhcpdAssumption DEF UdhcpcAssumption, DhcpdAssumption

(* An offer: the table has the address for the client, or, when the client *)
(* has a static lease or there is no free entry, nothing is added.         *)
LEMMA OfferFacts ==
  ASSUME NetType, Table(leases), now \in Nat, NEW c \in Macs, toServer[c] # << >>,
         NEW a \in 0..NumIps, Offer(c, a)
  PROVE  /\ leases' = (IF c \in StaticMacs THEN leases ELSE add_lease(leases, c, a, OfferTime))
         /\ Table(leases')
         /\ OneEntry(leases) => OneEntry(leases')
         /\ NetType'
         /\ toServer'[c] = Tail(toServer[c])
         /\ \/ toClient'[c] = toClient[c]
            \/ /\ c \in StaticMacs \/ Added(leases, c, a)
               /\ Answer(c, "OFFER", a) \in Replies
               /\ Listening(c) /\ toClient'[c] = Put(toClient[c], Answer(c, "OFFER", a))
         /\ \A d \in Macs \ {c} : toServer'[d] = toServer[d] /\ toClient'[d] = toClient[d]
<1>1. /\ leases' = (IF c \in StaticMacs THEN leases ELSE add_lease(leases, c, a, OfferTime))
      /\ Taken(c)
      /\ \/ (c \in StaticMacs \/ Added(leases, c, a)) /\ Replied(c, "OFFER", a)
         \/ UNCHANGED toClient
  BY DEF Offer
<1>2. /\ Table(add_lease(leases, c, a, OfferTime))
      /\ OneEntry(leases) => OneEntry(add_lease(leases, c, a, OfferTime))
  BY TimesFacts, AddFacts, AddUnique
<1>3. Table(leases') /\ (OneEntry(leases) => OneEntry(leases'))
  BY <1>1, <1>2
<1>4. /\ toServer' \in [Macs -> Seq(Requests)] /\ toServer'[c] = Tail(toServer[c])
      /\ \A d \in Macs \ {c} : toServer'[d] = toServer[d]
  BY <1>1, TakenFacts
<1>5. /\ toClient' \in [Macs -> Seq(Replies)]
      /\ \/ toClient'[c] = toClient[c]
         \/ /\ c \in StaticMacs \/ Added(leases, c, a)
            /\ Answer(c, "OFFER", a) \in Replies
            /\ Listening(c) /\ toClient'[c] = Put(toClient[c], Answer(c, "OFFER", a))
      /\ \A d \in Macs \ {c} : toClient'[d] = toClient[d]
  <2>1. CASE UNCHANGED toClient
    BY <2>1 DEF NetType
  <2>2. CASE (c \in StaticMacs \/ Added(leases, c, a)) /\ Replied(c, "OFFER", a)
    BY <2>2, RepliedFacts
  <2> QED
    BY <1>1, <2>1, <2>2
<1> QED
  BY <1>1, <1>3, <1>4, <1>5 DEF NetType

(* Types, and one entry per client and per address: what every step keeps. *)
TableInv == TypeOK /\ TableUnique

LEMMA TableParts ==
  TableInv <=> /\ ClientType /\ NetType /\ events \in 0..MaxEvents /\ now \in Nat
               /\ Table(leases) /\ FileType /\ SearchType
               /\ forgot \in {"nothing", "offers", "leases"}
               /\ OneEntry(leases) /\ OneEntry(file.recs)
  BY TypeParts DEF TableInv, TableUnique

LEMMA ClientKeeps ==
  ASSUME TableInv, NEW c \in Macs, Client(c)
  PROVE  TableInv'
<1>1. ClientOK(c) /\ UNCHANGED <<now, leases, file, pc, pos, oldest, served, forgot>>
  BY TableParts, ClientCases DEF Client, serverVars
<1>2. SearchType'
  <2>1. /\ toServer[c] # << >> =>
             toServer'[c] # << >> /\ Head(toServer'[c]).type = Head(toServer[c]).type
        /\ \A d \in Macs \ {c} : toServer'[d] = toServer[d]
    BY <1>1, TableParts, SendsFacts DEF ClientOK, OnlyOf, NetType
  <2>2. \A d \in Macs : toServer[d] # << >> =>
             toServer'[d] # << >> /\ Head(toServer'[d]).type = Head(toServer[d]).type
    BY <2>1
  <2> QED
    BY <1>1, <2>2, TableParts DEF SearchType
<1>3. Table(leases') /\ FileType' /\ OneEntry(leases)' /\ OneEntry(file.recs)'
  BY <1>1, TableParts DEF Table, FileType, OneEntry
<1>4. ClientType' /\ NetType' /\ events' \in 0..MaxEvents /\ now' \in Nat
  BY <1>1, TableParts DEF ClientOK
<1>5. forgot' \in {"nothing", "offers", "leases"}
  BY <1>1, TableParts
<1>6. TypeOK' /\ TableUnique'
  BY <1>2, <1>3, <1>4, <1>5
  DEF TypeOK, ClientType, NetType, Table, FileType, SearchType, TableUnique
<1> QED
  BY <1>6 DEF TableInv

(* Most steps of the server leave the clients, the clock and the file be.  *)
LEMMA TableKept ==
  ASSUME TableInv, UNCHANGED <<now, clientVars>>, NetType', events' \in 0..MaxEvents,
         Table(leases'), OneEntry(leases'), SearchType',
         UNCHANGED <<file, forgot>> \/ (FileType' /\ OneEntry(file'.recs)
                                        /\ forgot' \in {"nothing", "offers", "leases"})
  PROVE  TableInv'
<1>1. ClientType' /\ now' \in Nat
  BY TableParts DEF ClientType, clientVars, timerVars
<1>2. FileType' /\ OneEntry(file.recs)' /\ forgot' \in {"nothing", "offers", "leases"}
  BY TableParts DEF FileType, OneEntry
<1>3. OneEntry(leases)'
  BY DEF OneEntry
<1>4. TypeOK' /\ TableUnique'
  BY <1>1, <1>2, <1>3
  DEF TypeOK, ClientType, NetType, Table, FileType, SearchType, TableUnique
<1> QED
  BY <1>4 DEF TableInv

LEMMA DownFacts ==
  ASSUME Down
  PROVE  Table(leases') /\ OneEntry(leases') /\ SearchType'
  BY EmptyTable DEF Down, SearchType

LEMMA ArrivesFacts ==
  ASSUME NetType, NEW c \in Macs, NEW type, Arrives(c, type)
  PROVE  /\ pc = "loop" /\ toServer[c] # << >> /\ Head(toServer[c]) \in Requests
         /\ Head(toServer[c]).type = type
         /\ Head(toServer[c]).req \in 0..NumIps /\ Head(toServer[c]).ci \in 0..NumIps
<1>1. pc = "loop" /\ toServer[c] # << >> /\ Head(toServer[c]).type = type
  BY DEF Arrives
<1>2. toServer[c] \in Seq(Requests)
  BY DEF NetType
<1>3. Head(toServer[c]) \in Requests
  BY <1>1, <1>2, TakeFacts
<1>4. Head(toServer[c]).req \in 0..NumIps /\ Head(toServer[c]).ci \in 0..NumIps
  BY <1>3 DEF Requests
<1> QED
  BY <1>1, <1>3, <1>4

LEMMA DiscoverKeeps ==
  ASSUME TableInv, NEW c \in Macs, Discover(c)
  PROVE  TableInv'
<1> DEFINE req == Head(toServer[c]).req
<1>1. pc = "loop" /\ toServer[c] # << >> /\ Head(toServer[c]).type = "DISCOVER"
      /\ req \in 0..NumIps
  BY TableParts, ArrivesFacts DEF Discover
<1>2. UNCHANGED <<file, forgot, now, clientVars, events>>
  BY DEF Discover
<1>3. LeaseNip(c) \in 0..NumIps
  BY TableParts, LeaseNipFacts
<1>4. \/ \E a \in 0..NumIps : Offer(c, a) /\ Stays
      \/ /\ pc' = "find" /\ pos' = 1 /\ oldest' = 0 /\ served' = c
         /\ UNCHANGED <<leases, netVars>>
  BY <1>1, <1>3 DEF Discover
<1>5. CASE \E a \in 0..NumIps : Offer(c, a) /\ Stays
  <2>1. PICK a \in 0..NumIps : Offer(c, a) /\ Stays
    BY <1>5
  <2>2. Table(leases') /\ OneEntry(leases') /\ NetType'
    BY <1>1, <2>1, TableParts, OfferFacts
  <2>3. SearchType'
    BY <1>1, <2>1, TableParts DEF SearchType, Stays
  <2> QED
    BY <1>2, <2>2, <2>3, TableParts, TableKept
<1>6. CASE /\ pc' = "find" /\ pos' = 1 /\ oldest' = 0 /\ served' = c
           /\ UNCHANGED <<leases, netVars>>
  <2>1. NetType' /\ Table(leases') /\ OneEntry(leases')
    BY <1>6, TableParts DEF NetType, netVars
  <2>2. SearchType'
    BY <1>1, <1>6 DEF SearchType, netVars
  <2> QED
    BY <1>2, <2>1, <2>2, TableParts, TableKept
<1> QED
  BY <1>4, <1>5, <1>6

LEMMA TryAddressKeeps ==
  ASSUME TableInv, TryAddress
  PROVE  TableInv'
<1> DEFINE i == find_lease_by_nip(leases, pos)
<1>1. pc = "find" /\ pos \in Addrs /\ pos \in 0..NumIps /\ pos \in Nat /\ pos + 1 \in Nat
  BY TableParts DEF TryAddress, SearchType, Addrs
<1>2. served \in Macs /\ toServer[served] # << >> /\ Head(toServer[served]).type = "DISCOVER"
  BY <1>1, TableParts DEF SearchType
<1>3. UNCHANGED <<file, forgot, now, clientVars>>
  BY DEF TryAddress
<1>4. i \in Slots \cup {0}
  BY FindFacts
<1>5. \/ /\ oldest' \in {oldest, i} /\ pos' = pos + 1
         /\ UNCHANGED <<leases, pc, served, netVars, events>>
      \/ Offer(served, pos) /\ Done /\ UNCHANGED events
      \/ /\ Happens("arp")
         /\ leases' = add_lease(leases, NULL, pos, ConflictTime)
         /\ pos' = pos + 1
         /\ UNCHANGED <<oldest, pc, served, netVars>>
  BY DEF TryAddress
<1> HIDE DEF i
<1>6. CASE /\ oldest' \in {oldest, i} /\ pos' = pos + 1
           /\ UNCHANGED <<leases, pc, served, netVars, events>>
  <2>1. NetType' /\ Table(leases') /\ OneEntry(leases') /\ events' \in 0..MaxEvents
    BY <1>6, TableParts DEF NetType, netVars
  <2>2. SearchType'
    BY <1>1, <1>2, <1>4, <1>6, TableParts DEF SearchType, netVars
  <2> QED
    BY <1>3, <2>1, <2>2, TableKept
<1>7. CASE Offer(served, pos) /\ Done /\ UNCHANGED events
  <2>1. Table(leases') /\ OneEntry(leases') /\ NetType'
    BY <1>1, <1>2, <1>7, TableParts, OfferFacts
  <2>2. SearchType'
    BY <1>7 DEF SearchType, Done
  <2> QED
    BY <1>3, <1>7, <2>1, <2>2, TableParts, TableKept
<1>8. CASE /\ Happens("arp")
           /\ leases' = add_lease(leases, NULL, pos, ConflictTime)
           /\ pos' = pos + 1
           /\ UNCHANGED <<oldest, pc, served, netVars>>
  <2>1. Table(leases') /\ OneEntry(leases')
    BY <1>1, <1>8, TableParts, TimesFacts, AddFacts, AddUnique
  <2>2. SearchType' /\ NetType'
    BY <1>1, <1>2, <1>8, TableParts DEF SearchType, NetType, netVars
  <2>3. events' \in 0..MaxEvents
    BY <1>8, TableParts, EventFacts
  <2> QED
    BY <1>3, <2>1, <2>2, <2>3, TableKept
<1> QED
  BY <1>5, <1>6, <1>7, <1>8

LEMMA TryOldestKeeps ==
  ASSUME TableInv, TryOldest
  PROVE  TableInv'
<1>1. served \in Macs /\ toServer[served] # << >>
  BY TableParts DEF SearchType, TryOldest
<1>2. UNCHANGED <<file, forgot, now, clientVars>> /\ Done
  BY DEF TryOldest
<1>3. SearchType'
  BY <1>2 DEF SearchType, Done
<1>4. \A k \in Slots : leases[k].nip \in 0..NumIps
  BY TableParts DEF Table, Entries
<1>5. oldest \in Slots \cup {0}
  BY TableParts DEF SearchType
<1>6. CASE Taken(served) /\ UNCHANGED <<leases, toClient, events>>
  <2>1. NetType'
    BY <1>1, <1>6, TableParts, TakenFacts DEF NetType
  <2> QED
    BY <1>2, <1>3, <1>6, <2>1, TableParts, TableKept
<1>7. CASE Reusable /\ Offer(served, leases[oldest].nip) /\ UNCHANGED events
  <2>1. leases[oldest].nip \in 0..NumIps
    BY <1>4, <1>5, <1>7 DEF Reusable
  <2>2. Table(leases') /\ OneEntry(leases') /\ NetType'
    BY <1>1, <1>7, <2>1, TableParts, OfferFacts
  <2> QED
    BY <1>2, <1>3, <1>7, <2>2, TableParts, TableKept
<1>8. CASE /\ Reusable /\ Happens("arp")
           /\ leases' = add_lease(leases, NULL, leases[oldest].nip, ConflictTime)
           /\ Taken(served)
           /\ UNCHANGED toClient
  <2>1. leases[oldest].nip \in 0..NumIps
    BY <1>4, <1>5, <1>8 DEF Reusable
  <2>2. Table(leases') /\ OneEntry(leases')
    BY <1>8, <2>1, TableParts, TimesFacts, AddFacts, AddUnique
  <2>3. NetType'
    BY <1>1, <1>8, TableParts, TakenFacts DEF NetType
  <2>4. events' \in 0..MaxEvents
    BY <1>8, TableParts, EventFacts
  <2> QED
    BY <1>2, <1>3, <2>2, <2>3, <2>4, TableKept
<1> QED
  BY <1>6, <1>7, <1>8 DEF TryOldest

(* The file as Written is a lease file, with one entry per client and per  *)
(* address.                                                                *)
LEMMA FileWritten ==
  ASSUME NEW t, Table(t), OneEntry(t), NEW n \in Nat, now \in Nat, UNCHANGED now,
         file' = Written(t, n)
  PROVE  FileType' /\ OneEntry(file'.recs)
  BY WrittenFacts DEF FileType

LEMMA RequestKeeps ==
  ASSUME TableInv, NEW c \in Macs, Request(c)
  PROVE  TableInv'
<1> DEFINE m == Head(toServer[c])
           a == IF m.req # 0 THEN m.req ELSE m.ci
<1>1. pc = "loop" /\ toServer[c] # << >> /\ a \in 0..NumIps
  BY TableParts, ArrivesFacts DEF Request
<1>2. UNCHANGED <<now, clientVars>>
  BY DEF Request
<1>3. \/ Ack(c, a)
      \/ /\ Replied(c, "NAK", 0) \/ UNCHANGED toClient
         /\ Taken(c) /\ Stays
         /\ UNCHANGED <<leases, file, forgot, events>>
  BY DEF Request
<1> HIDE DEF m, a
<1>4. MaxLeases \in Nat /\ 0 \in 0..NumIps
  BY Constants
<1>5. CASE Ack(c, a)
  <2> DEFINE t == add_lease(leases, c, a, LeaseTime)
  <2>1. Table(t) /\ OneEntry(t)
    BY <1>1, TableParts, TimesFacts, AddFacts, AddUnique
  <2>2. Replied(c, "ACK", a) /\ Taken(c)
    BY <1>5 DEF Ack
  <2>3. NetType'
    BY <1>1, <2>2, TableParts, RepliedFacts, TakenFacts DEF NetType
  <2>4. \/ /\ leases' = t /\ file' = Written(t, MaxLeases)
           /\ Stays /\ UNCHANGED <<forgot, events>>
        \/ Happens("unsaved") /\ Down /\ forgot' = "leases" /\ UNCHANGED file
        \/ /\ Happens("torn")
           /\ Down /\ forgot' = "leases"
           /\ \E n \in 0..MaxLeases - 1 : file' = Written(t, n)
    BY <1>5 DEF Ack, write_leases
  <2> HIDE DEF t
  <2>5. CASE /\ leases' = t /\ file' = Written(t, MaxLeases)
             /\ Stays /\ UNCHANGED <<forgot, events>>
    <3>1. SearchType'
      BY <1>1, <2>5, TableParts DEF SearchType, Stays
    <3>2. FileType' /\ OneEntry(file'.recs)
      BY <1>2, <1>4, <2>1, <2>5, TableParts, FileWritten
    <3> QED
      BY <1>2, <2>1, <2>3, <2>5, <3>1, <3>2, TableParts, TableKept
  <2>6. CASE Happens("unsaved") /\ Down /\ forgot' = "leases" /\ UNCHANGED file
    <3>1. FileType' /\ OneEntry(file'.recs)
      BY <1>2, <2>6, TableParts DEF FileType
    <3> QED
      BY <1>2, <2>3, <2>6, <3>1, TableParts, TableKept, DownFacts, EventFacts
  <2>7. CASE /\ Happens("torn")
             /\ Down /\ forgot' = "leases"
             /\ \E n \in 0..MaxLeases - 1 : file' = Written(t, n)
    <3>1. PICK n \in Nat : file' = Written(t, n)
      BY <1>4, <2>7
    <3>2. FileType' /\ OneEntry(file'.recs)
      BY <1>2, <2>1, <3>1, TableParts, FileWritten
    <3> QED
      BY <1>2, <2>3, <2>7, <3>2, TableParts, TableKept, DownFacts, EventFacts
  <2> QED
    BY <2>4, <2>5, <2>6, <2>7
<1>6. CASE /\ Replied(c, "NAK", 0) \/ UNCHANGED toClient
           /\ Taken(c) /\ Stays
           /\ UNCHANGED <<leases, file, forgot, events>>
  <2>1. NetType'
    BY <1>1, <1>4, <1>6, TableParts, RepliedFacts, TakenFacts DEF NetType
  <2>2. SearchType'
    BY <1>1, <1>6, TableParts DEF SearchType, Stays
  <2> QED
    BY <1>2, <1>6, <2>1, <2>2, TableParts, TableKept
<1> QED
  BY <1>3, <1>5, <1>6

LEMMA MatchingFacts ==
  ASSUME NEW c \in Macs, NEW a
  PROVE  \/ Matching(c, a) = 0
         \/ /\ Matching(c, a) \in Slots /\ c \notin StaticMacs
            /\ leases[Matching(c, a)].mac = c /\ leases[Matching(c, a)].nip = a
  BY FindFacts DEF Matching

LEMMA EndKeeps ==
  ASSUME TableInv, NEW c \in Macs, Decline(c) \/ Release(c)
  PROVE  TableInv'
<1>1. pc = "loop" /\ toServer[c] # << >>
  BY DEF Decline, Release, Arrives
<1>2. /\ Taken(c) /\ Stays
      /\ UNCHANGED <<toClient, file, forgot, now, clientVars, events>>
  BY DEF Decline, Release
<1>3. NetType'
  BY <1>1, <1>2, TableParts, TakenFacts DEF NetType
<1>4. SearchType'
  BY <1>1, <1>2, TableParts DEF SearchType, Stays
<1>5. \/ leases' = leases
      \/ \E i \in Slots : leases' = [leases EXCEPT ![i].mac = Zero,
                                        ![i].expires = (now + DeclineTime) % Wrap]
      \/ \E i \in Slots : leases' = [leases EXCEPT ![i].expires = now]
  <2>1. CASE Decline(c)
    BY <2>1, MatchingFacts DEF Decline
  <2>2. CASE Release(c)
    BY <2>2, MatchingFacts DEF Release
  <2> QED
    BY <2>1, <2>2
<1>6. Table(leases) /\ OneEntry(leases) /\ now \in Nat /\ (now + DeclineTime) % Wrap \in Nat
  BY TableParts, Constants, TimesFacts
<1>7. Table(leases') /\ OneEntry(leases')
  <2>1. CASE leases' = leases
    BY <1>6, <2>1
  <2>2. CASE \E i \in Slots : leases' = [leases EXCEPT ![i].mac = Zero,
                                            ![i].expires = (now + DeclineTime) % Wrap]
    <3>0. PICK i \in Slots : leases' = [leases EXCEPT ![i].mac = Zero,
                                            ![i].expires = (now + DeclineTime) % Wrap]
      BY <2>2
    <3>1. \A j \in Slots : /\ leases'[j] \in Entries
                           /\ leases'[j].nip = leases[j].nip
                           /\ leases'[j].mac \in {leases[j].mac, Zero}
      <4> TAKE j \in Slots
      <4> DEFINE x == (now + DeclineTime) % Wrap
      <4>1. leases[j] \in Entries /\ x \in Nat
        BY <1>6 DEF Table
      <4> HIDE DEF x
      <4>2. CASE j = i
        <5>1. leases'[j] = [[leases[j] EXCEPT !.mac = Zero] EXCEPT !.expires = x]
          BY <1>6, <3>0, <4>2 DEF Table, x
        <5>2. leases'[j] = [mac |-> Zero, nip |-> leases[j].nip, expires |-> x]
          BY <4>1, <5>1 DEF Entries
        <5> QED
          BY <4>1, <5>2 DEF Entries
      <4>3. CASE j # i
        BY <1>6, <3>0, <4>1, <4>3 DEF Table
      <4> QED
        BY <4>2, <4>3
    <3>2. Table(leases')
      BY <1>6, <3>0, <3>1 DEF Table
    <3> QED
      BY <1>6, <3>1, <3>2 DEF OneEntry
  <2>3. CASE \E i \in Slots : leases' = [leases EXCEPT ![i].expires = now]
    <3>1. \A j \in Slots : /\ leases'[j] \in Entries
                           /\ leases'[j].nip = leases[j].nip
                           /\ leases'[j].mac = leases[j].mac
      BY <1>6, <2>3 DEF Table, Entries
    <3>2. Table(leases')
      BY <1>6, <2>3, <3>1 DEF Table
    <3> QED
      BY <1>6, <3>1, <3>2 DEF OneEntry
  <2> QED
    BY <1>5, <2>1, <2>2, <2>3
<1> QED
  BY <1>2, <1>3, <1>4, <1>7, TableParts, TableKept

LEMMA SignalKeeps ==
  ASSUME TableInv, Save \/ Stop \/ Crash
  PROVE  TableInv'
<1>1. UNCHANGED <<forgot, now, clientVars, netVars>> /\ events' \in 0..MaxEvents
  BY TableParts, EventFacts DEF Save, Stop, Crash
<1>2. NetType'
  BY <1>1, TableParts DEF NetType, netVars
<1>3. MaxLeases \in Nat
  BY Constants
<1>4. CASE Save
  <2>1. FileType' /\ OneEntry(file'.recs)
    BY <1>1, <1>3, <1>4, TableParts, FileWritten DEF Save, write_leases
  <2>2. SearchType'
    BY <1>1, <1>4, TableParts DEF SearchType, Save, netVars
  <2> QED
    BY <1>1, <1>2, <1>4, <2>1, <2>2, TableParts, TableKept DEF Save
<1>5. CASE Stop
  <2>1. FileType' /\ OneEntry(file'.recs)
    BY <1>1, <1>3, <1>5, TableParts, FileWritten DEF Stop, write_leases
  <2> QED
    BY <1>1, <1>2, <1>5, <2>1, TableParts, TableKept, DownFacts DEF Stop
<1>6. CASE Crash
  BY <1>1, <1>2, <1>6, TableKept, DownFacts DEF Crash
<1> QED
  BY <1>4, <1>5, <1>6

LEMMA LossKeeps ==
  ASSUME TableInv, NEW c \in Macs, Unheard(c) \/ Lose(c)
  PROVE  TableInv'
<1>1. /\ UNCHANGED <<clientVars, now, leases, file, pc, pos, oldest, served, forgot>>
      /\ pc # "find" /\ events' \in 0..MaxEvents
  BY TableParts, EventFacts DEF Unheard, Lose, serverVars
<1>2. NetType'
  <2>1. CASE toServer[c] # << >> /\ Taken(c) /\ UNCHANGED toClient
    BY <2>1, TableParts, TakenFacts DEF NetType
  <2>2. CASE /\ toClient[c] # << >> /\ UNCHANGED toServer
             /\ toClient' = [toClient EXCEPT ![c] = Tail(@)]
    <3>1. toClient[c] \in Seq(Replies)
      BY TableParts DEF NetType
    <3>2. Tail(toClient[c]) \in Seq(Replies)
      BY <2>2, <3>1, TakeFacts
    <3> QED
      BY <2>2, <3>2, TableParts DEF NetType
  <2> QED
    BY <2>1, <2>2 DEF Unheard, Lose
<1>3. SearchType'
  BY <1>1, TableParts DEF SearchType
<1> QED
  BY <1>1, <1>2, <1>3, TableParts, TableKept

LEMMA BootKeeps ==
  ASSUME TableInv, Boot \/ ReadLease \/ Loaded
  PROVE  TableInv'
<1>1. UNCHANGED <<file, oldest, served, now, clientVars, netVars, events>>
  BY DEF Boot, ReadLease, Loaded
<1>2. NetType' /\ events' \in 0..MaxEvents
  BY <1>1, TableParts DEF NetType, netVars
<1>3. FileType' /\ OneEntry(file'.recs)
  BY <1>1, TableParts DEF FileType
<1>4. SearchType' /\ Table(leases') /\ OneEntry(leases')
      /\ forgot' \in {"nothing", "offers", "leases"}
  <2>1. CASE Boot
    <3>1. pc' \in {"read", "loop"} /\ pos' \in {0, 1} /\ leases' = NoLeases
      BY <2>1 DEF Boot
    <3>2. SearchType'
      BY <1>1, <3>1, TableParts DEF SearchType
    <3>3. forgot' \in {"nothing", "offers", "leases"}
      BY <2>1, TableParts DEF Boot
    <3> QED
      BY <3>1, <3>2, <3>3, EmptyTable
  <2>2. CASE Loaded
    BY <1>1, <2>2, TableParts DEF Loaded, SearchType
  <2>3. CASE ReadLease
    <3> DEFINE r == file.recs[pos]
               left == IF r.expires <= now - file.at THEN 0 ELSE r.expires - (now - file.at)
    <3>1. pos \in Slots /\ pc = "read" /\ pos \in Nat /\ MaxLeases \in Nat
      BY <2>3, TableParts, Constants DEF ReadLease, SearchType
    <3>2. /\ file.recs \in [Slots -> Entries] /\ file.at \in Nat /\ now \in Nat
          /\ now - file.at \in Nat
      BY TableParts DEF FileType
    <3>3. r \in Entries
      BY <3>1, <3>2
    <3>4. r.mac \in Macs \cup {Zero} /\ r.nip \in 0..NumIps /\ r.expires \in Nat
      BY <3>3 DEF Entries
    <3>5. left \in Nat
      BY <3>2, <3>4
    <3>6. /\ leases' = leases \/ leases' = add_lease(leases, r.mac, r.nip, left)
          /\ pos' = pos + 1 \/ pos' = MaxLeases + 1
          /\ UNCHANGED <<pc, forgot>>
      BY <2>3 DEF ReadLease
    <3> HIDE DEF r, left
    <3>7. Table(leases') /\ OneEntry(leases')
      <4>1. Table(leases) /\ OneEntry(leases) /\ now \in Nat
        BY TableParts
      <4>2. /\ Table(add_lease(leases, r.mac, r.nip, left))
            /\ OneEntry(add_lease(leases, r.mac, r.nip, left))
        BY <3>4, <3>5, <4>1, AddFacts, AddUnique
      <4> QED
        BY <3>6, <4>1, <4>2
    <3>8. SearchType'
      BY <1>1, <3>1, <3>6, TableParts DEF SearchType
    <3> QED
      BY <3>6, <3>7, <3>8, TableParts
  <2> QED
    BY <2>1, <2>2, <2>3
<1> QED
  BY <1>1, <1>2, <1>3, <1>4, TableKept

LEMMA TickKeeps ==
  ASSUME TableInv, Tick
  PROVE  TableInv'
<1>1. /\ now' = now + 1 /\ pc # "find"
      /\ waited' = [c \in Macs |-> IF timeout[c] = Forever THEN waited[c] ELSE waited[c] + 1]
      /\ UNCHANGED <<st, ip, num, timeout, conf, toServer, toClient, events,
                     leases, file, pc, pos, oldest, served, forgot>>
  BY DEF Tick, netVars, serverVars
<1>2. waited' \in [Macs -> Nat]
  BY <1>1, TableParts DEF ClientType
<1>3. ClientType' /\ NetType'
  BY <1>1, <1>2, TableParts DEF ClientType, NetType
<1>4. now' \in Nat /\ FileType'
  BY <1>1, TableParts DEF FileType
<1>5. SearchType'
  BY <1>1, TableParts DEF SearchType
<1>6. Table(leases') /\ OneEntry(leases)' /\ OneEntry(file.recs)'
  BY <1>1, TableParts DEF Table, OneEntry
<1>7. events' \in 0..MaxEvents /\ forgot' \in {"nothing", "offers", "leases"}
  BY <1>1, TableParts
<1>8. TypeOK' /\ TableUnique'
  BY <1>3, <1>4, <1>5, <1>6, <1>7
  DEF TypeOK, ClientType, NetType, Table, FileType, SearchType, TableUnique
<1> QED
  BY <1>8 DEF TableInv

LEMMA InitTable ==
  ASSUME Init
  PROVE  TableInv
<1>1. ClientType
  <2>1. Ask \subseteq 0..NumIps /\ 0 \in 0..NumIps
    BY UdhcpcAssumption DEF UdhcpcAssumption
  <2>2. st \in [Macs -> States]
    BY DEF Init, ClientInit, States
  <2>3. ip \in [Macs -> 0..NumIps]
    BY <2>1 DEF Init, ClientInit
  <2>4. /\ num \in [Macs -> Nat] /\ timeout \in [Macs -> Nat] /\ waited \in [Macs -> Nat]
        /\ conf \in [Macs -> 0..NumIps]
    BY <2>1 DEF Init, ClientInit
  <2> QED
    BY <2>2, <2>3, <2>4 DEF ClientType
<1>2. NetType
  <2>1. << >> \in Seq(Requests) /\ << >> \in Seq(Replies)
    BY EmptySeq
  <2> QED
    BY <2>1 DEF Init, ClientInit, NetType
<1>3. events \in 0..MaxEvents /\ now \in Nat /\ forgot \in {"nothing", "offers", "leases"}
  BY UdhcpcAssumption DEF Init, ClientInit, UdhcpcAssumption
<1>4. Table(leases) /\ OneEntry(leases)
  BY EmptyTable DEF Init
<1>5. FileType /\ OneEntry(file.recs)
  BY EmptyTable DEF Init, FileType, Table
<1>6. SearchType
  BY DEF Init, SearchType
<1> QED
  BY <1>1, <1>2, <1>3, <1>4, <1>5, <1>6, TableParts

LEMMA TableStep ==
  ASSUME TableInv, [Next]_vars
  PROVE  TableInv'
<1>1. CASE UNCHANGED vars
  <2>1. UNCHANGED <<st, ip, num, timeout, waited, conf, toServer, toClient, events, now,
                    leases, file, pc, pos, oldest, served, forgot>>
    BY <1>1 DEF vars, clientVars, timerVars, netVars, serverVars
  <2>2. TypeOK' /\ TableUnique'
    BY <2>1 DEF TableInv, TypeOK, TableUnique, OneEntry
  <2> QED
    BY <2>2 DEF TableInv
<1> QED
  BY <1>1, ClientKeeps, DiscoverKeeps, RequestKeeps, EndKeeps, LossKeeps, TryAddressKeeps,
     TryOldestKeeps, BootKeeps, SignalKeeps, TickKeeps DEF Next

(* For any number of clients, addresses, entries and packets, whatever is  *)
(* lost and whenever the server is killed: every variable of udhcpd and of *)
(* its clients keeps its type, and find_free_or_expired_nip always has the *)
(* DISCOVER at hand that it searches for (dhcpd.c).                        *)
THEOREM DhcpdTypeCorrect == Spec => []TypeOK
<1>1. Init => TableInv
  BY InitTable
<1>2. TableInv /\ [Next]_vars => TableInv'
  BY TableStep
<1>3. TableInv => TypeOK
  BY DEF TableInv
<1> QED
  BY <1>1, <1>2, <1>3, PTL DEF Spec

(* find_lease_by_mac and find_lease_by_nip stop at the first entry that    *)
(* matches; no client and no address ever has two, in the table or in the  *)
(* lease file, however add_lease, the reuse of expired entries, the        *)
(* reservations for nobody and the reading of a file follow each other.    *)
THEOREM OneLeaseEach == Spec => []TableUnique
<1>1. Init => TableInv
  BY InitTable
<1>2. TableInv /\ [Next]_vars => TableInv'
  BY TableStep
<1>3. TableInv => TableUnique
  BY DEF TableInv
<1> QED
  BY <1>1, <1>2, <1>3, PTL DEF Spec
=============================================================================
