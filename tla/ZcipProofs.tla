----------------------------- MODULE ZcipProofs -----------------------------
(***************************************************************************)
(* Proofs about zcip, for every set of hosts and addresses, any number of  *)
(* probes, announcements and losses, and any traffic.                      *)
(***************************************************************************)
EXTENDS Zcip, SequenceTheorems, TLAPS

LEMMA Constants ==
  /\ NumAddrs \in Nat /\ NumAddrs # 0 /\ Quit \subseteq BOOLEAN
  /\ PROBE_WAIT \in Nat /\ PROBE_MIN \in Nat /\ PROBE_MAX \in Nat /\ PROBE_NUM \in Nat
  /\ ANNOUNCE_INTERVAL \in Nat /\ ANNOUNCE_NUM \in Nat /\ CONFLICT_MULTIPLIER \in Nat
  /\ DEFEND_INTERVAL \in Nat /\ ScriptTime \in Nat /\ MaxConflicts \in Nat
  /\ MaxLoss \in Nat /\ MaxEvents \in Nat
  BY ZcipAssumption

-----------------------------------------------------------------------------
(* The packets that a socket holds.                                        *)

Has(s, kind, a) == \E i \in 1..Len(s) : s[i] = [kind |-> kind, nip |-> a]

LEMMA HasAppend ==
  ASSUME NEW s \in Seq(Packets), NEW p \in Packets
  PROVE  /\ Append(s, p) \in Seq(Packets)
         /\ \A kind, a : Has(s, kind, a) => Has(Append(s, p), kind, a)
         /\ \A kind, a : p = [kind |-> kind, nip |-> a] => Has(Append(s, p), kind, a)
<1>1. /\ Append(s, p) \in Seq(Packets) /\ Len(Append(s, p)) = Len(s) + 1
      /\ \A i \in 1..Len(s) : Append(s, p)[i] = s[i]
      /\ Append(s, p)[Len(s) + 1] = p /\ Len(s) \in Nat
  OBVIOUS
<1>2. 1..Len(s) \subseteq 1..(Len(s) + 1) /\ Len(s) + 1 \in 1..(Len(s) + 1)
  BY <1>1
<1> QED
  BY <1>1, <1>2 DEF Has

LEMMA HasTail ==
  ASSUME NEW s \in Seq(Packets), s # << >>
  PROVE  /\ Tail(s) \in Seq(Packets)
         /\ \A kind, a : Has(s, kind, a) /\ Head(s) # [kind |-> kind, nip |-> a]
                           => Has(Tail(s), kind, a)
<1>1. /\ Tail(s) \in Seq(Packets) /\ Len(Tail(s)) = Len(s) - 1 /\ Len(s) \in Nat
      /\ \A i \in 1..Len(s) - 1 : Tail(s)[i] = s[i + 1]
      /\ Head(s) = s[1]
  OBVIOUS
<1>2. ASSUME NEW kind, NEW a, Has(s, kind, a), Head(s) # [kind |-> kind, nip |-> a]
      PROVE  Has(Tail(s), kind, a)
  <2>1. PICK i \in 1..Len(s) : s[i] = [kind |-> kind, nip |-> a]
    BY <1>2 DEF Has
  <2>2. i # 1
    BY <2>1, <1>1, <1>2
  <2>3. i - 1 \in 1..Len(Tail(s)) /\ (i - 1) + 1 = i /\ i - 1 \in 1..Len(s) - 1
    BY <2>2, <1>1
  <2>4. Tail(s)[i - 1] = s[i]
    BY <2>3, <1>1
  <2> QED
    BY <2>1, <2>3, <2>4 DEF Has
<1> QED
  BY <1>1, <1>2

LEMMA HasNone == ASSUME NEW kind, NEW a PROVE ~ Has(<< >>, kind, a)
  BY DEF Has

(* The sockets only grow, and those of hosts that are gone not even that.  *)
Grows ==
  /\ sock' \in [Hosts -> Seq(Packets)]
  /\ \A k \in Hosts : state[k] = "gone" => sock'[k] = sock[k]
  /\ \A k \in Hosts : \A kind, a : Has(sock[k], kind, a) => Has(sock'[k], kind, a)

(* Every other host hears what is sent, and a probe is answered.           *)
LEMMA SendFacts ==
  ASSUME sock \in [Hosts -> Seq(Packets)],
         NEW h \in Hosts, NEW kind \in {"probe", "claim"}, NEW a \in Addrs,
         send_arp_request(h, kind, a)
  PROVE  /\ Grows
         /\ ~ cut => \A k \in Hosts \ {h} : state[k] # "gone" => Has(sock'[k], kind, a)
         /\ ~ cut /\ kind = "probe" /\ state[h] # "gone" =>
              ((\E k \in Hosts \ {h} : conf[k] = a) => Has(sock'[h], "claim", a))
<1> DEFINE p == [kind |-> kind, nip |-> a]
           q == [kind |-> "claim", nip |-> a]
           answered == kind = "probe" /\ \E k \in Hosts \ {h} : conf[k] = a
           new(k) == IF k = h THEN IF answered /\ Listens(h) THEN Append(sock[k], q) ELSE sock[k]
                     ELSE IF Listens(k) THEN Append(sock[k], p) ELSE sock[k]
<1>1. p \in Packets /\ q \in Packets
  BY DEF Packets
<1>2. sock' = IF cut THEN sock ELSE [k \in Hosts |-> new(k)]
  BY DEF send_arp_request
<1>3. \A k \in Hosts : sock[k] \in Seq(Packets)
  OBVIOUS
<1> HIDE DEF p, q
<1>4. ASSUME NEW k \in Hosts
      PROVE  /\ new(k) \in Seq(Packets)
             /\ \A kd, b : Has(sock[k], kd, b) => Has(new(k), kd, b)
             /\ state[k] = "gone" => new(k) = sock[k]
  BY <1>1, <1>3, HasAppend DEF Listens
<1>5. ASSUME NEW k \in Hosts \ {h}, state[k] # "gone"
      PROVE  Has(new(k), kind, a)
  <2>1. new(k) = Append(sock[k], p)
    BY <1>5 DEF Listens
  <2> QED
    BY <2>1, <1>1, <1>3, HasAppend DEF p
<1>6. ASSUME kind = "probe", state[h] # "gone", NEW k \in Hosts \ {h}, conf[k] = a
      PROVE  Has(new(h), "claim", a)
  <2>1. new(h) = Append(sock[h], q)
    BY <1>6 DEF Listens
  <2> QED
    BY <2>1, <1>1, <1>3, HasAppend DEF q
<1> HIDE DEF new
<1>7. Grows
  <2>1. CASE cut
    BY <2>1, <1>2 DEF Grows
  <2>2. CASE ~ cut
    BY <2>2, <1>2, <1>4 DEF Grows
  <2> QED
    BY <2>1, <2>2
<1> QED
  BY <1>2, <1>5, <1>6, <1>7


(* The socket of h without its first packet, the others as they were.      *)
LEMMA ConsumeFacts ==
  ASSUME sock \in [Hosts -> Seq(Packets)], NEW h \in Hosts, sock[h] # << >>, Consume(h)
  PROVE  /\ sock' \in [Hosts -> Seq(Packets)]
         /\ \A k \in Hosts \ {h} : sock'[k] = sock[k]
         /\ sock'[h] = Tail(sock[h])
         /\ \A k \in Hosts : \A kind, a : Has(sock[k], kind, a)
              => \/ Has(sock'[k], kind, a)
                 \/ k = h /\ Head(sock[h]) = [kind |-> kind, nip |-> a]
<1>1. sock' = [sock EXCEPT ![h] = Tail(sock[h])]
  BY DEF Consume
<1>2. sock[h] \in Seq(Packets)
  OBVIOUS
<1> QED
  BY <1>1, <1>2, HasTail

-----------------------------------------------------------------------------
(* What the state of a host says about its address, its timeout and its    *)
(* socket.                                                                 *)

HostOK(h) ==
  /\ conf[h] # 0 => conf[h] = chosen[h] /\ state[h] \in {"MONITOR", "DEFEND", "gone"}
  /\ state[h] \in {"MONITOR", "DEFEND"} => conf[h] = chosen[h]
  /\ state[h] # "gone" => chosen[h] \in Addrs
  /\ state[h] = "gone" => sock[h] = << >> /\ left[h] = Never
  /\ state[h] = "gone" /\ conf[h] # 0 => TRUE \in Quit
  /\ state[h] = "MONITOR" => left[h] = Never
  /\ state[h] = "config" => left[h] \in 0..ScriptTime
  /\ state[h] \in {"PROBE", "ANNOUNCE", "DEFEND"} => left[h] \in Nat
  /\ state[h] = "PROBE" => nsent[h] \in 0..PROBE_NUM
  /\ state[h] = "ANNOUNCE" => nsent[h] \in 0..ANNOUNCE_NUM
HostInv == \A h \in Hosts : HostOK(h)

CutInv == cut => excused

BaseInv == TypeOK /\ HostInv /\ CutInv

(* The bound on nsent in TypeOK.                                           *)
Most == IF PROBE_NUM >= ANNOUNCE_NUM THEN PROBE_NUM ELSE ANNOUNCE_NUM

LEMMA MostFacts ==
  /\ Most \in Nat /\ 0..PROBE_NUM \subseteq 0..Most /\ 0..ANNOUNCE_NUM \subseteq 0..Most
  /\ 0 \in 0..Most
  BY Constants DEF Most

(* What the actions of h have in common: they change nothing of the other  *)
(* hosts but their sockets.                                                *)
OnlyOf(h) ==
  \A k \in Hosts \ {h} :
    /\ state'[k] = state[k] /\ chosen'[k] = chosen[k] /\ nsent'[k] = nsent[k]
    /\ left'[k] = left[k] /\ conf'[k] = conf[k]

LEMMA WaitFacts ==
  ASSUME TypeOK, NEW h \in Hosts, NEW s \in States, NEW n \in 0..Most,
         NEW t \in Nat \cup {Never}, Wait(h, s, n, t)
  PROVE  /\ state' \in [Hosts -> States] /\ nsent' \in [Hosts -> 0..Most]
         /\ left' \in [Hosts -> Nat \cup {Never}]
         /\ chosen' = chosen /\ conflicts' = conflicts
         /\ state'[h] = s /\ nsent'[h] = n /\ left'[h] = t
         /\ \A k \in Hosts \ {h} :
              state'[k] = state[k] /\ nsent'[k] = nsent[k] /\ left'[k] = left[k]
  BY DEF TypeOK, Wait, Most

LEMMA NewNipFacts ==
  ASSUME TypeOK, NEW h \in Hosts, NEW c \in 0..MaxConflicts, NEW t \in Nat, NewNip(h, c, t)
  PROVE  /\ state' \in [Hosts -> States] /\ nsent' \in [Hosts -> 0..Most]
         /\ left' \in [Hosts -> Nat \cup {Never}]
         /\ chosen' \in [Hosts -> 0..NumAddrs] /\ conflicts' \in [Hosts -> 0..MaxConflicts]
         /\ state'[h] = "PROBE" /\ nsent'[h] = 0 /\ left'[h] = t /\ chosen'[h] \in Addrs
         /\ \A k \in Hosts \ {h} :
              /\ state'[k] = state[k] /\ nsent'[k] = nsent[k] /\ left'[k] = left[k]
              /\ chosen'[k] = chosen[k]
<1>1. PICK a \in Addrs : chosen' = [chosen EXCEPT ![h] = a]
  BY DEF NewNip
<1>2. a \in 0..NumAddrs /\ a \in Addrs
  BY Constants DEF Addrs
<1>3. /\ state' = [state EXCEPT ![h] = "PROBE"] /\ nsent' = [nsent EXCEPT ![h] = 0]
      /\ conflicts' = [conflicts EXCEPT ![h] = c] /\ left' = [left EXCEPT ![h] = t]
  BY DEF NewNip
<1>4. /\ state \in [Hosts -> States] /\ nsent \in [Hosts -> 0..Most]
      /\ left \in [Hosts -> Nat \cup {Never}] /\ chosen \in [Hosts -> 0..NumAddrs]
      /\ conflicts \in [Hosts -> 0..MaxConflicts] /\ "PROBE" \in States /\ 0 \in 0..Most
  BY MostFacts DEF TypeOK, Most, States
<1>5. chosen' \in [Hosts -> 0..NumAddrs] /\ chosen'[h] = a
      /\ \A k \in Hosts \ {h} : chosen'[k] = chosen[k]
  BY <1>1, <1>2, <1>4
<1>6. /\ state' \in [Hosts -> States] /\ nsent' \in [Hosts -> 0..Most]
      /\ left' \in [Hosts -> Nat \cup {Never}] /\ conflicts' \in [Hosts -> 0..MaxConflicts]
      /\ state'[h] = "PROBE" /\ nsent'[h] = 0 /\ left'[h] = t
      /\ \A k \in Hosts \ {h} :
           state'[k] = state[k] /\ nsent'[k] = nsent[k] /\ left'[k] = left[k]
  BY <1>3, <1>4
<1> QED
  BY <1>2, <1>5, <1>6


LEMMA OthersOK ==
  ASSUME HostInv, NEW h \in Hosts, OnlyOf(h), HostOK(h)',
         \A k \in Hosts \ {h} : state[k] = "gone" => sock'[k] = sock[k]
  PROVE  HostInv'
<1> SUFFICES ASSUME NEW k \in Hosts, k # h
             PROVE  HostOK(k)'
  BY DEF HostInv
<1>1. HostOK(k)
  BY DEF HostInv
<1>2. /\ state'[k] = state[k] /\ chosen'[k] = chosen[k] /\ nsent'[k] = nsent[k]
      /\ left'[k] = left[k] /\ conf'[k] = conf[k]
      /\ state[k] = "gone" => sock'[k] = sock[k]
  BY DEF OnlyOf
<1> QED
  BY <1>1, <1>2 DEF HostOK

(* Types of the parts of a host that a step may leave alone.               *)
LEMMA HostTypes ==
  ASSUME BaseInv, NEW h \in Hosts
  PROVE  /\ state[h] \in States /\ chosen[h] \in 0..NumAddrs /\ nsent[h] \in 0..Most
         /\ nsent[h] \in Nat
         /\ conflicts[h] \in 0..MaxConflicts /\ left[h] \in Nat \cup {Never}
         /\ conf[h] \in 0..NumAddrs /\ sock[h] \in Seq(Packets) /\ HostOK(h)
         /\ lost \in Nat /\ left[h] \in Int
  BY Constants, MostFacts DEF BaseInv, TypeOK, HostInv, Most, Never

(* An action of h that lets it wait, with the same address.                *)
LEMMA WaitStep ==
  ASSUME BaseInv, NEW h \in Hosts, NEW s \in States, NEW n \in 0..Most,
         NEW t \in Nat \cup {Never}, Wait(h, s, n, t),
         conf' \in [Hosts -> 0..NumAddrs],
         \A k \in Hosts \ {h} : conf'[k] = conf[k],
         sock' \in [Hosts -> Seq(Packets)],
         \A k \in Hosts \ {h} : state[k] = "gone" => sock'[k] = sock[k],
         HostOK(h)', lost' \in 0..MaxLoss, cut' = cut, excused' = excused,
         events' \in 0..MaxEvents
  PROVE  BaseInv'
<1>1. TypeOK'
  BY WaitFacts DEF BaseInv, TypeOK, Most
<1>2. OnlyOf(h)
  BY WaitFacts DEF BaseInv, OnlyOf
<1>3. HostInv'
  BY <1>2, OthersOK DEF BaseInv
<1> QED
  BY <1>1, <1>3 DEF BaseInv, CutInv

(* A host without an address on its interface.                             *)
LEMMA Trying ==
  ASSUME BaseInv, NEW h \in Hosts, state[h] \in {"PROBE", "ANNOUNCE", "config"}
  PROVE  conf[h] = 0 /\ chosen[h] \in Addrs
<1>1. HostOK(h)
  BY DEF BaseInv, HostInv
<1> QED
  BY <1>1 DEF HostOK

LEMMA ProbeBase ==
  ASSUME BaseInv, NEW h \in Hosts, Probe(h)
  PROVE  BaseInv'
<1>1. PICK t \in PROBE_MIN..PROBE_MAX : Wait(h, "PROBE", nsent[h] + 1, t)
  BY DEF Probe
<1>2. /\ state[h] = "PROBE" /\ left[h] = 0 /\ nsent[h] < PROBE_NUM
      /\ send_arp_request(h, "probe", chosen[h]) /\ conf' = conf /\ lost' = lost
      /\ cut' = cut /\ excused' = excused /\ events' = events
  BY DEF Probe, TimedOut, linkVars
<1>3. /\ t \in Nat /\ nsent[h] + 1 \in 0..PROBE_NUM /\ nsent[h] + 1 \in 0..Most
      /\ chosen[h] \in Addrs /\ conf[h] = 0 /\ "PROBE" \in States
  <2>1. chosen[h] \in Addrs /\ conf[h] = 0
    BY <1>2, Trying
  <2>2. nsent[h] \in Nat
    BY HostTypes
  <2> QED
    BY <1>2, <2>1, <2>2, Constants, MostFacts DEF States
<1>4. Grows
  BY <1>2, <1>3, SendFacts DEF BaseInv, TypeOK
<1>5. /\ state'[h] = "PROBE" /\ nsent'[h] = nsent[h] + 1 /\ left'[h] = t /\ chosen' = chosen
  BY <1>1, <1>3, WaitFacts DEF BaseInv
<1>6. HostOK(h)'
  BY <1>2, <1>3, <1>5, HostTypes DEF HostOK
<1>7. conf' \in [Hosts -> 0..NumAddrs] /\ lost' \in 0..MaxLoss /\ events' \in 0..MaxEvents
  BY <1>2 DEF BaseInv, TypeOK
<1> QED
  BY <1>1, <1>2, <1>3, <1>4, <1>6, <1>7, WaitStep DEF Grows

LEMMA AnnounceBase ==
  ASSUME BaseInv, ANNOUNCE_NUM >= 1, NEW h \in Hosts, Announce(h)
  PROVE  BaseInv'
<1>1. PICK n : /\ Wait(h, "ANNOUNCE", n, ANNOUNCE_INTERVAL)
               /\ n = 1 \/ (n = nsent[h] + 1 /\ nsent[h] < ANNOUNCE_NUM)
  BY Zenon DEF Announce
<1>2. /\ state[h] \in {"PROBE", "ANNOUNCE"} /\ left[h] = 0
      /\ send_arp_request(h, "claim", chosen[h]) /\ conf' = conf /\ lost' = lost
      /\ cut' = cut /\ excused' = excused /\ events' = events
  BY DEF Announce, TimedOut, linkVars
<1>3. /\ n \in 0..ANNOUNCE_NUM /\ n \in 0..Most
      /\ chosen[h] \in Addrs /\ conf[h] = 0 /\ "ANNOUNCE" \in States
  <2>1. chosen[h] \in Addrs /\ conf[h] = 0
    BY <1>2, Trying
  <2>2. nsent[h] \in Nat
    BY HostTypes
  <2>3. n \in 0..ANNOUNCE_NUM
    BY <1>1, <2>2, Constants
  <2> QED
    BY <2>1, <2>3, MostFacts DEF States
<1>4. Grows
  BY <1>2, <1>3, SendFacts DEF BaseInv, TypeOK
<1>5. /\ state'[h] = "ANNOUNCE" /\ nsent'[h] = n /\ left'[h] = ANNOUNCE_INTERVAL
      /\ chosen' = chosen /\ ANNOUNCE_INTERVAL \in Nat
  BY <1>1, <1>3, WaitFacts, Constants DEF BaseInv
<1>6. HostOK(h)'
  BY <1>2, <1>3, <1>5, HostTypes DEF HostOK
<1>7. conf' \in [Hosts -> 0..NumAddrs] /\ lost' \in 0..MaxLoss /\ events' \in 0..MaxEvents
  BY <1>2 DEF BaseInv, TypeOK
<1> QED
  BY <1>1, <1>2, <1>3, <1>4, <1>5, <1>6, <1>7, WaitStep DEF Grows

LEMMA RunConfigBase ==
  ASSUME BaseInv, NEW h \in Hosts, RunConfig(h)
  PROVE  BaseInv'
<1>1. /\ state[h] = "ANNOUNCE" /\ Wait(h, "config", nsent[h], ScriptTime)
      /\ conf' = conf /\ sock' = sock /\ lost' = lost
      /\ cut' = cut /\ excused' = excused /\ events' = events
  BY DEF RunConfig, TimedOut, linkVars
<1>2. /\ nsent[h] \in 0..Most /\ ScriptTime \in Nat /\ "config" \in States
      /\ ScriptTime \in 0..ScriptTime /\ conf[h] = 0 /\ chosen[h] \in Addrs
  <2>1. chosen[h] \in Addrs /\ conf[h] = 0
    BY <1>1, Trying
  <2>2. nsent[h] \in 0..Most
    BY HostTypes
  <2> QED
    BY <2>1, <2>2, Constants DEF States
<1>3. /\ state'[h] = "config" /\ left'[h] = ScriptTime /\ chosen' = chosen
  BY <1>1, <1>2, WaitFacts DEF BaseInv
<1>4. HostOK(h)'
  BY <1>1, <1>2, <1>3, HostTypes DEF HostOK
<1>5. /\ conf' \in [Hosts -> 0..NumAddrs] /\ lost' \in 0..MaxLoss /\ events' \in 0..MaxEvents
      /\ sock' \in [Hosts -> Seq(Packets)]
  BY <1>1 DEF BaseInv, TypeOK
<1> QED
  BY <1>1, <1>2, <1>4, <1>5, WaitStep


LEMMA ConfiguredBase ==
  ASSUME BaseInv, NEW h \in Hosts, Configured(h)
  PROVE  BaseInv'
<1>1. /\ state[h] = "config" /\ conf' = [conf EXCEPT ![h] = chosen[h]]
      /\ lost' = lost /\ cut' = cut /\ excused' = excused /\ events' = events
  BY DEF Configured, linkVars
<1>2. /\ conf \in [Hosts -> 0..NumAddrs] /\ chosen[h] \in 0..NumAddrs
      /\ nsent[h] \in 0..Most /\ sock \in [Hosts -> Seq(Packets)]
      /\ "MONITOR" \in States /\ "gone" \in States /\ 0 \in 0..Most
  BY HostTypes, MostFacts DEF BaseInv, TypeOK, States
<1>3. /\ conf' \in [Hosts -> 0..NumAddrs] /\ conf'[h] = chosen[h]
      /\ \A k \in Hosts \ {h} : conf'[k] = conf[k]
  BY <1>1, <1>2
<1>4. chosen[h] \in Addrs
  BY <1>1, Trying
<1>5. lost' \in 0..MaxLoss /\ events' \in 0..MaxEvents
  BY <1>1 DEF BaseInv, TypeOK
<1>6. CASE Wait(h, "MONITOR", nsent[h], Never) /\ sock' = sock
  <2>0. Wait(h, "MONITOR", nsent[h], Never) /\ "MONITOR" \in States /\ nsent[h] \in 0..Most
    BY <1>6, <1>2
  <2>1. state'[h] = "MONITOR" /\ left'[h] = Never /\ chosen' = chosen
    BY <2>0 DEF BaseInv, TypeOK, Wait
  <2>2. HostOK(h)'
    BY <2>1, <1>3, <1>4 DEF HostOK
  <2> QED
    BY <1>1, <1>2, <1>3, <1>5, <1>6, <2>2, WaitStep
<1>7. CASE TRUE \in Quit /\ Wait(h, "gone", 0, Never) /\ sock' = [sock EXCEPT ![h] = << >>]
  <2>0. Wait(h, "gone", 0, Never) /\ "gone" \in States /\ 0 \in 0..Most
    BY <1>7, <1>2
  <2>1. state'[h] = "gone" /\ left'[h] = Never /\ chosen' = chosen
    BY <2>0, WaitFacts DEF BaseInv
  <2>2. PICK e : e = << >>
    OBVIOUS
  <2>3. /\ sock' \in [Hosts -> Seq(Packets)] /\ sock'[h] = << >>
        /\ \A k \in Hosts \ {h} : sock'[k] = sock[k]
    BY <1>7, <1>2, <2>2, EmptySeq
  <2>4. HostOK(h)'
    BY <2>1, <2>3, <1>3, <1>4, <1>7 DEF HostOK
  <2> QED
    BY <1>1, <1>2, <1>3, <1>5, <1>7, <2>3, <2>4, WaitStep
<1> QED
  BY <1>6, <1>7, Zenon DEF Configured

LEMMA DefendOverBase ==
  ASSUME BaseInv, NEW h \in Hosts, DefendOver(h)
  PROVE  BaseInv'
<1>1. /\ state[h] = "DEFEND" /\ Wait(h, "MONITOR", nsent[h], Never)
      /\ conf' = conf /\ sock' = sock /\ lost' = lost
      /\ cut' = cut /\ excused' = excused /\ events' = events
  BY DEF DefendOver, TimedOut, linkVars
<1>2. nsent[h] \in 0..Most /\ "MONITOR" \in States /\ HostOK(h)
  BY HostTypes DEF States
<1>3. state'[h] = "MONITOR" /\ left'[h] = Never /\ chosen' = chosen
  BY <1>1, <1>2, WaitFacts DEF BaseInv
<1>4. HostOK(h)'
  BY <1>1, <1>2, <1>3 DEF HostOK
<1>5. /\ conf' \in [Hosts -> 0..NumAddrs] /\ lost' \in 0..MaxLoss /\ events' \in 0..MaxEvents
      /\ sock' \in [Hosts -> Seq(Packets)]
  BY <1>1 DEF BaseInv, TypeOK
<1> QED
  BY <1>1, <1>2, <1>4, <1>5, WaitStep

(* An action that changes only the sockets, and what was lost.             *)
LEMMA SockStep ==
  ASSUME BaseInv, sock' \in [Hosts -> Seq(Packets)],
         \A k \in Hosts : state[k] = "gone" => sock'[k] = << >>,
         lost' \in 0..MaxLoss, UNCHANGED <<procVars, conf, linkVars>>
  PROVE  BaseInv'
<1>1. TypeOK'
  BY DEF BaseInv, TypeOK, procVars, linkVars
<1>2. ASSUME NEW k \in Hosts PROVE HostOK(k)'
  <2>1. HostOK(k)
    BY DEF BaseInv, HostInv
  <2>2. UNCHANGED <<state, chosen, nsent, left, conf>>
    BY DEF procVars
  <2> QED
    BY <2>1, <2>2 DEF HostOK
<1> QED
  BY <1>1, <1>2 DEF BaseInv, HostInv, CutInv, linkVars

LEMMA GoneSilent ==
  ASSUME BaseInv, NEW k \in Hosts, state[k] = "gone"
  PROVE  sock[k] = << >> /\ left[k] = Never
<1>1. HostOK(k)
  BY DEF BaseInv, HostInv
<1> QED
  BY <1>1 DEF HostOK

LEMMA IgnoreBase ==
  ASSUME BaseInv, NEW h \in Hosts, Ignore(h)
  PROVE  BaseInv'
<1>1. /\ state[h] # "gone" /\ sock[h] # << >> /\ Consume(h) /\ lost' = lost
      /\ UNCHANGED <<procVars, conf, linkVars>>
  BY DEF Ignore, Reads
<1>2. sock \in [Hosts -> Seq(Packets)] /\ lost' \in 0..MaxLoss
  BY <1>1 DEF BaseInv, TypeOK
<1>3. /\ sock' \in [Hosts -> Seq(Packets)]
      /\ \A k \in Hosts \ {h} : sock'[k] = sock[k]
  BY <1>1, <1>2, ConsumeFacts
<1>4. \A k \in Hosts : state[k] = "gone" => sock'[k] = << >>
  BY <1>1, <1>3, GoneSilent
<1> QED
  BY <1>1, <1>2, <1>3, <1>4, SockStep

LEMMA LoseBase ==
  ASSUME BaseInv, NEW h \in Hosts, Lose(h)
  PROVE  BaseInv'
<1>1. /\ sock[h] # << >> /\ Consume(h) /\ lost' = lost + 1 /\ lost < MaxLoss
      /\ UNCHANGED <<procVars, conf, linkVars>>
  BY DEF Lose
<1>2. sock \in [Hosts -> Seq(Packets)]
  BY DEF BaseInv, TypeOK
<1>3. lost' \in 0..MaxLoss
  BY <1>1, Constants DEF BaseInv, TypeOK
<1>4. /\ sock' \in [Hosts -> Seq(Packets)]
      /\ \A k \in Hosts \ {h} : sock'[k] = sock[k]
  BY <1>1, <1>2, ConsumeFacts
<1>5. \A k \in Hosts : state[k] = "gone" => sock'[k] = << >>
  BY <1>1, <1>4, GoneSilent
<1> QED
  BY <1>1, <1>3, <1>4, <1>5, SockStep

LEMMA TrafficBase ==
  ASSUME BaseInv, NEW h \in Hosts, Traffic(h)
  PROVE  BaseInv' /\ Grows
<1>1. /\ conf[h] # 0 /\ send_arp_request(h, "claim", conf[h]) /\ lost' = lost
      /\ UNCHANGED <<procVars, conf, linkVars>>
  BY DEF Traffic
<1>2. sock \in [Hosts -> Seq(Packets)] /\ lost' \in 0..MaxLoss
  BY <1>1 DEF BaseInv, TypeOK
<1>3. conf[h] \in Addrs
  BY <1>1, HostTypes, Constants DEF Addrs
<1>4. Grows
  BY <1>1, <1>2, <1>3, SendFacts
<1>5. \A k \in Hosts : state[k] = "gone" => sock'[k] = << >>
  BY <1>4, GoneSilent DEF Grows
<1> QED
  BY <1>1, <1>2, <1>4, <1>5, SockStep DEF Grows


(* An action with which h chooses an address and probes for it.            *)
LEMMA ChooseStep ==
  ASSUME BaseInv, NEW h \in Hosts, NEW c \in 0..MaxConflicts, NEW t \in Nat,
         NewNip(h, c, t),
         conf' \in [Hosts -> 0..NumAddrs], conf'[h] = 0,
         \A k \in Hosts \ {h} : conf'[k] = conf[k],
         sock' \in [Hosts -> Seq(Packets)],
         \A k \in Hosts \ {h} : sock'[k] = sock[k],
         lost' = lost, UNCHANGED linkVars
  PROVE  BaseInv'
<1>1. TypeOK'
  BY NewNipFacts DEF BaseInv, TypeOK, Most, linkVars
<1>2. OnlyOf(h)
  BY NewNipFacts DEF BaseInv, OnlyOf
<1>3. 0 \in 0..PROBE_NUM
  BY Constants
<1>4. HostOK(h)'
  BY <1>3, NewNipFacts DEF HostOK, BaseInv
<1>5. HostInv'
  BY <1>2, <1>4, OthersOK DEF BaseInv
<1> QED
  BY <1>1, <1>5 DEF BaseInv, CutInv, linkVars

(* Both actions that choose another address.                               *)
LEMMA TryAnotherChooses ==
  ASSUME BaseInv, NEW h \in Hosts, TryAnother(h)
  PROVE  /\ \E c \in 0..MaxConflicts, t \in Nat : NewNip(h, c, t)
         /\ conf' = conf /\ conf[h] = 0
         /\ state[h] \in {"PROBE", "ANNOUNCE"} /\ sock[h] # << >> /\ Consume(h) /\ lost' = lost
         /\ UNCHANGED linkVars
<1>1. /\ state[h] \in {"PROBE", "ANNOUNCE"} /\ sock[h] # << >> /\ Consume(h)
      /\ conf' = conf /\ lost' = lost /\ UNCHANGED linkVars
  BY DEF TryAnother, Reads
<1>2. conf[h] = 0
  BY <1>1, Trying
<1> DEFINE c == IF conflicts[h] < MaxConflicts THEN conflicts[h] + 1 ELSE MaxConflicts
<1>3. c \in 0..MaxConflicts
  BY HostTypes, Constants
<1>4. PICK t \in PROBE_MIN..PROBE_MIN + CONFLICT_MULTIPLIER * c : NewNip(h, c, t)
  BY DEF TryAnother
<1>5. t \in Nat
  BY Constants
<1> QED
  BY <1>1, <1>2, <1>3, <1>4, <1>5

LEMMA GiveUpChooses ==
  ASSUME BaseInv, NEW h \in Hosts, GiveUp(h)
  PROVE  /\ \E c \in 0..MaxConflicts, t \in Nat : NewNip(h, c, t)
         /\ conf' \in [Hosts -> 0..NumAddrs] /\ conf'[h] = 0
         /\ \A k \in Hosts \ {h} : conf'[k] = conf[k]
         /\ state[h] = "DEFEND" /\ sock[h] # << >> /\ Consume(h) /\ lost' = lost
         /\ UNCHANGED linkVars
<1>1. /\ state[h] = "DEFEND" /\ sock[h] # << >> /\ Consume(h) /\ lost' = lost
      /\ UNCHANGED linkVars /\ conf' = [conf EXCEPT ![h] = 0]
  BY DEF GiveUp, Reads
<1>2. PICK t \in 0..PROBE_WAIT : NewNip(h, 0, t)
  BY DEF GiveUp
<1>3. t \in Nat /\ 0 \in 0..MaxConflicts /\ 0 \in 0..NumAddrs
  BY Constants
<1>4. conf \in [Hosts -> 0..NumAddrs]
  BY DEF BaseInv, TypeOK
<1>5. /\ conf' \in [Hosts -> 0..NumAddrs] /\ conf'[h] = 0
      /\ \A k \in Hosts \ {h} : conf'[k] = conf[k]
  BY <1>1, <1>3, <1>4
<1> QED
  BY <1>1, <1>2, <1>3, <1>5

LEMMA StartChooses ==
  ASSUME BaseInv, NEW h \in Hosts, Start(h)
  PROVE  /\ \E c \in 0..MaxConflicts, t \in Nat : NewNip(h, c, t)
         /\ conf' = conf /\ conf[h] = 0 /\ sock' = sock /\ lost' = lost /\ UNCHANGED linkVars
<1>1. PICK a \in Addrs, t \in 0..PROBE_WAIT :
        /\ chosen' = [chosen EXCEPT ![h] = a]
        /\ state' = [state EXCEPT ![h] = "PROBE"]
        /\ left' = [left EXCEPT ![h] = t]
  BY DEF Start
<1>2. NewNip(h, 0, t)
  BY <1>1 DEF Start, NewNip
<1>3. t \in Nat /\ 0 \in 0..MaxConflicts
  BY Constants
<1>4. conf' = conf /\ conf[h] = 0 /\ sock' = sock /\ lost' = lost /\ UNCHANGED linkVars
  BY DEF Start
<1> QED
  BY <1>2, <1>3, <1>4

LEMMA TryAnotherBase ==
  ASSUME BaseInv, NEW h \in Hosts, TryAnother(h)
  PROVE  BaseInv'
<1>1. sock \in [Hosts -> Seq(Packets)] /\ conf \in [Hosts -> 0..NumAddrs]
  BY DEF BaseInv, TypeOK
<1>2. PICK c \in 0..MaxConflicts, t \in Nat : NewNip(h, c, t)
  BY TryAnotherChooses
<1>3. sock[h] # << >> /\ Consume(h) /\ conf' = conf /\ conf[h] = 0 /\ lost' = lost
      /\ UNCHANGED linkVars
  BY TryAnotherChooses
<1>4. sock' \in [Hosts -> Seq(Packets)] /\ \A k \in Hosts \ {h} : sock'[k] = sock[k]
  BY <1>1, <1>3, ConsumeFacts
<1> QED
  BY <1>1, <1>2, <1>3, <1>4, ChooseStep

LEMMA GiveUpBase ==
  ASSUME BaseInv, NEW h \in Hosts, GiveUp(h)
  PROVE  BaseInv'
<1>1. sock \in [Hosts -> Seq(Packets)]
  BY DEF BaseInv, TypeOK
<1>2. PICK c \in 0..MaxConflicts, t \in Nat : NewNip(h, c, t)
  BY GiveUpChooses
<1>3. /\ sock[h] # << >> /\ Consume(h) /\ conf' \in [Hosts -> 0..NumAddrs] /\ conf'[h] = 0
      /\ \A k \in Hosts \ {h} : conf'[k] = conf[k]
      /\ lost' = lost /\ UNCHANGED linkVars
  BY GiveUpChooses
<1>4. sock' \in [Hosts -> Seq(Packets)] /\ \A k \in Hosts \ {h} : sock'[k] = sock[k]
  BY <1>1, <1>3, ConsumeFacts
<1> QED
  BY <1>2, <1>3, <1>4, ChooseStep

LEMMA StartBase ==
  ASSUME BaseInv, NEW h \in Hosts, Start(h)
  PROVE  BaseInv'
<1>1. sock \in [Hosts -> Seq(Packets)] /\ conf \in [Hosts -> 0..NumAddrs]
  BY DEF BaseInv, TypeOK
<1>2. PICK c \in 0..MaxConflicts, t \in Nat : NewNip(h, c, t)
  BY StartChooses
<1>3. conf' = conf /\ conf[h] = 0 /\ sock' = sock /\ lost' = lost /\ UNCHANGED linkVars
  BY StartChooses
<1> QED
  BY <1>1, <1>2, <1>3, ChooseStep

(* Defend: the claim that h answers with reaches every other host.         *)
LEMMA DefendFacts ==
  ASSUME BaseInv, NEW h \in Hosts, Defend(h)
  PROVE  /\ state[h] = "MONITOR" /\ Wait(h, "DEFEND", nsent[h], DEFEND_INTERVAL)
         /\ sock' \in [Hosts -> Seq(Packets)]
         /\ \A k \in Hosts \ {h} :
              /\ state[k] = "gone" => sock'[k] = sock[k]
              /\ \A kind, a : Has(sock[k], kind, a) => Has(sock'[k], kind, a)
              /\ state[k] # "gone" /\ ~ cut => Has(sock'[k], "claim", chosen[h])
         /\ conf' = conf /\ lost' = lost /\ UNCHANGED linkVars
<1>1. /\ state[h] = "MONITOR" /\ sock[h] # << >>
      /\ Wait(h, "DEFEND", nsent[h], DEFEND_INTERVAL)
      /\ conf' = conf /\ lost' = lost /\ UNCHANGED linkVars
  BY DEF Defend, Reads
<1>2. HostOK(h)
  BY HostTypes
<1>3. PICK p \in Packets : p = [kind |-> "claim", nip |-> chosen[h]]
  BY <1>1, <1>2 DEF HostOK, Packets
<1>4. sock' = [k \in Hosts |-> IF k = h THEN Tail(sock[k])
                               ELSE IF Listens(k) /\ ~ cut THEN Append(sock[k], p)
                               ELSE sock[k]]
  BY <1>3 DEF Defend
<1>5. \A k \in Hosts : sock[k] \in Seq(Packets)
  BY DEF BaseInv, TypeOK
<1>6. Tail(sock[h]) \in Seq(Packets)
  BY <1>1, <1>5, HasTail
<1>7. ASSUME NEW k \in Hosts \ {h}
      PROVE  /\ sock'[k] \in Seq(Packets)
             /\ state[k] = "gone" => sock'[k] = sock[k]
             /\ \A kind, a : Has(sock[k], kind, a) => Has(sock'[k], kind, a)
             /\ state[k] # "gone" /\ ~ cut => Has(sock'[k], "claim", chosen[h])
  <2>1. CASE state[k] # "gone" /\ ~ cut
    <3>1. sock'[k] = Append(sock[k], p)
      BY <1>4, <2>1 DEF Listens
    <3> QED
      BY <2>1, <3>1, <1>3, <1>5, HasAppend
  <2>2. CASE ~ (state[k] # "gone" /\ ~ cut)
    <3>1. sock'[k] = sock[k]
      BY <1>4, <2>2 DEF Listens
    <3> QED
      BY <2>2, <3>1, <1>5
  <2> QED
    BY <2>1, <2>2
<1>8. sock' \in [Hosts -> Seq(Packets)]
  <2>1. \A k \in Hosts : sock'[k] \in Seq(Packets)
    BY <1>4, <1>6, <1>7
  <2> QED
    BY <2>1, <1>4
<1> QED
  BY <1>1, <1>7, <1>8

LEMMA DefendBase ==
  ASSUME BaseInv, NEW h \in Hosts, Defend(h)
  PROVE  BaseInv'
<1>1. /\ state[h] = "MONITOR" /\ Wait(h, "DEFEND", nsent[h], DEFEND_INTERVAL)
      /\ sock' \in [Hosts -> Seq(Packets)] /\ conf' = conf /\ lost' = lost
      /\ UNCHANGED linkVars
      /\ \A k \in Hosts \ {h} : state[k] = "gone" => sock'[k] = sock[k]
  BY DefendFacts
<1>2. nsent[h] \in 0..Most /\ DEFEND_INTERVAL \in Nat /\ "DEFEND" \in States /\ HostOK(h)
  BY HostTypes, Constants DEF States
<1>3. state'[h] = "DEFEND" /\ left'[h] = DEFEND_INTERVAL /\ chosen' = chosen
  BY <1>1, <1>2, WaitFacts DEF BaseInv
<1>4. HostOK(h)'
  BY <1>1, <1>2, <1>3 DEF HostOK
<1>5. /\ conf' \in [Hosts -> 0..NumAddrs] /\ lost' \in 0..MaxLoss /\ events' \in 0..MaxEvents
      /\ cut' = cut /\ excused' = excused
  BY <1>1 DEF BaseInv, TypeOK, linkVars
<1> QED
  BY <1>1, <1>2, <1>4, <1>5, WaitStep

LEMMA LinkDownBase ==
  ASSUME BaseInv, NEW h \in Hosts, LinkDown(h)
  PROVE  BaseInv'
<1>1. /\ state[h] \notin {"config", "gone"} /\ sock[h] = << >> /\ sock' = sock
      /\ conf' = IF state[h] \in {"MONITOR", "DEFEND"} THEN [conf EXCEPT ![h] = 0] ELSE conf
      /\ Wait(h, "gone", 0, Never)
      /\ lost' = lost /\ cut' = cut /\ excused' = excused
      /\ events < MaxEvents /\ events' = events + 1
  BY DEF LinkDown, Happens
<1>2. /\ conf \in [Hosts -> 0..NumAddrs] /\ sock \in [Hosts -> Seq(Packets)]
      /\ 0 \in 0..Most /\ "gone" \in States /\ 0 \in 0..NumAddrs
  BY MostFacts, Constants DEF BaseInv, TypeOK, States
<1>3. HostOK(h)
  BY HostTypes
<1>4. /\ conf' \in [Hosts -> 0..NumAddrs] /\ \A k \in Hosts \ {h} : conf'[k] = conf[k]
  BY <1>1, <1>2
<1>5. conf'[h] = 0
  BY <1>1, <1>2, <1>3 DEF HostOK
<1>6. state'[h] = "gone" /\ left'[h] = Never
  BY <1>1 DEF BaseInv, TypeOK, Wait
<1>7. HostOK(h)'
  BY <1>1, <1>5, <1>6 DEF HostOK
<1>8. lost' \in 0..MaxLoss /\ events' \in 0..MaxEvents
  BY <1>1, Constants DEF BaseInv, TypeOK
<1> QED
  BY <1>1, <1>2, <1>4, <1>7, <1>8, WaitStep


LEMMA LinkBase ==
  ASSUME BaseInv, Split \/ Join
  PROVE  BaseInv'
<1>1. UNCHANGED <<procVars, conf, sock, lost>> /\ cut' \in BOOLEAN /\ excused' \in BOOLEAN
  BY DEF Split, Join, BaseInv, TypeOK
<1>2. events' \in 0..MaxEvents
  BY Constants DEF Split, Join, BaseInv, TypeOK, Happens
<1>3. TypeOK'
  BY <1>1, <1>2 DEF BaseInv, TypeOK, procVars
<1>4. HostInv'
  BY <1>1 DEF BaseInv, HostInv, HostOK, procVars
<1>5. CutInv'
  BY DEF Split, Join, BaseInv, CutInv
<1> QED
  BY <1>3, <1>4, <1>5 DEF BaseInv

LEMMA TickBase ==
  ASSUME BaseInv, Tick
  PROVE  BaseInv'
<1>1. /\ \A h \in Hosts : left[h] # 0 /\ (state[h] # "config" => sock[h] = << >>)
      /\ left' = [h \in Hosts |-> IF left[h] > 0 THEN left[h] - 1 ELSE left[h]]
      /\ UNCHANGED <<state, chosen, nsent, conflicts, conf, sock, lost, linkVars>>
  BY DEF Tick
<1>2. ASSUME NEW h \in Hosts
      PROVE  /\ left'[h] \in Nat \cup {Never}
             /\ left[h] = Never => left'[h] = Never
             /\ left[h] \in Nat => left'[h] \in Nat /\ left'[h] <= left[h]
  <2>1. left[h] \in Nat \cup {Never} /\ left'[h] = IF left[h] > 0 THEN left[h] - 1 ELSE left[h]
    BY <1>1, HostTypes
  <2> QED
    BY <2>1 DEF Never
<1>3. left' \in [Hosts -> Nat \cup {Never}]
  BY <1>1, <1>2
<1>4. TypeOK'
  BY <1>1, <1>3 DEF BaseInv, TypeOK, linkVars
<1>5. ASSUME NEW h \in Hosts PROVE HostOK(h)'
  <2>1. HostOK(h)
    BY HostTypes
  <2>2. left[h] \in 0..ScriptTime => left'[h] \in 0..ScriptTime
    BY <1>2, Constants
  <2>3. UNCHANGED <<state, chosen, nsent, conf, sock>>
    BY <1>1
  <2> QED
    BY <2>1, <2>2, <2>3, <1>2 DEF HostOK
<1> QED
  BY <1>1, <1>4, <1>5 DEF BaseInv, HostInv, CutInv, linkVars

LEMMA InitBase == Init => BaseInv
<1> SUFFICES ASSUME Init PROVE BaseInv
  OBVIOUS
<1>1. 0 \in 0..NumAddrs /\ 0 \in 0..Most /\ 0 \in 0..MaxConflicts /\ 0 \in 0..MaxLoss
      /\ 0 \in 0..MaxEvents
  BY Constants, MostFacts
<1>2. state \in [Hosts -> States] /\ left \in [Hosts -> Nat \cup {Never}]
  BY DEF Init, States
<1>3. chosen \in [Hosts -> 0..NumAddrs] /\ nsent \in [Hosts -> 0..Most]
      /\ conflicts \in [Hosts -> 0..MaxConflicts] /\ conf \in [Hosts -> 0..NumAddrs]
  BY <1>1 DEF Init
<1>4. PICK e : e = << >>
  OBVIOUS
<1>5. sock \in [Hosts -> Seq(Packets)]
  BY <1>4, EmptySeq DEF Init
<1>6. TypeOK
  BY <1>1, <1>2, <1>3, <1>5 DEF Init, TypeOK, Most
<1>7. HostInv
  BY DEF Init, HostInv, HostOK
<1> QED
  BY <1>6, <1>7 DEF BaseInv, CutInv, Init

LEMMA NextBase ==
  ASSUME BaseInv, ANNOUNCE_NUM >= 1, [Next]_vars
  PROVE  BaseInv'
<1>1. ASSUME NEW h \in Hosts, Zcip(h) PROVE BaseInv'
  BY <1>1, ProbeBase, AnnounceBase, RunConfigBase, ConfiguredBase, DefendOverBase,
     IgnoreBase, TryAnotherBase, DefendBase, GiveUpBase DEF Zcip
<1>2. ASSUME NEW h \in Hosts, Start(h) \/ LinkDown(h) \/ Traffic(h) \/ Lose(h)
      PROVE  BaseInv'
  BY <1>2, StartBase, LinkDownBase, TrafficBase, LoseBase
<1>3. CASE UNCHANGED vars
  <2>1. /\ UNCHANGED <<state, chosen, nsent, conflicts, left, conf, sock>>
        /\ UNCHANGED <<lost, cut, excused, events>>
    BY <1>3 DEF vars, procVars, linkVars
  <2> QED
    BY <2>1 DEF BaseInv, TypeOK, HostInv, HostOK, CutInv
<1> QED
  BY <1>1, <1>2, <1>3, LinkBase, TickBase DEF Next

(* Types of every variable of every host: the counters of probes and       *)
(* announcements stay within their limits, timeouts never go below Never,  *)
(* and every packet on the link is about a real address.                   *)
THEOREM TypesOfZcip ==
  ASSUME ANNOUNCE_NUM >= 1
  PROVE  Spec => []TypeOK
<1>1. BaseInv /\ [Next]_vars => BaseInv'
  BY NextBase
<1>2. BaseInv => TypeOK
  BY DEF BaseInv
<1> QED
  BY <1>1, <1>2, InitBase, PTL DEF Spec

LEMMA BaseInvariant ==
  ASSUME ANNOUNCE_NUM >= 1
  PROVE  Spec => []BaseInv
<1>1. BaseInv /\ [Next]_vars => BaseInv'
  BY NextBase
<1> QED
  BY <1>1, InitBase, PTL DEF Spec


-----------------------------------------------------------------------------
(* Two hosts with the same address.  The one that chose it later, x, can   *)
(* only have come so far with it, unnoticed by y, because its packets were *)
(* lost or because the script of y was running: every packet of x that y   *)
(* could have noticed is lost, or is one of those sent while the script of *)
(* y ran, or is still to be read.                                          *)

Probing(x) == state[x] \in {"PROBE", "ANNOUNCE"}
Active(x) == state[x] # "gone" \/ conf[x] # 0
Meet(x, y) == x # y /\ Active(x) /\ Active(y) /\ chosen[x] = chosen[y]

(* The packets of x that y, or the kernel of y, answers or heeds: where    *)
(* only the kernel is left, the probes.                                    *)
Sent(x, y) ==
  IF state[x] = "PROBE" THEN nsent[x]
  ELSE IF state[y] = "gone" THEN PROBE_NUM
  ELSE IF state[x] = "ANNOUNCE" THEN PROBE_NUM + nsent[x]
  ELSE PROBE_NUM + ANNOUNCE_NUM

(* The packets that the script of y may have kept it from reading.         *)
Slack(y) ==
  IF Probing(y) THEN 0
  ELSE IF state[y] = "config" THEN ScriptTime - left[y] ELSE ScriptTime + 1

(* A packet that makes x or y give up the address, or makes y answer.      *)
ToRead(x, y) ==
  /\ Probing(y) =>
       Has(sock[y], "probe", chosen[x]) \/ Has(sock[y], "claim", chosen[x])
  /\ state[y] \in {"MONITOR", "DEFEND"} =>
       Has(sock[x], "claim", chosen[x]) \/ Has(sock[y], "claim", chosen[x])
  /\ state[y] = "gone" => state[x] = "PROBE" /\ Has(sock[x], "claim", chosen[x])
Pending(x, y) == Probing(x) /\ left[x] > 0 /\ ToRead(x, y)

Behind(x, y) ==
  \/ Sent(x, y) <= lost + Slack(y)
  \/ Pending(x, y) /\ Sent(x, y) <= lost + Slack(y) + 1

RivalInv == ~ excused => \A g, h \in Hosts : Meet(g, h) => Behind(g, h) \/ Behind(h, g)

LEMMA Numbers ==
  ASSUME BaseInv, NEW x \in Hosts, NEW y \in Hosts
  PROVE  Sent(x, y) \in Nat /\ Slack(y) \in Nat /\ lost \in Nat /\ Slack(y) <= ScriptTime + 1
<1>1. nsent[x] \in Nat /\ lost \in Nat /\ HostOK(y)
  BY HostTypes
<1>2. Sent(x, y) \in Nat
  BY <1>1, Constants DEF Sent
<1>3. state[y] = "config" => left[y] \in 0..ScriptTime
  BY <1>1 DEF HostOK
<1>4. Slack(y) \in Nat /\ Slack(y) <= ScriptTime + 1
  BY <1>3, Constants DEF Slack
<1> QED
  BY <1>1, <1>2, <1>4

LEMMA ActiveConf ==
  ASSUME BaseInv, NEW y \in Hosts, Active(y), state[y] \in {"MONITOR", "DEFEND", "gone"}
  PROVE  conf[y] = chosen[y]
<1>1. HostOK(y)
  BY HostTypes
<1> QED
  BY <1>1 DEF HostOK, Active

(* Nothing of x and y changes but that their sockets grow.                 *)
Same(x) ==
  /\ state'[x] = state[x] /\ chosen'[x] = chosen[x] /\ nsent'[x] = nsent[x]
  /\ left'[x] = left[x]
Keeps(x) == \A kind, a : Has(sock[x], kind, a) => Has(sock'[x], kind, a)

LEMMA Bystanders ==
  ASSUME BaseInv, NEW x \in Hosts, NEW y \in Hosts, Behind(x, y),
         Same(x), Same(y), Keeps(x), Keeps(y), lost' = lost
  PROVE  Behind(x, y)'
<1>1. Sent(x, y)' = Sent(x, y) /\ Slack(y)' = Slack(y)
  BY DEF Sent, Slack, Probing, Same
<1>2. Pending(x, y) => Pending(x, y)'
  <2>1. ToRead(x, y) => ToRead(x, y)'
    BY DEF ToRead, Probing, Same, Keeps
  <2> QED
    BY <2>1 DEF Pending, Probing, Same
<1> QED
  BY <1>1, <1>2 DEF Behind

(* x sends a probe.                                                        *)
LEMMA ProbeBehind ==
  ASSUME BaseInv, PROBE_MIN >= 1, ~ cut, NEW x \in Hosts, NEW y \in Hosts,
         Meet(x, y), Behind(x, y), Probe(x)
  PROVE  Behind(x, y)'
<1>1. PICK t \in PROBE_MIN..PROBE_MAX : Wait(x, "PROBE", nsent[x] + 1, t)
  BY DEF Probe
<1>2. /\ state[x] = "PROBE" /\ left[x] = 0
      /\ send_arp_request(x, "probe", chosen[x]) /\ lost' = lost
  BY DEF Probe, TimedOut
<1>3. nsent[x] \in Nat /\ t \in Int /\ t > 0 /\ chosen[x] \in Addrs
  BY <1>2, HostTypes, Constants, Trying
<1>4. /\ state'[x] = "PROBE" /\ nsent'[x] = nsent[x] + 1 /\ left'[x] = t /\ chosen' = chosen
      /\ state'[y] = state[y] /\ left'[y] = left[y]
  BY <1>1 DEF BaseInv, TypeOK, Wait, Meet
<1>5. Sent(x, y) <= lost + Slack(y)
  BY <1>2 DEF Behind, Pending
<1>6. Sent(x, y)' = Sent(x, y) + 1 /\ Slack(y)' = Slack(y)
  BY <1>2, <1>4 DEF Sent, Slack, Probing
<1>7. sock \in [Hosts -> Seq(Packets)] /\ y \in Hosts \ {x} /\ chosen[y] = chosen[x]
  BY DEF BaseInv, TypeOK, Meet
<1>8. state[y] # "gone" => Has(sock'[y], "probe", chosen[x])
  BY <1>2, <1>3, <1>7, SendFacts
<1>9. conf[y] = chosen[x] => Has(sock'[x], "claim", chosen[x])
  BY <1>2, <1>3, <1>7, SendFacts
<1>10. state[y] \in {"MONITOR", "DEFEND", "gone"} => conf[y] = chosen[x]
  BY <1>7, ActiveConf DEF Meet
<1>11. ToRead(x, y)'
  BY <1>4, <1>8, <1>9, <1>10 DEF ToRead, Probing
<1>12. Pending(x, y)'
  BY <1>3, <1>4, <1>11 DEF Pending, Probing
<1>13. Sent(x, y)' <= (lost + Slack(y) + 1)'
  BY <1>2, <1>5, <1>6, Numbers
<1> QED
  BY <1>12, <1>13 DEF Behind

(* x announces its address.                                                *)
LEMMA AnnounceBehind ==
  ASSUME BaseInv, ANNOUNCE_INTERVAL >= 1, ~ cut, NEW x \in Hosts, NEW y \in Hosts,
         Meet(x, y), Behind(x, y), Announce(x)
  PROVE  Behind(x, y)'
<1>1. PICK n : /\ Wait(x, "ANNOUNCE", n, ANNOUNCE_INTERVAL)
               /\ \/ state[x] = "PROBE" /\ nsent[x] >= PROBE_NUM /\ n = 1
                  \/ state[x] = "ANNOUNCE" /\ n = nsent[x] + 1
  BY Zenon DEF Announce, TimedOut
<1>2. /\ state[x] \in {"PROBE", "ANNOUNCE"} /\ left[x] = 0
      /\ send_arp_request(x, "claim", chosen[x]) /\ lost' = lost
  BY DEF Announce, TimedOut
<1>3. nsent[x] \in Nat /\ chosen[x] \in Addrs
  BY <1>2, HostTypes, Trying
<1>4. /\ state'[x] = "ANNOUNCE" /\ nsent'[x] = n /\ left'[x] = ANNOUNCE_INTERVAL
      /\ chosen' = chosen /\ state'[y] = state[y] /\ left'[y] = left[y]
  BY <1>1 DEF BaseInv, TypeOK, Wait, Meet
<1>5. Sent(x, y) <= lost + Slack(y)
  BY <1>2 DEF Behind, Pending
<1>6. Slack(y)' = Slack(y)
  BY <1>4 DEF Slack, Probing
<1>7. sock \in [Hosts -> Seq(Packets)] /\ y \in Hosts \ {x}
  BY DEF BaseInv, TypeOK, Meet
<1>8. CASE state[y] = "gone"
  <2>1. Sent(x, y)' = PROBE_NUM /\ PROBE_NUM <= Sent(x, y)
    BY <1>1, <1>3, <1>4, <1>8, Constants DEF Sent
  <2>2. Sent(x, y)' <= (lost + Slack(y))'
    BY <1>2, <1>5, <1>6, <2>1, Numbers, Constants
  <2> QED
    BY <2>2 DEF Behind
<1>9. CASE state[y] # "gone"
  <2>1. Has(sock'[y], "claim", chosen[x])
    BY <1>2, <1>3, <1>7, <1>9, SendFacts
  <2>2. ToRead(x, y)'
    BY <1>4, <1>9, <2>1 DEF ToRead, Probing
  <2>3. Pending(x, y)'
    BY <1>4, <2>2, Constants DEF Pending, Probing
  <2>4. Sent(x, y)' <= Sent(x, y) + 1
    BY <1>1, <1>3, <1>4, <1>9, Constants DEF Sent
  <2>5. Sent(x, y)' \in Nat
    BY <1>1, <1>3, <1>4, <1>9, Constants DEF Sent
  <2>6. Sent(x, y)' <= (lost + Slack(y) + 1)'
    BY <1>2, <1>5, <1>6, <2>4, <2>5, Numbers
  <2> QED
    BY <2>3, <2>6 DEF Behind
<1> QED
  BY <1>8, <1>9


(* x runs its script, or goes on after it: none of its packets is pending. *)
LEMMA PastBehind ==
  ASSUME BaseInv, NEW x \in Hosts, NEW y \in Hosts, Meet(x, y), Behind(x, y),
         RunConfig(x) \/ Configured(x) \/ DefendOver(x) \/ Defend(x)
  PROVE  Behind(x, y)'
<1>1. /\ lost' = lost /\ state'[y] = state[y] /\ left'[y] = left[y]
      /\ state'[x] \in {"config", "MONITOR", "DEFEND", "gone"}
  <2>1. \E s, n, t : Wait(x, s, n, t)
    BY Zenon DEF RunConfig, Configured, DefendOver, Defend
  <2>2. lost' = lost
    BY DEF RunConfig, Configured, DefendOver, Defend
  <2>3. state'[x] \in {"config", "MONITOR", "DEFEND", "gone"}
    BY DEF RunConfig, Configured, DefendOver, Defend, Wait, BaseInv, TypeOK
  <2> QED
    BY <2>1, <2>2, <2>3 DEF Wait, BaseInv, TypeOK, Meet
<1>2. \/ state[x] = "ANNOUNCE" /\ left[x] = 0 /\ nsent[x] >= ANNOUNCE_NUM
      \/ state[x] \in {"config", "MONITOR", "DEFEND"}
  BY DEF RunConfig, Configured, DefendOver, Defend, TimedOut
<1>3. ~ Pending(x, y)
  BY <1>2 DEF Pending, Probing
<1>4. Sent(x, y) <= lost + Slack(y)
  BY <1>3 DEF Behind
<1>5. Slack(y)' = Slack(y)
  BY <1>1 DEF Slack, Probing
<1>6. nsent[x] \in Nat
  BY HostTypes
<1>7. Sent(x, y)' <= Sent(x, y) /\ Sent(x, y)' \in Nat
  BY <1>1, <1>2, <1>6, Constants DEF Sent
<1>8. Sent(x, y)' <= (lost + Slack(y))'
  BY <1>1, <1>4, <1>5, <1>7, Numbers
<1> QED
  BY <1>8 DEF Behind

(* y sends a probe or an announcement.                                     *)
LEMMA RivalSends ==
  ASSUME BaseInv, NEW x \in Hosts, NEW y \in Hosts, Meet(x, y), Behind(x, y),
         Probe(y) \/ Announce(y)
  PROVE  Behind(x, y)'
<1>1. /\ \E s, n, t : Wait(y, s, n, t)
      /\ state'[y] \in {"PROBE", "ANNOUNCE"}
  <2>1. \E s, n, t : Wait(y, s, n, t)
    BY Zenon DEF Probe, Announce
  <2>2. state'[y] \in {"PROBE", "ANNOUNCE"}
    BY DEF Probe, Announce, Wait, BaseInv, TypeOK
  <2> QED
    BY <2>1, <2>2
<1>2. PICK kind \in {"probe", "claim"} : send_arp_request(y, kind, chosen[y])
  BY Zenon DEF Probe, Announce
<1>3. Probing(y) /\ lost' = lost
  BY DEF Probe, Announce, TimedOut, Probing
<1>4. chosen[y] \in Addrs /\ sock \in [Hosts -> Seq(Packets)]
  BY <1>3, Trying DEF Probing, BaseInv, TypeOK
<1>5. Grows
  BY <1>2, <1>4, SendFacts
<1>6. /\ state'[x] = state[x] /\ left'[x] = left[x] /\ nsent'[x] = nsent[x]
      /\ chosen' = chosen /\ state'[y] \in {"PROBE", "ANNOUNCE"}
  BY <1>1 DEF Wait, BaseInv, TypeOK, Meet
<1>7. Sent(x, y)' = Sent(x, y) /\ Slack(y)' = Slack(y)
  BY <1>3, <1>6 DEF Sent, Slack, Probing
<1>8. ToRead(x, y) => ToRead(x, y)'
  BY <1>3, <1>5, <1>6 DEF ToRead, Probing, Grows
<1>9. Pending(x, y) => Pending(x, y)'
  BY <1>6, <1>8 DEF Pending, Probing
<1> QED
  BY <1>3, <1>7, <1>9 DEF Behind

(* y runs its script.                                                      *)
LEMMA RivalRunsConfig ==
  ASSUME BaseInv, NEW x \in Hosts, NEW y \in Hosts, Meet(x, y), Behind(x, y), RunConfig(y)
  PROVE  Behind(x, y)'
<1>1. Wait(y, "config", nsent[y], ScriptTime) /\ lost' = lost /\ state[y] = "ANNOUNCE"
  BY DEF RunConfig, TimedOut
<1>2. /\ state'[x] = state[x] /\ left'[x] = left[x] /\ nsent'[x] = nsent[x]
      /\ state'[y] = "config" /\ left'[y] = ScriptTime
  BY <1>1 DEF Wait, BaseInv, TypeOK, Meet
<1>3. Sent(x, y)' = Sent(x, y) /\ Slack(y)' = Slack(y)
  BY <1>1, <1>2, Constants DEF Sent, Slack, Probing
<1>4. Pending(x, y) => Pending(x, y)'
  BY <1>2 DEF Pending, Probing, ToRead
<1> QED
  BY <1>1, <1>3, <1>4 DEF Behind

(* The script of y is done.                                                *)
LEMMA RivalConfigured ==
  ASSUME BaseInv, NEW x \in Hosts, NEW y \in Hosts, Meet(x, y), Behind(x, y), Configured(y)
  PROVE  Behind(x, y)'
<1>1. /\ \E s, n, t : Wait(y, s, n, t)
      /\ state'[y] \in {"MONITOR", "gone"}
  <2>1. \E s, n, t : Wait(y, s, n, t)
    BY Zenon DEF Configured
  <2>2. state'[y] \in {"MONITOR", "gone"}
    BY DEF Configured, Wait, BaseInv, TypeOK
  <2> QED
    BY <2>1, <2>2
<1>2. lost' = lost /\ state[y] = "config"
  BY DEF Configured
<1>3. /\ state'[x] = state[x] /\ nsent'[x] = nsent[x] /\ state'[y] \in {"MONITOR", "gone"}
  BY <1>1 DEF Wait, BaseInv, TypeOK, Meet
<1>4. nsent[x] \in Nat /\ HostOK(y)
  BY HostTypes
<1>5. left[y] \in 0..ScriptTime
  BY <1>2, <1>4 DEF HostOK
<1>6. Slack(y)' = ScriptTime + 1 /\ Slack(y) = ScriptTime - left[y]
  BY <1>2, <1>3 DEF Slack, Probing
<1>7. Sent(x, y)' <= Sent(x, y) /\ Sent(x, y)' \in Nat
  BY <1>2, <1>3, <1>4, Constants DEF Sent
<1>8. Sent(x, y) <= lost + Slack(y) + 1
  BY Numbers DEF Behind
<1>9. Sent(x, y)' <= (lost + Slack(y))'
  BY <1>2, <1>5, <1>6, <1>7, <1>8, Numbers, Constants
<1> QED
  BY <1>9 DEF Behind

(* y leaves DEFEND, or answers a claim with one of its own.                *)
LEMMA RivalDefends ==
  ASSUME BaseInv, ~ cut, NEW x \in Hosts, NEW y \in Hosts, Meet(x, y), Behind(x, y),
         DefendOver(y) \/ Defend(y)
  PROVE  Behind(x, y)'
<1>1. /\ \E s, n, t : Wait(y, s, n, t)
      /\ state'[y] \in {"MONITOR", "DEFEND"}
  <2>1. \E s, n, t : Wait(y, s, n, t)
    BY Zenon DEF DefendOver, Defend
  <2>2. state'[y] \in {"MONITOR", "DEFEND"}
    BY DEF DefendOver, Defend, Wait, BaseInv, TypeOK
  <2> QED
    BY <2>1, <2>2
<1>2. lost' = lost /\ state[y] \in {"MONITOR", "DEFEND"}
  BY DEF DefendOver, Defend, TimedOut
<1>3. /\ state'[x] = state[x] /\ left'[x] = left[x] /\ nsent'[x] = nsent[x]
      /\ chosen' = chosen /\ state'[y] \in {"MONITOR", "DEFEND"}
      /\ x \in Hosts \ {y} /\ chosen[x] = chosen[y]
  BY <1>1 DEF Wait, BaseInv, TypeOK, Meet
<1>4. Sent(x, y)' = Sent(x, y) /\ Slack(y)' = Slack(y)
  BY <1>2, <1>3 DEF Sent, Slack, Probing
<1>5. Pending(x, y) => Pending(x, y)'
  <2>1. CASE DefendOver(y)
    <3>1. sock' = sock
      BY <2>1 DEF DefendOver
    <3> QED
      BY <3>1, <1>2, <1>3 DEF Pending, Probing, ToRead
  <2>2. CASE Defend(y)
    <3>1. state[x] # "gone" => Has(sock'[x], "claim", chosen[x])
      BY <2>2, <1>3, DefendFacts
    <3> QED
      BY <3>1, <1>2, <1>3 DEF Pending, Probing, ToRead
  <2> QED
    BY <2>1, <2>2
<1> QED
  BY <1>2, <1>4, <1>5 DEF Behind

(* A packet is ignored, by any host.                                       *)
LEMMA IgnoreBehind ==
  ASSUME BaseInv, NEW x \in Hosts, NEW y \in Hosts, Meet(x, y), Behind(x, y),
         NEW k \in Hosts, Ignore(k)
  PROVE  Behind(x, y)'
<1>1. /\ sock[k] # << >> /\ Consume(k) /\ lost' = lost /\ UNCHANGED procVars
      /\ ~ Conflict(k) \/ (state[k] \in {"MONITOR", "DEFEND"} /\ ~ SrcConflict(k))
  BY DEF Ignore, Reads
<1>2. UNCHANGED <<state, chosen, nsent, left>>
  BY <1>1 DEF procVars
<1>3. sock \in [Hosts -> Seq(Packets)] /\ chosen[x] = chosen[y]
  BY DEF BaseInv, TypeOK, Meet
<1>4. \A z \in Hosts : \A kind, a : Has(sock[z], kind, a)
         => Has(sock'[z], kind, a) \/ (z = k /\ Head(sock[k]) = [kind |-> kind, nip |-> a])
  BY <1>1, <1>3, ConsumeFacts
<1>5. ASSUME NEW z \in {x, y}, Has(sock[z], "claim", chosen[x])
      PROVE  Has(sock'[z], "claim", chosen[x])
  BY <1>1, <1>3, <1>4, <1>5 DEF Conflict, SrcConflict
<1>6. ASSUME Probing(y), Has(sock[y], "probe", chosen[x])
      PROVE  Has(sock'[y], "probe", chosen[x])
  BY <1>1, <1>3, <1>4, <1>6 DEF Conflict, TargetConflict, Probing
<1>7. ToRead(x, y) => ToRead(x, y)'
  BY <1>2, <1>5, <1>6 DEF ToRead, Probing
<1>8. Pending(x, y) => Pending(x, y)'
  BY <1>2, <1>7 DEF Pending, Probing
<1>9. Sent(x, y)' = Sent(x, y) /\ Slack(y)' = Slack(y)
  BY <1>2 DEF Sent, Slack, Probing
<1> QED
  BY <1>1, <1>8, <1>9 DEF Behind

(* Any packet is lost.                                                     *)
LEMMA LoseBehind ==
  ASSUME BaseInv, NEW x \in Hosts, NEW y \in Hosts, Behind(x, y), NEW k \in Hosts, Lose(k)
  PROVE  Behind(x, y)'
<1>1. lost' = lost + 1 /\ UNCHANGED <<state, chosen, nsent, left>>
  BY DEF Lose, procVars
<1>2. Sent(x, y)' = Sent(x, y) /\ Slack(y)' = Slack(y)
  BY <1>1 DEF Sent, Slack, Probing
<1>3. Sent(x, y) <= lost + Slack(y) + 1
  BY Numbers DEF Behind
<1>4. Sent(x, y)' <= (lost + Slack(y))'
  BY <1>1, <1>2, <1>3, Numbers
<1> QED
  BY <1>4 DEF Behind

(* Time passes: what is not read by now is for a host that runs its        *)
(* script.                                                                 *)
LEMMA TickBehind ==
  ASSUME BaseInv, NEW x \in Hosts, NEW y \in Hosts, Meet(x, y), Behind(x, y), Tick
  PROVE  Behind(x, y)'
<1>1. /\ \A h \in Hosts : left[h] # 0 /\ (state[h] # "config" => sock[h] = << >>)
      /\ left' = [h \in Hosts |-> IF left[h] > 0 THEN left[h] - 1 ELSE left[h]]
      /\ UNCHANGED <<state, chosen, nsent, lost>>
  BY DEF Tick
<1>2. Sent(x, y)' = Sent(x, y)
  BY <1>1 DEF Sent
<1>3. HostOK(y)
  BY HostTypes
<1>4. CASE state[y] = "config"
  <2>1. left[y] \in 0..ScriptTime /\ left[y] # 0
    BY <1>1, <1>3, <1>4 DEF HostOK
  <2>2. left'[y] = left[y] - 1
    BY <1>1, <2>1, Constants
  <2>3. Slack(y)' = Slack(y) + 1
    BY <1>1, <1>4, <2>1, <2>2, Constants DEF Slack, Probing
  <2>4. Sent(x, y) <= lost + Slack(y) + 1
    BY Numbers DEF Behind
  <2>5. Sent(x, y)' <= (lost + Slack(y))'
    BY <1>1, <1>2, <2>3, <2>4, Numbers
  <2> QED
    BY <2>5 DEF Behind
<1>5. CASE state[y] # "config"
  <2>1. Slack(y)' = Slack(y)
    BY <1>1, <1>5 DEF Slack, Probing
  <2>2. ~ Pending(x, y)
    <3>1. state[y] \in States
      BY HostTypes
    <3>2. sock[y] = << >> /\ (Probing(x) => sock[x] = << >>)
      BY <1>1, <1>5 DEF Probing
    <3> QED
      BY <1>5, <3>1, <3>2, HasNone DEF Pending, ToRead, States, Probing
  <2> QED
    BY <1>1, <1>2, <2>1, <2>2 DEF Behind
<1> QED
  BY <1>4, <1>5

(* A host that has just chosen its address is behind every other.          *)
LEMMA ChooserBehind ==
  ASSUME BaseInv', NEW x \in Hosts, NEW y \in Hosts, NEW c, NEW t, NewNip(x, c, t), BaseInv
  PROVE  Behind(x, y)'
<1>1. state'[x] = "PROBE" /\ nsent'[x] = 0
  BY DEF NewNip, BaseInv, TypeOK
<1>2. Sent(x, y)' = 0
  BY <1>1 DEF Sent
<1>3. Slack(y)' \in Nat /\ lost' \in Nat
  <2>1. lost' \in Nat /\ HostOK(y)'
    BY Constants DEF BaseInv, TypeOK, HostInv
  <2>2. state'[y] = "config" => left'[y] \in 0..ScriptTime
    BY <2>1 DEF HostOK
  <2> QED
    BY <2>1, <2>2, Constants DEF Slack, Probing
<1> QED
  BY <1>2, <1>3 DEF Behind


(* The steps in which no host chooses an address.                          *)
Steady(k) ==
  \/ Probe(k) \/ Announce(k) \/ RunConfig(k) \/ Configured(k) \/ DefendOver(k)
  \/ Defend(k) \/ LinkDown(k)

(* A step of another host.                                                 *)
LEMMA ThirdParty ==
  ASSUME BaseInv, NEW k \in Hosts, Steady(k), NEW x \in Hosts, x # k
  PROVE  Same(x) /\ Keeps(x) /\ lost' = lost /\ conf'[x] = conf[x]
<1>1. Same(x)
  <2>1. \E s, n, t : Wait(k, s, n, t)
    BY Zenon DEF Steady, Probe, Announce, RunConfig, Configured, DefendOver, Defend, LinkDown
  <2> QED
    BY <2>1 DEF Wait, Same, BaseInv, TypeOK
<1>2. lost' = lost
  BY DEF Steady, Probe, Announce, RunConfig, Configured, DefendOver, Defend, LinkDown
<1>3. conf'[x] = conf[x]
  BY DEF Steady, Probe, Announce, RunConfig, Configured, DefendOver, Defend, LinkDown,
         BaseInv, TypeOK
<1>4. Keeps(x)
  <2>1. CASE Probe(k) \/ Announce(k)
    <3>1. PICK kind \in {"probe", "claim"} : send_arp_request(k, kind, chosen[k])
      BY <2>1, Zenon DEF Probe, Announce
    <3>2. state[k] \in {"PROBE", "ANNOUNCE"}
      BY <2>1 DEF Probe, Announce, TimedOut
    <3>3. chosen[k] \in Addrs /\ sock \in [Hosts -> Seq(Packets)]
      BY <3>2, Trying DEF BaseInv, TypeOK
    <3>4. Grows
      BY <3>1, <3>3, SendFacts
    <3> QED
      BY <3>4 DEF Grows, Keeps
  <2>2. CASE Defend(k)
    BY <2>2, DefendFacts DEF Keeps
  <2>3. CASE RunConfig(k) \/ Configured(k) \/ DefendOver(k) \/ LinkDown(k)
    <3>1. sock'[x] = sock[x]
      BY <2>3 DEF RunConfig, Configured, DefendOver, LinkDown, BaseInv, TypeOK
    <3> QED
      BY <3>1 DEF Keeps
  <2> QED
    BY <2>1, <2>2, <2>3 DEF Steady
<1> QED
  BY <1>1, <1>2, <1>3, <1>4

LEMMA SteadyBehind ==
  ASSUME BaseInv, PROBE_MIN >= 1, ANNOUNCE_INTERVAL >= 1, ~ cut,
         NEW k \in Hosts, Steady(k), NEW x \in Hosts, NEW y \in Hosts,
         Meet(x, y), Meet(x, y)', Behind(x, y)
  PROVE  Behind(x, y)'
<1>1. CASE LinkDown(k) /\ k \in {x, y}
  <2>1. state'[k] = "gone" /\ conf'[k] = 0
    <3>1. HostOK(k)
      BY HostTypes
    <3> QED
      BY <1>1, <3>1 DEF LinkDown, Wait, BaseInv, TypeOK, HostOK
  <2> QED
    BY <1>1, <2>1 DEF Meet, Active
<1>2. CASE k = x /\ ~ LinkDown(k)
  BY <1>2, ProbeBehind, AnnounceBehind, PastBehind DEF Steady
<1>3. CASE k = y /\ ~ LinkDown(k)
  BY <1>3, RivalSends, RivalRunsConfig, RivalConfigured, RivalDefends DEF Steady
<1>4. CASE k \notin {x, y}
  <2>1. Same(x) /\ Keeps(x) /\ Same(y) /\ Keeps(y) /\ lost' = lost
    BY <1>4, ThirdParty
  <2> QED
    BY <2>1, Bystanders
<1> QED
  BY <1>1, <1>2, <1>3, <1>4

(* No two hosts come to meet in such a step.                               *)
LEMMA SteadyMeets ==
  ASSUME BaseInv, NEW k \in Hosts, Steady(k), NEW x \in Hosts, NEW y \in Hosts, Meet(x, y)'
  PROVE  Meet(x, y)
<1>1. chosen' = chosen
  <2>1. \E s, n, t : Wait(k, s, n, t)
    BY Zenon DEF Steady, Probe, Announce, RunConfig, Configured, DefendOver, Defend, LinkDown
  <2> QED
    BY <2>1 DEF Wait
<1>2. state[k] # "gone"
  BY DEF Steady, Probe, Announce, RunConfig, Configured, DefendOver, Defend, LinkDown,
         TimedOut, Reads
<1>3. ASSUME NEW z \in Hosts, Active(z)' PROVE Active(z)
  <2>1. CASE z = k
    BY <2>1, <1>2 DEF Active
  <2>2. CASE z # k
    BY <2>2, <1>3, ThirdParty DEF Active, Same
  <2> QED
    BY <2>1, <2>2
<1> QED
  BY <1>1, <1>3 DEF Meet

(* k has chosen an address: it is behind the others, and the others are to *)
(* each other as they were.                                                *)
LEMMA ChooseRival ==
  ASSUME BaseInv, BaseInv', RivalInv, NEW k \in Hosts, NEW c, NEW t, NewNip(k, c, t),
         excused' = excused, lost' = lost,
         \A z \in Hosts \ {k} : sock'[z] = sock[z] /\ conf'[z] = conf[z]
  PROVE  RivalInv'
<1> SUFFICES ASSUME ~ excused, NEW x \in Hosts, NEW y \in Hosts, Meet(x, y)'
             PROVE  Behind(x, y)' \/ Behind(y, x)'
  BY DEF RivalInv
<1>1. CASE k = x \/ k = y
  BY <1>1, ChooserBehind
<1>2. CASE k # x /\ k # y
  <2>1. Same(x) /\ Same(y)
    BY <1>2 DEF NewNip, Same, BaseInv, TypeOK
  <2>2. Keeps(x) /\ Keeps(y) /\ conf'[x] = conf[x] /\ conf'[y] = conf[y]
    BY <1>2 DEF Keeps
  <2>3. Meet(x, y)
    BY <2>1, <2>2 DEF Meet, Active, Same
  <2>4. Behind(x, y) \/ Behind(y, x)
    BY <2>3 DEF RivalInv
  <2> QED
    BY <2>1, <2>2, <2>4, Bystanders
<1> QED
  BY <1>1, <1>2

LEMMA NextRival ==
  ASSUME BaseInv, BaseInv', RivalInv, PROBE_MIN >= 1, ANNOUNCE_INTERVAL >= 1, [Next]_vars
  PROVE  RivalInv'
<1>1. ASSUME NEW k \in Hosts, Steady(k) PROVE RivalInv'
  <2>1. excused' = excused
    BY <1>1 DEF Steady, Probe, Announce, RunConfig, Configured, DefendOver, Defend, LinkDown,
                linkVars
  <2> SUFFICES ASSUME ~ excused, NEW x \in Hosts, NEW y \in Hosts, Meet(x, y)'
               PROVE  Behind(x, y)' \/ Behind(y, x)'
    BY <2>1 DEF RivalInv
  <2>2. ~ cut /\ Meet(x, y)
    BY <1>1, SteadyMeets DEF BaseInv, CutInv
  <2>3. Meet(y, x) /\ Meet(y, x)'
    BY <2>2 DEF Meet
  <2>4. Behind(x, y) \/ Behind(y, x)
    BY <2>2 DEF RivalInv
  <2> QED
    BY <1>1, <2>2, <2>3, <2>4, SteadyBehind
<1>2. ASSUME NEW k \in Hosts, TryAnother(k) \/ GiveUp(k) \/ Start(k) PROVE RivalInv'
  <2>1. CASE TryAnother(k)
    <3>1. PICK c \in 0..MaxConflicts, t \in Nat : NewNip(k, c, t)
      BY <2>1, TryAnotherChooses
    <3>2. /\ conf' = conf /\ sock[k] # << >> /\ Consume(k) /\ lost' = lost
          /\ excused' = excused
      BY <2>1, TryAnotherChooses DEF linkVars
    <3>3. \A z \in Hosts \ {k} : sock'[z] = sock[z]
      BY <3>2 DEF Consume, BaseInv, TypeOK
    <3> QED
      BY <3>1, <3>2, <3>3, ChooseRival
  <2>2. CASE GiveUp(k)
    <3>1. PICK c \in 0..MaxConflicts, t \in Nat : NewNip(k, c, t)
      BY <2>2, GiveUpChooses
    <3>2. /\ \A z \in Hosts \ {k} : conf'[z] = conf[z]
          /\ sock[k] # << >> /\ Consume(k) /\ lost' = lost /\ excused' = excused
      BY <2>2, GiveUpChooses DEF linkVars
    <3>3. \A z \in Hosts \ {k} : sock'[z] = sock[z]
      BY <3>2 DEF Consume, BaseInv, TypeOK
    <3> QED
      BY <3>1, <3>2, <3>3, ChooseRival
  <2>3. CASE Start(k)
    <3>1. PICK c \in 0..MaxConflicts, t \in Nat : NewNip(k, c, t)
      BY <2>3, StartChooses
    <3>2. conf' = conf /\ sock' = sock /\ lost' = lost /\ excused' = excused
      BY <2>3, StartChooses DEF linkVars
    <3> QED
      BY <3>1, <3>2, ChooseRival
  <2> QED
    BY <1>2, <2>1, <2>2, <2>3
<1>3. ASSUME NEW k \in Hosts, Ignore(k) \/ Lose(k) \/ Traffic(k) PROVE RivalInv'
  <2>1. UNCHANGED <<procVars, conf, linkVars>>
    BY <1>3 DEF Ignore, Lose, Traffic
  <2>2. UNCHANGED <<state, chosen, nsent, left, conf, excused>>
    BY <2>1 DEF procVars, linkVars
  <2> SUFFICES ASSUME ~ excused, NEW x \in Hosts, NEW y \in Hosts, Meet(x, y)'
               PROVE  Behind(x, y)' \/ Behind(y, x)'
    BY <2>2 DEF RivalInv
  <2>3. Meet(x, y) /\ Meet(y, x)
    BY <2>2 DEF Meet, Active
  <2>4. Behind(x, y) \/ Behind(y, x)
    BY <2>3 DEF RivalInv
  <2>5. CASE Ignore(k)
    BY <2>3, <2>4, <2>5, IgnoreBehind
  <2>6. CASE Lose(k)
    BY <2>4, <2>6, LoseBehind
  <2>7. CASE Traffic(k)
    <3>1. Grows /\ lost' = lost
      BY <2>7, TrafficBase DEF Traffic
    <3>2. Same(x) /\ Same(y) /\ Keeps(x) /\ Keeps(y)
      BY <3>1, <2>2 DEF Same, Keeps, Grows
    <3> QED
      BY <3>1, <3>2, <2>4, Bystanders
  <2> QED
    BY <1>3, <2>5, <2>6, <2>7
<1>4. CASE Split
  BY <1>4 DEF Split, RivalInv
<1>5. CASE Join \/ UNCHANGED vars
  <2>1. UNCHANGED <<state, chosen, nsent, left, conf, sock, lost, excused>>
    BY <1>5 DEF Join, vars, procVars, linkVars
  <2> SUFFICES ASSUME ~ excused, NEW x \in Hosts, NEW y \in Hosts, Meet(x, y)'
               PROVE  Behind(x, y)' \/ Behind(y, x)'
    BY <2>1 DEF RivalInv
  <2>2. Meet(x, y)
    BY <2>1 DEF Meet, Active
  <2>3. Behind(x, y) \/ Behind(y, x)
    BY <2>2 DEF RivalInv
  <2>4. Same(x) /\ Same(y) /\ Keeps(x) /\ Keeps(y) /\ lost' = lost
    BY <2>1 DEF Same, Keeps
  <2> QED
    BY <2>3, <2>4, Bystanders
<1>6. CASE Tick
  <2>1. UNCHANGED <<state, chosen, conf, excused>>
    BY <1>6 DEF Tick, linkVars
  <2> SUFFICES ASSUME ~ excused, NEW x \in Hosts, NEW y \in Hosts, Meet(x, y)'
               PROVE  Behind(x, y)' \/ Behind(y, x)'
    BY <2>1 DEF RivalInv
  <2>2. Meet(x, y) /\ Meet(y, x)
    BY <2>1 DEF Meet, Active
  <2>3. Behind(x, y) \/ Behind(y, x)
    BY <2>2 DEF RivalInv
  <2> QED
    BY <1>6, <2>2, <2>3, TickBehind
<1> QED
  BY <1>1, <1>2, <1>3, <1>4, <1>5, <1>6 DEF Next, Zcip, Steady


LEMMA InitRival == Init => RivalInv
  BY DEF Init, RivalInv, Meet, Active

LEMMA RivalInvariant ==
  ASSUME PROBE_MIN >= 1, ANNOUNCE_INTERVAL >= 1, ANNOUNCE_NUM >= 1
  PROVE  Spec => [](BaseInv /\ RivalInv)
<1>1. BaseInv /\ [Next]_vars => BaseInv'
  BY NextBase
<1>2. BaseInv /\ BaseInv' /\ RivalInv /\ [Next]_vars => RivalInv'
  BY NextRival
<1> QED
  BY <1>1, <1>2, InitBase, InitRival, PTL DEF Spec

(* What it takes to get two hosts with one address on an unsplit link: all *)
(* probes and announcements of one of them must be lost, but for those     *)
(* that can be sent while the other one's script runs and in the tick in   *)
(* which it ends.  Where one of them has left with option -q, only the     *)
(* probes count.                                                           *)
Cost(g, h) == IF "gone" \in {state[g], state[h]} THEN PROBE_NUM ELSE PROBE_NUM + ANNOUNCE_NUM
DuplicateCosts ==
  ~ excused => \A g, h \in Hosts : Shared(g, h) => Cost(g, h) <= lost + ScriptTime + 1

LEMMA SharedCost ==
  ASSUME BaseInv, RivalInv, ~ excused, NEW g \in Hosts, NEW h \in Hosts, Shared(g, h)
  PROVE  Cost(g, h) <= lost + ScriptTime + 1
<1>1. ASSUME NEW x \in Hosts, conf[x] # 0
      PROVE  /\ conf[x] = chosen[x] /\ ~ Probing(x) /\ state[x] \notin {"config", "PROBE", "ANNOUNCE"}
             /\ Active(x)
  <2>1. HostOK(x)
    BY HostTypes
  <2> QED
    BY <1>1, <2>1 DEF HostOK, Probing, Active
<1>2. Meet(g, h)
  BY <1>1 DEF Shared, Meet
<1>3. ASSUME NEW x \in Hosts, NEW y \in Hosts, conf[x] # 0, conf[y] # 0, Behind(x, y)
      PROVE  (IF state[y] = "gone" THEN PROBE_NUM ELSE PROBE_NUM + ANNOUNCE_NUM)
                <= lost + ScriptTime + 1
  <2>1. ~ Probing(x) /\ state[x] \notin {"PROBE", "ANNOUNCE"}
    BY <1>1, <1>3
  <2>2. Sent(x, y) <= lost + Slack(y)
    BY <1>3, <2>1 DEF Behind, Pending
  <2>3. Slack(y) = ScriptTime + 1
    BY <1>1, <1>3 DEF Slack
  <2>4. Sent(x, y) = IF state[y] = "gone" THEN PROBE_NUM ELSE PROBE_NUM + ANNOUNCE_NUM
    BY <2>1 DEF Sent
  <2> QED
    BY <2>2, <2>3, <2>4, Numbers, Constants
<1>4. conf[g] # 0 /\ conf[h] # 0 /\ (Behind(g, h) \/ Behind(h, g))
  BY <1>2 DEF Shared, RivalInv
<1>5. PROBE_NUM <= PROBE_NUM + ANNOUNCE_NUM /\ lost \in Nat
  BY Constants, HostTypes
<1> QED
  BY <1>3, <1>4, <1>5, Constants DEF Cost

(* Without a split link, two hosts come to have the same address only if   *)
(* as many packets are lost as DuplicateCosts says, whatever the number of *)
(* hosts, of addresses, of probes and of announcements, and however long   *)
(* the scripts take.                                                       *)
THEOREM DuplicatesAreDear ==
  ASSUME PROBE_MIN >= 1, ANNOUNCE_INTERVAL >= 1, ANNOUNCE_NUM >= 1
  PROVE  Spec => []DuplicateCosts
<1>1. BaseInv /\ RivalInv => DuplicateCosts
  BY SharedCost DEF DuplicateCosts
<1> QED
  BY <1>1, RivalInvariant, PTL

(* As long as the link is in one piece, and no more than three packets are *)
(* lost (none, where one of them has left with option -q), no two hosts    *)
(* have the same address, if the config script is short: with the three    *)
(* probes and three announcements of zcip.c, a second.                     *)
THEOREM NoDuplicateAddresses ==
  ASSUME PROBE_MIN >= 1, ANNOUNCE_INTERVAL >= 1, ANNOUNCE_NUM >= 1,
         ScriptTime + 4 < PROBE_NUM + ANNOUNCE_NUM,
         TRUE \in Quit => ScriptTime + 1 < PROBE_NUM
  PROVE  Spec => []NoDuplicate
<1>1. ASSUME BaseInv, RivalInv PROVE NoDuplicate
  <2> SUFFICES ASSUME ~ excused, NEW g \in Hosts, NEW h \in Hosts, Tolerated(g, h), Shared(g, h)
               PROVE  FALSE
    BY DEF NoDuplicate
  <2>1. Cost(g, h) <= lost + ScriptTime + 1 /\ lost \in Nat
    BY <1>1, SharedCost, HostTypes
  <2>2. CASE "gone" \in {state[g], state[h]}
    <3>1. lost = 0
      BY <2>1, <2>2 DEF Tolerated
    <3>2. TRUE \in Quit
      <4>1. conf[g] # 0 /\ conf[h] # 0 /\ HostOK(g) /\ HostOK(h)
        BY <1>1, HostTypes DEF Shared
      <4> QED
        BY <2>2, <4>1 DEF HostOK
    <3> QED
      BY <2>1, <2>2, <3>1, <3>2, Constants DEF Cost
  <2>3. CASE "gone" \notin {state[g], state[h]}
    <3>1. lost <= 3
      BY <2>3 DEF Tolerated
    <3> QED
      BY <2>1, <2>3, <3>1, Constants DEF Cost
  <2> QED
    BY <2>2, <2>3
<1>2. BaseInv /\ RivalInv => NoDuplicate
  BY <1>1
<1> QED
  BY <1>2, RivalInvariant, PTL
=============================================================================
