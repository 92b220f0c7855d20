-------------------------- MODULE DhcpdLeaseProofs --------------------------
(***************************************************************************)
(* udhcpd never grants an address that is in use: the leases its clients   *)
(* rely on are in its table and in its file.                               *)
(***************************************************************************)
EXTENDS DhcpdProofs

-----------------------------------------------------------------------------
(* The inductive invariant. *)

(* What the proofs ask of the configuration.  No lease is static; a lease  *)
(* is not shorter than the shortest that udhcpc believes (2 * 61 s); no    *)
(* lease wraps around the 32 bits of a leasetime_t.                        *)
Provisioned ==
  /\ StaticMacs = {}
  /\ 2 * (RenewMin + 1) <= LeaseTime /\ LeaseTime < Forever
  /\ MaxTime # 0 /\ MaxTime + LeaseTime < Wrap

(* For offers: the three packets of a client that asks for an address that *)
(* it was offered are sent while the offer, and the lease, last.           *)
OfferLasts ==
  /\ 3 * Pause <= OfferTime /\ 3 * Pause <= LeaseTime
  /\ MaxTime + OfferTime < Wrap

(* What is in a queue. *)
NoDiscover(q) == \A i \in 1..Len(q) : q[i].type # "DISCOVER"
NoCurrent(q, type) == \A i \in 1..Len(q) : q[i].cur => q[i].type # type
Farewell(m) == m.type \in {"DECLINE", "RELEASE"}
Leaving(q) == \E i \in 1..Len(q) : Farewell(q[i])

(* A client discovers before it requests, and says farewell last: what is  *)
(* behind a current REQUEST is no DISCOVER, and a DISCOVER ahead of a      *)
(* DECLINE or a RELEASE is of an earlier round.                            *)
Ordered(q) ==
  \A i, j \in 1..Len(q) : i < j =>
    /\ q[i].type = "REQUEST" /\ q[i].cur => q[j].type # "DISCOVER"
    /\ q[i].type = "DISCOVER" /\ q[i].cur => ~ Farewell(q[j])

(* The two sockets of client c fit its state: no answer that it may still  *)
(* act on can be overtaken by a packet that takes the lease away.          *)
ChannelInv(c) ==
  /\ ~ Listening(c) => toClient[c] = << >>
  /\ Ordered(toServer[c])
  /\ st[c] = "INIT_SELECTING" /\ num[c] > 0 =>
       NoCurrent(toServer[c], "REQUEST") /\ NoCurrent(toClient[c], "ACK")
  /\ HoldsLease(c) \/ ~ NoCurrent(toClient[c], "ACK") => NoDiscover(toServer[c])
  /\ Leaving(toServer[c]) =>
       /\ st[c] \in {"INIT_SELECTING", "RELEASED", "EXIT"}
       /\ NoCurrent(toClient[c], "OFFER")
  /\ st[c] # "EXIT" /\ conf[c] # 0 => HoldsLease(c)

(* The timer of a client that holds a lease runs out before the lease.     *)
TimerInv(c) ==
  HoldsLease(c) => waited[c] <= timeout[c] /\ 2 * timeout[c] <= LeaseTime

Entered(t, c, a, limit) ==
  /\ a # 0
  /\ \E i \in Slots : t[i].mac = c /\ t[i].nip = a /\ t[i].expires >= limit

(* For `left` more ticks at least, address a is c's: in the lease file, and, *)
(* once the record of the file has been read, in the table.                *)
Held(c, a, left) ==
  /\ a # 0
  /\ \E i \in Slots :
       /\ file.recs[i].mac = c /\ file.recs[i].nip = a
       /\ file.recs[i].expires >= left + (now - file.at)
       /\ pc \in {"loop", "find"} \/ (pc = "read" /\ pos > i)
            => Entered(leases, c, a, now + left)

(* An address in use is held for the rest of the client's timer and for as *)
(* long again; so is one in an ACK that a client may still act on.         *)
HeldInv(c) ==
  /\ InUse(c) => Held(c, conf[c], timeout[c] - waited[c] + timeout[c])
  /\ \A i \in 1..Len(toClient[c]) :
       toClient[c][i].type = "ACK" /\ toClient[c][i].cur =>
         \/ Held(c, toClient[c][i].yi, LeaseTime)
         \/ st[c] = "INIT_SELECTING" /\ NoCurrent(toClient[c], "OFFER")

(* The clock does not wrap around; the file is read into free entries.     *)
ClockInv ==
  /\ now \in 1..MaxTime
  /\ \A i \in Slots : /\ leases[i].expires < Wrap
                      /\ file.recs[i].expires + file.at < Wrap
  /\ pc = "read" =>
       /\ pos > 0
       /\ \A k \in Slots : k <= MaxLeases + 1 - pos => leases[k].expires = 0

LeaseInv ==
  /\ \A c \in Macs : ChannelInv(c) /\ TimerInv(c)
  /\ ClockInv
  /\ forgot # "leases" => \A c \in Macs : HeldInv(c)

(* How long a client goes on asking for the address it was offered.        *)
Asking(c) ==
  timeout[c] - waited[c] +
    (IF num[c] = 0 THEN 3 * Pause ELSE IF num[c] = 1 THEN 2 * Pause
     ELSE IF num[c] = 2 THEN Pause ELSE 0)

(* The three requests for an offered address follow each other.            *)
AskInv(c) ==
  st[c] = "REQUESTING" =>
    /\ waited[c] <= timeout[c] /\ timeout[c] <= Pause
    /\ num[c] = 0 => timeout[c] = 0

(* The address that c asks for, or has been offered, is entered for it.    *)
OfferedInv(c) ==
  /\ st[c] = "REQUESTING" => Entered(leases, c, ip[c], now + Asking(c))
  /\ \A i \in 1..Len(toClient[c]) :
       toClient[c][i].type = "OFFER" /\ toClient[c][i].cur =>
         Entered(leases, c, toClient[c][i].yi, now + 3 * Pause)

(* While an address is searched for a client, the client has none, and     *)
(* oldest_lease is a lease.                                                *)
FindInv ==
  pc = "find" =>
    /\ \A i \in Slots : leases[i].mac = served => leases[i].nip = 0
    /\ oldest # 0 => leases[oldest].nip # 0

OfferInv ==
  /\ \A c \in Macs : AskInv(c)
  /\ FindInv
  /\ forgot = "nothing" =>
       pc # "read" /\ (pc # "down" => \A c \in Macs : OfferedInv(c))


-----------------------------------------------------------------------------
(* Queues. *)

(* What each kind of change does to the packets of a queue.                *)
LEMMA PutQueue ==
  ASSUME NEW S, NEW q \in Seq(S), NEW m \in S, NEW r, r = Put(q, m)
  PROVE  \A i \in 1..Len(r) :
           \/ i \in 1..Len(q) /\ r[i] = q[i]
           \/ i = Len(q) + 1 /\ r[i] = m
<1>1. Len(q) \in Nat
  BY QueueFacts
<1>2. \/ r = q
      \/ Len(r) = Len(q) + 1 /\ r[Len(q) + 1] = m /\ \A i \in 1..Len(q) : r[i] = q[i]
  BY PutFacts
<1>3. CASE r = q
  BY <1>3
<1>4. CASE Len(r) = Len(q) + 1 /\ r[Len(q) + 1] = m /\ \A i \in 1..Len(q) : r[i] = q[i]
  <2> TAKE i \in 1..Len(r)
  <2>1. i \in 1..Len(q) \/ i = Len(q) + 1
    BY <1>1, <1>4
  <2> QED
    BY <1>4, <2>1
<1> QED
  BY <1>2, <1>3, <1>4

LEMMA TailQueue ==
  ASSUME NEW S, NEW q \in Seq(S), q # << >>, NEW r, r = Tail(q)
  PROVE  /\ Len(q) \in Nat /\ 1 \in 1..Len(q) /\ Head(q) = q[1]
         /\ \A i \in 1..Len(r) : i + 1 \in 1..Len(q) /\ 1 < i + 1 /\ r[i] = q[i + 1]
<1>1. /\ Len(q) \in Nat /\ Len(q) >= 1 /\ Head(q) = q[1]
      /\ Len(r) = Len(q) - 1 /\ \A i \in 1..Len(q) - 1 : r[i] = q[i + 1]
  BY QueueFacts, TakeFacts
<1> QED
  BY <1>1

(* Order is kept by a packet that fits behind the others.                  *)
LEMMA PutOrdered ==
  ASSUME NEW S, NEW q \in Seq(S), NEW m \in S, NEW r, r = Put(q, m), Ordered(q),
         m.type = "DISCOVER" => NoCurrent(q, "REQUEST"),
         Farewell(m) => NoCurrent(q, "DISCOVER")
  PROVE  Ordered(r)
<1>1. Len(q) \in Nat
  BY QueueFacts
<1>2. \A i \in 1..Len(r) : \/ i \in 1..Len(q) /\ r[i] = q[i]
                           \/ i = Len(q) + 1 /\ r[i] = m
  BY PutQueue
<1> SUFFICES ASSUME NEW i \in 1..Len(r), NEW j \in 1..Len(r), i < j
             PROVE  /\ r[i].type = "REQUEST" /\ r[i].cur => r[j].type # "DISCOVER"
                    /\ r[i].type = "DISCOVER" /\ r[i].cur => ~ Farewell(r[j])
  BY DEF Ordered
<1>3. i \in 1..Len(q) /\ r[i] = q[i]
  BY <1>1, <1>2
<1>4. CASE j \in 1..Len(q) /\ r[j] = q[j]
  BY <1>3, <1>4 DEF Ordered
<1>5. CASE r[j] = m
  BY <1>3, <1>5 DEF NoCurrent
<1> QED
  BY <1>2, <1>4, <1>5

(* What a queue does not have, it has after a packet of another kind only. *)
LEMMA PutKinds ==
  ASSUME NEW S, NEW q \in Seq(S), NEW m \in S, NEW r, r = Put(q, m)
  PROVE  /\ NoDiscover(q) /\ m.type # "DISCOVER" => NoDiscover(r)
         /\ Leaving(r) => Leaving(q) \/ Farewell(m)
         /\ \A type : NoCurrent(q, type) /\ ~ (m.cur /\ m.type = type) => NoCurrent(r, type)
<1>1. \A i \in 1..Len(r) : \/ i \in 1..Len(q) /\ r[i] = q[i]
                           \/ i = Len(q) + 1 /\ r[i] = m
  BY PutQueue
<1>2. NoDiscover(q) /\ m.type # "DISCOVER" => NoDiscover(r)
  BY <1>1 DEF NoDiscover
<1>3. Leaving(r) => Leaving(q) \/ Farewell(m)
  BY <1>1 DEF Leaving
<1>4. \A type : NoCurrent(q, type) /\ ~ (m.cur /\ m.type = type) => NoCurrent(r, type)
  BY <1>1 DEF NoCurrent
<1> QED
  BY <1>2, <1>3, <1>4

LEMMA TailKinds ==
  ASSUME NEW S, NEW q \in Seq(S), q # << >>, NEW r, r = Tail(q)
  PROVE  /\ Ordered(q) => Ordered(r)
         /\ NoDiscover(q) => NoDiscover(r)
         /\ Leaving(r) => Leaving(q)
         /\ \A type : NoCurrent(q, type) => NoCurrent(r, type)
<1>1. \A i \in 1..Len(r) : i + 1 \in 1..Len(q) /\ r[i] = q[i + 1]
  BY TailQueue
<1>2. Ordered(q) => Ordered(r)
  <2> SUFFICES ASSUME Ordered(q), NEW i \in 1..Len(r), NEW j \in 1..Len(r), i < j
               PROVE  /\ r[i].type = "REQUEST" /\ r[i].cur => r[j].type # "DISCOVER"
                      /\ r[i].type = "DISCOVER" /\ r[i].cur => ~ Farewell(r[j])
    BY DEF Ordered
  <2>1. i + 1 < j + 1
    OBVIOUS
  <2> QED
    BY <1>1, <2>1 DEF Ordered
<1>3. NoDiscover(q) => NoDiscover(r)
  BY <1>1 DEF NoDiscover
<1>4. Leaving(r) => Leaving(q)
  BY <1>1 DEF Leaving
<1>5. \A type : NoCurrent(q, type) => NoCurrent(r, type)
  BY <1>1 DEF NoCurrent
<1> QED
  BY <1>2, <1>3, <1>4, <1>5

LEMMA AgedKinds ==
  ASSUME NEW S \in {Requests, Replies}, NEW q \in Seq(S)
  PROVE  /\ Aged(q) \in Seq(S)
         /\ Ordered(Aged(q))
         /\ Leaving(Aged(q)) => Leaving(q)
         /\ \A type : NoCurrent(Aged(q), type)
<1>1. /\ Aged(q) \in Seq(S) /\ Len(Aged(q)) = Len(q) /\ Len(q) \in Nat
      /\ \A i \in 1..Len(q) : Aged(q)[i].type = q[i].type /\ ~ Aged(q)[i].cur
  BY AgedFacts, QueueFacts
<1> QED
  BY <1>1 DEF Ordered, Leaving, NoCurrent, Farewell

LEMMA EmptyKinds ==
  /\ Len(<< >>) = 0 /\ Ordered(<< >>) /\ NoDiscover(<< >>) /\ ~ Leaving(<< >>)
  /\ \A type : NoCurrent(<< >>, type)
<1>1. Len(<< >>) = 0 /\ 1..0 = {}
  OBVIOUS
<1> QED
  BY <1>1 DEF Ordered, NoDiscover, Leaving, NoCurrent

-----------------------------------------------------------------------------
(* The sockets fit the state of the client. *)

(* A step of the client.                                                   *)
LEMMA ChannelClient ==
  ASSUME NetType, NetType', NEW c \in Macs, num[c] \in Nat, ChannelInv(c), ClientEffect(c)
  PROVE  ChannelInv(c)'
<1> DEFINE q == toServer[c]
           r == toClient[c]
<1>1. q \in Seq(Requests) /\ r \in Seq(Replies)
  BY DEF NetType
<1>2. Requests \in {Requests, Replies} /\ Replies \in {Requests, Replies}
  OBVIOUS
<1>3. /\ ~ Listening(c) => r = << >>
      /\ Ordered(q)
      /\ st[c] = "INIT_SELECTING" /\ num[c] > 0 => NoCurrent(q, "REQUEST") /\ NoCurrent(r, "ACK")
      /\ HoldsLease(c) \/ ~ NoCurrent(r, "ACK") => NoDiscover(q)
      /\ Leaving(q) => st[c] \in {"INIT_SELECTING", "RELEASED", "EXIT"} /\ NoCurrent(r, "OFFER")
      /\ st[c] # "EXIT" /\ conf[c] # 0 => HoldsLease(c)
  BY DEF ChannelInv
<1>4. NoDiscover(q) => NoCurrent(q, "DISCOVER")
  BY DEF NoDiscover, NoCurrent
<1>5. ASSUME r # << >>
      PROVE  /\ Listening(c) /\ Head(r).cur => ~ NoCurrent(r, Head(r).type)
             /\ Tail(r) \in Seq(Replies)
             /\ \A type : NoCurrent(r, type) => NoCurrent(Tail(r), type)
             /\ Listening(c)
  <2>1. Len(r) \in Nat /\ 1 \in 1..Len(r) /\ Head(r) = r[1]
    BY <1>1, <1>5, TailQueue
  <2>2. Head(r).cur => ~ NoCurrent(r, Head(r).type)
    BY <2>1 DEF NoCurrent
  <2>3. Tail(r) \in Seq(Replies) /\ \A type : NoCurrent(r, type) => NoCurrent(Tail(r), type)
    BY <1>1, <1>5, TailKinds, TakeFacts
  <2> QED
    BY <1>3, <1>5, <2>2, <2>3
<1>6. CASE Discovered(c)
  <2>1. PICK m \in Requests :
          /\ m.type = "DISCOVER"
          /\ \/ num[c] = 0 /\ toServer'[c] = Put(Aged(q), m) /\ toClient'[c] = Aged(r)
             \/ num[c] > 0 /\ toServer'[c] = Put(q, m) /\ toClient'[c] = r
    BY <1>6 DEF Discovered
  <2>2. st[c] = "INIT_SELECTING" /\ st'[c] = st[c] /\ conf'[c] = conf[c]
    BY <1>6 DEF Discovered
  <2>3. ~ Farewell(m) /\ m.type # "REQUEST" /\ m.type # "ACK"
    BY <2>1 DEF Farewell
  <2>4. CASE num[c] = 0 /\ toServer'[c] = Put(Aged(q), m) /\ toClient'[c] = Aged(r)
    <3>1. /\ Aged(q) \in Seq(Requests) /\ Ordered(Aged(q))
          /\ Leaving(Aged(q)) => Leaving(q)
          /\ NoCurrent(Aged(q), "REQUEST")
      BY <1>1, <1>2, AgedKinds
    <3>2. NoCurrent(Aged(r), "ACK") /\ NoCurrent(Aged(r), "OFFER")
      BY <1>1, <1>2, AgedKinds
    <3>3. Ordered(toServer'[c])
      BY <2>3, <2>4, <3>1, PutOrdered
    <3>4. NoCurrent(toServer'[c], "REQUEST") /\ (Leaving(toServer'[c]) => Leaving(q))
      BY <2>3, <2>4, <3>1, PutKinds
    <3> QED
      BY <1>3, <2>2, <2>4, <3>2, <3>3, <3>4 DEF ChannelInv, Listening, HoldsLease
  <2>5. CASE num[c] > 0 /\ toServer'[c] = Put(q, m) /\ toClient'[c] = r
    <3>1. NoCurrent(q, "REQUEST") /\ NoCurrent(r, "ACK")
      BY <1>3, <2>2, <2>5
    <3>2. Ordered(toServer'[c])
      BY <1>1, <1>3, <2>3, <2>5, <3>1, PutOrdered
    <3>3. NoCurrent(toServer'[c], "REQUEST") /\ (Leaving(toServer'[c]) => Leaving(q))
      BY <1>1, <2>3, <2>5, <3>1, PutKinds
    <3> QED
      BY <1>3, <2>2, <2>5, <3>1, <3>2, <3>3 DEF ChannelInv, Listening, HoldsLease
  <2> QED
    BY <2>1, <2>4, <2>5
<1>7. CASE Asked(c) \/ (HoldsLease(c) /\ \E t \in 0..timeout[c] : Renewed(c, t))
  <2>1. PICK m \in Requests : m.type = "REQUEST" /\ toServer'[c] = Put(q, m)
    BY <1>7 DEF Asked, Renewed
  <2>2. /\ \/ st[c] = "REQUESTING" /\ st'[c] = "REQUESTING"
           \/ HoldsLease(c) /\ HoldsLease(c)'
        /\ Listening(c)' /\ st'[c] # "INIT_SELECTING"
        /\ toClient'[c] = << >> \/ toClient'[c] = r
        /\ conf'[c] = conf[c]
    <3>1. CASE Asked(c)
      BY <3>1 DEF Asked, Listening
    <3>2. CASE HoldsLease(c) /\ \E t \in 0..timeout[c] : Renewed(c, t)
      BY <3>2 DEF Renewed, Listening, HoldsLease
    <3> QED
      BY <1>7, <3>1, <3>2
  <2>3. ~ Farewell(m) /\ m.type # "DISCOVER"
    BY <2>1 DEF Farewell
  <2>4. Ordered(toServer'[c]) /\ (NoDiscover(q) => NoDiscover(toServer'[c]))
        /\ (Leaving(toServer'[c]) => Leaving(q))
    BY <1>1, <1>3, <2>1, <2>3, PutOrdered, PutKinds
  <2>5. ~ Leaving(toServer'[c])
    BY <1>3, <2>2, <2>4 DEF HoldsLease
  <2>6. ~ NoCurrent(toClient'[c], "ACK") => ~ NoCurrent(r, "ACK")
    BY <2>2, EmptyKinds
  <2>7. HoldsLease(c)' \/ ~ NoCurrent(toClient'[c], "ACK") => NoDiscover(toServer'[c])
    BY <1>3, <2>2, <2>4, <2>6 DEF HoldsLease
  <2>8. st'[c] # "EXIT" /\ conf'[c] # 0 => HoldsLease(c)'
    BY <1>3, <2>2 DEF HoldsLease
  <2> QED
    BY <2>2, <2>4, <2>5, <2>7, <2>8 DEF ChannelInv
<1>8. CASE Restarted(c)
  <2>1. /\ st'[c] = "INIT_SELECTING" /\ num'[c] = 0 /\ toServer'[c] = q
        /\ toClient'[c] = << >> \/ toClient'[c] = r
        /\ conf'[c] = 0 \/ (conf'[c] = conf[c] /\ st[c] # "EXIT" /\ ~ HoldsLease(c))
    BY <1>8 DEF Restarted
  <2>2. \A type : NoCurrent(r, type) => NoCurrent(toClient'[c], type)
    BY <2>1, EmptyKinds
  <2> QED
    BY <1>3, <2>1, <2>2 DEF ChannelInv, Listening, HoldsLease
<1>9. CASE Left(c) \/ Declined(c)
  <2>1. /\ st'[c] \in {"RELEASED", "EXIT"} \/ (st'[c] = "INIT_SELECTING" /\ num'[c] = 0)
        /\ toClient'[c] = << >>
        /\ st'[c] = "EXIT" \/ conf'[c] = 0
             \/ (conf'[c] = conf[c] /\ st[c] = "REQUESTING")
        /\ \/ toServer'[c] = q
           \/ /\ HoldsLease(c) \/ (r # << >> /\ Head(r).type = "ACK" /\ Head(r).cur)
              /\ \E m \in Requests : /\ m.type \in {"DECLINE", "RELEASE"}
                                     /\ toServer'[c] = Put(q, m)
    BY <1>9 DEF Left, Declined
  <2>2. Ordered(toServer'[c])
    <3>1. CASE toServer'[c] = q
      BY <1>3, <3>1
    <3>2. CASE toServer'[c] # q
      <4>1. PICK m \in Requests : m.type \in {"DECLINE", "RELEASE"} /\ toServer'[c] = Put(q, m)
        BY <2>1, <3>2
      <4>2. NoDiscover(q)
        BY <1>3, <1>5, <2>1, <3>2
      <4>3. m.type # "DISCOVER"
        BY <4>1
      <4> QED
        BY <1>1, <1>3, <1>4, <4>1, <4>2, <4>3, PutOrdered
    <3> QED
      BY <3>1, <3>2
  <2>3. NoCurrent(toClient'[c], "ACK") /\ NoCurrent(toClient'[c], "OFFER")
    BY <2>1, EmptyKinds
  <2>4. ~ HoldsLease(c)' /\ st'[c] \in {"INIT_SELECTING", "RELEASED", "EXIT"}
    BY <2>1 DEF HoldsLease
  <2>5. st'[c] = "EXIT" \/ conf'[c] = 0
    BY <1>3, <2>1 DEF HoldsLease
  <2>6. ~ (st'[c] = "INIT_SELECTING" /\ num'[c] > 0)
    BY <2>1
  <2> QED
    BY <2>1, <2>2, <2>3, <2>4, <2>5, <2>6 DEF ChannelInv
<1>10. CASE Selected(c)
  <2>1. /\ r # << >> /\ Head(r).type = "OFFER" /\ Head(r).cur
        /\ st[c] = "INIT_SELECTING" /\ st'[c] = "REQUESTING" /\ conf'[c] = conf[c]
        /\ toServer'[c] = q /\ toClient'[c] = Tail(r)
    BY <1>10 DEF Selected
  <2>2. ~ Leaving(q) /\ (NoCurrent(r, "ACK") => NoCurrent(Tail(r), "ACK"))
    BY <1>3, <1>5, <2>1
  <2> QED
    BY <1>3, <2>1, <2>2 DEF ChannelInv, Listening, HoldsLease
<1>11. CASE Ignored(c)
  <2>1. /\ r # << >> /\ toClient'[c] = Tail(r) /\ toServer'[c] = q
        /\ st' = st /\ num' = num /\ conf' = conf
    BY <1>11 DEF Ignored, clientVars, timerVars
  <2>2. Listening(c) /\ \A type : NoCurrent(r, type) => NoCurrent(Tail(r), type)
    BY <1>5, <2>1
  <2> QED
    BY <1>3, <2>1, <2>2 DEF ChannelInv, Listening, HoldsLease
<1>12. CASE NowBound(c)
  <2>1. /\ r # << >> /\ Head(r).type = "ACK" /\ Head(r).cur
        /\ Listening(c) /\ st[c] # "INIT_SELECTING" /\ st'[c] = "BOUND"
        /\ toServer'[c] = q /\ toClient'[c] = << >>
    BY <1>12 DEF NowBound
  <2>2. NoDiscover(q) /\ ~ Leaving(q)
    BY <1>3, <1>5, <2>1 DEF Listening
  <2> QED
    BY <1>3, <2>1, <2>2, EmptyKinds DEF ChannelInv, HoldsLease
<1> QED
  BY <1>6, <1>7, <1>8, <1>9, <1>10, <1>11, <1>12 DEF ClientEffect

(* Nothing of the client, nor of its sockets, changes.                     *)
LEMMA ChannelSame ==
  ASSUME NEW c \in Macs, ChannelInv(c),
         st'[c] = st[c] /\ num'[c] = num[c] /\ conf'[c] = conf[c],
         toServer'[c] = toServer[c] /\ toClient'[c] = toClient[c]
  PROVE  ChannelInv(c)'
  BY DEF ChannelInv, Listening, HoldsLease

(* A reply that fits the request.                                          *)
Fits(a, m) ==
  a.cur => \/ a.type = "OFFER" /\ m.type = "DISCOVER" /\ m.cur
           \/ a.type = "ACK" /\ m.type = "REQUEST" /\ m.cur
           \/ a.type = "NAK"

(* A packet leaves a socket, and may be answered.                          *)
LEMMA ChannelServer ==
  ASSUME NetType, NEW c \in Macs, ChannelInv(c),
         st'[c] = st[c] /\ num'[c] = num[c] /\ conf'[c] = conf[c],
         toServer[c] # << >> /\ toServer'[c] = Tail(toServer[c]),
         \/ toClient'[c] = toClient[c]
         \/ /\ Listening(c)
            /\ \E a \in Replies : /\ toClient'[c] = Put(toClient[c], a)
                                  /\ Fits(a, Head(toServer[c]))
  PROVE  ChannelInv(c)'
<1> DEFINE q == toServer[c]
           r == toClient[c]
           h == Head(q)
           t == Tail(q)
<1>1. q \in Seq(Requests) /\ r \in Seq(Replies) /\ q # << >>
  BY DEF NetType
<1>2. /\ ~ Listening(c) => r = << >>
      /\ Ordered(q)
      /\ st[c] = "INIT_SELECTING" /\ num[c] > 0 => NoCurrent(q, "REQUEST") /\ NoCurrent(r, "ACK")
      /\ HoldsLease(c) \/ ~ NoCurrent(r, "ACK") => NoDiscover(q)
      /\ Leaving(q) => st[c] \in {"INIT_SELECTING", "RELEASED", "EXIT"} /\ NoCurrent(r, "OFFER")
      /\ st[c] # "EXIT" /\ conf[c] # 0 => HoldsLease(c)
  BY DEF ChannelInv
<1>3. /\ Ordered(t) /\ (NoDiscover(q) => NoDiscover(t)) /\ (Leaving(t) => Leaving(q))
      /\ NoCurrent(q, "REQUEST") => NoCurrent(t, "REQUEST")
  BY <1>1, <1>2, TailKinds
<1>4. (Listening(c)' <=> Listening(c)) /\ (HoldsLease(c)' <=> HoldsLease(c))
  BY DEF Listening, HoldsLease
<1>5. CASE toClient'[c] = r
  BY <1>2, <1>3, <1>4, <1>5 DEF ChannelInv
<1>6. CASE /\ Listening(c)
           /\ \E a \in Replies : toClient'[c] = Put(r, a) /\ Fits(a, h)
  <2>1. PICK a \in Replies : toClient'[c] = Put(r, a) /\ Fits(a, h)
    BY <1>6
  <2>2. /\ ~ (a.cur /\ a.type = "ACK") /\ NoCurrent(r, "ACK") => NoCurrent(toClient'[c], "ACK")
        /\ ~ (a.cur /\ a.type = "OFFER") /\ NoCurrent(r, "OFFER") => NoCurrent(toClient'[c], "OFFER")
    BY <1>1, <2>1, PutKinds
  <2>3. /\ Len(q) \in Nat /\ 1 \in 1..Len(q) /\ h = q[1]
        /\ \A i \in 1..Len(t) : i + 1 \in 1..Len(q) /\ 1 < i + 1 /\ t[i] = q[i + 1]
    BY <1>1, TailQueue
  <2> HIDE DEF q, t, h
  <2>4. a.cur /\ a.type = "ACK" => NoDiscover(t) /\ ~ NoCurrent(q, "REQUEST")
    <3> SUFFICES ASSUME a.cur, a.type = "ACK"
                 PROVE  NoDiscover(t) /\ ~ NoCurrent(q, "REQUEST")
      OBVIOUS
    <3>1. q[1].type = "REQUEST" /\ q[1].cur
      BY <2>1, <2>3 DEF Fits
    <3>2. \A i \in 1..Len(t) : t[i].type # "DISCOVER"
      BY <1>2, <2>3, <3>1 DEF Ordered
    <3> QED
      BY <2>3, <3>1, <3>2 DEF NoDiscover, NoCurrent
  <2>5. a.cur /\ a.type = "OFFER" => ~ Leaving(t)
    <3> SUFFICES ASSUME a.cur, a.type = "OFFER"
                 PROVE  ~ Leaving(t)
      OBVIOUS
    <3>1. q[1].type = "DISCOVER" /\ q[1].cur
      BY <2>1, <2>3 DEF Fits
    <3>2. \A i \in 1..Len(t) : ~ Farewell(t[i])
      BY <1>2, <2>3, <3>1 DEF Ordered
    <3> QED
      BY <3>2 DEF Leaving
  <2>6. st[c] = "INIT_SELECTING" /\ num[c] > 0 =>
          NoCurrent(t, "REQUEST") /\ NoCurrent(toClient'[c], "ACK")
    BY <1>2, <1>3, <2>2, <2>4
  <2>7. HoldsLease(c) \/ ~ NoCurrent(toClient'[c], "ACK") => NoDiscover(t)
    BY <1>2, <1>3, <2>2, <2>4
  <2>8. Leaving(t) => /\ st[c] \in {"INIT_SELECTING", "RELEASED", "EXIT"}
                      /\ NoCurrent(toClient'[c], "OFFER")
    BY <1>2, <1>3, <2>2, <2>5
  <2>9. toServer'[c] = t
    BY DEF t, q
  <2> QED
    BY <1>2, <1>3, <1>4, <1>6, <2>6, <2>7, <2>8, <2>9 DEF ChannelInv
<1> QED
  BY <1>5, <1>6

(* A packet is lost on its way to the client.                              *)
LEMMA ChannelLost ==
  ASSUME NetType, NEW c \in Macs, ChannelInv(c),
         st'[c] = st[c] /\ num'[c] = num[c] /\ conf'[c] = conf[c],
         toServer'[c] = toServer[c],
         toClient[c] # << >> /\ toClient'[c] = Tail(toClient[c])
  PROVE  ChannelInv(c)'
<1>1. toClient[c] \in Seq(Replies)
  BY DEF NetType
<1>2. \A type : NoCurrent(toClient[c], type) => NoCurrent(toClient'[c], type)
  BY <1>1, TailKinds
<1>3. Listening(c) /\ Listening(c)'
  BY DEF ChannelInv, Listening
<1> QED
  BY <1>2, <1>3 DEF ChannelInv, HoldsLease

-----------------------------------------------------------------------------
(* The entry of a lease. *)

(* oldest_expired_lease prefers the last empty entry.                      *)
LEMMA OldestEmpty ==
  ASSUME NEW t, NEW k \in Slots, t[k].expires = 0
  PROVE  Oldest(t) \in Slots /\ k <= Oldest(t) /\ t[Oldest(t)].expires = 0
<1> DEFINE empty == {i \in Slots : t[i].expires = 0}
<1>1. MaxLeases \in Nat /\ empty \subseteq 1..MaxLeases /\ k \in empty
  BY Constants DEF Slots
<1>2. \E x \in empty : \A y \in empty : y <= x
  <2> HIDE DEF empty
  <2> QED
    BY <1>1, Largest
<1>3. Oldest(t) = CHOOSE x \in empty : \A y \in empty : y <= x
  BY <1>1 DEF Oldest
<1>4. Oldest(t) \in empty /\ k <= Oldest(t)
  <2> HIDE DEF empty
  <2> QED
    BY <1>1, <1>2, <1>3
<1> QED
  BY <1>4

LEMMA TimeLeft ==
  ASSUME NEW secs \in Nat, now \in Nat, now + secs < Wrap
  PROVE  (now + secs) % Wrap = now + secs
<1>1. Wrap \in Nat \ {0} /\ now + secs \in Nat
  BY Constants
<1> QED
  BY <1>1

(* An address that a new lease may use: nobody but m has it, or the lease  *)
(* has expired.                                                            *)
Unused(t, m, a) ==
  \A j \in Slots : a # 0 /\ t[j].nip = a => t[j].mac = m \/ t[j].expires < now

(* A lease in force stays in the table when one is added for another       *)
(* client, with another address or an unused one.                          *)
LEMMA EnteredKept ==
  ASSUME NEW t, Table(t), now \in Nat \ {0},
         NEW m \in Macs \cup {Zero, NULL}, NEW a \in 0..NumIps, NEW secs \in Nat,
         NEW d \in Macs, NEW b, NEW limit \in Nat, limit >= now,
         d # m, a # b \/ Unused(t, m, a), Entered(t, d, b, limit)
  PROVE  Entered(add_lease(t, m, a, secs), d, b, limit)
<1>1. PICK i \in Slots : t[i].mac = d /\ t[i].nip = b /\ t[i].expires >= limit
  BY DEF Entered
<1>2. t[i].expires \in Nat
  BY DEF Table, Entries
<1>3. ~ ((m # NULL /\ t[i].mac = m) \/ (a # 0 /\ t[i].nip = a))
  BY <1>1, <1>2 DEF Unused
<1>4. clear_leases(t, m, a)[i] = t[i]
  BY <1>3, ClearFacts
<1>5. add_lease(t, m, a, secs)[i] = t[i]
  <2>1. \/ add_lease(t, m, a, secs)[i] = clear_leases(t, m, a)[i]
        \/ clear_leases(t, m, a)[i].expires = 0
        \/ clear_leases(t, m, a)[i].expires < now
    BY AddFacts
  <2> QED
    BY <1>1, <1>2, <1>4, <2>1
<1> QED
  BY <1>1, <1>5 DEF Entered

(* The lease that is added is in the table if add_lease found an entry.    *)
LEMMA AddedEntered ==
  ASSUME NEW t, Table(t), now \in Nat, NEW m \in Macs, NEW a \in 0..NumIps, a # 0,
         NEW secs \in Nat, now + secs < Wrap, Added(t, m, a)
  PROVE  Entered(add_lease(t, m, a, secs), m, a, now + secs)
<1>1. /\ Oldest(clear_leases(t, m, a)) \in Slots
      /\ add_lease(t, m, a, secs)[Oldest(clear_leases(t, m, a))] = NewEntry(m, a, secs)
  BY AddFacts
<1>2. /\ NewEntry(m, a, secs).mac = m /\ NewEntry(m, a, secs).nip = a
      /\ NewEntry(m, a, secs).expires = now + secs
  BY Constants, TimeLeft DEF NewEntry
<1> QED
  BY <1>1, <1>2 DEF Entered

(* A client that is in the table always gets its entry again.              *)
LEMMA OwnEntryReused ==
  ASSUME NEW t, Table(t), NEW m \in Macs, NEW a, NEW i \in Slots, t[i].mac = m
  PROVE  Added(t, m, a)
<1>1. clear_leases(t, m, a)[i] = Empty
  BY ClearFacts, Constants
<1>2. clear_leases(t, m, a)[i].expires = 0
  BY <1>1 DEF Empty
<1>3. Oldest(clear_leases(t, m, a)) \in Slots
  BY <1>2, OldestEmpty
<1> QED
  BY <1>3, Constants DEF Added, Slots

(* A weaker bound.                                                         *)
LEMMA EnteredWeaker ==
  ASSUME NEW t, Table(t), NEW c, NEW a, NEW limit \in Int, NEW lower \in Int,
         lower <= limit, Entered(t, c, a, limit)
  PROVE  Entered(t, c, a, lower)
<1>1. \A i \in Slots : t[i].expires \in Nat
  BY DEF Table, Entries
<1> QED
  BY <1>1 DEF Entered

(* With one entry per client, the address entered is the one that          *)
(* find_lease_by_mac finds.                                                *)
LEMMA EnteredNip ==
  ASSUME StaticMacs = {}, OneEntry(leases), NEW c \in Macs, NEW a, NEW limit,
         Entered(leases, c, a, limit)
  PROVE  LeaseNip(c) = a /\ a # 0
<1>1. PICK i \in Slots : leases[i].mac = c /\ leases[i].nip = a
  BY DEF Entered
<1>2. find_lease_by_mac(leases, c) \in Slots /\ leases[find_lease_by_mac(leases, c)].mac = c
  BY <1>1, FindFacts
<1>3. find_lease_by_mac(leases, c) = i
  BY <1>1, <1>2, Constants DEF OneEntry
<1>4. i # 0
  BY Constants DEF Slots
<1> QED
  BY <1>1, <1>3, <1>4 DEF LeaseNip, Entered

(* What write_leases saves.                                                *)
LEMMA EnteredSaved ==
  ASSUME NEW t, Table(t), now \in Nat, NEW c, NEW a, NEW left \in Nat,
         Entered(t, c, a, now + left)
  PROVE  \E i \in Slots : LET r == Written(t, MaxLeases).recs[i]
                          IN  r.mac = c /\ r.nip = a /\ r.expires >= left
<1>1. PICK i \in Slots : t[i].mac = c /\ t[i].nip = a /\ t[i].expires >= now + left
  BY DEF Entered
<1>2. t[i].expires \in Nat /\ MaxLeases \in Nat /\ ~ (i > MaxLeases) /\ a # 0
  BY Constants DEF Table, Entries, Slots, Entered
<1>3. /\ Written(t, MaxLeases).recs[i].mac = t[i].mac
      /\ Written(t, MaxLeases).recs[i].nip = t[i].nip
      /\ Written(t, MaxLeases).recs[i].expires =
           IF t[i].expires < now THEN 0 ELSE t[i].expires - now
  BY <1>1, <1>2, WrittenFacts
<1> QED
  BY <1>1, <1>2, <1>3

-----------------------------------------------------------------------------
(* Addresses that are held. *)

LEMMA HeldWeaker ==
  ASSUME Table(leases), FileType, now \in Nat, NEW c, NEW a, NEW left \in Int,
         NEW less \in Int, less <= left, Held(c, a, left)
  PROVE  Held(c, a, less)
<1>1. PICK i \in Slots :
        /\ file.recs[i].mac = c /\ file.recs[i].nip = a
        /\ file.recs[i].expires >= left + (now - file.at)
        /\ pc \in {"loop", "find"} \/ (pc = "read" /\ pos > i) => Entered(leases, c, a, now + left)
  BY DEF Held
<1>2. file.recs[i].expires \in Nat /\ file.at \in Nat
  BY DEF FileType, Entries
<1>3. file.recs[i].expires >= less + (now - file.at)
  BY <1>1, <1>2
<1>4. now + left \in Int /\ now + less \in Int /\ now + less <= now + left
  OBVIOUS
<1>5. Entered(leases, c, a, now + left) => Entered(leases, c, a, now + less)
  BY <1>4, EnteredWeaker
<1>6. a # 0
  BY DEF Held
<1> QED
  BY <1>1, <1>3, <1>5, <1>6 DEF Held

(* The file stays, and the entry does if it has been read.                 *)
LEMMA HeldStays ==
  ASSUME NEW c, NEW a, NEW left, Held(c, a, left), UNCHANGED <<file, now>>,
         \/ pc' = "down"
         \/ pc' = "read" /\ pos' = 1
         \/ UNCHANGED <<pc, pos, leases>>
         \/ /\ pc \in {"loop", "find"}
            /\ Entered(leases, c, a, now + left) => Entered(leases', c, a, now + left)
  PROVE  Held(c, a, left)'
<1>1. PICK i \in Slots :
        /\ file.recs[i].mac = c /\ file.recs[i].nip = a
        /\ file.recs[i].expires >= left + (now - file.at)
        /\ pc \in {"loop", "find"} \/ (pc = "read" /\ pos > i) => Entered(leases, c, a, now + left)
  BY DEF Held
<1>2. ~ (1 > i)
  BY DEF Slots
<1>3. pc' \in {"loop", "find"} \/ (pc' = "read" /\ pos' > i) => Entered(leases', c, a, now + left)
  <2>1. CASE pc' = "down"
    BY <2>1
  <2>2. CASE pc' = "read" /\ pos' = 1
    BY <1>2, <2>2
  <2>3. CASE UNCHANGED <<pc, pos, leases>>
    BY <1>1, <2>3
  <2>4. CASE /\ pc \in {"loop", "find"}
             /\ Entered(leases, c, a, now + left) => Entered(leases', c, a, now + left)
    BY <1>1, <2>4
  <2> QED
    BY <2>1, <2>2, <2>3, <2>4
<1> QED
  BY <1>1, <1>3 DEF Held

(* The file is written with the entry in it.                               *)
LEMMA HeldSaved ==
  ASSUME NEW t, Table(t), now \in Nat, NEW c, NEW a, NEW left \in Nat,
         Entered(t, c, a, now + left), now' = now, file' = Written(t, MaxLeases),
         leases' = t \/ pc' = "down"
  PROVE  Held(c, a, left)'
<1>1. PICK i \in Slots : LET r == Written(t, MaxLeases).recs[i]
                         IN  r.mac = c /\ r.nip = a /\ r.expires >= left
  BY EnteredSaved
<1>2. Written(t, MaxLeases).at = now
  BY WrittenFacts, Constants
<1>3. left + (now - now) = left
  OBVIOUS
<1>4. a # 0
  BY DEF Entered
<1>5. file'.recs[i].expires >= left + (now' - file'.at)
  BY <1>1, <1>2, <1>3
<1> QED
  BY <1>1, <1>4, <1>5 DEF Held

(* With the entry in force in the table, it was held.                      *)
LEMMA HeldEntered ==
  ASSUME NEW c, NEW a, NEW left, Held(c, a, left), pc \in {"loop", "find"}
  PROVE  Entered(leases, c, a, now + left)
  BY DEF Held

(* The client does nothing, and receives no ACK and no OFFER.              *)
LEMMA HeldInvKept ==
  ASSUME ClientType, NetType, NEW c \in Macs, TimerInv(c), ChannelInv(c), HeldInv(c),
         st'[c] = st[c], conf'[c] = conf[c], timeout'[c] = timeout[c], waited'[c] = waited[c],
         \/ toClient'[c] = toClient[c]
         \/ toClient[c] # << >> /\ toClient'[c] = Tail(toClient[c])
         \/ \E m \in Replies : m.type = "NAK" /\ toClient'[c] = Put(toClient[c], m),
         \A a : \A left \in Nat : Held(c, a, left) => Held(c, a, left)'
  PROVE  HeldInv(c)'
<1>1. InUse(c)' => Held(c, conf[c], timeout[c] - waited[c] + timeout[c])'
  <2> SUFFICES ASSUME InUse(c)'
               PROVE  Held(c, conf[c], timeout[c] - waited[c] + timeout[c])'
    OBVIOUS
  <2>1. InUse(c) /\ HoldsLease(c)
    BY DEF InUse, ChannelInv
  <2>2. timeout[c] - waited[c] + timeout[c] \in Nat
    BY <2>1 DEF TimerInv, ClientType
  <2>3. Held(c, conf[c], timeout[c] - waited[c] + timeout[c])
    BY <2>1 DEF HeldInv
  <2>4. /\ \A left \in Nat : Held(c, conf[c], left) =>
             \E i \in Slots :
               /\ file'.recs[i].mac = c /\ file'.recs[i].nip = conf[c]
               /\ file'.recs[i].expires >= left + (now' - file'.at)
               /\ pc' \in {"loop", "find"} \/ (pc' = "read" /\ pos' > i)
                    => Entered(leases', c, conf[c], now' + left)
        /\ conf[c] # 0
    BY <2>1 DEF Held, InUse
  <2>5. \E i \in Slots :
               /\ file'.recs[i].mac = c /\ file'.recs[i].nip = conf[c]
               /\ file'.recs[i].expires >= (timeout[c] - waited[c] + timeout[c]) + (now' - file'.at)
               /\ pc' \in {"loop", "find"} \/ (pc' = "read" /\ pos' > i)
                    => Entered(leases', c, conf[c], now' + (timeout[c] - waited[c] + timeout[c]))
    BY <2>2, <2>3, <2>4
  <2> QED
    BY <2>4, <2>5 DEF Held
<1>2. toClient[c] \in Seq(Replies)
  BY DEF NetType
<1>3. /\ \A i \in 1..Len(toClient'[c]) : toClient'[c][i].type = "ACK" =>
           \E k \in 1..Len(toClient[c]) : toClient'[c][i] = toClient[c][k]
      /\ NoCurrent(toClient[c], "OFFER") => NoCurrent(toClient'[c], "OFFER")
  <2>1. CASE toClient'[c] = toClient[c]
    BY <2>1
  <2>2. CASE toClient[c] # << >> /\ toClient'[c] = Tail(toClient[c])
    <3>1. NoCurrent(toClient[c], "OFFER") => NoCurrent(toClient'[c], "OFFER")
      BY <1>2, <2>2, TailKinds
    <3>2. \A i \in 1..Len(toClient'[c]) :
            i + 1 \in 1..Len(toClient[c]) /\ toClient'[c][i] = toClient[c][i + 1]
      BY <1>2, <2>2, TailQueue
    <3> QED
      BY <3>1, <3>2
  <2>3. CASE \E m \in Replies : m.type = "NAK" /\ toClient'[c] = Put(toClient[c], m)
    <3>1. PICK m \in Replies : m.type = "NAK" /\ toClient'[c] = Put(toClient[c], m)
      BY <2>3
    <3>2. m.type # "OFFER" /\ m.type # "ACK"
      BY <3>1
    <3>3. NoCurrent(toClient[c], "OFFER") => NoCurrent(toClient'[c], "OFFER")
      BY <1>2, <3>1, <3>2, PutKinds
    <3>4. \A i \in 1..Len(toClient'[c]) :
            \/ i \in 1..Len(toClient[c]) /\ toClient'[c][i] = toClient[c][i]
            \/ toClient'[c][i] = m
      BY <1>2, <3>1, PutQueue
    <3> QED
      BY <3>2, <3>3, <3>4
  <2> QED
    BY <2>1, <2>2, <2>3
<1>4. LeaseTime \in Nat
  BY TimesFacts
<1>5. ASSUME NEW i \in 1..Len(toClient'[c]), toClient'[c][i].type = "ACK", toClient'[c][i].cur
      PROVE  \/ Held(c, toClient[c][i].yi, LeaseTime)'
             \/ st'[c] = "INIT_SELECTING" /\ NoCurrent(toClient'[c], "OFFER")
  <2>1. PICK k \in 1..Len(toClient[c]) : toClient'[c][i] = toClient[c][k]
    BY <1>3, <1>5
  <2>2. \/ Held(c, toClient[c][k].yi, LeaseTime)
        \/ st[c] = "INIT_SELECTING" /\ NoCurrent(toClient[c], "OFFER")
    BY <1>5, <2>1 DEF HeldInv
  <2>3. CASE Held(c, toClient[c][k].yi, LeaseTime)
    <3> DEFINE y == toClient[c][k].yi
    <3>1. toClient'[c][i].yi = y
      BY <2>1
    <3>2. Held(c, y, LeaseTime)
      BY <2>3
    <3> QED
      BY <1>4, <3>1, <3>2 DEF Held
  <2> QED
    BY <1>3, <2>2, <2>3
<1> QED
  BY <1>1, <1>5 DEF HeldInv

(* While the server has a DISCOVER of the client, or its farewell, to deal *)
(* with, the client relies on no lease.                                    *)
LEMMA HeldInvIdle ==
  ASSUME NetType, NEW c \in Macs, ChannelInv(c),
         st'[c] = st[c], conf'[c] = conf[c],
         \/ Leaving(toServer[c]) /\ toClient'[c] = toClient[c]
         \/ /\ ~ NoDiscover(toServer[c])
            /\ \/ toClient'[c] = toClient[c]
               \/ \E m \in Replies : m.type = "OFFER" /\ toClient'[c] = Put(toClient[c], m)
  PROVE  HeldInv(c)'
<1>1. toClient[c] \in Seq(Replies)
  BY DEF NetType
<1>2. ~ HoldsLease(c)
  BY DEF ChannelInv, HoldsLease
<1>3. ~ InUse(c)'
  BY <1>2 DEF ChannelInv, InUse
<1>4. CASE Leaving(toServer[c]) /\ toClient'[c] = toClient[c]
  <2>1. st[c] \in {"INIT_SELECTING", "RELEASED", "EXIT"} /\ NoCurrent(toClient[c], "OFFER")
    BY <1>4 DEF ChannelInv
  <2>2. CASE st[c] = "INIT_SELECTING"
    BY <1>3, <1>4, <2>1, <2>2 DEF HeldInv
  <2>3. CASE st[c] \in {"RELEASED", "EXIT"}
    <3>1. toClient'[c] = << >>
      BY <1>4, <2>3 DEF ChannelInv, Listening
    <3>2. 1..Len(toClient'[c]) = {}
      BY <3>1
    <3> QED
      BY <1>3, <3>2 DEF HeldInv
  <2> QED
    BY <2>1, <2>2, <2>3
<1>5. CASE ~ NoDiscover(toServer[c])
  <2>1. NoCurrent(toClient[c], "ACK")
    BY <1>5 DEF ChannelInv
  <2>2. NoCurrent(toClient'[c], "ACK")
    <3>1. ASSUME NEW m \in Replies, m.type = "OFFER", toClient'[c] = Put(toClient[c], m)
          PROVE  NoCurrent(toClient'[c], "ACK")
      <4>1. m.type # "ACK"
        BY <3>1
      <4> QED
        BY <1>1, <2>1, <3>1, <4>1, PutKinds
    <3> QED
      BY <1>5, <2>1, <3>1 DEF ChannelInv
  <2> QED
    BY <1>3, <2>2 DEF HeldInv, NoCurrent
<1> QED
  BY <1>4, <1>5

(* An ACK: what the client uses is the address that it is granted again.   *)
LEMMA HeldInvAck ==
  ASSUME StaticMacs = {}, ClientType, NetType, OneEntry(leases), pc = "loop",
         NEW c \in Macs, TimerInv(c), ChannelInv(c), HeldInv(c),
         st'[c] = st[c], conf'[c] = conf[c], timeout'[c] = timeout[c], waited'[c] = waited[c],
         NEW a \in 0..NumIps, LeaseNip(c) = a,
         \A left \in Nat : left <= LeaseTime => Held(c, a, left)',
         \/ toClient'[c] = toClient[c]
         \/ \E m \in Replies : /\ m.type = "ACK" /\ m.yi = a
                               /\ toClient'[c] = Put(toClient[c], m)
  PROVE  HeldInv(c)'
<1>1. \A b, left : Held(c, b, left) => b = a
  BY HeldEntered, EnteredNip
<1>2. LeaseTime \in Nat
  BY TimesFacts
<1>3. InUse(c)' => Held(c, conf[c], timeout[c] - waited[c] + timeout[c])'
  <2> SUFFICES ASSUME InUse(c)'
               PROVE  Held(c, conf[c], timeout[c] - waited[c] + timeout[c])'
    OBVIOUS
  <2>1. InUse(c) /\ HoldsLease(c)
    BY DEF InUse, ChannelInv
  <2>2. /\ timeout[c] - waited[c] + timeout[c] \in Nat
        /\ timeout[c] - waited[c] + timeout[c] <= LeaseTime
    BY <1>2, <2>1 DEF TimerInv, ClientType
  <2>3. Held(c, conf[c], timeout[c] - waited[c] + timeout[c])
    BY <2>1 DEF HeldInv
  <2>4. conf[c] = a
    BY <1>1, <2>3
  <2>5. \A left \in Nat : left <= LeaseTime =>
          /\ a # 0
          /\ \E i \in Slots :
               /\ file'.recs[i].mac = c /\ file'.recs[i].nip = a
               /\ file'.recs[i].expires >= left + (now' - file'.at)
               /\ pc' \in {"loop", "find"} \/ (pc' = "read" /\ pos' > i)
                    => Entered(leases', c, a, now' + left)
    BY DEF Held
  <2> QED
    BY <2>2, <2>4, <2>5 DEF Held
<1>4. toClient[c] \in Seq(Replies)
  BY DEF NetType
<1>5. ASSUME NEW i \in 1..Len(toClient'[c]), toClient'[c][i].type = "ACK", toClient'[c][i].cur
      PROVE  \/ Held(c, toClient[c][i].yi, LeaseTime)'
             \/ st'[c] = "INIT_SELECTING" /\ NoCurrent(toClient'[c], "OFFER")
  <2>1. \/ i \in 1..Len(toClient[c]) /\ toClient'[c][i] = toClient[c][i]
        \/ toClient'[c][i].yi = a
    <3>1. CASE toClient'[c] = toClient[c]
      BY <1>5, <3>1
    <3>2. ASSUME NEW m \in Replies, m.yi = a, toClient'[c] = Put(toClient[c], m)
          PROVE  \/ i \in 1..Len(toClient[c]) /\ toClient'[c][i] = toClient[c][i]
                 \/ toClient'[c][i].yi = a
      BY <1>4, <3>2, PutQueue
    <3> QED
      BY <3>1, <3>2
  <2>2. toClient'[c][i].yi = a => Held(c, toClient[c][i].yi, LeaseTime)'
    BY <1>2 DEF Held
  <2>3. NoCurrent(toClient[c], "OFFER") => NoCurrent(toClient'[c], "OFFER")
    <3>1. ASSUME NEW m \in Replies, m.type = "ACK", toClient'[c] = Put(toClient[c], m)
          PROVE  NoCurrent(toClient[c], "OFFER") => NoCurrent(toClient'[c], "OFFER")
      <4>1. m.type # "OFFER"
        BY <3>1
      <4> QED
        BY <1>4, <3>1, <4>1, PutKinds
    <3> QED
      BY <3>1
  <2>4. CASE i \in 1..Len(toClient[c]) /\ toClient'[c][i] = toClient[c][i]
    <3>1. \/ Held(c, toClient[c][i].yi, LeaseTime)
          \/ st[c] = "INIT_SELECTING" /\ NoCurrent(toClient[c], "OFFER")
      BY <1>5, <2>4 DEF HeldInv
    <3>2. Held(c, toClient[c][i].yi, LeaseTime) => toClient'[c][i].yi = a
      BY <1>1, <2>4
    <3> QED
      BY <2>2, <2>3, <3>1, <3>2
  <2> QED
    BY <2>1, <2>2, <2>4
<1> QED
  BY <1>3, <1>5 DEF HeldInv

(* A step of the client.                                                   *)
LEMMA TimerClient ==
  ASSUME Provisioned, ClientType, ClientType', NEW c \in Macs, TimerInv(c), ClientEffect(c)
  PROVE  TimerInv(c)'
<1>1. timeout[c] \in Nat /\ LeaseTime \in Nat /\ RenewMin \in Nat
  BY TimesFacts, UdhcpcAssumption DEF ClientType, UdhcpcAssumption
<1> SUFFICES ASSUME HoldsLease(c)'
             PROVE  waited'[c] <= timeout'[c] /\ 2 * timeout'[c] <= LeaseTime
  BY DEF TimerInv
<1>2. CASE HoldsLease(c) /\ \E t \in 0..timeout[c] : Renewed(c, t)
  <2>1. PICK t \in 0..timeout[c] : timeout'[c] = t \div 2 /\ waited'[c] = 0
    BY <1>2 DEF Renewed
  <2>2. t \in Nat /\ t <= timeout[c] /\ 2 * timeout[c] <= LeaseTime
    BY <1>1, <1>2 DEF TimerInv
  <2>3. t \div 2 \in Nat /\ 2 * (t \div 2) <= t
    BY <2>2, HalfFacts
  <2> HIDE DEF Renewed
  <2> QED
    BY <1>1, <2>1, <2>2, <2>3
<1>3. CASE NowBound(c)
  <2>1. LeaseSeconds = LeaseTime
    BY <1>1 DEF Provisioned, LeaseSeconds, Max2
  <2>2. timeout'[c] = LeaseTime \div 2 /\ waited'[c] = 0
    BY <1>3, <2>1 DEF NowBound
  <2>3. LeaseTime \div 2 \in Nat /\ 2 * (LeaseTime \div 2) <= LeaseTime
    BY <1>1, HalfFacts
  <2> QED
    BY <2>2, <2>3
<1>4. CASE Ignored(c)
  <2>1. st' = st /\ timeout' = timeout /\ waited' = waited
    BY <1>4 DEF Ignored, clientVars, timerVars
  <2> QED
    BY <2>1 DEF TimerInv, HoldsLease
<1>5. CASE Discovered(c) \/ Asked(c) \/ Restarted(c) \/ Left(c) \/ Declined(c) \/ Selected(c)
  <2>1. st'[c] \in {"INIT_SELECTING", "REQUESTING", "RELEASED", "EXIT"}
    BY <1>5 DEF Discovered, Asked, Restarted, Left, Declined, Selected
  <2> QED
    BY <2>1 DEF HoldsLease
<1> QED
  BY <1>2, <1>3, <1>4, <1>5 DEF ClientEffect

LEMMA HeldInvClient ==
  ASSUME Provisioned, ClientType, ClientType', NetType, Table(leases), FileType, now \in Nat,
         UNCHANGED <<now, serverVars>>, NEW c \in Macs,
         TimerInv(c), ChannelInv(c), ChannelInv(c)', HeldInv(c), ClientEffect(c)
  PROVE  HeldInv(c)'
<1>1. UNCHANGED <<now, leases, file, pc, pos>>
  BY DEF serverVars
<1>2. /\ timeout[c] \in Nat /\ waited[c] \in Nat /\ timeout'[c] \in Nat /\ num[c] \in Nat
      /\ LeaseTime \in Nat /\ RenewMin \in Nat
  BY TimesFacts, UdhcpcAssumption DEF ClientType, UdhcpcAssumption
<1>3. toClient[c] \in Seq(Replies)
  BY DEF NetType
<1>4. InUse(c)' => Held(c, conf[c], timeout[c] - waited[c] + timeout[c])'
  <2> SUFFICES ASSUME InUse(c)'
               PROVE  Held(c, conf[c], timeout[c] - waited[c] + timeout[c])'
    OBVIOUS
  <2>1. HoldsLease(c)' /\ conf'[c] # 0
    BY DEF InUse, ChannelInv
  <2> DEFINE left == timeout'[c] - waited'[c] + timeout'[c]
  <2>2. SUFFICES Held(c, conf'[c], left)
    BY <1>1, <2>2 DEF Held
  <2>3. CASE HoldsLease(c) /\ \E t \in 0..timeout[c] : Renewed(c, t)
    <3>1. PICK t \in 0..timeout[c] : Renewed(c, t)
      BY <2>3
    <3>2. timeout'[c] = t \div 2 /\ waited'[c] = 0 /\ conf'[c] = conf[c]
      BY <3>1 DEF Renewed
    <3>3. t \in Nat /\ t \div 2 \in Nat /\ 2 * (t \div 2) <= t /\ t <= timeout[c]
      BY <1>2, HalfFacts
    <3>4. waited[c] <= timeout[c]
      BY <2>3 DEF TimerInv
    <3>5. left = 2 * (t \div 2)
      BY <3>2, <3>3
    <3>6. left <= timeout[c] - waited[c] + timeout[c] /\ left \in Int
          /\ timeout[c] - waited[c] + timeout[c] \in Int
      BY <1>2, <3>3, <3>4, <3>5
    <3>7. Held(c, conf[c], timeout[c] - waited[c] + timeout[c])
      BY <2>1, <2>3, <3>2 DEF HeldInv, InUse, HoldsLease
    <3> HIDE DEF left
    <3> QED
      BY <3>2, <3>6, <3>7, HeldWeaker
  <2>4. CASE NowBound(c)
    <3>1. LeaseSeconds = LeaseTime
      BY <1>2 DEF Provisioned, LeaseSeconds, Max2
    <3>2. /\ timeout'[c] = LeaseTime \div 2 /\ waited'[c] = 0
          /\ toClient[c] # << >> /\ Head(toClient[c]).type = "ACK" /\ Head(toClient[c]).cur
          /\ conf'[c] = Head(toClient[c]).yi /\ st[c] # "INIT_SELECTING"
      BY <2>4, <3>1 DEF NowBound
    <3>3. LeaseTime \div 2 \in Nat /\ 2 * (LeaseTime \div 2) <= LeaseTime
      BY <1>2, HalfFacts
    <3>4. left <= LeaseTime /\ left \in Int /\ LeaseTime \in Int
      BY <1>2, <3>2, <3>3
    <3>5. 1 \in 1..Len(toClient[c]) /\ Head(toClient[c]) = toClient[c][1]
      BY <1>3, <3>2, TailQueue
    <3>6. Held(c, conf'[c], LeaseTime)
      BY <3>2, <3>5 DEF HeldInv
    <3> HIDE DEF left
    <3> QED
      BY <3>4, <3>6, HeldWeaker
  <2>5. CASE Ignored(c)
    <3>1. st' = st /\ timeout' = timeout /\ waited' = waited /\ conf' = conf
      BY <2>5 DEF Ignored, clientVars, timerVars
    <3> QED
      BY <3>1 DEF HeldInv, InUse
  <2>6. CASE Discovered(c) \/ Asked(c) \/ Restarted(c) \/ Left(c) \/ Declined(c) \/ Selected(c)
    <3>1. st'[c] \in {"INIT_SELECTING", "REQUESTING", "RELEASED", "EXIT"}
      BY <2>6 DEF Discovered, Asked, Restarted, Left, Declined, Selected
    <3> QED
      BY <2>1, <3>1 DEF HoldsLease
  <2> QED
    BY <2>3, <2>4, <2>5, <2>6 DEF ClientEffect
<1>5. \/ NoCurrent(toClient'[c], "ACK")
      \/ /\ \/ toClient'[c] = toClient[c]
            \/ toClient[c] # << >> /\ toClient'[c] = Tail(toClient[c])
         /\ \/ st'[c] = st[c]
            \/ st[c] # "INIT_SELECTING"
            \/ ~ NoCurrent(toClient[c], "OFFER")
  <2>1. CASE Discovered(c)
    <3>1. CASE num[c] = 0
      <4>1. toClient'[c] = Aged(toClient[c]) /\ Replies \in {Requests, Replies}
        BY <1>2, <2>1, <3>1 DEF Discovered
      <4> QED
        BY <1>3, <4>1, AgedKinds
    <3>2. CASE num[c] > 0
      BY <2>1, <3>2 DEF Discovered, ChannelInv
    <3> QED
      BY <1>2, <3>1, <3>2
  <2>2. CASE Asked(c)
    BY <2>2 DEF Asked
  <2>3. CASE Ignored(c)
    <3>1. st' = st /\ toClient[c] # << >> /\ toClient'[c] = Tail(toClient[c])
      BY <2>3 DEF Ignored, clientVars
    <3> QED
      BY <3>1
  <2>4. CASE Restarted(c)
    <3>1. CASE st[c] = "EXIT"
      BY <2>4, <3>1, EmptyKinds DEF Restarted, ChannelInv, Listening
    <3> QED
      BY <2>4, <3>1, EmptyKinds DEF Restarted
  <2>5. CASE HoldsLease(c) /\ \E t \in 0..timeout[c] : Renewed(c, t)
    BY <2>5, EmptyKinds DEF Renewed, HoldsLease
  <2>6. CASE Left(c) \/ Declined(c) \/ NowBound(c)
    BY <2>6, EmptyKinds DEF Left, Declined, NowBound
  <2>7. CASE Selected(c)
    <3>1. toClient[c] # << >> /\ Head(toClient[c]).type = "OFFER" /\ Head(toClient[c]).cur
          /\ toClient'[c] = Tail(toClient[c])
      BY <2>7 DEF Selected
    <3>2. 1 \in 1..Len(toClient[c]) /\ Head(toClient[c]) = toClient[c][1]
      BY <1>3, <3>1, TailQueue
    <3> QED
      BY <3>1, <3>2 DEF NoCurrent
  <2> QED
    BY <2>1, <2>2, <2>3, <2>4, <2>5, <2>6, <2>7 DEF ClientEffect
<1>6. ASSUME NEW i \in 1..Len(toClient'[c]), toClient'[c][i].type = "ACK", toClient'[c][i].cur
      PROVE  \/ Held(c, toClient'[c][i].yi, LeaseTime)
             \/ st'[c] = "INIT_SELECTING" /\ NoCurrent(toClient'[c], "OFFER")
  <2>1. /\ \/ toClient'[c] = toClient[c]
           \/ toClient[c] # << >> /\ toClient'[c] = Tail(toClient[c])
        /\ \/ st'[c] = st[c]
           \/ st[c] # "INIT_SELECTING"
           \/ ~ NoCurrent(toClient[c], "OFFER")
    BY <1>5, <1>6 DEF NoCurrent
  <2>2. /\ \E k \in 1..Len(toClient[c]) : toClient'[c][i] = toClient[c][k]
        /\ NoCurrent(toClient[c], "OFFER") => NoCurrent(toClient'[c], "OFFER")
    <3>1. CASE toClient'[c] = toClient[c]
      BY <3>1
    <3>2. CASE toClient[c] # << >> /\ toClient'[c] = Tail(toClient[c])
      <4>1. i + 1 \in 1..Len(toClient[c]) /\ toClient'[c][i] = toClient[c][i + 1]
        BY <1>3, <3>2, TailQueue
      <4>2. NoCurrent(toClient[c], "OFFER") => NoCurrent(toClient'[c], "OFFER")
        BY <1>3, <3>2, TailKinds
      <4> QED
        BY <4>1, <4>2
    <3> QED
      BY <2>1, <3>1, <3>2
  <2>3. PICK k \in 1..Len(toClient[c]) : toClient'[c][i] = toClient[c][k]
    BY <2>2
  <2>4. \/ Held(c, toClient[c][k].yi, LeaseTime)
        \/ st[c] = "INIT_SELECTING" /\ NoCurrent(toClient[c], "OFFER")
    BY <1>6, <2>3 DEF HeldInv
  <2> QED
    BY <2>1, <2>2, <2>3, <2>4
<1>7. ASSUME NEW i \in 1..Len(toClient'[c]), Held(c, toClient'[c][i].yi, LeaseTime)
      PROVE  Held(c, toClient[c][i].yi, LeaseTime)'
  BY <1>1, <1>7 DEF Held
<1> QED
  BY <1>4, <1>6, <1>7 DEF HeldInv

-----------------------------------------------------------------------------
(* Steps that keep the invariant: what they have in common. *)

(* The server's step for client c: of the sockets, only those of c change. *)
LEMMA ServerChannels ==
  ASSUME NetType, LeaseInv, UNCHANGED clientVars, NEW c \in Macs,
         \A d \in Macs \ {c} : toServer'[d] = toServer[d] /\ toClient'[d] = toClient[d],
         \/ toServer'[c] = toServer[c] /\ toClient'[c] = toClient[c]
         \/ /\ toServer'[c] = toServer[c]
            /\ toClient[c] # << >> /\ toClient'[c] = Tail(toClient[c])
         \/ /\ toServer[c] # << >> /\ toServer'[c] = Tail(toServer[c])
            /\ \/ toClient'[c] = toClient[c]
               \/ /\ Listening(c)
                  /\ \E a \in Replies : /\ toClient'[c] = Put(toClient[c], a)
                                        /\ Fits(a, Head(toServer[c]))
  PROVE  \A d \in Macs : ChannelInv(d)' /\ TimerInv(d)'
<1>1. st' = st /\ num' = num /\ conf' = conf /\ timeout' = timeout /\ waited' = waited
  BY DEF clientVars, timerVars
<1>2. \A d \in Macs : ChannelInv(d) /\ TimerInv(d)
  BY DEF LeaseInv
<1>3. \A d \in Macs : TimerInv(d)'
  BY <1>1, <1>2 DEF TimerInv, HoldsLease
<1>4. \A d \in Macs \ {c} : ChannelInv(d)'
  BY <1>1, <1>2, ChannelSame
<1>5. ChannelInv(c)'
  <2>1. CASE toServer'[c] = toServer[c] /\ toClient'[c] = toClient[c]
    BY <1>1, <1>2, <2>1, ChannelSame
  <2>2. CASE /\ toServer'[c] = toServer[c]
             /\ toClient[c] # << >> /\ toClient'[c] = Tail(toClient[c])
    BY <1>1, <1>2, <2>2, ChannelLost
  <2>3. CASE /\ toServer[c] # << >> /\ toServer'[c] = Tail(toServer[c])
             /\ \/ toClient'[c] = toClient[c]
                \/ /\ Listening(c)
                   /\ \E a \in Replies : /\ toClient'[c] = Put(toClient[c], a)
                                         /\ Fits(a, Head(toServer[c]))
    <3>1. st'[c] = st[c] /\ num'[c] = num[c] /\ conf'[c] = conf[c] /\ ChannelInv(c)
      BY <1>1, <1>2
    <3> QED
      BY <2>3, <3>1, ChannelServer
  <2> QED
    BY <2>1, <2>2, <2>3
<1> QED
  BY <1>3, <1>4, <1>5

(* The lease of a client to whom nothing happens.                          *)
LEMMA OtherHeld ==
  ASSUME TableInv, LeaseInv, UNCHANGED clientVars, NEW d \in Macs, HeldInv(d),
         \/ toClient'[d] = toClient[d]
         \/ toClient[d] # << >> /\ toClient'[d] = Tail(toClient[d])
         \/ \E m \in Replies : m.type = "NAK" /\ toClient'[d] = Put(toClient[d], m),
         \A a : \A left \in Nat : Held(d, a, left) => Held(d, a, left)'
  PROVE  HeldInv(d)'
<1>1. st'[d] = st[d] /\ conf'[d] = conf[d] /\ timeout'[d] = timeout[d] /\ waited'[d] = waited[d]
  BY DEF clientVars, timerVars
<1>2. ClientType /\ NetType /\ ChannelInv(d) /\ TimerInv(d)
  BY TableParts DEF LeaseInv
<1> QED
  BY <1>1, <1>2, HeldInvKept

(* No entry and no record lasts until the clock wraps around.              *)
Small(t) == \A i \in Slots : t[i].expires < Wrap

LEMMA SmallAdded ==
  ASSUME NEW t, Table(t), Small(t), NEW m \in Macs \cup {Zero, NULL}, NEW a \in 0..NumIps,
         NEW secs \in Nat, now \in Nat
  PROVE  Small(add_lease(t, m, a, secs))
<1>1. Wrap \in Nat \ {0}
  BY Constants
<1>2. (now + secs) % Wrap < Wrap
  BY <1>1
<1>3. NewEntry(m, a, secs).expires < Wrap /\ Empty.expires < Wrap
  BY <1>1, <1>2 DEF NewEntry, Empty
<1>4. \A i \in Slots : clear_leases(t, m, a)[i] \in {Empty, t[i]}
  BY ClearFacts
<1>5. \A i \in Slots : \/ add_lease(t, m, a, secs)[i] = clear_leases(t, m, a)[i]
                       \/ add_lease(t, m, a, secs)[i] = NewEntry(m, a, secs)
  BY AddFacts
<1> QED
  BY <1>3, <1>4, <1>5 DEF Small

LEMMA SmallWritten ==
  ASSUME NEW t, Table(t), Small(t), NEW n \in Nat, now \in Nat, now < Wrap
  PROVE  \A i \in Slots : Written(t, n).recs[i].expires + Written(t, n).at < Wrap
<1> TAKE i \in Slots
<1>1. Written(t, n).at = now
  BY WrittenFacts
<1>2. \/ Written(t, n).recs[i] = Empty
      \/ Written(t, n).recs[i].expires = IF t[i].expires < now THEN 0 ELSE t[i].expires - now
  BY WrittenFacts
<1>3. t[i].expires \in Nat /\ t[i].expires < Wrap /\ Wrap \in Nat
  BY Constants DEF Table, Entries, Small
<1>4. Empty.expires = 0
  BY DEF Empty
<1> QED
  BY <1>1, <1>2, <1>3, <1>4

(* The clock stands still, and no file is being read.                      *)
LEMMA ClockKept ==
  ASSUME Provisioned, ClockInv, now' = now, Small(leases'), pc' # "read",
         \/ file' = file
         \/ \E t : Table(t) /\ Small(t) /\ \E n \in Nat : file' = Written(t, n)
  PROVE  ClockInv'
<1>1. now \in Nat /\ now < Wrap
  BY Constants, TimesFacts, DhcpdAssumption DEF ClockInv, Provisioned, DhcpdAssumption
<1>2. \A i \in Slots : file'.recs[i].expires + file'.at < Wrap
  <2>1. CASE file' = file
    BY <2>1 DEF ClockInv
  <2>2. ASSUME NEW t, Table(t), Small(t), NEW n \in Nat, file' = Written(t, n)
        PROVE  \A i \in Slots : file'.recs[i].expires + file'.at < Wrap
    BY <1>1, <2>2, SmallWritten
  <2> QED
    BY <2>1, <2>2
<1> QED
  BY <1>2 DEF ClockInv, Small

LEMMA ClockFacts ==
  ASSUME Provisioned, ClockInv
  PROVE  /\ now \in Nat \ {0} /\ now < Wrap /\ now + LeaseTime < Wrap /\ Small(leases)
         /\ LeaseTime \in Nat
<1>1. MaxTime \in Nat /\ LeaseTime \in Nat /\ Wrap \in Nat
  BY DhcpdAssumption, TimesFacts, Constants DEF DhcpdAssumption
<1> QED
  BY <1>1 DEF ClockInv, Provisioned, Small

-----------------------------------------------------------------------------
(* The steps, one by one. *)

LEMMA ClientLease ==
  ASSUME Provisioned, TableInv, LeaseInv, NEW c \in Macs, Client(c)
  PROVE  LeaseInv'
<1>1. ClientType /\ NetType /\ events \in 0..MaxEvents /\ Table(leases) /\ FileType /\ now \in Nat
  BY TableParts
<1>2. ClientStep(c) /\ UNCHANGED <<now, serverVars>>
  BY DEF Client
<1>3. ClientOK(c) /\ ClientEffect(c)
  BY <1>1, <1>2, ClientCases
<1>4. ClientType' /\ NetType' /\ num[c] \in Nat
  BY <1>1, <1>3 DEF ClientOK, ClientType
<1>5. \A d \in Macs \ {c} :
        /\ st'[d] = st[d] /\ conf'[d] = conf[d] /\ num'[d] = num[d]
        /\ timeout'[d] = timeout[d] /\ waited'[d] = waited[d]
        /\ toServer'[d] = toServer[d] /\ toClient'[d] = toClient[d]
  BY <1>3 DEF ClientOK, OnlyOf
<1>6. \A d \in Macs : ChannelInv(d) /\ TimerInv(d)
  BY DEF LeaseInv
<1>7. \A d \in Macs : ChannelInv(d)' /\ TimerInv(d)'
  <2>1. ChannelInv(c)' /\ TimerInv(c)'
    BY <1>1, <1>3, <1>4, <1>6, ChannelClient, TimerClient
  <2>2. \A d \in Macs \ {c} : ChannelInv(d)'
    BY <1>5, <1>6, ChannelSame
  <2>3. \A d \in Macs \ {c} : TimerInv(d)'
    BY <1>5, <1>6 DEF TimerInv, HoldsLease
  <2> QED
    BY <2>1, <2>2, <2>3
<1>8. ClockInv'
  BY <1>2 DEF LeaseInv, ClockInv, serverVars
<1>9. ASSUME forgot # "leases", NEW d \in Macs
      PROVE  HeldInv(d)'
  <2>1. HeldInv(d)
    BY <1>9 DEF LeaseInv
  <2>2. CASE d = c
    BY <1>1, <1>2, <1>3, <1>4, <1>6, <1>7, <2>1, <2>2, HeldInvClient
  <2>3. CASE d # c
    <3>1. \A a : \A left \in Nat : Held(d, a, left) => Held(d, a, left)'
      BY <1>2 DEF Held, serverVars
    <3> QED
      BY <1>1, <1>5, <1>6, <2>1, <2>3, <3>1, HeldInvKept
  <2> QED
    BY <2>2, <2>3
<1>10. forgot' = forgot
  BY <1>2 DEF serverVars
<1> QED
  BY <1>7, <1>8, <1>9, <1>10 DEF LeaseInv

(* A table that grows by a lease for m with an address that is unused.     *)
LEMMA TableGrows ==
  ASSUME Provisioned, TableInv, LeaseInv, NEW m \in Macs \cup {Zero, NULL}, NEW a \in 0..NumIps,
         NEW secs \in Nat, Unused(leases, m, a), leases' = add_lease(leases, m, a, secs),
         pc \in {"loop", "find"}, UNCHANGED <<file, now>>,
         NEW d \in Macs, d # m
  PROVE  \A b : \A left \in Nat : Held(d, b, left) => Held(d, b, left)'
<1> TAKE b
<1> TAKE left \in Nat
<1> HAVE Held(d, b, left)
<1>1. Table(leases) /\ now \in Nat \ {0}
  BY TableParts, ClockFacts DEF LeaseInv
<1>2. Entered(leases, d, b, now + left)
  BY HeldEntered
<1>3. now + left \in Nat /\ now + left >= now
  BY <1>1
<1>4. Entered(leases', d, b, now + left)
  BY <1>1, <1>2, <1>3, EnteredKept
<1> QED
  BY <1>4, HeldStays

LEMMA OfferLease ==
  ASSUME Provisioned, TableInv, LeaseInv, NEW c \in Macs, pc \in {"loop", "find"},
         toServer[c] # << >>, Head(toServer[c]).type = "DISCOVER",
         NEW a \in 0..NumIps, Unused(leases, c, a), Offer(c, a), pc' = "loop",
         UNCHANGED <<file, forgot, now, clientVars>>
  PROVE  LeaseInv'
<1>1. NetType /\ Table(leases) /\ now \in Nat /\ now \in Nat \ {0} /\ Small(leases) /\ ClockInv
  BY TableParts, ClockFacts DEF LeaseInv
<1>2. /\ leases' = add_lease(leases, c, a, OfferTime)
      /\ toServer'[c] = Tail(toServer[c])
      /\ \/ toClient'[c] = toClient[c]
         \/ /\ Answer(c, "OFFER", a) \in Replies
            /\ Listening(c) /\ toClient'[c] = Put(toClient[c], Answer(c, "OFFER", a))
      /\ \A d \in Macs \ {c} : toServer'[d] = toServer[d] /\ toClient'[d] = toClient[d]
  BY <1>1, OfferFacts DEF Provisioned
<1>3. Answer(c, "OFFER", a).type = "OFFER" /\ Fits(Answer(c, "OFFER", a), Head(toServer[c]))
  BY DEF Answer, Fits
<1>4. \A d \in Macs : ChannelInv(d)' /\ TimerInv(d)'
  BY <1>1, <1>2, <1>3, ServerChannels
<1>5. ClockInv'
  BY <1>1, <1>2, SmallAdded, TimesFacts, ClockKept
<1>6. ASSUME forgot # "leases", NEW d \in Macs
      PROVE  HeldInv(d)'
  <2>1. CASE d = c
    <3>1. ~ NoDiscover(toServer[c])
      <4>1. toServer[c] \in Seq(Requests)
        BY <1>1 DEF NetType
      <4>2. 1 \in 1..Len(toServer[c]) /\ Head(toServer[c]) = toServer[c][1]
        BY <4>1, TailQueue
      <4> QED
        BY <4>2 DEF NoDiscover
    <3>2. st'[c] = st[c] /\ conf'[c] = conf[c] /\ ChannelInv(c)
      BY DEF clientVars, LeaseInv
    <3> QED
      BY <1>1, <1>2, <1>3, <2>1, <3>1, <3>2, HeldInvIdle
  <2>2. CASE d # c
    <3>1. HeldInv(d)
      BY <1>6 DEF LeaseInv
    <3>2. \A b : \A left \in Nat : Held(d, b, left) => Held(d, b, left)'
      BY <1>2, <2>2, TimesFacts, TableGrows
    <3> QED
      BY <1>2, <2>2, <3>1, <3>2, OtherHeld
  <2> QED
    BY <2>1, <2>2
<1> QED
  BY <1>4, <1>5, <1>6 DEF LeaseInv

(* The address is in use by a host that the server does not know.          *)
LEMMA ConflictLease ==
  ASSUME Provisioned, TableInv, LeaseInv, NEW c \in Macs, pc = "find", pc' \in {"loop", "find"},
         NEW a \in 0..NumIps, Unused(leases, NULL, a),
         leases' = add_lease(leases, NULL, a, ConflictTime),
         UNCHANGED <<file, forgot, now, clientVars, toClient>>,
         UNCHANGED toServer \/ (toServer[c] # << >> /\ Taken(c))
  PROVE  LeaseInv'
<1>1. NetType /\ Table(leases) /\ now \in Nat /\ Small(leases) /\ ClockInv
  BY TableParts, ClockFacts DEF LeaseInv
<1>2. /\ toServer'[c] = toServer[c] \/ (toServer[c] # << >> /\ toServer'[c] = Tail(toServer[c]))
      /\ \A d \in Macs \ {c} : toServer'[d] = toServer[d]
  BY <1>1, TakenFacts
<1>3. \A d \in Macs : ChannelInv(d)' /\ TimerInv(d)'
  BY <1>1, <1>2, ServerChannels
<1>4. ClockInv'
  BY <1>1, SmallAdded, TimesFacts, ClockKept
<1>5. ASSUME forgot # "leases", NEW d \in Macs
      PROVE  HeldInv(d)'
  <2>1. HeldInv(d) /\ d # NULL
    BY <1>5, Constants DEF LeaseInv
  <2>2. \A b : \A left \in Nat : Held(d, b, left) => Held(d, b, left)'
    BY <2>1, TimesFacts, TableGrows
  <2> QED
    BY <2>1, <2>2, OtherHeld
<1> QED
  BY <1>3, <1>4, <1>5 DEF LeaseInv

(* The addresses that the server offers are unused.                        *)
LEMMA OwnUnused ==
  ASSUME StaticMacs = {}, OneEntry(leases), NEW c \in Macs, LeaseNip(c) # 0
  PROVE  Unused(leases, c, LeaseNip(c))
<1> DEFINE i == find_lease_by_mac(leases, c)
<1>1. i = 0 \/ (i \in Slots /\ leases[i].mac = c)
  BY FindFacts
<1>2. i # 0 /\ LeaseNip(c) = leases[i].nip
  BY DEF LeaseNip
<1> HIDE DEF i
<1>3. i \in Slots /\ leases[i].mac = c
  BY <1>1, <1>2
<1>4. \A j \in Slots : leases[j].nip = leases[i].nip => j = i
  BY <1>2, <1>3 DEF OneEntry
<1> QED
  BY <1>2, <1>3, <1>4 DEF Unused

LEMMA GrantedUnused ==
  ASSUME OneEntry(leases), NEW a, NEW m,
         Grantable(a) \/ find_lease_by_nip(leases, a) = 0
  PROVE  Unused(leases, m, a)
<1> DEFINE i == find_lease_by_nip(leases, a)
<1>1. \/ i = 0 /\ \A j \in Slots : leases[j].nip # a
      \/ i \in Slots /\ leases[i].nip = a
  BY FindFacts
<1>2. 0 \notin Slots
  BY Constants DEF Slots
<1>3. i = 0 \/ leases[i].expires < now
  BY DEF Grantable, is_expired_lease
<1> HIDE DEF i
<1>4. CASE i = 0
  BY <1>1, <1>2, <1>4 DEF Unused
<1>5. CASE i # 0
  <2>1. i \in Slots /\ leases[i].nip = a /\ leases[i].expires < now
    BY <1>1, <1>3, <1>5
  <2>2. \A j \in Slots : a # 0 /\ leases[j].nip = a => j = i
    BY <2>1 DEF OneEntry
  <2> QED
    BY <2>1, <2>2 DEF Unused
<1> QED
  BY <1>4, <1>5

LEMMA ExpiredUnused ==
  ASSUME OneEntry(leases), NEW i \in Slots, leases[i].expires < now, NEW m
  PROVE  Unused(leases, m, leases[i].nip)
<1>1. \A j \in Slots : leases[i].nip # 0 /\ leases[j].nip = leases[i].nip => j = i
  BY DEF OneEntry
<1> QED
  BY <1>1 DEF Unused

(* The table and the file stay; a packet may leave a socket.               *)
LEMMA QuietLease ==
  ASSUME Provisioned, TableInv, LeaseInv, NEW c \in Macs,
         UNCHANGED <<leases, file, forgot, now, clientVars>>,
         UNCHANGED <<pc, pos>> \/ (pc \in {"loop", "find"} /\ pc' \in {"loop", "find"}),
         \A d \in Macs \ {c} : toServer'[d] = toServer[d] /\ toClient'[d] = toClient[d],
         \/ toServer'[c] = toServer[c] /\ toClient'[c] = toClient[c]
         \/ /\ toServer'[c] = toServer[c]
            /\ toClient[c] # << >> /\ toClient'[c] = Tail(toClient[c])
         \/ /\ toServer[c] # << >> /\ toServer'[c] = Tail(toServer[c])
            /\ \/ toClient'[c] = toClient[c]
               \/ /\ Listening(c)
                  /\ \E m \in Replies : m.type = "NAK" /\ toClient'[c] = Put(toClient[c], m)
  PROVE  LeaseInv'
<1>1. NetType
  BY TableParts
<1>2. \A m : m.type = "NAK" => Fits(m, Head(toServer[c]))
  BY DEF Fits
<1>3. \A d \in Macs : ChannelInv(d)' /\ TimerInv(d)'
  BY <1>1, <1>2, ServerChannels
<1>4. ClockInv'
  BY DEF LeaseInv, ClockInv
<1>5. ASSUME forgot # "leases", NEW d \in Macs
      PROVE  HeldInv(d)'
  <2>1. HeldInv(d)
    BY <1>5 DEF LeaseInv
  <2>2. \A b : \A left \in Nat : Held(d, b, left) => Held(d, b, left)'
    BY HeldStays
  <2>3. \/ toClient'[d] = toClient[d]
        \/ toClient[d] # << >> /\ toClient'[d] = Tail(toClient[d])
        \/ \E m \in Replies : m.type = "NAK" /\ toClient'[d] = Put(toClient[d], m)
    <3>1. CASE d = c
      BY <3>1
    <3> QED
      BY <3>1
  <2> QED
    BY <2>1, <2>2, <2>3, OtherHeld
<1> QED
  BY <1>3, <1>4, <1>5 DEF LeaseInv

LEMMA DiscoverLease ==
  ASSUME Provisioned, TableInv, LeaseInv, NEW c \in Macs, Discover(c)
  PROVE  LeaseInv'
<1>1. NetType /\ Table(leases) /\ OneEntry(leases) /\ StaticMacs = {}
  BY TableParts DEF Provisioned
<1>2. /\ pc = "loop" /\ toServer[c] # << >> /\ Head(toServer[c]).type = "DISCOVER"
      /\ Head(toServer[c]).req \in 0..NumIps
  BY <1>1, ArrivesFacts DEF Discover
<1>3. UNCHANGED <<file, forgot, now, clientVars>>
  BY DEF Discover
<1>4. CASE /\ LeaseNip(c) # 0
           /\ Offer(c, LeaseNip(c)) /\ Stays
  <2>1. LeaseNip(c) \in 0..NumIps /\ Unused(leases, c, LeaseNip(c)) /\ pc' = "loop"
    BY <1>1, <1>2, <1>4, LeaseNipFacts, OwnUnused DEF Stays
  <2> QED
    BY <1>2, <1>3, <1>4, <2>1, OfferLease
<1>5. CASE /\ Grantable(Head(toServer[c]).req)
           /\ Offer(c, Head(toServer[c]).req) /\ Stays
  <2>1. Unused(leases, c, Head(toServer[c]).req) /\ pc' = "loop"
    BY <1>1, <1>2, <1>5, GrantedUnused DEF Stays
  <2> QED
    BY <1>2, <1>3, <1>5, <2>1, OfferLease
<1>6. CASE pc' = "find" /\ UNCHANGED <<leases, netVars>>
  BY <1>2, <1>3, <1>6, QuietLease DEF netVars
<1> QED
  BY <1>4, <1>5, <1>6 DEF Discover

LEMMA TryAddressLease ==
  ASSUME Provisioned, TableInv, LeaseInv, TryAddress
  PROVE  LeaseInv'
<1>1. pc = "find" /\ pos \in Addrs /\ pos \in 0..NumIps
  BY DEF TryAddress, Addrs
<1>2. PICK c \in Macs : /\ c = served /\ toServer[c] # << >>
                        /\ Head(toServer[c]).type = "DISCOVER"
  BY <1>1, TableParts DEF SearchType
<1>3. PICK a \in 0..NumIps : a = pos
  BY <1>1
<1>4. UNCHANGED <<file, forgot, now, clientVars>> /\ OneEntry(leases)
  BY TableParts DEF TryAddress
<1>5. \/ UNCHANGED <<leases, pc, netVars>>
      \/ /\ find_lease_by_nip(leases, a) = 0
         /\ \/ Offer(c, a) /\ Done
            \/ leases' = add_lease(leases, NULL, a, ConflictTime) /\ UNCHANGED <<pc, netVars>>
  BY <1>2, <1>3 DEF TryAddress
<1>6. CASE UNCHANGED <<leases, pc, netVars>>
  BY <1>1, <1>4, <1>6, QuietLease DEF netVars
<1>7. CASE find_lease_by_nip(leases, a) = 0 /\ Offer(c, a) /\ Done
  <2>1. pc' = "loop" /\ Unused(leases, c, a)
    BY <1>4, <1>7, GrantedUnused DEF Done
  <2> QED
    BY <1>1, <1>2, <1>4, <1>7, <2>1, OfferLease
<1>8. CASE /\ find_lease_by_nip(leases, a) = 0
           /\ leases' = add_lease(leases, NULL, a, ConflictTime) /\ UNCHANGED <<pc, netVars>>
  <2>1. Unused(leases, NULL, a) /\ pc' = "find" /\ UNCHANGED <<toServer, toClient>>
    BY <1>1, <1>4, <1>8, GrantedUnused DEF netVars
  <2> QED
    BY <1>1, <1>4, <1>8, <2>1, ConflictLease
<1> QED
  BY <1>5, <1>6, <1>7, <1>8

LEMMA TryOldestLease ==
  ASSUME Provisioned, TableInv, LeaseInv, TryOldest
  PROVE  LeaseInv'
<1>1. pc = "find" /\ pc' = "loop" /\ UNCHANGED <<file, forgot, now, clientVars>>
      /\ OneEntry(leases) /\ Table(leases) /\ NetType
  BY TableParts DEF TryOldest, Done
<1>2. PICK c \in Macs : /\ c = served /\ toServer[c] # << >>
                        /\ Head(toServer[c]).type = "DISCOVER"
  BY <1>1, TableParts DEF SearchType
<1>3. \/ Taken(c) /\ UNCHANGED <<leases, toClient>>
      \/ /\ Reusable
         /\ \/ Offer(c, leases[oldest].nip)
            \/ /\ leases' = add_lease(leases, NULL, leases[oldest].nip, ConflictTime)
               /\ Taken(c) /\ UNCHANGED toClient
  BY <1>2 DEF TryOldest
<1>4. CASE Taken(c) /\ UNCHANGED <<leases, toClient>>
  <2>1. toServer'[c] = Tail(toServer[c]) /\ \A d \in Macs \ {c} : toServer'[d] = toServer[d]
    BY <1>1, <1>2, <1>4, TakenFacts
  <2> QED
    BY <1>1, <1>2, <1>4, <2>1, QuietLease
<1>5. CASE Reusable
  <2>1. PICK i \in Slots : i = oldest /\ leases[i].expires < now
    BY <1>5, TableParts DEF Reusable, is_expired_lease, SearchType
  <2>2. PICK a \in 0..NumIps : a = leases[i].nip
    BY <1>1 DEF Table, Entries
  <2>3. Unused(leases, c, a) /\ Unused(leases, NULL, a)
    BY <1>1, <2>1, <2>2, ExpiredUnused
  <2>4. CASE Offer(c, leases[oldest].nip)
    BY <1>1, <1>2, <2>1, <2>2, <2>3, <2>4, OfferLease
  <2>5. CASE /\ leases' = add_lease(leases, NULL, leases[oldest].nip, ConflictTime)
             /\ Taken(c) /\ UNCHANGED toClient
    BY <1>1, <1>2, <2>1, <2>2, <2>3, <2>5, ConflictLease
  <2> QED
    BY <1>3, <1>4, <2>4, <2>5
<1> QED
  BY <1>3, <1>4, <1>5

(* An ACK: the lease is in the table, and in the file that is written.     *)
LEMMA AckLease ==
  ASSUME Provisioned, TableInv, LeaseInv, NEW c \in Macs, pc = "loop",
         toServer[c] # << >>, Head(toServer[c]).type = "REQUEST",
         NEW a \in 0..NumIps, a # 0, LeaseNip(c) = a, Ack(c, a), UNCHANGED <<now, clientVars>>
  PROVE  LeaseInv'
<1> DEFINE t == add_lease(leases, c, a, LeaseTime)
<1>1. /\ NetType /\ ClientType /\ Table(leases) /\ OneEntry(leases) /\ StaticMacs = {}
      /\ now \in Nat \ {0} /\ now \in Nat /\ now + LeaseTime < Wrap /\ Small(leases) /\ ClockInv
      /\ LeaseTime \in Nat
  BY TableParts, ClockFacts DEF Provisioned, LeaseInv
<1>2. /\ Replied(c, "ACK", a) /\ Taken(c)
      /\ \/ leases' = t /\ file' = Written(t, MaxLeases) /\ UNCHANGED <<pc, forgot>>
         \/ /\ pc' = "down" /\ leases' = NoLeases /\ forgot' = "leases"
            /\ file' = file \/ \E n \in 0..MaxLeases - 1 : file' = Written(t, n)
  BY DEF Ack, Stays, Down, write_leases
<1>3. Table(t) /\ Small(t)
  BY <1>1, AddFacts, SmallAdded
<1> HIDE DEF t
<1>4. /\ toServer'[c] = Tail(toServer[c])
      /\ \/ toClient'[c] = toClient[c]
         \/ /\ Answer(c, "ACK", a) \in Replies
            /\ Listening(c) /\ toClient'[c] = Put(toClient[c], Answer(c, "ACK", a))
      /\ \A d \in Macs \ {c} : toServer'[d] = toServer[d] /\ toClient'[d] = toClient[d]
  BY <1>1, <1>2, TakenFacts, RepliedFacts
<1>5. /\ Answer(c, "ACK", a).type = "ACK" /\ Answer(c, "ACK", a).yi = a
      /\ Fits(Answer(c, "ACK", a), Head(toServer[c]))
  BY DEF Answer, Fits
<1>6. \A d \in Macs : ChannelInv(d)' /\ TimerInv(d)'
  BY <1>1, <1>4, <1>5, ServerChannels
<1>7. CASE leases' = t /\ file' = Written(t, MaxLeases) /\ UNCHANGED <<pc, forgot>>
  <2>1. ClockInv'
    BY <1>1, <1>3, <1>7, Constants, ClockKept
  <2>2. PICK i \in Slots : leases[i].mac = c
    BY <1>1, FindFacts DEF LeaseNip
  <2>3. Entered(t, c, a, now + LeaseTime)
    BY <1>1, <2>2, OwnEntryReused, AddedEntered DEF t
  <2>4. \A left \in Nat : left <= LeaseTime => Held(c, a, left)'
    <3> TAKE left \in Nat
    <3> HAVE left <= LeaseTime
    <3>1. now + left \in Int /\ now + LeaseTime \in Int /\ now + left <= now + LeaseTime
      BY <1>1
    <3>2. Entered(t, c, a, now + left)
      BY <1>3, <2>3, <3>1, EnteredWeaker
    <3> QED
      BY <1>1, <1>3, <1>7, <3>2, HeldSaved
  <2>5. ASSUME forgot # "leases", NEW d \in Macs
        PROVE  HeldInv(d)'
    <3>1. HeldInv(d) /\ ChannelInv(d) /\ TimerInv(d)
      BY <2>5 DEF LeaseInv
    <3>2. CASE d = c
      <4>1. /\ st'[c] = st[c] /\ conf'[c] = conf[c]
            /\ timeout'[c] = timeout[c] /\ waited'[c] = waited[c]
        BY DEF clientVars, timerVars
      <4> QED
        BY <1>1, <1>4, <1>5, <2>4, <3>1, <3>2, <4>1, HeldInvAck
    <3>3. CASE d # c
      <4>1. Unused(leases, c, a)
        BY <1>1, OwnUnused
      <4>2. \A b : \A left \in Nat : Held(d, b, left) => Held(d, b, left)'
        <5> TAKE b
        <5> TAKE left \in Nat
        <5> HAVE Held(d, b, left)
        <5>1. Entered(leases, d, b, now + left)
          BY HeldEntered
        <5>2. now + left \in Nat /\ now + left >= now
          BY <1>1
        <5>3. Entered(t, d, b, now + left)
          BY <1>1, <3>3, <4>1, <5>1, <5>2, EnteredKept DEF t
        <5> QED
          BY <1>1, <1>3, <1>7, <5>3, HeldSaved
      <4> QED
        BY <1>4, <3>1, <3>3, <4>2, OtherHeld
    <3> QED
      BY <3>2, <3>3
  <2> QED
    BY <1>6, <1>7, <2>1, <2>5 DEF LeaseInv
<1>8. CASE /\ pc' = "down" /\ leases' = NoLeases /\ forgot' = "leases"
           /\ file' = file \/ \E n \in 0..MaxLeases - 1 : file' = Written(t, n)
  <2>1. Small(NoLeases)
    BY Constants DEF Small, NoLeases, Empty
  <2>2. \A n \in 0..MaxLeases - 1 : n \in Nat
    BY Constants
  <2>3. ClockInv'
    BY <1>1, <1>3, <1>8, <2>1, <2>2, ClockKept
  <2> QED
    BY <1>6, <1>8, <2>3 DEF LeaseInv
<1> QED
  BY <1>2, <1>7, <1>8

LEMMA RequestLease ==
  ASSUME Provisioned, TableInv, LeaseInv, NEW c \in Macs, Request(c)
  PROVE  LeaseInv'
<1> DEFINE m == Head(toServer[c])
           a == IF m.req # 0 THEN m.req ELSE m.ci
<1>1. NetType /\ 0 \in 0..NumIps
  BY TableParts, Constants
<1>2. /\ pc = "loop" /\ toServer[c] # << >> /\ m.type = "REQUEST"
      /\ a \in 0..NumIps
  BY <1>1, ArrivesFacts DEF Request
<1>3. /\ UNCHANGED <<now, clientVars>>
      /\ \/ a # 0 /\ LeaseNip(c) = a /\ Ack(c, a)
         \/ /\ Replied(c, "NAK", 0) \/ UNCHANGED toClient
            /\ Taken(c) /\ Stays
            /\ UNCHANGED <<leases, file, forgot>>
  BY DEF Request
<1> HIDE DEF a
<1>4. CASE a # 0 /\ LeaseNip(c) = a /\ Ack(c, a)
  BY <1>2, <1>3, <1>4, AckLease
<1>5. CASE /\ Replied(c, "NAK", 0) \/ UNCHANGED toClient
           /\ Taken(c) /\ Stays
           /\ UNCHANGED <<leases, file, forgot>>
  <2>1. toServer'[c] = Tail(toServer[c]) /\ \A d \in Macs \ {c} : toServer'[d] = toServer[d]
    BY <1>1, <1>2, <1>5, TakenFacts
  <2>2. /\ \/ toClient'[c] = toClient[c]
           \/ /\ Answer(c, "NAK", 0) \in Replies
              /\ Listening(c) /\ toClient'[c] = Put(toClient[c], Answer(c, "NAK", 0))
        /\ \A d \in Macs \ {c} : toClient'[d] = toClient[d]
    BY <1>1, <1>2, <1>5, RepliedFacts
  <2>3. Answer(c, "NAK", 0).type = "NAK" /\ UNCHANGED <<pc, pos>>
    BY <1>5 DEF Answer, Stays
  <2> QED
    BY <1>2, <1>3, <1>5, <2>1, <2>2, <2>3, QuietLease
<1> QED
  BY <1>3, <1>4, <1>5

(* A farewell changes the client's own entry only.                         *)
LEMMA EndTable ==
  ASSUME TableInv, NEW c \in Macs, Decline(c) \/ Release(c)
  PROVE  /\ \A j \in Slots : leases[j].mac # c => leases'[j] = leases[j]
         /\ Small(leases) /\ now < Wrap => Small(leases')
         /\ \A j \in Slots : leases'[j].nip = leases[j].nip
<1>1. Table(leases) /\ now \in Nat /\ (now + DeclineTime) % Wrap < Wrap
  BY TableParts, Constants, TimesFacts
<1>2. \/ leases' = leases
      \/ \E i \in Slots : /\ leases[i].mac = c
                          /\ leases' = [leases EXCEPT ![i].mac = Zero,
                                          ![i].expires = (now + DeclineTime) % Wrap]
      \/ \E i \in Slots : leases[i].mac = c /\ leases' = [leases EXCEPT ![i].expires = now]
  <2>0. \A a : LET i == Matching(c, a)
               IN  i # 0 => i \in Slots /\ leases[i].mac = c
    BY MatchingFacts
  <2>1. CASE Decline(c)
    <3> DEFINE i == Matching(c, Head(toServer[c]).req)
    <3>1. i # 0 => i \in Slots /\ leases[i].mac = c
      BY <2>0
    <3>2. \/ leases' = leases
          \/ i # 0 /\ leases' = [leases EXCEPT ![i].mac = Zero,
                                   ![i].expires = (now + DeclineTime) % Wrap]
      BY <2>1 DEF Decline
    <3> HIDE DEF i
    <3> QED
      BY <3>1, <3>2
  <2>2. CASE Release(c)
    <3> DEFINE i == Matching(c, Head(toServer[c]).ci)
    <3>1. i # 0 => i \in Slots /\ leases[i].mac = c
      BY <2>0
    <3>2. leases' = leases \/ (i # 0 /\ leases' = [leases EXCEPT ![i].expires = now])
      BY <2>2 DEF Release
    <3> HIDE DEF i
    <3> QED
      BY <3>1, <3>2
  <2> QED
    BY <2>1, <2>2
<1>3. \/ leases' = leases
      \/ \E i \in Slots :
           /\ leases[i].mac = c
           /\ leases'[i].expires \in {now, (now + DeclineTime) % Wrap}
           /\ leases'[i].nip = leases[i].nip
           /\ \A j \in Slots \ {i} : leases'[j] = leases[j]
  <2>1. ASSUME NEW i \in Slots, leases[i].mac = c,
               leases' = [leases EXCEPT ![i].expires = now]
        PROVE  /\ leases'[i].expires = now /\ leases'[i].nip = leases[i].nip
               /\ \A j \in Slots \ {i} : leases'[j] = leases[j]
    BY <1>1, <2>1 DEF Table, Entries
  <2>2. ASSUME NEW i \in Slots, leases[i].mac = c,
               leases' = [leases EXCEPT ![i].mac = Zero,
                            ![i].expires = (now + DeclineTime) % Wrap]
        PROVE  /\ leases'[i].expires = (now + DeclineTime) % Wrap
               /\ leases'[i].nip = leases[i].nip
               /\ \A j \in Slots \ {i} : leases'[j] = leases[j]
    <3> DEFINE x == (now + DeclineTime) % Wrap
    <3>1. leases'[i] = [[leases[i] EXCEPT !.mac = Zero] EXCEPT !.expires = x]
      BY <1>1, <2>2 DEF Table
    <3>2. leases[i] \in Entries
      BY <1>1 DEF Table
    <3>3. leases'[i].expires = x /\ leases'[i].nip = leases[i].nip
      <4> HIDE DEF x
      <4> QED
        BY <3>1, <3>2 DEF Entries
    <3>4. \A j \in Slots \ {i} : leases'[j] = leases[j]
      BY <1>1, <2>2 DEF Table
    <3> QED
      BY <3>3, <3>4
  <2> QED
    BY <1>2, <2>1, <2>2
<1>4. \A j \in Slots : leases[j].mac # c => leases'[j] = leases[j]
  BY <1>3
<1>5. \A j \in Slots : leases'[j].nip = leases[j].nip
  BY <1>3
<1>6. ASSUME Small(leases), now < Wrap
      PROVE  Small(leases')
  <2>1. CASE leases' = leases
    BY <1>6, <2>1
  <2>2. ASSUME NEW i \in Slots, leases'[i].expires \in {now, (now + DeclineTime) % Wrap},
               \A j \in Slots \ {i} : leases'[j] = leases[j]
        PROVE  Small(leases')
    <3>1. leases'[i].expires < Wrap
      BY <1>1, <1>6, <2>2
    <3> QED
      BY <1>6, <2>2, <3>1 DEF Small
  <2> QED
    BY <1>3, <2>1, <2>2
<1> QED
  BY <1>4, <1>5, <1>6

LEMMA EnteredOther ==
  ASSUME NEW c \in Macs, NEW d \in Macs, d # c, NEW t, NEW u, NEW a, NEW limit,
         \A j \in Slots : t[j].mac # c => u[j] = t[j], Entered(t, d, a, limit)
  PROVE  Entered(u, d, a, limit)
  BY DEF Entered

LEMMA EndLease ==
  ASSUME Provisioned, TableInv, LeaseInv, NEW c \in Macs, Decline(c) \/ Release(c)
  PROVE  LeaseInv'
<1>1. NetType /\ ClockInv /\ Small(leases) /\ now < Wrap
  BY TableParts, ClockFacts DEF LeaseInv
<1>2. /\ pc = "loop" /\ toServer[c] # << >> /\ Head(toServer[c]).type \in {"DECLINE", "RELEASE"}
      /\ Taken(c) /\ UNCHANGED <<pc, pos>>
      /\ UNCHANGED <<toClient, file, forgot, now, clientVars>>
  BY DEF Decline, Release, Arrives, Stays
<1>3. toServer'[c] = Tail(toServer[c]) /\ \A d \in Macs \ {c} : toServer'[d] = toServer[d]
  BY <1>1, <1>2, TakenFacts
<1>4. \A d \in Macs : ChannelInv(d)' /\ TimerInv(d)'
  BY <1>1, <1>2, <1>3, ServerChannels
<1>5. Small(leases') /\ \A j \in Slots : leases[j].mac # c => leases'[j] = leases[j]
  BY <1>1, EndTable
<1>6. ClockInv'
  BY <1>1, <1>2, <1>5, ClockKept
<1>7. Leaving(toServer[c])
  <2>1. toServer[c] \in Seq(Requests)
    BY <1>1 DEF NetType
  <2>2. 1 \in 1..Len(toServer[c]) /\ Head(toServer[c]) = toServer[c][1]
    BY <1>2, <2>1, TailQueue
  <2> QED
    BY <1>2, <2>2 DEF Leaving, Farewell
<1>8. ASSUME forgot # "leases", NEW d \in Macs
      PROVE  HeldInv(d)'
  <2>1. HeldInv(d) /\ ChannelInv(d)
    BY <1>8 DEF LeaseInv
  <2>2. CASE d = c
    <3>1. st'[c] = st[c] /\ conf'[c] = conf[c]
      BY <1>2 DEF clientVars
    <3> QED
      BY <1>1, <1>2, <1>7, <2>1, <2>2, <3>1, HeldInvIdle
  <2>3. CASE d # c
    <3>1. \A b : \A left \in Nat : Held(d, b, left) => Held(d, b, left)'
      <4> TAKE b
      <4> TAKE left \in Nat
      <4> HAVE Held(d, b, left)
      <4>1. Entered(leases, d, b, now + left) => Entered(leases', d, b, now + left)
        BY <1>5, <2>3, EnteredOther
      <4> QED
        BY <1>2, <4>1, HeldStays
    <3> QED
      BY <1>2, <2>1, <3>1, OtherHeld
  <2> QED
    BY <2>2, <2>3
<1> QED
  BY <1>2, <1>4, <1>6, <1>8 DEF LeaseInv

(* Nothing happens to the clients and to the packets.                      *)
LEMMA StillChannels ==
  ASSUME LeaseInv, UNCHANGED <<clientVars, netVars>>
  PROVE  \A d \in Macs : ChannelInv(d)' /\ TimerInv(d)'
<1>1. /\ st' = st /\ num' = num /\ conf' = conf /\ timeout' = timeout /\ waited' = waited
      /\ toServer' = toServer /\ toClient' = toClient
  BY DEF clientVars, timerVars, netVars
<1>2. \A d \in Macs : ChannelInv(d)'
  BY <1>1, ChannelSame DEF LeaseInv
<1>3. \A d \in Macs : TimerInv(d)'
  BY <1>1 DEF LeaseInv, TimerInv, HoldsLease
<1> QED
  BY <1>2, <1>3

LEMMA StillHeld ==
  ASSUME TableInv, LeaseInv, UNCHANGED <<clientVars, netVars>>, forgot # "leases",
         \A d \in Macs : \A b : \A left \in Nat : Held(d, b, left) => Held(d, b, left)'
  PROVE  \A d \in Macs : HeldInv(d)'
<1> TAKE d \in Macs
<1>1. toClient'[d] = toClient[d] /\ UNCHANGED clientVars /\ HeldInv(d)
  BY DEF netVars, LeaseInv
<1> QED
  BY <1>1, OtherHeld

LEMMA SignalLease ==
  ASSUME Provisioned, TableInv, LeaseInv, Save \/ Stop \/ Crash
  PROVE  LeaseInv'
<1>1. Table(leases) /\ now \in Nat /\ Small(leases) /\ ClockInv /\ MaxLeases \in Nat
  BY TableParts, ClockFacts, Constants DEF LeaseInv
<1>2. Small(NoLeases)
  BY Constants DEF Small, NoLeases, Empty
<1>3. /\ UNCHANGED <<forgot, now, clientVars, netVars>>
      /\ \/ /\ pc = "loop" /\ file' = Written(leases, MaxLeases)
            /\ UNCHANGED <<leases, pc>> \/ (leases' = NoLeases /\ pc' = "down")
         \/ leases' = NoLeases /\ pc' = "down" /\ UNCHANGED file
  BY DEF Save, Stop, Crash, Down, write_leases
<1>4. \A d \in Macs : ChannelInv(d)' /\ TimerInv(d)'
  BY <1>3, StillChannels
<1>5. ClockInv'
  <2>1. Small(leases') /\ pc' # "read" /\ now' = now
    BY <1>1, <1>2, <1>3
  <2> QED
    BY <1>1, <1>3, <2>1, ClockKept
<1>6. \A d \in Macs : \A b : \A left \in Nat : Held(d, b, left) => Held(d, b, left)'
  <2> TAKE d \in Macs
  <2> TAKE b
  <2> TAKE left \in Nat
  <2> HAVE Held(d, b, left)
  <2>1. CASE /\ pc = "loop" /\ file' = Written(leases, MaxLeases)
             /\ UNCHANGED <<leases, pc>> \/ (leases' = NoLeases /\ pc' = "down")
    <3>1. Entered(leases, d, b, now + left)
      BY <2>1, HeldEntered
    <3> QED
      BY <1>1, <1>3, <2>1, <3>1, HeldSaved
  <2>2. CASE leases' = NoLeases /\ pc' = "down" /\ UNCHANGED file
    BY <1>3, <2>2, HeldStays
  <2> QED
    BY <1>3, <2>1, <2>2
<1>7. forgot # "leases" => \A d \in Macs : HeldInv(d)'
  BY <1>3, <1>6, StillHeld
<1> QED
  BY <1>3, <1>4, <1>5, <1>7 DEF LeaseInv

LEMMA LossLease ==
  ASSUME Provisioned, TableInv, LeaseInv, NEW c \in Macs, Unheard(c) \/ Lose(c)
  PROVE  LeaseInv'
<1>1. NetType
  BY TableParts
<1>2. UNCHANGED <<leases, file, forgot, now, clientVars, pc, pos>>
  BY DEF Unheard, Lose, serverVars
<1>3. \/ toServer[c] # << >> /\ Taken(c) /\ UNCHANGED toClient
      \/ /\ toClient[c] # << >> /\ UNCHANGED toServer
         /\ toClient' = [toClient EXCEPT ![c] = Tail(toClient[c])]
  BY DEF Unheard, Lose
<1>4. CASE toServer[c] # << >> /\ Taken(c) /\ UNCHANGED toClient
  <2>1. toServer'[c] = Tail(toServer[c]) /\ \A d \in Macs \ {c} : toServer'[d] = toServer[d]
    BY <1>1, <1>4, TakenFacts
  <2> QED
    BY <1>2, <1>4, <2>1, QuietLease
<1>5. CASE /\ toClient[c] # << >> /\ UNCHANGED toServer
           /\ toClient' = [toClient EXCEPT ![c] = Tail(toClient[c])]
  <2>1. toClient'[c] = Tail(toClient[c]) /\ \A d \in Macs \ {c} : toClient'[d] = toClient[d]
    BY <1>1, <1>5 DEF NetType
  <2> QED
    BY <1>2, <1>5, <2>1, QuietLease
<1> QED
  BY <1>3, <1>4, <1>5

LEMMA BootLease ==
  ASSUME Provisioned, TableInv, LeaseInv, Boot
  PROVE  LeaseInv'
<1>1. /\ UNCHANGED <<file, now, clientVars, netVars>> /\ leases' = NoLeases
      /\ \/ pc' = "read" /\ pos' = 1 /\ (forgot' # "leases" => forgot # "leases")
         \/ forgot' = "leases" /\ pc' = "loop"
  BY DEF Boot
<1>2. \A d \in Macs : ChannelInv(d)' /\ TimerInv(d)'
  BY <1>1, StillChannels
<1>3. \A i \in Slots : leases'[i].expires = 0
  BY <1>1 DEF NoLeases, Empty
<1>4. ClockInv'
  BY <1>1, <1>3, Constants DEF LeaseInv, ClockInv
<1>5. ASSUME forgot' # "leases"
      PROVE  \A d \in Macs : HeldInv(d)'
  <2>1. pc' = "read" /\ pos' = 1 /\ forgot # "leases"
    BY <1>1, <1>5
  <2>2. \A d \in Macs : \A b : \A left \in Nat : Held(d, b, left) => Held(d, b, left)'
    BY <1>1, <2>1, HeldStays
  <2> QED
    BY <1>1, <2>1, <2>2, StillHeld
<1> QED
  BY <1>2, <1>4, <1>5 DEF LeaseInv

LEMMA LoadedLease ==
  ASSUME Provisioned, TableInv, LeaseInv, Loaded
  PROVE  LeaseInv'
<1>1. /\ UNCHANGED <<leases, file, forgot, now, clientVars, netVars>>
      /\ pc = "read" /\ pos \notin Slots /\ pc' = "loop"
  BY DEF Loaded
<1>2. \A i \in Slots : pos > i
  BY <1>1, Constants, TableParts DEF LeaseInv, ClockInv, SearchType, Slots
<1>3. \A d \in Macs : ChannelInv(d)' /\ TimerInv(d)'
  BY <1>1, StillChannels
<1>4. ClockInv'
  BY <1>1 DEF LeaseInv, ClockInv
<1>5. \A d \in Macs : \A b : \A left \in Nat : Held(d, b, left) => Held(d, b, left)'
  BY <1>1, <1>2 DEF Held
<1>6. forgot # "leases" => \A d \in Macs : HeldInv(d)'
  BY <1>1, <1>5, StillHeld
<1> QED
  BY <1>1, <1>3, <1>4, <1>6 DEF LeaseInv

(* A record is read into an empty entry, and no other one is lost.         *)
LEMMA ReadLeaseLease ==
  ASSUME Provisioned, TableInv, LeaseInv, ReadLease
  PROVE  LeaseInv'
<1> DEFINE r == file.recs[pos]
           secs == IF r.expires <= now - file.at THEN 0 ELSE r.expires - (now - file.at)
           u == clear_leases(leases, r.mac, r.nip)
           k0 == MaxLeases + 1 - pos
<1>1. /\ UNCHANGED <<file, pc, forgot, now, clientVars, netVars>>
      /\ pc = "read" /\ pos \in Slots
  BY DEF ReadLease
<1>2. /\ Table(leases) /\ Small(leases) /\ now \in Nat /\ now \in Nat \ {0} /\ now < Wrap
      /\ ClockInv /\ OneEntry(file.recs) /\ MaxLeases \in Nat \ {0} /\ Wrap \in Nat
  BY TableParts, ClockFacts, Constants DEF LeaseInv
<1>3. /\ file.recs \in [Slots -> Entries] /\ file.at \in Nat /\ now - file.at \in Nat
      /\ pos \in Nat /\ pos >= 1 /\ pos <= MaxLeases
  BY <1>1, <1>2, TableParts DEF FileType, Slots
<1>4. r \in Entries
  BY <1>1, <1>3
<1>5. r.mac \in Macs \cup {Zero} /\ r.nip \in 0..NumIps /\ r.expires \in Nat
  BY <1>4 DEF Entries
<1>6. r.expires + file.at < Wrap
  BY <1>1, <1>2 DEF ClockInv
<1>7. secs \in Nat /\ now + secs < Wrap /\ secs >= r.expires - (now - file.at)
  BY <1>2, <1>3, <1>5, <1>6
<1>8. k0 \in Slots /\ leases[k0].expires = 0 /\ k0 \in Nat
  BY <1>1, <1>2, <1>3 DEF ClockInv, Slots
<1>9. \A m, a : get_static_nip_by_mac(m) = 0 /\ ~ is_nip_reserved_as_static(a)
  BY DEF Provisioned, get_static_nip_by_mac, is_nip_reserved_as_static
<1>10. /\ leases' = IF r.nip = 0 THEN leases ELSE add_lease(leases, r.mac, r.nip, secs)
       /\ pos' = IF r.nip = 0 \/ Added(leases, r.mac, r.nip) THEN pos + 1 ELSE MaxLeases + 1
  BY <1>9 DEF ReadLease
<1> HIDE DEF r, secs
<1>11. \A k \in Slots : u[k] \in {Empty, leases[k]}
  BY <1>2, ClearFacts
<1>12. u[k0].expires = 0
  BY <1>8, <1>11 DEF Empty
<1>13. Oldest(u) \in Slots /\ k0 <= Oldest(u)
  <2> HIDE DEF u, k0
  <2> QED
    BY <1>8, <1>12, OldestEmpty
<1>14. Added(leases, r.mac, r.nip)
  BY <1>2, <1>13 DEF Added, Slots
<1>15. pos' = pos + 1
  BY <1>10, <1>14
<1>16. Small(leases')
  BY <1>2, <1>5, <1>7, <1>10, SmallAdded
<1>17. \A k \in Slots : k < k0 => leases'[k].expires = 0
  <2> TAKE k \in Slots
  <2> HAVE k < k0
  <2>1. leases[k].expires = 0 /\ k # Oldest(u)
    <3>1. leases[k].expires = 0
      BY <1>1, <1>2, <1>3 DEF ClockInv, Slots
    <3>2. Oldest(u) \in Nat /\ k \in Nat
      BY <1>2, <1>13 DEF Slots
    <3> QED
      BY <1>8, <1>13, <3>1, <3>2
  <2>2. CASE r.nip = 0
    BY <1>10, <2>1, <2>2
  <2>3. CASE r.nip # 0
    <3>1. \/ add_lease(leases, r.mac, r.nip, secs)[k] = u[k]
          \/ k = Oldest(u)
      <4>1. Table(leases) /\ now \in Nat
        BY <1>2
      <4>2. \A m \in Macs \cup {Zero, NULL}, a \in 0..NumIps, n \in Nat : \A i \in Slots :
              \/ add_lease(leases, m, a, n)[i] = clear_leases(leases, m, a)[i]
              \/ i = Oldest(clear_leases(leases, m, a))
        BY <4>1, AddFacts, Zenon
      <4>3. r.mac \in Macs \cup {Zero, NULL}
        BY <1>5
      <4> QED
        BY <1>5, <1>7, <4>2, <4>3
    <3>2. leases'[k] = u[k]
      BY <1>10, <2>1, <2>3, <3>1
    <3> QED
      BY <1>11, <2>1, <3>2 DEF Empty
  <2> QED
    BY <2>2, <2>3
<1>18. ClockInv'
  <2>1. \A k \in Slots : k <= MaxLeases + 1 - pos' => k < k0
    BY <1>2, <1>3, <1>15 DEF Slots
  <2>2. pos' > 0
    BY <1>3, <1>15
  <2> HIDE DEF k0
  <2> QED
    BY <1>1, <1>2, <1>16, <1>17, <2>1, <2>2 DEF ClockInv, Small
<1>19. \A d \in Macs : ChannelInv(d)' /\ TimerInv(d)'
  BY <1>1, StillChannels
<1>20. \A d \in Macs : \A b : \A left \in Nat : Held(d, b, left) => Held(d, b, left)'
  <2> TAKE d \in Macs
  <2> TAKE b
  <2> TAKE left \in Nat
  <2> HAVE Held(d, b, left)
  <2>1. PICK i \in Slots :
          /\ file.recs[i].mac = d /\ file.recs[i].nip = b
          /\ file.recs[i].expires >= left + (now - file.at)
          /\ pos > i => Entered(leases, d, b, now + left)
    BY <1>1 DEF Held
  <2>2. b # 0 /\ d # Zero /\ i \in Nat
    BY Constants DEF Held, Slots
  <2>3. pos' > i => Entered(leases', d, b, now + left)
    <3>1. CASE pos = i
      <4>1. r.mac = d /\ r.nip = b /\ r.expires >= left + (now - file.at)
        BY <2>1, <3>1 DEF r
      <4>2. leases' = add_lease(leases, d, b, secs) /\ Added(leases, d, b) /\ b \in 0..NumIps
        BY <1>5, <1>10, <1>14, <2>2, <4>1
      <4>3. Entered(leases', d, b, now + secs)
        BY <1>2, <1>7, <2>2, <4>2, AddedEntered
      <4>4. now + left <= now + secs /\ now + left \in Int /\ now + secs \in Int
        BY <1>2, <1>3, <1>5, <1>7, <4>1
      <4>5. Table(leases')
        BY <1>2, <1>7, <4>2, AddFacts
      <4> QED
        BY <4>3, <4>4, <4>5, EnteredWeaker
    <3>2. CASE pos # i /\ pos > i
      <4>1. r.mac # d /\ r.nip # b
        BY <1>1, <1>2, <2>1, <2>2, <3>2 DEF r, OneEntry
      <4>2. Entered(leases, d, b, now + left)
        BY <2>1, <3>2
      <4>3. now + left \in Nat /\ now + left >= now
        BY <1>2
      <4>4. Entered(add_lease(leases, r.mac, r.nip, secs), d, b, now + left)
        BY <1>2, <1>5, <1>7, <4>1, <4>2, <4>3, EnteredKept
      <4> QED
        BY <1>10, <4>2, <4>4
    <3>3. CASE pos # i /\ ~ (pos > i)
      BY <1>3, <1>15, <2>2, <3>3
    <3> QED
      BY <3>1, <3>2, <3>3
  <2> QED
    BY <1>1, <2>1, <2>2, <2>3 DEF Held
<1>21. forgot # "leases" => \A d \in Macs : HeldInv(d)'
  BY <1>1, <1>20, StillHeld
<1> QED
  BY <1>1, <1>18, <1>19, <1>21 DEF LeaseInv

LEMMA TickLease ==
  ASSUME Provisioned, TableInv, LeaseInv, Tick
  PROVE  LeaseInv'
<1>1. /\ now' = now + 1 /\ now < MaxTime /\ pc \in {"loop", "down"}
      /\ \A c \in Macs : ~ Expired(c) /\ toServer[c] = << >> /\ toClient[c] = << >>
      /\ waited' = [c \in Macs |-> IF timeout[c] = Forever THEN waited[c] ELSE waited[c] + 1]
      /\ UNCHANGED <<st, ip, num, timeout, conf, toServer, toClient, events,
                     leases, file, pc, pos, oldest, served, forgot>>
  BY DEF Tick, netVars, serverVars
<1>2. /\ Table(leases) /\ now \in Nat /\ FileType /\ ClientType /\ LeaseTime \in Nat
  BY TableParts, TimesFacts
<1>3. \A c \in Macs : ChannelInv(c)'
  BY <1>1, ChannelSame DEF LeaseInv
<1>4. \A c \in Macs : HoldsLease(c) => /\ waited[c] + 1 <= timeout[c]
                                       /\ 2 * timeout[c] <= LeaseTime
                                       /\ waited'[c] = waited[c] + 1
  <2> TAKE c \in Macs
  <2> HAVE HoldsLease(c)
  <2>1. waited[c] \in Nat /\ timeout[c] \in Nat /\ waited[c] < timeout[c]
    BY <1>1, <1>2 DEF ClientType, Expired
  <2>2. 2 * timeout[c] <= LeaseTime
    BY DEF LeaseInv, TimerInv
  <2>3. timeout[c] # Forever
    BY <1>2, <2>1, <2>2 DEF Provisioned, Forever
  <2> QED
    BY <1>1, <2>1, <2>2, <2>3
<1>5. \A c \in Macs : TimerInv(c)'
  BY <1>1, <1>4 DEF TimerInv, HoldsLease
<1>6. ClockInv'
  <2>1. MaxTime \in Nat /\ now' \in 1..MaxTime
    BY <1>1, <1>2, DhcpdAssumption DEF DhcpdAssumption, LeaseInv, ClockInv
  <2> QED
    BY <1>1, <2>1 DEF LeaseInv, ClockInv
<1>7. ASSUME forgot # "leases", NEW c \in Macs
      PROVE  HeldInv(c)'
  <2>1. InUse(c)' => Held(c, conf[c], timeout[c] - waited[c] + timeout[c])'
    <3> SUFFICES ASSUME InUse(c)'
                 PROVE  Held(c, conf[c], timeout[c] - waited[c] + timeout[c])'
      OBVIOUS
    <3> DEFINE left == timeout[c] - waited[c] + timeout[c]
    <3>1. InUse(c) /\ HoldsLease(c)
      BY <1>1 DEF InUse, LeaseInv, ChannelInv
    <3>2. Held(c, conf[c], left)
      BY <1>7, <3>1 DEF LeaseInv, HeldInv
    <3>3. /\ left \in Nat /\ now \in Nat /\ file.at \in Nat
          /\ timeout[c] - waited'[c] + timeout[c] = left - 1
      BY <1>2, <1>4, <3>1 DEF ClientType, FileType
    <3> HIDE DEF left
    <3>4. /\ left - 1 + (now' - file.at) = left + (now - file.at)
          /\ now' + (left - 1) = now + left
      BY <1>1, <3>3
    <3>5. /\ conf[c] # 0
          /\ \E i \in Slots :
               /\ file.recs[i].mac = c /\ file.recs[i].nip = conf[c]
               /\ file.recs[i].expires >= left - 1 + (now' - file.at)
               /\ pc \in {"loop", "find"} \/ (pc = "read" /\ pos > i)
                    => Entered(leases, c, conf[c], now' + (left - 1))
      BY <3>2, <3>4 DEF Held
    <3> QED
      BY <1>1, <3>3, <3>5 DEF Held
  <2>2. 1..Len(toClient'[c]) = {}
    BY <1>1
  <2> QED
    BY <2>1, <2>2 DEF HeldInv
<1> QED
  BY <1>1, <1>3, <1>5, <1>6, <1>7 DEF LeaseInv

LEMMA InitLease ==
  ASSUME Provisioned, Init
  PROVE  LeaseInv
<1>1. \A c \in Macs : /\ st[c] = "INIT_SELECTING" /\ num[c] = 0 /\ conf[c] = 0
                      /\ toServer[c] = << >> /\ toClient[c] = << >>
  BY DEF Init, ClientInit
<1>2. \A c \in Macs : ChannelInv(c)
  BY <1>1, EmptyKinds DEF ChannelInv, HoldsLease, Listening
<1>3. \A c \in Macs : TimerInv(c)
  BY <1>1 DEF TimerInv, HoldsLease
<1>4. \A c \in Macs : HeldInv(c)
  <2> TAKE c \in Macs
  <2>1. 1..Len(toClient[c]) = {} /\ ~ InUse(c)
    BY <1>1 DEF InUse
  <2> QED
    BY <2>1 DEF HeldInv
<1>5. ClockInv
  <2>1. now = 1 /\ MaxTime \in Nat \ {0} /\ Wrap \in Nat \ {0}
    BY Constants, DhcpdAssumption DEF Init, Provisioned, DhcpdAssumption
  <2>2. \A i \in Slots : leases[i].expires = 0 /\ file.recs[i].expires = 0 /\ file.at = 0
    BY DEF Init, NoLeases, Empty
  <2>3. pc = "loop"
    BY DEF Init
  <2> QED
    BY <2>1, <2>2, <2>3 DEF ClockInv
<1> QED
  BY <1>2, <1>3, <1>4, <1>5 DEF LeaseInv

LEMMA SameLease ==
  ASSUME LeaseInv, UNCHANGED vars
  PROVE  LeaseInv'
  BY DEF LeaseInv, ChannelInv, TimerInv, ClockInv, HeldInv, Held, InUse, HoldsLease, Listening,
         vars, clientVars, timerVars, netVars, serverVars

LEMMA LeaseStep ==
  ASSUME Provisioned, TableInv, LeaseInv, [Next]_vars
  PROVE  LeaseInv'
  BY SameLease, ClientLease, DiscoverLease, RequestLease, EndLease, LossLease, TryAddressLease,
     TryOldestLease, BootLease, ReadLeaseLease, LoadedLease, SignalLease, TickLease DEF Next

-----------------------------------------------------------------------------
(* What follows for addresses in use. *)

LEMMA InUseHeld ==
  ASSUME TableInv, LeaseInv, forgot # "leases", NEW c \in Macs, InUse(c)
  PROVE  \E left \in Nat : Held(c, conf[c], left)
<1>1. HoldsLease(c)
  BY DEF InUse, LeaseInv, ChannelInv
<1>2. timeout[c] - waited[c] + timeout[c] \in Nat
  BY <1>1, TableParts DEF LeaseInv, TimerInv, ClientType
<1> QED
  BY <1>2 DEF LeaseInv, HeldInv

LEMMA HeldKnown ==
  ASSUME TableInv, LeaseInv
  PROVE  LeaseKnown
<1> SUFFICES ASSUME forgot # "leases", NEW c \in Macs, InUse(c)
             PROVE  /\ pc \in {"loop", "find"} => Knows(leases, c, now)
                    /\ pc = "down" => Knows(file.recs, c, now - file.at)
  BY DEF LeaseKnown
<1>1. PICK left \in Nat : Held(c, conf[c], left)
  BY InUseHeld
<1>2. now \in Nat /\ Table(leases) /\ FileType
  BY TableParts
<1>3. \A i \in Slots : leases[i].expires \in Nat /\ file.recs[i].expires \in Nat /\ file.at \in Nat
  BY <1>2 DEF FileType, Table, Entries
<1>4. ASSUME pc \in {"loop", "find"}
      PROVE  Knows(leases, c, now)
  <2>1. Entered(leases, c, conf[c], now + left)
    BY <1>1, <1>4, HeldEntered
  <2> QED
    BY <1>2, <1>3, <2>1 DEF Entered, Knows
<1>5. Knows(file.recs, c, now - file.at)
  <2>1. PICK i \in Slots : /\ file.recs[i].mac = c /\ file.recs[i].nip = conf[c]
                           /\ file.recs[i].expires >= left + (now - file.at)
    BY <1>1 DEF Held
  <2>2. file.recs[i].expires >= now - file.at
    BY <1>2, <1>3, <2>1
  <2> QED
    BY <2>1, <2>2 DEF Knows
<1> QED
  BY <1>4, <1>5

LEMMA HeldNotShared ==
  ASSUME TableInv, LeaseInv
  PROVE  NoSharedAddress
<1> SUFFICES ASSUME forgot # "leases", NEW c \in Macs, NEW d \in Macs, c # d,
                    InUse(c), InUse(d), conf[c] = conf[d]
             PROVE  FALSE
  BY DEF NoSharedAddress
<1>1. conf[c] # 0 /\ \E i \in Slots : file.recs[i].mac = c /\ file.recs[i].nip = conf[c]
  BY InUseHeld DEF Held
<1>2. \E i \in Slots : file.recs[i].mac = d /\ file.recs[i].nip = conf[d]
  BY InUseHeld DEF Held
<1>3. OneEntry(file.recs)
  BY TableParts
<1> QED
  BY <1>1, <1>2, <1>3 DEF OneEntry

(* For any number of clients, addresses, entries and packets, whatever is  *)
(* lost and whenever the server is stopped or killed: unless the file that *)
(* it was started with lacks a lease, the server has every address that a  *)
(* client uses (udhcp_run_script "bound" or "renew", dhcpc.c) as leased to *)
(* that client and not expired, in g_leases or, while it is down, in its   *)
(* file.                                                                   *)
THEOREM AddressesAreKnown ==
  ASSUME Provisioned PROVE Spec => []LeaseKnown
<1>1. Init => TableInv /\ LeaseInv
  BY InitTable, InitLease
<1>2. TableInv /\ LeaseInv /\ [Next]_vars => (TableInv /\ LeaseInv)'
  BY TableStep, LeaseStep
<1>3. TableInv /\ LeaseInv => LeaseKnown
  BY HeldKnown
<1> QED
  BY <1>1, <1>2, <1>3, PTL DEF Spec

(* Under the same conditions no address is configured on two hosts at the  *)
(* same time: this is what a DHCP server is for (send_offer, send_ACK and  *)
(* find_free_or_expired_nip, dhcpd.c).                                     *)
THEOREM AddressesAreNotShared ==
  ASSUME Provisioned PROVE Spec => []NoSharedAddress
<1>1. Init => TableInv /\ LeaseInv
  BY InitTable, InitLease
<1>2. TableInv /\ LeaseInv /\ [Next]_vars => (TableInv /\ LeaseInv)'
  BY TableStep, LeaseStep
<1>3. TableInv /\ LeaseInv => NoSharedAddress
  BY HeldNotShared
<1> QED
  BY <1>1, <1>2, <1>3, PTL DEF Spec

-----------------------------------------------------------------------------
(* Offers. *)

LEMMA AskingFacts ==
  ASSUME ClientType, NEW c \in Macs, AskInv(c), st[c] = "REQUESTING"
  PROVE  Asking(c) \in Nat /\ Asking(c) <= 3 * Pause
<1>1. /\ timeout[c] \in Nat /\ waited[c] \in Nat /\ num[c] \in Nat /\ Pause \in Nat
      /\ waited[c] <= timeout[c] /\ timeout[c] <= Pause /\ (num[c] = 0 => timeout[c] = 0)
  BY UdhcpcAssumption DEF ClientType, AskInv, UdhcpcAssumption
<1> QED
  BY <1>1 DEF Asking

(* A step of the client: it asks for what it was offered, and not longer   *)
(* than the offer lasts.                                                   *)
LEMMA AskClient ==
  ASSUME ClientType, ClientType', NEW c \in Macs, AskInv(c), ClientEffect(c)
  PROVE  AskInv(c)'
<1>1. Pause \in Nat /\ num[c] \in Nat
  BY UdhcpcAssumption DEF UdhcpcAssumption, ClientType
<1> SUFFICES ASSUME st'[c] = "REQUESTING"
             PROVE  /\ waited'[c] <= timeout'[c] /\ timeout'[c] <= Pause
                    /\ num'[c] = 0 => timeout'[c] = 0
  BY DEF AskInv
<1>2. CASE Asked(c)
  <2>1. timeout'[c] = Pause /\ waited'[c] = 0 /\ num'[c] = num[c] + 1
    BY <1>2 DEF Asked
  <2> QED
    BY <1>1, <2>1
<1>3. CASE Selected(c)
  <2>1. timeout'[c] = 0 /\ waited'[c] = 0
    BY <1>3 DEF Selected
  <2> QED
    BY <1>1, <2>1
<1>4. CASE Ignored(c)
  <2>1. st' = st /\ timeout' = timeout /\ waited' = waited /\ num' = num
    BY <1>4 DEF Ignored, clientVars, timerVars
  <2> QED
    BY <2>1 DEF AskInv
<1>5. ASSUME Discovered(c) \/ Restarted(c) \/ Left(c) \/ Declined(c) \/ NowBound(c)
             \/ (HoldsLease(c) /\ \E t \in 0..timeout[c] : Renewed(c, t))
      PROVE  FALSE
  BY <1>5 DEF Discovered, Restarted, Left, Declined, NowBound, Renewed
<1> QED
  BY <1>2, <1>3, <1>4, <1>5 DEF ClientEffect

LEMMA OfferedClient ==
  ASSUME ClientType, ClientType', NetType, Table(leases), now \in Nat,
         UNCHANGED <<now, leases>>, NEW c \in Macs, AskInv(c), AskInv(c)',
         OfferedInv(c), ClientEffect(c)
  PROVE  OfferedInv(c)'
<1>0. toClient[c] \in Seq(Replies) /\ Pause \in Nat /\ num[c] \in Nat
  BY UdhcpcAssumption DEF NetType, UdhcpcAssumption, ClientType
<1>1. ASSUME st'[c] = "REQUESTING"
      PROVE  Entered(leases, c, ip'[c], now + Asking(c)')
  <2>1. CASE Asked(c)
    <3>1. /\ st[c] = "REQUESTING" /\ ip'[c] = ip[c]
          /\ num[c] < 3 /\ num'[c] = num[c] + 1 /\ timeout'[c] = Pause /\ waited'[c] = 0
      BY <2>1 DEF Asked
    <3>2. timeout[c] \in Nat /\ waited[c] \in Nat /\ waited[c] <= timeout[c]
      BY <3>1 DEF AskInv, ClientType
    <3>3. Asking(c)' <= Asking(c) /\ Asking(c)' \in Int /\ Asking(c) \in Int
      BY <1>0, <3>1, <3>2 DEF Asking
    <3>4. Entered(leases, c, ip[c], now + Asking(c))
      BY <3>1 DEF OfferedInv
    <3>5. /\ now + Asking(c)' <= now + Asking(c)
          /\ now + Asking(c)' \in Int /\ now + Asking(c) \in Int
      BY <3>3
    <3> QED
      BY <3>1, <3>4, <3>5, EnteredWeaker
  <2>2. CASE Selected(c)
    <3>1. /\ toClient[c] # << >> /\ Head(toClient[c]).type = "OFFER" /\ Head(toClient[c]).cur
          /\ ip'[c] = Head(toClient[c]).yi
          /\ num'[c] = 0 /\ timeout'[c] = 0 /\ waited'[c] = 0
      BY <2>2 DEF Selected
    <3>2. 1 \in 1..Len(toClient[c]) /\ Head(toClient[c]) = toClient[c][1]
      BY <1>0, <3>1, TailQueue
    <3>3. Entered(leases, c, ip'[c], now + 3 * Pause)
      BY <3>1, <3>2 DEF OfferedInv
    <3>4. Asking(c)' = 3 * Pause
      BY <1>0, <3>1 DEF Asking
    <3> QED
      BY <3>3, <3>4
  <2>3. CASE Ignored(c)
    <3>1. st' = st /\ timeout' = timeout /\ waited' = waited /\ num' = num /\ ip' = ip
      BY <2>3 DEF Ignored, clientVars, timerVars
    <3> QED
      BY <1>1, <3>1 DEF OfferedInv, Asking
  <2>4. ASSUME Discovered(c) \/ Restarted(c) \/ Left(c) \/ Declined(c) \/ NowBound(c)
               \/ (HoldsLease(c) /\ \E t \in 0..timeout[c] : Renewed(c, t))
        PROVE  FALSE
    BY <1>1, <2>4 DEF Discovered, Restarted, Left, Declined, NowBound, Renewed
  <2> QED
    BY <2>1, <2>2, <2>3, <2>4 DEF ClientEffect
<1>2. \/ NoCurrent(toClient'[c], "OFFER")
      \/ toClient'[c] = toClient[c]
      \/ toClient[c] # << >> /\ toClient'[c] = Tail(toClient[c])
  <2>1. CASE Discovered(c)
    <3>1. toClient'[c] = toClient[c] \/ toClient'[c] = Aged(toClient[c])
      BY <2>1 DEF Discovered
    <3>2. Replies \in {Requests, Replies}
      OBVIOUS
    <3>3. NoCurrent(Aged(toClient[c]), "OFFER")
      BY <1>0, <3>2, AgedKinds
    <3> QED
      BY <3>1, <3>3
  <2>2. CASE Asked(c) \/ Selected(c) \/ Ignored(c)
    BY <2>2 DEF Asked, Selected, Ignored
  <2>3. CASE Restarted(c) \/ Left(c) \/ Declined(c) \/ NowBound(c)
             \/ (HoldsLease(c) /\ \E t \in 0..timeout[c] : Renewed(c, t))
    <3>1. toClient'[c] = << >> \/ toClient'[c] = toClient[c]
      BY <2>3 DEF Restarted, Left, Declined, NowBound, Renewed
    <3> QED
      BY <3>1, EmptyKinds
  <2> QED
    BY <2>1, <2>2, <2>3 DEF ClientEffect
<1>3. ASSUME NEW i \in 1..Len(toClient'[c]), toClient'[c][i].type = "OFFER", toClient'[c][i].cur
      PROVE  Entered(leases, c, toClient'[c][i].yi, now + 3 * Pause)
  <2>1. \E k \in 1..Len(toClient[c]) : toClient'[c][i] = toClient[c][k]
    <3>1. CASE toClient'[c] = toClient[c]
      BY <3>1
    <3>2. CASE toClient[c] # << >> /\ toClient'[c] = Tail(toClient[c])
      <4>1. i + 1 \in 1..Len(toClient[c]) /\ toClient'[c][i] = toClient[c][i + 1]
        BY <1>0, <3>2, TailQueue
      <4> QED
        BY <4>1
    <3> QED
      BY <1>2, <1>3, <3>1, <3>2 DEF NoCurrent
  <2> QED
    BY <1>3, <2>1 DEF OfferedInv
<1> QED
  BY <1>1, <1>3 DEF OfferedInv

LEMMA ClientOffer ==
  ASSUME TableInv, OfferInv, NEW c \in Macs, Client(c)
  PROVE  OfferInv'
<1>1. ClientType /\ NetType /\ events \in 0..MaxEvents /\ Table(leases) /\ now \in Nat
  BY TableParts
<1>2. ClientStep(c) /\ UNCHANGED <<now, leases, pc, oldest, served, forgot>>
  BY DEF Client, serverVars
<1>3. ClientOK(c) /\ ClientEffect(c)
  BY <1>1, <1>2, ClientCases
<1>4. ClientType'
  BY <1>3 DEF ClientOK
<1>5. \A d \in Macs \ {c} :
        /\ st'[d] = st[d] /\ ip'[d] = ip[d] /\ num'[d] = num[d]
        /\ timeout'[d] = timeout[d] /\ waited'[d] = waited[d] /\ toClient'[d] = toClient[d]
  BY <1>3 DEF ClientOK, OnlyOf
<1>6. \A d \in Macs : AskInv(d)'
  <2>1. AskInv(c)'
    BY <1>1, <1>3, <1>4, AskClient DEF OfferInv
  <2>2. \A d \in Macs \ {c} : AskInv(d)'
    BY <1>5 DEF OfferInv, AskInv
  <2> QED
    BY <2>1, <2>2
<1>7. FindInv'
  BY <1>2 DEF OfferInv, FindInv
<1>8. ASSUME forgot = "nothing", pc # "down", NEW d \in Macs
      PROVE  OfferedInv(d)'
  <2>1. OfferedInv(d) /\ AskInv(d)
    BY <1>8 DEF OfferInv
  <2>2. CASE d = c
    BY <1>1, <1>2, <1>3, <1>4, <1>6, <2>1, <2>2, OfferedClient
  <2>3. CASE d # c
    BY <1>2, <1>5, <2>1, <2>3 DEF OfferedInv, Asking
  <2> QED
    BY <2>2, <2>3
<1> QED
  BY <1>2, <1>6, <1>7, <1>8 DEF OfferInv

(* Nothing happens to client d, it gets no new offer, and its entry stays. *)
LEMMA OfferedKept ==
  ASSUME ClientType, NetType, now \in Nat, UNCHANGED <<now, clientVars>>,
         NEW d \in Macs, AskInv(d), OfferedInv(d),
         \/ toClient'[d] = toClient[d]
         \/ toClient[d] # << >> /\ toClient'[d] = Tail(toClient[d])
         \/ \E m \in Replies : m.type # "OFFER" /\ toClient'[d] = Put(toClient[d], m),
         \A b : \A limit \in Nat :
           limit >= now /\ Entered(leases, d, b, limit) => Entered(leases', d, b, limit)
  PROVE  OfferedInv(d)'
<1>1. st' = st /\ ip' = ip /\ num' = num /\ timeout' = timeout /\ waited' = waited
  BY DEF clientVars, timerVars
<1>2. toClient[d] \in Seq(Replies) /\ Pause \in Nat
  BY UdhcpcAssumption DEF NetType, UdhcpcAssumption
<1>3. ASSUME st[d] = "REQUESTING"
      PROVE  Entered(leases', d, ip[d], now + Asking(d))
  <2>1. now + Asking(d) \in Nat /\ now + Asking(d) >= now
    BY <1>3, AskingFacts
  <2>2. Entered(leases, d, ip[d], now + Asking(d))
    BY <1>3 DEF OfferedInv
  <2> QED
    BY <2>1, <2>2
<1>4. Asking(d)' = Asking(d)
  BY <1>1 DEF Asking
<1>5. ASSUME NEW i \in 1..Len(toClient'[d]), toClient'[d][i].type = "OFFER", toClient'[d][i].cur
      PROVE  Entered(leases', d, toClient'[d][i].yi, now + 3 * Pause)
  <2>1. \E k \in 1..Len(toClient[d]) : toClient'[d][i] = toClient[d][k]
    <3>1. CASE toClient'[d] = toClient[d]
      BY <3>1
    <3>2. CASE toClient[d] # << >> /\ toClient'[d] = Tail(toClient[d])
      <4>1. i + 1 \in 1..Len(toClient[d]) /\ toClient'[d][i] = toClient[d][i + 1]
        BY <1>2, <3>2, TailQueue
      <4> QED
        BY <4>1
    <3>3. ASSUME NEW m \in Replies, m.type # "OFFER", toClient'[d] = Put(toClient[d], m)
          PROVE  \E k \in 1..Len(toClient[d]) : toClient'[d][i] = toClient[d][k]
      <4>1. \/ i \in 1..Len(toClient[d]) /\ toClient'[d][i] = toClient[d][i]
            \/ toClient'[d][i] = m
        BY <1>2, <3>3, PutQueue
      <4> QED
        BY <1>5, <3>3, <4>1
    <3> QED
      BY <3>1, <3>2, <3>3
  <2>2. Entered(leases, d, toClient'[d][i].yi, now + 3 * Pause)
    BY <1>5, <2>1 DEF OfferedInv
  <2>3. now + 3 * Pause \in Nat /\ now + 3 * Pause >= now
    BY <1>2
  <2> QED
    BY <2>2, <2>3
<1> QED
  BY <1>1, <1>3, <1>4, <1>5 DEF OfferedInv

(* The client's entry is renewed, for the address that it has already.     *)
LEMMA OfferedAgain ==
  ASSUME ClientType, NetType, now \in Nat, UNCHANGED <<now, clientVars>>, Table(leases'),
         NEW c \in Macs, AskInv(c), OfferedInv(c), NEW a, NEW secs \in Nat, 3 * Pause <= secs,
         Entered(leases', c, a, now + secs),
         \A b, limit : Entered(leases, c, b, limit) => b = a,
         \/ toClient'[c] = toClient[c]
         \/ \E m \in Replies : /\ m.type = "OFFER" => m.yi = a
                               /\ toClient'[c] = Put(toClient[c], m)
  PROVE  OfferedInv(c)'
<1>1. st' = st /\ ip' = ip /\ num' = num /\ timeout' = timeout /\ waited' = waited
  BY DEF clientVars, timerVars
<1>2. toClient[c] \in Seq(Replies) /\ Pause \in Nat
  BY UdhcpcAssumption DEF NetType, UdhcpcAssumption
<1>3. Entered(leases', c, a, now + 3 * Pause)
  <2>1. now + secs \in Int /\ now + 3 * Pause \in Int /\ now + 3 * Pause <= now + secs
    BY <1>2
  <2> QED
    BY <2>1, EnteredWeaker
<1>4. ASSUME st[c] = "REQUESTING"
      PROVE  Entered(leases', c, ip[c], now + Asking(c))
  <2>1. /\ now + Asking(c) \in Int /\ now + 3 * Pause \in Int
        /\ now + Asking(c) <= now + 3 * Pause
    BY <1>2, <1>4, AskingFacts
  <2>2. Entered(leases, c, ip[c], now + Asking(c))
    BY <1>4 DEF OfferedInv
  <2>3. ip[c] = a
    BY <2>2
  <2> QED
    BY <1>3, <2>1, <2>3, EnteredWeaker
<1>5. Asking(c)' = Asking(c)
  BY <1>1 DEF Asking
<1>6. ASSUME NEW i \in 1..Len(toClient'[c]), toClient'[c][i].type = "OFFER", toClient'[c][i].cur
      PROVE  Entered(leases', c, toClient'[c][i].yi, now + 3 * Pause)
  <2>1. \/ i \in 1..Len(toClient[c]) /\ toClient'[c][i] = toClient[c][i]
        \/ toClient'[c][i].yi = a
    <3>1. CASE toClient'[c] = toClient[c]
      BY <1>6, <3>1
    <3>2. ASSUME NEW m \in Replies, m.type = "OFFER" => m.yi = a,
                 toClient'[c] = Put(toClient[c], m)
          PROVE  \/ i \in 1..Len(toClient[c]) /\ toClient'[c][i] = toClient[c][i]
                 \/ toClient'[c][i].yi = a
      <4>1. \/ i \in 1..Len(toClient[c]) /\ toClient'[c][i] = toClient[c][i]
            \/ toClient'[c][i] = m
        BY <1>2, <3>2, PutQueue
      <4> QED
        BY <1>6, <3>2, <4>1
    <3> QED
      BY <3>1, <3>2
  <2>2. CASE i \in 1..Len(toClient[c]) /\ toClient'[c][i] = toClient[c][i]
    <3>1. Entered(leases, c, toClient'[c][i].yi, now + 3 * Pause)
      BY <1>6, <2>2 DEF OfferedInv
    <3> QED
      BY <1>3, <3>1
  <2> QED
    BY <1>3, <2>1, <2>2
<1> QED
  BY <1>1, <1>4, <1>5, <1>6 DEF OfferedInv

LEMMA AskSame ==
  ASSUME OfferInv, UNCHANGED clientVars
  PROVE  \A d \in Macs : AskInv(d)'
  BY DEF OfferInv, AskInv, clientVars, timerVars

LEMMA OfferOffered ==
  ASSUME Provisioned, OfferLasts, TableInv, LeaseInv, OfferInv, NEW c \in Macs,
         pc \in {"loop", "find"}, toServer[c] # << >>, NEW a \in 0..NumIps, a # 0,
         Unused(leases, c, a), \A b, limit : Entered(leases, c, b, limit) => b = a,
         Offer(c, a), pc' = "loop", UNCHANGED <<forgot, now, clientVars>>
  PROVE  OfferInv'
<1>1. /\ ClientType /\ NetType /\ Table(leases) /\ now \in Nat /\ now \in Nat \ {0}
      /\ OfferTime \in Nat /\ now + OfferTime < Wrap
  <2>1. MaxTime \in Nat /\ OfferTime \in Nat /\ Wrap \in Nat /\ now \in 1..MaxTime
    BY DhcpdAssumption, Constants DEF DhcpdAssumption, LeaseInv, ClockInv
  <2> QED
    BY <2>1, TableParts DEF OfferLasts
<1>2. /\ leases' = add_lease(leases, c, a, OfferTime)
      /\ Table(leases')
      /\ \/ toClient'[c] = toClient[c]
         \/ /\ Added(leases, c, a)
            /\ Answer(c, "OFFER", a) \in Replies
            /\ toClient'[c] = Put(toClient[c], Answer(c, "OFFER", a))
      /\ \A d \in Macs \ {c} : toClient'[d] = toClient[d]
  BY <1>1, OfferFacts DEF Provisioned
<1>3. ASSUME forgot = "nothing", NEW d \in Macs
      PROVE  OfferedInv(d)'
  <2>1. OfferedInv(d) /\ AskInv(d)
    BY <1>3 DEF OfferInv
  <2>2. CASE d # c
    <3>1. \A b : \A limit \in Nat :
            limit >= now /\ Entered(leases, d, b, limit) => Entered(leases', d, b, limit)
      BY <1>1, <1>2, <2>2, EnteredKept
    <3> QED
      BY <1>1, <1>2, <2>1, <2>2, <3>1, OfferedKept
  <2>3. CASE d = c /\ Added(leases, c, a)
    <3>1. Entered(leases', c, a, now + OfferTime)
      BY <1>1, <1>2, <2>3, AddedEntered
    <3>2. Answer(c, "OFFER", a).yi = a /\ 3 * Pause <= OfferTime
      BY DEF Answer, OfferLasts
    <3> QED
      BY <1>1, <1>2, <2>1, <2>3, <3>1, <3>2, OfferedAgain
  <2>4. CASE d = c /\ ~ Added(leases, c, a)
    <3>1. \A b, limit : ~ Entered(leases, c, b, limit)
      BY <1>1, <2>4, OwnEntryReused DEF Entered
    <3>2. toClient'[c] = toClient[c]
      BY <1>2, <2>4
    <3> QED
      BY <1>1, <2>1, <2>4, <3>1, <3>2, OfferedKept
  <2> QED
    BY <2>2, <2>3, <2>4
<1>4. \A d \in Macs : AskInv(d)'
  BY AskSame
<1> QED
  BY <1>3, <1>4 DEF OfferInv, FindInv

(* The table stays, and nobody gets an offer.                              *)
LEMMA QuietOffer ==
  ASSUME TableInv, OfferInv, UNCHANGED <<leases, forgot, now, clientVars>>,
         pc' = pc \/ (pc \in {"loop", "find"} /\ pc' \in {"loop", "find"}), FindInv',
         \A d \in Macs :
           \/ toClient'[d] = toClient[d]
           \/ toClient[d] # << >> /\ toClient'[d] = Tail(toClient[d])
           \/ \E m \in Replies : m.type # "OFFER" /\ toClient'[d] = Put(toClient[d], m)
  PROVE  OfferInv'
<1>1. ClientType /\ NetType /\ now \in Nat
  BY TableParts
<1>2. \A d \in Macs : AskInv(d)'
  BY AskSame
<1>3. ASSUME forgot = "nothing", pc # "down", NEW d \in Macs
      PROVE  OfferedInv(d)'
  <2>1. OfferedInv(d) /\ AskInv(d)
    BY <1>3 DEF OfferInv
  <2> QED
    BY <1>1, <2>1, OfferedKept
<1> QED
  BY <1>2, <1>3 DEF OfferInv

LEMMA ConflictOffer ==
  ASSUME Provisioned, TableInv, LeaseInv, OfferInv, pc = "find", pc' \in {"loop", "find"},
         NEW a \in 0..NumIps, Unused(leases, NULL, a), FindInv',
         leases' = add_lease(leases, NULL, a, ConflictTime),
         UNCHANGED <<forgot, now, clientVars, toClient>>
  PROVE  OfferInv'
<1>1. ClientType /\ NetType /\ Table(leases) /\ now \in Nat /\ now \in Nat \ {0}
  BY TableParts, ClockFacts DEF LeaseInv
<1>2. \A d \in Macs : AskInv(d)'
  BY AskSame
<1>3. ASSUME forgot = "nothing", NEW d \in Macs
      PROVE  OfferedInv(d)'
  <2>1. OfferedInv(d) /\ AskInv(d) /\ d # NULL
    BY <1>3, Constants DEF OfferInv
  <2>2. \A b : \A limit \in Nat :
          limit >= now /\ Entered(leases, d, b, limit) => Entered(leases', d, b, limit)
    BY <1>1, <2>1, TimesFacts, EnteredKept
  <2> QED
    BY <1>1, <2>1, <2>2, OfferedKept
<1> QED
  BY <1>2, <1>3 DEF OfferInv

LEMMA DiscoverOffer ==
  ASSUME Provisioned, OfferLasts, TableInv, LeaseInv, OfferInv, NEW c \in Macs, Discover(c)
  PROVE  OfferInv'
<1>1. NetType /\ Table(leases) /\ OneEntry(leases) /\ StaticMacs = {}
  BY TableParts DEF Provisioned
<1>2. /\ pc = "loop" /\ toServer[c] # << >> /\ Head(toServer[c]).req \in 0..NumIps
  BY <1>1, ArrivesFacts DEF Discover
<1>3. UNCHANGED <<file, forgot, now, clientVars>>
  BY DEF Discover
<1>4. \A b, limit : Entered(leases, c, b, limit) => b = LeaseNip(c) /\ b # 0
  BY <1>1, EnteredNip
<1>5. CASE /\ LeaseNip(c) # 0
           /\ Offer(c, LeaseNip(c)) /\ Stays
  <2>1. LeaseNip(c) \in 0..NumIps /\ Unused(leases, c, LeaseNip(c)) /\ pc' = "loop"
    BY <1>1, <1>2, <1>5, LeaseNipFacts, OwnUnused DEF Stays
  <2> QED
    BY <1>2, <1>3, <1>4, <1>5, <2>1, OfferOffered
<1>6. CASE /\ LeaseNip(c) = 0 /\ Grantable(Head(toServer[c]).req)
           /\ Offer(c, Head(toServer[c]).req) /\ Stays
  <2>1. /\ Unused(leases, c, Head(toServer[c]).req) /\ pc' = "loop"
        /\ Head(toServer[c]).req # 0
    BY <1>1, <1>2, <1>6, GrantedUnused DEF Stays, Grantable
  <2>2. \A b, limit : Entered(leases, c, b, limit) => b = Head(toServer[c]).req
    BY <1>4, <1>6
  <2> QED
    BY <1>2, <1>3, <1>6, <2>1, <2>2, OfferOffered
<1>7. CASE /\ LeaseNip(c) = 0
           /\ pc' = "find" /\ oldest' = 0 /\ served' = c /\ UNCHANGED <<leases, netVars>>
  <2>1. \A i \in Slots : leases[i].mac = c => leases[i].nip = 0
    <3> DEFINE i == find_lease_by_mac(leases, c)
    <3>1. \/ i = 0 /\ \A j \in Slots : leases[j].mac # c
          \/ i \in Slots /\ leases[i].mac = c
      BY FindFacts
    <3>2. i # 0 => leases[i].nip = 0
      BY <1>1, <1>7 DEF LeaseNip
    <3>3. 0 \notin Slots
      BY Constants DEF Slots
    <3> HIDE DEF i
    <3> QED
      BY <1>1, <3>1, <3>2, <3>3, Constants DEF OneEntry
  <2>2. FindInv'
    BY <1>7, <2>1 DEF FindInv
  <2> QED
    BY <1>2, <1>3, <1>7, <2>2, QuietOffer DEF netVars
<1> QED
  BY <1>5, <1>6, <1>7 DEF Discover

LEMMA TryAddressOffer ==
  ASSUME Provisioned, OfferLasts, TableInv, LeaseInv, OfferInv, TryAddress
  PROVE  OfferInv'
<1>1. pc = "find" /\ pos \in Addrs /\ pos \in 0..NumIps /\ pos # 0
  BY DEF TryAddress, Addrs
<1>2. PICK c \in Macs : c = served /\ toServer[c] # << >>
  BY <1>1, TableParts DEF SearchType
<1>3. PICK a \in 0..NumIps : a = pos /\ a # 0
  BY <1>1
<1>4. /\ UNCHANGED <<forgot, now, clientVars>>
      /\ OneEntry(leases) /\ Table(leases) /\ now \in Nat
      /\ oldest \in Slots \cup {0}
  BY TableParts DEF TryAddress, SearchType
<1>5. /\ \A i \in Slots : leases[i].mac = c => leases[i].nip = 0
      /\ oldest # 0 => leases[oldest].nip # 0
  BY <1>1, <1>2 DEF OfferInv, FindInv
<1> DEFINE i == find_lease_by_nip(leases, a)
<1>6. \/ i = 0 /\ \A j \in Slots : leases[j].nip # a
      \/ i \in Slots /\ leases[i].nip = a
  BY FindFacts
<1>7. \/ /\ oldest' = oldest \/ (i # 0 /\ oldest' = i)
         /\ UNCHANGED <<leases, pc, served, netVars>>
      \/ /\ i = 0
         /\ \/ Offer(c, a) /\ Done
            \/ /\ leases' = add_lease(leases, NULL, a, ConflictTime)
               /\ UNCHANGED <<oldest, pc, served, netVars>>
  BY <1>2, <1>3 DEF TryAddress
<1>8. 0 \notin Slots
  BY Constants DEF Slots
<1> HIDE DEF i
<1>9. CASE /\ oldest' = oldest \/ (i # 0 /\ oldest' = i)
           /\ UNCHANGED <<leases, pc, served, netVars>>
  <2>1. FindInv'
    BY <1>1, <1>2, <1>3, <1>5, <1>6, <1>9 DEF FindInv
  <2> QED
    BY <1>4, <1>9, <2>1, QuietOffer DEF netVars
<1>10. CASE i = 0 /\ Offer(c, a) /\ Done
  <2>1. pc' = "loop" /\ Unused(leases, c, a)
    BY <1>4, <1>10, GrantedUnused DEF Done, i
  <2>2. \A b, limit : Entered(leases, c, b, limit) => b = a
    BY <1>5 DEF Entered
  <2> QED
    BY <1>1, <1>2, <1>3, <1>4, <1>10, <2>1, <2>2, OfferOffered
<1>11. CASE /\ i = 0 /\ leases' = add_lease(leases, NULL, a, ConflictTime)
            /\ UNCHANGED <<oldest, pc, served, netVars>>
  <2>1. Unused(leases, NULL, a) /\ pc' = "find" /\ UNCHANGED toClient
    BY <1>1, <1>4, <1>11, GrantedUnused DEF netVars, i
  <2>2. \A j \in Slots : leases'[j] = leases[j] \/ (leases'[j].mac = Zero /\ leases'[j].nip = a)
    <3> TAKE j \in Slots
    <3>1. clear_leases(leases, NULL, a)[j] = leases[j]
      BY <1>4, <1>6, <1>8, <1>11, ClearFacts
    <3>2. \/ leases'[j] = clear_leases(leases, NULL, a)[j]
          \/ leases'[j] = NewEntry(NULL, a, ConflictTime)
      <4>1. NULL \in Macs \cup {Zero, NULL} /\ ConflictTime \in Nat
        BY TimesFacts
      <4>2. \/ add_lease(leases, NULL, a, ConflictTime)[j] = clear_leases(leases, NULL, a)[j]
            \/ add_lease(leases, NULL, a, ConflictTime)[j] = NewEntry(NULL, a, ConflictTime)
        BY <1>4, <4>1, AddFacts
      <4> QED
        BY <1>11, <4>2
    <3>3. NewEntry(NULL, a, ConflictTime).mac = Zero /\ NewEntry(NULL, a, ConflictTime).nip = a
      BY DEF NewEntry
    <3> QED
      BY <3>1, <3>2, <3>3
  <2>3. FindInv'
    BY <1>2, <1>3, <1>4, <1>5, <1>11, <2>2, Constants DEF FindInv
  <2> QED
    BY <1>1, <1>4, <1>11, <2>1, <2>3, ConflictOffer
<1> QED
  BY <1>7, <1>9, <1>10, <1>11

LEMMA TryOldestOffer ==
  ASSUME Provisioned, OfferLasts, TableInv, LeaseInv, OfferInv, TryOldest
  PROVE  OfferInv'
<1>1. /\ pc = "find" /\ pc' = "loop" /\ UNCHANGED <<forgot, now, clientVars>>
      /\ OneEntry(leases) /\ Table(leases) /\ NetType
  BY TableParts DEF TryOldest, Done
<1>2. PICK c \in Macs : c = served /\ toServer[c] # << >>
  BY <1>1, TableParts DEF SearchType
<1>3. \/ Taken(c) /\ UNCHANGED <<leases, toClient>>
      \/ /\ Reusable
         /\ \/ Offer(c, leases[oldest].nip)
            \/ /\ leases' = add_lease(leases, NULL, leases[oldest].nip, ConflictTime)
               /\ Taken(c) /\ UNCHANGED toClient
  BY <1>2 DEF TryOldest
<1>4. FindInv'
  BY <1>1 DEF FindInv
<1>5. /\ \A i \in Slots : leases[i].mac = c => leases[i].nip = 0
      /\ oldest # 0 => leases[oldest].nip # 0
  BY <1>1, <1>2 DEF OfferInv, FindInv
<1>6. CASE Taken(c) /\ UNCHANGED <<leases, toClient>>
  BY <1>1, <1>4, <1>6, QuietOffer
<1>7. CASE Reusable
  <2>1. PICK i \in Slots : i = oldest /\ leases[i].expires < now /\ oldest # 0
    BY <1>7, TableParts DEF Reusable, is_expired_lease, SearchType
  <2>2. PICK a \in 0..NumIps : a = leases[i].nip /\ a # 0
    BY <1>1, <1>5, <2>1 DEF Table, Entries
  <2>3. Unused(leases, c, a) /\ Unused(leases, NULL, a)
    BY <1>1, <2>1, <2>2, ExpiredUnused
  <2>4. \A b, limit : Entered(leases, c, b, limit) => b = a
    BY <1>5 DEF Entered
  <2>5. CASE Offer(c, leases[oldest].nip)
    BY <1>1, <1>2, <2>1, <2>2, <2>3, <2>4, <2>5, OfferOffered
  <2>6. CASE /\ leases' = add_lease(leases, NULL, leases[oldest].nip, ConflictTime)
             /\ UNCHANGED toClient
    BY <1>1, <1>4, <2>1, <2>2, <2>3, <2>6, ConflictOffer
  <2> QED
    BY <1>3, <1>6, <2>5, <2>6
<1> QED
  BY <1>3, <1>6, <1>7


(* An ACK renews the client's own entry.                                   *)
LEMMA AckOffer ==
  ASSUME Provisioned, OfferLasts, TableInv, LeaseInv, OfferInv, NEW c \in Macs, pc = "loop",
         toServer[c] # << >>, NEW a \in 0..NumIps, a # 0, LeaseNip(c) = a, Ack(c, a),
         UNCHANGED <<now, clientVars>>
  PROVE  OfferInv'
<1> DEFINE t == add_lease(leases, c, a, LeaseTime)
<1>1. /\ NetType /\ ClientType /\ Table(leases) /\ OneEntry(leases) /\ StaticMacs = {}
      /\ now \in Nat \ {0} /\ now \in Nat /\ now + LeaseTime < Wrap /\ LeaseTime \in Nat
      /\ 3 * Pause <= LeaseTime /\ Table(t)
  BY TableParts, ClockFacts, AddFacts DEF Provisioned, OfferLasts, LeaseInv
<1>2. /\ Replied(c, "ACK", a)
      /\ \/ leases' = t /\ UNCHANGED <<pc, forgot>>
         \/ pc' = "down" /\ forgot' = "leases"
  BY DEF Ack, Stays, Down
<1>3. /\ \/ toClient'[c] = toClient[c]
         \/ /\ Answer(c, "ACK", a) \in Replies
            /\ toClient'[c] = Put(toClient[c], Answer(c, "ACK", a))
      /\ \A d \in Macs \ {c} : toClient'[d] = toClient[d]
  BY <1>1, <1>2, RepliedFacts
<1>4. Answer(c, "ACK", a).type = "ACK"
  BY DEF Answer
<1>5. FindInv' /\ pc' # "read"
  BY <1>2 DEF FindInv
<1>6. \A d \in Macs : AskInv(d)'
  BY AskSame
<1>7. CASE leases' = t /\ UNCHANGED <<pc, forgot>>
  <2>1. PICK i \in Slots : leases[i].mac = c
    BY <1>1, FindFacts DEF LeaseNip
  <2>2. Entered(leases', c, a, now + LeaseTime)
    BY <1>1, <1>7, <2>1, OwnEntryReused, AddedEntered
  <2>3. \A b, limit : Entered(leases, c, b, limit) => b = a
    BY <1>1, EnteredNip
  <2>4. Unused(leases, c, a) /\ Table(leases')
    BY <1>1, <1>7, OwnUnused
  <2>5. ASSUME forgot = "nothing", NEW d \in Macs
        PROVE  OfferedInv(d)'
    <3>1. OfferedInv(d) /\ AskInv(d)
      BY <2>5 DEF OfferInv
    <3>2. CASE d = c
      BY <1>1, <1>3, <1>4, <2>2, <2>3, <2>4, <3>1, <3>2, OfferedAgain
    <3>3. CASE d # c
      <4>1. c \in Macs \cup {Zero, NULL}
        OBVIOUS
      <4>2. \A b : \A limit \in Nat :
              limit >= now /\ Entered(leases, d, b, limit) => Entered(leases', d, b, limit)
        BY <1>1, <1>7, <2>4, <3>3, <4>1, EnteredKept
      <4>3. toClient'[d] = toClient[d]
        BY <1>3, <3>3
      <4> QED
        BY <1>1, <3>1, <4>2, <4>3, OfferedKept
    <3> QED
      BY <3>2, <3>3
  <2> QED
    BY <1>5, <1>6, <1>7, <2>5 DEF OfferInv
<1>8. CASE pc' = "down" /\ forgot' = "leases"
  BY <1>5, <1>6, <1>8 DEF OfferInv
<1> QED
  BY <1>2, <1>7, <1>8

LEMMA RequestOffer ==
  ASSUME Provisioned, OfferLasts, TableInv, LeaseInv, OfferInv, NEW c \in Macs, Request(c)
  PROVE  OfferInv'
<1> DEFINE m == Head(toServer[c])
           a == IF m.req # 0 THEN m.req ELSE m.ci
<1>1. NetType /\ 0 \in 0..NumIps
  BY TableParts, Constants
<1>2. pc = "loop" /\ toServer[c] # << >> /\ a \in 0..NumIps
  BY <1>1, ArrivesFacts DEF Request
<1>3. /\ UNCHANGED <<now, clientVars>>
      /\ \/ a # 0 /\ LeaseNip(c) = a /\ Ack(c, a)
         \/ /\ Replied(c, "NAK", 0) \/ UNCHANGED toClient
            /\ Stays /\ UNCHANGED <<leases, forgot>>
  BY DEF Request
<1> HIDE DEF a
<1>4. CASE a # 0 /\ LeaseNip(c) = a /\ Ack(c, a)
  BY <1>2, <1>3, <1>4, AckOffer
<1>5. CASE /\ Replied(c, "NAK", 0) \/ UNCHANGED toClient
           /\ Stays /\ UNCHANGED <<leases, forgot>>
  <2>1. /\ \/ toClient'[c] = toClient[c]
           \/ /\ Answer(c, "NAK", 0) \in Replies
              /\ toClient'[c] = Put(toClient[c], Answer(c, "NAK", 0))
        /\ \A d \in Macs \ {c} : toClient'[d] = toClient[d]
    BY <1>1, <1>2, <1>5, RepliedFacts
  <2>2. Answer(c, "NAK", 0).type = "NAK" /\ pc' = pc
    BY <1>5 DEF Answer, Stays
  <2>3. \A d \in Macs :
          \/ toClient'[d] = toClient[d]
          \/ \E r \in Replies : r.type # "OFFER" /\ toClient'[d] = Put(toClient[d], r)
    <3> TAKE d \in Macs
    <3>1. CASE d = c
      BY <2>1, <2>2, <3>1
    <3> QED
      BY <2>1, <3>1
  <2>4. FindInv'
    BY <1>2, <2>2 DEF FindInv
  <2> QED
    BY <1>3, <1>5, <2>2, <2>3, <2>4, QuietOffer
<1> QED
  BY <1>3, <1>4, <1>5

(* A client that says farewell has no offer that it could act on.          *)
LEMMA EndOffer ==
  ASSUME TableInv, LeaseInv, OfferInv, NEW c \in Macs, Decline(c) \/ Release(c)
  PROVE  OfferInv'
<1>1. NetType /\ ClientType /\ now \in Nat
  BY TableParts
<1>2. /\ pc = "loop" /\ toServer[c] # << >> /\ Head(toServer[c]).type \in {"DECLINE", "RELEASE"}
      /\ UNCHANGED pc /\ UNCHANGED <<toClient, forgot, now, clientVars>>
  BY DEF Decline, Release, Arrives, Stays
<1>3. Leaving(toServer[c])
  <2>1. toServer[c] \in Seq(Requests)
    BY <1>1 DEF NetType
  <2>2. 1 \in 1..Len(toServer[c]) /\ Head(toServer[c]) = toServer[c][1]
    BY <1>2, <2>1, TailQueue
  <2> QED
    BY <1>2, <2>2 DEF Leaving, Farewell
<1>4. st[c] # "REQUESTING" /\ NoCurrent(toClient[c], "OFFER")
  BY <1>3 DEF LeaseInv, ChannelInv
<1>5. \A d \in Macs : AskInv(d)'
  BY <1>2, AskSame
<1>6. \A j \in Slots : leases[j].mac # c => leases'[j] = leases[j]
  BY EndTable
<1>7. ASSUME forgot = "nothing", NEW d \in Macs
      PROVE  OfferedInv(d)'
  <2>1. OfferedInv(d) /\ AskInv(d)
    BY <1>2, <1>7 DEF OfferInv
  <2>2. CASE d = c
    <3>1. st'[c] # "REQUESTING" /\ NoCurrent(toClient'[c], "OFFER")
      BY <1>2, <1>4 DEF clientVars
    <3> QED
      BY <2>2, <3>1 DEF OfferedInv, NoCurrent
  <2>3. CASE d # c
    <3>1. \A b : \A limit \in Nat :
            limit >= now /\ Entered(leases, d, b, limit) => Entered(leases', d, b, limit)
      BY <1>6, <2>3, EnteredOther
    <3> QED
      BY <1>1, <1>2, <2>1, <3>1, OfferedKept
  <2> QED
    BY <2>2, <2>3
<1> QED
  BY <1>2, <1>5, <1>7 DEF OfferInv, FindInv


LEMMA SignalOffer ==
  ASSUME TableInv, OfferInv, Save \/ Stop \/ Crash
  PROVE  OfferInv'
<1>1. UNCHANGED <<forgot, now, clientVars>> /\ \A d \in Macs : AskInv(d)'
  BY AskSame DEF Save, Stop, Crash
<1>2. CASE Save
  <2>1. /\ pc = "loop" /\ pc' = "loop" /\ UNCHANGED <<leases, toClient>>
    BY <1>2 DEF Save, netVars
  <2>2. FindInv'
    BY <2>1 DEF FindInv
  <2> QED
    BY <1>1, <2>1, <2>2, QuietOffer
<1>3. CASE Stop \/ Crash
  <2>1. pc' = "down"
    BY <1>3 DEF Stop, Crash, Down
  <2> QED
    BY <1>1, <2>1 DEF OfferInv, FindInv
<1> QED
  BY <1>2, <1>3

LEMMA LossOffer ==
  ASSUME TableInv, OfferInv, NEW c \in Macs, Unheard(c) \/ Lose(c)
  PROVE  OfferInv'
<1>1. NetType
  BY TableParts
<1>2. UNCHANGED <<leases, forgot, now, clientVars, pc, oldest, served>>
  BY DEF Unheard, Lose, serverVars
<1>3. FindInv'
  BY <1>2 DEF OfferInv, FindInv
<1>4. \/ UNCHANGED toClient
      \/ /\ toClient[c] # << >> /\ toClient'[c] = Tail(toClient[c])
         /\ \A d \in Macs \ {c} : toClient'[d] = toClient[d]
  BY <1>1 DEF Unheard, Lose, NetType
<1>5. \A d \in Macs : \/ toClient'[d] = toClient[d]
                      \/ toClient[d] # << >> /\ toClient'[d] = Tail(toClient[d])
  <2> TAKE d \in Macs
  <2>1. CASE d = c
    BY <1>4, <2>1
  <2> QED
    BY <1>4, <2>1
<1> QED
  BY <1>2, <1>3, <1>5, QuietOffer

(* A restart costs the offers.                                             *)
LEMMA RestartOffer ==
  ASSUME OfferInv, Boot \/ ReadLease \/ Loaded
  PROVE  OfferInv'
<1>1. UNCHANGED clientVars /\ \A d \in Macs : AskInv(d)'
  BY AskSame DEF Boot, ReadLease, Loaded
<1>2. pc' # "find"
  BY DEF Boot, ReadLease, Loaded
<1>3. forgot' # "nothing"
  <2>1. CASE Boot
    BY <2>1 DEF Boot
  <2>2. CASE ReadLease \/ Loaded
    BY <2>2 DEF ReadLease, Loaded, OfferInv
  <2> QED
    BY <2>1, <2>2
<1> QED
  BY <1>1, <1>2, <1>3 DEF OfferInv, FindInv

LEMMA TickOffer ==
  ASSUME Provisioned, OfferLasts, TableInv, OfferInv, Tick
  PROVE  OfferInv'
<1>1. /\ now' = now + 1 /\ pc \in {"loop", "down"}
      /\ \A c \in Macs : ~ Expired(c) /\ toClient[c] = << >>
      /\ waited' = [c \in Macs |-> IF timeout[c] = Forever THEN waited[c] ELSE waited[c] + 1]
      /\ UNCHANGED <<st, ip, num, timeout, toClient, leases, pc, oldest, served, forgot>>
  BY DEF Tick, netVars, serverVars
<1>2. now \in Nat /\ ClientType /\ Pause \in Nat /\ LeaseTime \in Nat
  BY TableParts, TimesFacts, UdhcpcAssumption DEF UdhcpcAssumption
<1>3. \A c \in Macs : st[c] = "REQUESTING" =>
        waited'[c] = waited[c] + 1 /\ waited[c] + 1 <= timeout[c]
  <2> TAKE c \in Macs
  <2> HAVE st[c] = "REQUESTING"
  <2>1. waited[c] \in Nat /\ timeout[c] \in Nat /\ waited[c] < timeout[c] /\ timeout[c] <= Pause
    BY <1>1, <1>2 DEF ClientType, Expired, OfferInv, AskInv
  <2>2. timeout[c] # Forever
    BY <1>2, <2>1 DEF Provisioned, OfferLasts, Forever
  <2> QED
    BY <1>1, <2>1, <2>2
<1>4. \A c \in Macs : AskInv(c)'
  BY <1>1, <1>3 DEF OfferInv, AskInv
<1>5. ASSUME forgot = "nothing", pc # "down", NEW c \in Macs
      PROVE  OfferedInv(c)'
  <2>1. ASSUME st[c] = "REQUESTING"
        PROVE  Entered(leases, c, ip[c], now' + Asking(c)')
    <3>1. Entered(leases, c, ip[c], now + Asking(c))
      BY <1>5, <2>1 DEF OfferInv, OfferedInv
    <3>2. now' + Asking(c)' = now + Asking(c)
      <4>1. timeout[c] \in Nat /\ waited[c] \in Nat /\ waited'[c] = waited[c] + 1
        BY <1>2, <1>3, <2>1 DEF ClientType
      <4>2. num'[c] = num[c] /\ timeout'[c] = timeout[c]
        BY <1>1
      <4>3. PICK k \in Nat : /\ Asking(c) = timeout[c] - waited[c] + k
                             /\ Asking(c)' = timeout'[c] - waited'[c] + k
        BY <1>2, <4>2 DEF Asking
      <4>4. Asking(c)' = timeout[c] - (waited[c] + 1) + k
        BY <4>1, <4>2, <4>3
      <4>5. now' = now + 1 /\ now \in Nat
        BY <1>1, <1>2
      <4> QED
        BY <4>1, <4>3, <4>4, <4>5
    <3> QED
      BY <3>1, <3>2
  <2>2. 1..Len(toClient'[c]) = {}
    BY <1>1
  <2> QED
    BY <1>1, <2>1, <2>2 DEF OfferedInv
<1> QED
  BY <1>1, <1>4, <1>5 DEF OfferInv, FindInv

LEMMA InitOffer ==
  ASSUME Init
  PROVE  OfferInv
<1>1. /\ pc = "loop"
      /\ \A c \in Macs : st[c] = "INIT_SELECTING" /\ toClient[c] = << >>
  BY DEF Init, ClientInit
<1>2. \A c \in Macs : AskInv(c)
  BY <1>1 DEF AskInv
<1>3. \A c \in Macs : OfferedInv(c)
  <2> TAKE c \in Macs
  <2>1. 1..Len(toClient[c]) = {}
    BY <1>1
  <2> QED
    BY <1>1, <2>1 DEF OfferedInv
<1> QED
  BY <1>1, <1>2, <1>3 DEF OfferInv, FindInv

LEMMA SameOffer ==
  ASSUME OfferInv, UNCHANGED vars
  PROVE  OfferInv'
  BY DEF OfferInv, FindInv, AskInv, OfferedInv, Asking, vars, clientVars, timerVars, netVars,
         serverVars

LEMMA OfferStep ==
  ASSUME Provisioned, OfferLasts, TableInv, LeaseInv, OfferInv, [Next]_vars
  PROVE  OfferInv'
  BY SameOffer, ClientOffer, DiscoverOffer, RequestOffer, EndOffer, LossOffer, TryAddressOffer,
     TryOldestOffer, RestartOffer, SignalOffer, TickOffer DEF Next

LEMMA OfferedHeld ==
  ASSUME Provisioned, TableInv, OfferInv
  PROVE  OfferHeld
<1> SUFFICES ASSUME NEW c \in Macs, forgot = "nothing", pc # "down", st[c] = "REQUESTING"
             PROVE  LeaseNip(c) = ip[c]
  BY DEF OfferHeld
<1>1. Entered(leases, c, ip[c], now + Asking(c))
  BY DEF OfferInv, OfferedInv
<1>2. OneEntry(leases) /\ StaticMacs = {}
  BY TableParts DEF Provisioned
<1> QED
  BY <1>1, <1>2, EnteredNip

(* A server that has not been restarted has, for every client that asks    *)
(* for the address it selected (REQUESTING, dhcpc.c), the entry that its   *)
(* OFFER made (send_offer, dhcpd.c): the request is answered with an ACK   *)
(* whatever other clients discover, decline or release meanwhile, and      *)
(* however many of the client's packets are lost.                          *)
THEOREM OffersAreHeld ==
  ASSUME Provisioned, OfferLasts PROVE Spec => []OfferHeld
<1>1. Init => TableInv /\ LeaseInv /\ OfferInv
  BY InitTable, InitLease, InitOffer
<1>2. TableInv /\ LeaseInv /\ OfferInv /\ [Next]_vars => (TableInv /\ LeaseInv /\ OfferInv)'
  BY TableStep, LeaseStep, OfferStep
<1>3. TableInv /\ LeaseInv /\ OfferInv => OfferHeld
  BY OfferedHeld
<1> QED
  BY <1>1, <1>2, <1>3, PTL DEF Spec
=============================================================================
