------------------------------- MODULE Udhcpc -------------------------------
(***************************************************************************)
(* udhcpc: the DHCP client, one per MAC address, and the network between   *)
(* the clients and the server.                                             *)
(* busybox-1.32.0/networking/udhcp/dhcpc.c                                 *)
(*                                                                         *)
(* Addresses are 1..NumIps, 0 is no address.  Time is counted in ticks.    *)
(* The xid of a round of packets is random: a packet carries cur, whether  *)
(* its xid is still the client's, and the choice of a new one clears cur   *)
(* in every packet on its way.                                             *)
(***************************************************************************)
EXTENDS Integers, Sequences, FiniteSets

CONSTANTS
  Macs,        \* the clients
  NumIps,      \* the server's addresses, start_ip to end_ip
  Ask,         \* option -r, the address asked for at first: a subset of 0..NumIps
  CheckArp,    \* option -a, probe the address before it is used
  ReleaseOnQuit,   \* option -R
  Retries,     \* option -t, discover packets in a row, 0 for no limit
  Pause,       \* option -T, from one packet to the next
  TryAgain,    \* option -A, until the next row of discover packets
  RenewMin,    \* below this (60 s) a renew is not unicast any more
  LeaseTime,   \* the server's lease time, in every offer and ACK
  QueueLen,    \* bound: packets in a socket, more are lost
  Events,      \* the faults and the signals that can happen
  MaxEvents    \* bound: how many of them

Addrs == 1..NumIps
Zero == "00:00:00:00:00:00"
NULL == "NULL"

AllEvents == {"USR1", "USR2", "TERM", "loss", "unsent", "arp", "save", "stop",
              "crash", "unsaved", "torn"}

ASSUME UdhcpcAssumption ==
  /\ Zero \notin Macs /\ NULL \notin Macs
  /\ NumIps \in Nat \ {0}
  /\ Ask \subseteq 0..NumIps
  /\ CheckArp \in BOOLEAN /\ ReleaseOnQuit \in BOOLEAN
  /\ Retries \in Nat /\ Pause \in Nat /\ TryAgain \in Nat
  /\ RenewMin \in Nat /\ LeaseTime \in Nat /\ QueueLen \in Nat
  /\ Events \subseteq AllEvents /\ MaxEvents \in Nat

VARIABLES
  st,          \* client_data.state, "EXIT" when the process is gone
  ip,          \* requested_ip
  num,         \* packet_num
  timeout, waited,   \* timeout and already_waited_sec
  conf,        \* the address the script has configured on the interface, or 0
  toServer, toClient,   \* per client: the packets in the two sockets
  events       \* events that happened

timerVars == <<num, timeout, waited>>
clientVars == <<st, ip, timerVars, conf>>
netVars == <<toServer, toClient>>

Forever == 2147483647   \* INT_MAX

States == {"INIT_SELECTING", "REQUESTING", "BOUND", "RENEWING", "REBINDING",
           "RENEW_REQUESTED", "RELEASED", "EXIT"}
Requests == [type : {"DISCOVER", "REQUEST", "DECLINE", "RELEASE"}, sid : BOOLEAN,
             req : 0..NumIps, ci : 0..NumIps, cur : BOOLEAN]
Replies == [type : {"OFFER", "ACK", "NAK"}, yi : 0..NumIps, cur : BOOLEAN]

Max2(a, b) == IF a >= b THEN a ELSE b
Min2(a, b) == IF a <= b THEN a ELSE b

Happens(e) ==
  /\ e \in Events /\ events < MaxEvents
  /\ events' = events + 1

-----------------------------------------------------------------------------
(* The network: one host's packets arrive in order, or not at all.         *)

Listening(c) == st[c] \notin {"BOUND", "RELEASED", "EXIT"}

Put(q, m) == IF Len(q) < QueueLen THEN Append(q, m) ELSE q

ToServer(c, type, sid, req, ci) ==
  toServer' = [toServer EXCEPT ![c] =
    Put(@, [type |-> type, sid |-> sid, req |-> req, ci |-> ci, cur |-> type \in {"DISCOVER", "REQUEST"}])]

(* change_listen_mode closes the socket, and with it goes what it held.    *)
Reopen(c) == toClient' = [toClient EXCEPT ![c] = << >>]

Aged(q) == [i \in DOMAIN q |-> [q[i] EXCEPT !.cur = FALSE]]

-----------------------------------------------------------------------------
(* The timeout: poll is not even called once nothing is left to wait for.  *)

Expired(c) == waited[c] >= timeout[c]

Timer(c, n, t) ==
  /\ num' = [num EXCEPT ![c] = n]
  /\ timeout' = [timeout EXCEPT ![c] = t]
  /\ waited' = [waited EXCEPT ![c] = 0]

GoTo(c, s) == st' = [st EXCEPT ![c] = s]
Deconfig(c) == conf' = [conf EXCEPT ![c] = 0]

SendDiscover(c) ==
  /\ Expired(c) /\ st[c] = "INIT_SELECTING"
  /\ Retries = 0 \/ num[c] < Retries
  /\ LET old == IF num[c] = 0 THEN Aged(toServer[c]) ELSE toServer[c]
     IN  toServer' = [toServer EXCEPT ![c] =
           Put(old, [type |-> "DISCOVER", sid |-> FALSE, req |-> ip[c], ci |-> 0, cur |-> TRUE])]
  /\ toClient' = [toClient EXCEPT ![c] = IF num[c] = 0 THEN Aged(@) ELSE @]
  /\ Timer(c, num[c] + 1, Pause)
  /\ UNCHANGED <<st, ip, conf, events>>

LeaseFail(c) ==
  /\ Expired(c)
  /\ \/ /\ st[c] = "INIT_SELECTING" /\ Retries # 0 /\ num[c] >= Retries
        /\ UNCHANGED toClient
     \/ /\ st[c] = "REQUESTING" /\ num[c] >= 3
        /\ Reopen(c)
  /\ GoTo(c, "INIT_SELECTING")
  /\ Timer(c, 0, TryAgain)
  /\ UNCHANGED <<ip, conf, toServer, events>>

SendSelect(c) ==
  /\ Expired(c) /\ st[c] = "REQUESTING" /\ num[c] < 3
  /\ ToServer(c, "REQUEST", TRUE, ip[c], 0)
  /\ Timer(c, num[c] + 1, Pause)
  /\ UNCHANGED <<st, ip, conf, toClient, events>>

(* The end of a wait of t in one of the states that hold a lease.          *)

Rebind(c, t) ==
  \/ /\ t > 0
     /\ GoTo(c, "REBINDING")
     /\ ToServer(c, "REQUEST", FALSE, 0, ip[c])
     /\ Timer(c, num[c], t \div 2)
     /\ UNCHANGED conf
  \/ /\ t = 0
     /\ GoTo(c, "INIT_SELECTING") /\ Deconfig(c)
     /\ Timer(c, 0, 0)
     /\ UNCHANGED toServer

SendRenew(c, s, t) ==
  \/ /\ t >= RenewMin
     /\ GoTo(c, s)
     /\ ToServer(c, "REQUEST", FALSE, 0, ip[c])
     /\ Timer(c, num[c], t \div 2)
     /\ IF st[c] = "BOUND" THEN Reopen(c) ELSE UNCHANGED toClient
     /\ UNCHANGED conf
  \/ /\ t < RenewMin \/ "unsent" \in Events
     /\ Rebind(c, t) /\ Reopen(c)

RenewTimeout(c) ==
  /\ Expired(c) /\ st[c] \in {"BOUND", "RENEWING", "RENEW_REQUESTED"}
  /\ SendRenew(c, IF st[c] = "BOUND" THEN "RENEWING" ELSE st[c], timeout[c])
  /\ UNCHANGED <<ip, events>>

RebindTimeout(c) ==
  /\ Expired(c) /\ st[c] = "REBINDING"
  /\ Rebind(c, timeout[c]) /\ Reopen(c)
  /\ UNCHANGED <<ip, events>>

-----------------------------------------------------------------------------
(* Signals: they are read only when poll has been called.                  *)

HoldsLease(c) == st[c] \in {"BOUND", "RENEWING", "REBINDING", "RENEW_REQUESTED"}

Usr1(c) ==
  /\ ~Expired(c) /\ Happens("USR1")
  /\ \/ /\ st[c] \in {"BOUND", "RENEWING", "REBINDING"}
        /\ SendRenew(c, "RENEW_REQUESTED", Min2(timeout[c], RenewMin))
     \/ /\ st[c] \in {"RENEW_REQUESTED", "REQUESTING", "RELEASED", "INIT_SELECTING"}
        /\ GoTo(c, "INIT_SELECTING")
        /\ Timer(c, 0, 0)
        /\ IF st[c] = "RENEW_REQUESTED" THEN Deconfig(c) ELSE UNCHANGED conf
        /\ IF st[c] = "INIT_SELECTING" THEN UNCHANGED toClient ELSE Reopen(c)
        /\ UNCHANGED toServer
  /\ UNCHANGED ip

PerformRelease(c) ==
  /\ IF HoldsLease(c) THEN ToServer(c, "RELEASE", TRUE, 0, ip[c]) ELSE UNCHANGED toServer
  /\ Deconfig(c)
  /\ Reopen(c)

Usr2(c) ==
  /\ ~Expired(c) /\ st[c] # "EXIT" /\ Happens("USR2")
  /\ PerformRelease(c)
  /\ GoTo(c, "RELEASED")
  /\ timeout' = [timeout EXCEPT ![c] = Forever]
  /\ UNCHANGED <<ip, num, waited>>

(* Without -R the address stays on the interface when the process exits.   *)
Term(c) ==
  /\ ~Expired(c) /\ st[c] # "EXIT" /\ Happens("TERM")
  /\ IF ReleaseOnQuit THEN PerformRelease(c) ELSE Reopen(c) /\ UNCHANGED <<conf, toServer>>
  /\ GoTo(c, "EXIT")
  /\ Timer(c, 0, Forever)
  /\ ip' = [ip EXCEPT ![c] = 0]

Start(c) ==
  /\ st[c] = "EXIT"
  /\ \E r \in Ask : ip' = [ip EXCEPT ![c] = r]
  /\ GoTo(c, "INIT_SELECTING") /\ Deconfig(c)
  /\ Timer(c, 0, 0)
  /\ UNCHANGED <<netVars, events>>

-----------------------------------------------------------------------------
(* A packet.                                                               *)

(* Lease times below 2 * 61 s are taken for that.                          *)
LeaseSeconds == Max2(LeaseTime, 2 * (RenewMin + 1))

(* Mutant: the renewal is planned for the end of the lease.                *)
BugBound(c, m) ==
  /\ ip' = [ip EXCEPT ![c] = m.yi]
  /\ conf' = [conf EXCEPT ![c] = m.yi]
  /\ GoTo(c, "BOUND") /\ Reopen(c)
  /\ Timer(c, num[c], LeaseSeconds)
  /\ UNCHANGED toServer

Bound(c, m) ==
  /\ ip' = [ip EXCEPT ![c] = m.yi]
  /\ conf' = [conf EXCEPT ![c] = m.yi]
  /\ GoTo(c, "BOUND") /\ Reopen(c)
  /\ Timer(c, num[c], LeaseSeconds \div 2)
  /\ UNCHANGED toServer

BackToInit(c, t) ==
  /\ IF st[c] = "REQUESTING" THEN UNCHANGED conf ELSE Deconfig(c)
  /\ GoTo(c, "INIT_SELECTING") /\ Reopen(c)
  /\ ip' = [ip EXCEPT ![c] = 0]
  /\ Timer(c, 0, t)

Ignore(c) ==
  /\ toClient' = [toClient EXCEPT ![c] = Tail(@)]
  /\ UNCHANGED <<clientVars, toServer, events>>

Select(c, m) ==
  /\ ip' = [ip EXCEPT ![c] = m.yi]
  /\ GoTo(c, "REQUESTING")
  /\ Timer(c, 0, 0)
  /\ toClient' = [toClient EXCEPT ![c] = Tail(@)]
  /\ UNCHANGED <<conf, toServer, events>>

Expects(s) ==
  IF s = "INIT_SELECTING" THEN {"OFFER"} ELSE {"ACK", "NAK"}

Receive(c) ==
  /\ Listening(c) /\ ~Expired(c) /\ toClient[c] # << >>
  /\ LET m == Head(toClient[c])
     IN  \/ /\ ~m.cur \/ m.type \notin Expects(st[c])
            /\ Ignore(c)
         \/ /\ m.cur /\ st[c] = "INIT_SELECTING" /\ m.type = "OFFER"
            /\ Select(c, m)
         \/ /\ m.cur /\ st[c] # "INIT_SELECTING" /\ m.type = "ACK"
            /\ \/ Bound(c, m) /\ UNCHANGED events
               \/ /\ CheckArp /\ Happens("arp")
                  /\ ToServer(c, "DECLINE", TRUE, m.yi, 0)
                  /\ BackToInit(c, TryAgain)
         \/ /\ m.cur /\ st[c] # "INIT_SELECTING" /\ m.type = "NAK"
            /\ BackToInit(c, 0)
            /\ UNCHANGED <<toServer, events>>

ClientInit ==
  /\ st = [c \in Macs |-> "INIT_SELECTING"]
  /\ ip \in [Macs -> Ask]
  /\ num = [c \in Macs |-> 0]
  /\ timeout = [c \in Macs |-> 0]
  /\ waited = [c \in Macs |-> 0]
  /\ conf = [c \in Macs |-> 0]
  /\ toServer = [c \in Macs |-> << >>]
  /\ toClient = [c \in Macs |-> << >>]
  /\ events = 0

ClientStep(c) ==
  \/ SendDiscover(c) \/ LeaseFail(c) \/ SendSelect(c)
  \/ RenewTimeout(c) \/ RebindTimeout(c)
  \/ Usr1(c) \/ Usr2(c) \/ Term(c) \/ Start(c)
  \/ Receive(c)
=============================================================================
