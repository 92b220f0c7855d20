-------------------------------- MODULE Dhcpd --------------------------------
(***************************************************************************)
(* udhcpd: the DHCP server, composed with its clients (Udhcpc).            *)
(* busybox-1.32.0/networking/udhcp/dhcpd.c                                 *)
(*                                                                         *)
(* The server is one thread: a packet is one step, except that the search  *)
(* for a free address probes one address in a step, and that the lease     *)
(* file is read one record in a step.  Packets arrive, or are lost, within *)
(* the tick in which they are sent.                                        *)
(***************************************************************************)
EXTENDS Udhcpc

CONSTANTS
  MaxLeases,   \* max_leases, the size of the lease table
  Unusable,    \* the server's own address and those that end in 0 or 255
  StaticMacs, StaticNip,   \* static_leases: at most one client, and its address
  OfferTime, DeclineTime, ConflictTime,
  StaleTime,   \* a lease file older than this (12 h) is not read
  Wrap,        \* 2^32, the range of leasetime_t
  MaxTime      \* bound: ticks

Slots == 1..MaxLeases

ASSUME DhcpdAssumption ==
  /\ MaxLeases \in 1..NumIps
  /\ Unusable \subseteq Addrs
  /\ StaticMacs \subseteq Macs /\ Cardinality(StaticMacs) <= 1
  /\ StaticNip \in Addrs
  /\ OfferTime \in Nat /\ DeclineTime \in Nat /\ ConflictTime \in Nat
  /\ StaleTime \in Nat /\ Wrap \in Nat \ {0} /\ MaxTime \in Nat

VARIABLES
  now,         \* time(NULL)
  leases,      \* g_leases
  file,        \* the lease file: when it was written, and the records by slot
  pc,          \* "down", "read", "loop", "find"
  pos,         \* the next record to read, or the next address to try
  oldest,      \* oldest_lease in find_free_or_expired_nip: a slot, or 0
  served,      \* the client whose DISCOVER is being answered in "find"
  forgot       \* history: what restarts can have cost: "nothing", "offers",
               \* "leases" (the file was cut, not written after an ACK, or old)

serverVars == <<leases, file, pc, pos, oldest, served, forgot>>
vars == <<clientVars, netVars, events, now, serverVars>>

Entries == [mac : Macs \cup {Zero}, nip : 0..NumIps, expires : Nat]
Empty == [mac |-> Zero, nip |-> 0, expires |-> 0]
NoLeases == [i \in Slots |-> Empty]

-----------------------------------------------------------------------------
(* The lease table.                                                        *)

get_static_nip_by_mac(m) == IF m \in StaticMacs THEN StaticNip ELSE 0
is_nip_reserved_as_static(a) == StaticMacs # {} /\ a = StaticNip

is_expired_lease(t, i) == t[i].expires < now

(* Mutant: the entry that expires first, whether it has expired or not.    *)
BugOldest(t) ==
  CHOOSE i \in Slots : \A j \in Slots : t[i].expires <= t[j].expires

(* The last empty entry, or else the first of those that expired first.    *)
Oldest(t) ==
  LET empty == {i \in Slots : t[i].expires = 0}
      old == {i \in Slots : is_expired_lease(t, i)}
  IN  IF empty # {} THEN CHOOSE i \in empty : \A j \in empty : j <= i
      ELSE IF old # {}
           THEN CHOOSE i \in old : \A j \in old :
                  \/ t[i].expires < t[j].expires
                  \/ (t[i].expires = t[j].expires /\ i <= j)
           ELSE 0

(* Mutant: an old entry of the same address stays.                         *)
BugClear(t, m, a) == [i \in Slots |-> IF m # NULL /\ t[i].mac = m THEN Empty ELSE t[i]]

clear_leases(t, m, a) ==
  [i \in Slots |-> IF (m # NULL /\ t[i].mac = m) \/ (a # 0 /\ t[i].nip = a)
                   THEN Empty ELSE t[i]]

(* The table after add_lease; Added says whether it returned an entry.     *)
add_lease(t, m, a, secs) ==
  LET u == clear_leases(t, m, a)
  IN  IF Oldest(u) = 0 THEN u
      ELSE [u EXCEPT ![Oldest(u)] =
              [mac |-> IF m = NULL THEN Zero ELSE m, nip |-> a, expires |-> (now + secs) % Wrap]]

Added(t, m, a) == Oldest(clear_leases(t, m, a)) # 0

(* The first entry of a client, of an address; 0 if there is none.         *)
First(S) == IF S = {} THEN 0 ELSE CHOOSE i \in S : \A j \in S : i <= j
find_lease_by_mac(t, m) == First({i \in Slots : t[i].mac = m})
find_lease_by_nip(t, a) == First({i \in Slots : t[i].nip = a})

-----------------------------------------------------------------------------
(* The lease file: each record holds the time that is left.  The file may  *)
(* have been cut after n records by a crash.                               *)

(* Mutant: the time left is not cut off at 0.                              *)
BugWritten(t, n) ==
  [at |-> now,
   recs |-> [i \in Slots |-> IF i > n \/ t[i].nip = 0 THEN Empty
                             ELSE [t[i] EXCEPT !.expires = @ - now]]]

Written(t, n) ==
  [at |-> now,
   recs |-> [i \in Slots |-> IF i > n \/ t[i].nip = 0 THEN Empty
                             ELSE [t[i] EXCEPT !.expires = IF @ < now THEN 0 ELSE @ - now]]]

write_leases(t) == file' = Written(t, MaxLeases)

Boot ==
  /\ pc = "down"
  /\ leases' = NoLeases
  /\ IF now - file.at <= StaleTime
     THEN pc' = "read" /\ pos' = 1 /\ forgot' = IF forgot = "leases" THEN forgot ELSE "offers"
     ELSE pc' = "loop" /\ pos' = 0 /\ forgot' = "leases"
  /\ UNCHANGED <<file, oldest, served, now, clientVars, netVars, events>>

ReadLease ==
  /\ pc = "read" /\ pos \in Slots
  /\ LET r == file.recs[pos]
         left == IF r.expires <= now - file.at THEN 0 ELSE r.expires - (now - file.at)
         skipped == r.nip = 0 \/ get_static_nip_by_mac(r.mac) # 0 \/ is_nip_reserved_as_static(r.nip)
     IN  /\ leases' = IF skipped THEN leases ELSE add_lease(leases, r.mac, r.nip, left)
         /\ pos' = IF skipped \/ Added(leases, r.mac, r.nip) THEN pos + 1 ELSE MaxLeases + 1
  /\ UNCHANGED <<file, pc, oldest, served, forgot, now, clientVars, netVars, events>>

Loaded ==
  /\ pc = "read" /\ pos \notin Slots
  /\ pc' = "loop" /\ pos' = 0
  /\ UNCHANGED <<leases, file, oldest, served, forgot, now, clientVars, netVars, events>>

-----------------------------------------------------------------------------
(* Packets.  A packet leaves the queue when it has been dealt with.        *)

Taken(c) == toServer' = [toServer EXCEPT ![c] = Tail(@)]

Replied(c, type, a) ==
  toClient' = [toClient EXCEPT ![c] =
    IF Listening(c) THEN Put(@, [type |-> type, yi |-> a, cur |-> Head(toServer[c]).cur]) ELSE @]

Arrives(c, type) == pc = "loop" /\ toServer[c] # << >> /\ Head(toServer[c]).type = type

(* The address of the client's static or dynamic lease, expired or not.    *)
LeaseNip(c) ==
  IF c \in StaticMacs THEN StaticNip
  ELSE LET i == find_lease_by_mac(leases, c) IN IF i = 0 THEN 0 ELSE leases[i].nip

Stays == UNCHANGED <<pc, pos, oldest, served>>
Done == pc' = "loop" /\ pos' = 0 /\ oldest' = 0 /\ served' = NULL

(* The end of send_offer, with the address that was found.  Nothing is     *)
(* reserved for the client of a static lease.                              *)
Offer(c, a) ==
  LET static == c \in StaticMacs
  IN  /\ leases' = IF static THEN leases ELSE add_lease(leases, c, a, OfferTime)
      /\ IF static \/ Added(leases, c, a) THEN Replied(c, "OFFER", a) ELSE UNCHANGED toClient
      /\ Taken(c)

(* Mutant: any address in the range is granted.                            *)
BugGrantable(a) == a # 0

(* The address that the client asks for is free, or its lease has expired. *)
Grantable(a) ==
  /\ a # 0
  /\ LET i == find_lease_by_nip(leases, a) IN IF i = 0 THEN TRUE ELSE is_expired_lease(leases, i)

Discover(c) ==
  /\ Arrives(c, "DISCOVER")
  /\ LET req == Head(toServer[c]).req
     IN  \/ /\ LeaseNip(c) # 0
            /\ Offer(c, LeaseNip(c)) /\ Stays
         \/ /\ LeaseNip(c) = 0 /\ Grantable(req)
            /\ Offer(c, req) /\ Stays
         \/ /\ LeaseNip(c) = 0 /\ ~Grantable(req)
            /\ pc' = "find" /\ pos' = 1 /\ oldest' = 0 /\ served' = c
            /\ UNCHANGED <<leases, netVars>>
  /\ UNCHANGED <<file, forgot, now, clientVars, events>>

(* find_free_or_expired_nip: one address.                                  *)
TryAddress ==
  /\ pc = "find" /\ pos \in Addrs
  /\ LET i == find_lease_by_nip(leases, pos)
         skip == pos \in Unusable \/ is_nip_reserved_as_static(pos)
     IN  \/ /\ skip \/ i # 0
            /\ oldest' = IF skip THEN oldest
                         ELSE IF oldest = 0 THEN i
                         ELSE IF leases[i].expires < leases[oldest].expires THEN i ELSE oldest
            /\ pos' = pos + 1
            /\ UNCHANGED <<leases, pc, served, netVars, events>>
         \/ /\ ~skip /\ i = 0
            /\ \/ /\ Offer(served, pos) /\ Done
                  /\ UNCHANGED events
               \/ /\ Happens("arp")
                  /\ leases' = add_lease(leases, NULL, pos, ConflictTime)
                  /\ pos' = pos + 1
                  /\ UNCHANGED <<oldest, pc, served, netVars>>
  /\ UNCHANGED <<file, forgot, now, clientVars>>

(* find_free_or_expired_nip after its loop.                                *)
Reusable == oldest # 0 /\ is_expired_lease(leases, oldest)

TryOldest ==
  /\ pc = "find" /\ pos \notin Addrs
  /\ \/ /\ ~Reusable
        /\ Taken(served)
        /\ UNCHANGED <<leases, toClient, events>>
     \/ /\ Reusable
        /\ \/ /\ Offer(served, leases[oldest].nip)
              /\ UNCHANGED events
           \/ /\ Happens("arp")
              /\ leases' = add_lease(leases, NULL, leases[oldest].nip, ConflictTime)
              /\ Taken(served)
              /\ UNCHANGED toClient
  /\ Done
  /\ UNCHANGED <<file, forgot, now, clientVars>>

Down == pc' = "down" /\ pos' = 0 /\ oldest' = 0 /\ served' = NULL /\ leases' = NoLeases

(* send_ACK: the reply, the table, the file.                               *)
Ack(c, a) ==
  LET t == add_lease(leases, c, a, LeaseTime)
  IN  /\ Replied(c, "ACK", a) /\ Taken(c)
      /\ \/ /\ leases' = t /\ write_leases(t)
            /\ Stays /\ UNCHANGED <<forgot, events>>
         \/ /\ Happens("unsaved")
            /\ Down /\ forgot' = "leases" /\ UNCHANGED file
         \/ /\ Happens("torn")
            /\ Down /\ forgot' = "leases"
            /\ \E n \in 0..MaxLeases - 1 : file' = Written(t, n)

Request(c) ==
  /\ Arrives(c, "REQUEST")
  /\ LET m == Head(toServer[c])
         a == IF m.req # 0 THEN m.req ELSE m.ci
     IN  \/ /\ a # 0 /\ LeaseNip(c) = a
            /\ Ack(c, a)
         \/ /\ a = 0 \/ LeaseNip(c) # a
            /\ IF a # 0 /\ (m.sid \/ m.req # 0) THEN Replied(c, "NAK", 0) ELSE UNCHANGED toClient
            /\ Taken(c) /\ Stays
            /\ UNCHANGED <<leases, file, forgot, events>>
  /\ UNCHANGED <<now, clientVars>>

(* The client's lease when it is for address a, as a slot; 0 if it is not, *)
(* or if it is static: then a copy is changed.                             *)
Matching(c, a) ==
  LET i == find_lease_by_mac(leases, c)
  IN  IF c \notin StaticMacs /\ i # 0 /\ leases[i].nip = a THEN i ELSE 0

Decline(c) ==
  /\ Arrives(c, "DECLINE")
  /\ LET m == Head(toServer[c])
         i == Matching(c, m.req)
     IN  leases' = IF m.sid /\ m.req # 0 /\ i # 0
                   THEN [leases EXCEPT ![i].mac = Zero, ![i].expires = (now + DeclineTime) % Wrap]
                   ELSE leases
  /\ Taken(c) /\ Stays
  /\ UNCHANGED <<toClient, file, forgot, now, clientVars, events>>

Release(c) ==
  /\ Arrives(c, "RELEASE")
  /\ LET m == Head(toServer[c])
         i == Matching(c, m.ci)
     IN  leases' = IF m.sid /\ i # 0 THEN [leases EXCEPT ![i].expires = now] ELSE leases
  /\ Taken(c) /\ Stays
  /\ UNCHANGED <<toClient, file, forgot, now, clientVars, events>>

-----------------------------------------------------------------------------
(* Signals, crashes, the network and time.                                 *)

(* SIGUSR1, or auto_time is over.                                          *)
Save ==
  /\ pc = "loop" /\ Happens("save")
  /\ write_leases(leases)
  /\ UNCHANGED <<leases, pc, pos, oldest, served, forgot, now, clientVars, netVars>>

(* SIGTERM.                                                                *)
Stop ==
  /\ pc = "loop" /\ Happens("stop")
  /\ write_leases(leases) /\ Down
  /\ UNCHANGED <<forgot, now, clientVars, netVars>>

Crash ==
  /\ pc # "down" /\ Happens("crash")
  /\ Down
  /\ UNCHANGED <<file, forgot, now, clientVars, netVars>>

(* No process has the server's port open: the packets are gone.            *)
Unheard(c) ==
  /\ pc = "down" /\ toServer[c] # << >> /\ Taken(c)
  /\ UNCHANGED <<toClient, clientVars, events, now, serverVars>>

Lose(c) ==
  /\ pc # "find" /\ Happens("loss")
  /\ \/ /\ toServer[c] # << >> /\ Taken(c)
        /\ UNCHANGED toClient
     \/ /\ toClient[c] # << >> /\ UNCHANGED toServer
        /\ toClient' = [toClient EXCEPT ![c] = Tail(@)]
  /\ UNCHANGED <<clientVars, now, serverVars>>

(* A process whose wait is over runs within the tick.                      *)
Tick ==
  /\ now < MaxTime
  /\ pc \in {"loop", "down"}
  /\ \A c \in Macs : ~Expired(c) /\ toServer[c] = << >> /\ toClient[c] = << >>
  /\ now' = now + 1
  /\ waited' = [c \in Macs |-> IF timeout[c] = Forever THEN waited[c] ELSE waited[c] + 1]
  /\ UNCHANGED <<st, ip, num, timeout, conf, netVars, events, serverVars>>

Init ==
  /\ ClientInit
  /\ now = 1
  /\ leases = NoLeases
  /\ file = [at |-> 0, recs |-> NoLeases]
  /\ pc = "loop" /\ pos = 0 /\ oldest = 0 /\ served = NULL
  /\ forgot = "nothing"

Client(c) == ClientStep(c) /\ UNCHANGED <<now, serverVars>>

Next ==
  \/ \E c \in Macs : \/ Client(c)
                     \/ Discover(c) \/ Request(c) \/ Decline(c) \/ Release(c)
                     \/ Unheard(c) \/ Lose(c)
  \/ TryAddress \/ TryOldest
  \/ Boot \/ ReadLease \/ Loaded
  \/ Save \/ Stop \/ Crash
  \/ Tick

Spec == Init /\ [][Next]_vars

-----------------------------------------------------------------------------
(* Properties.                                                             *)

(* Types of the composed state; while an address is searched, the DISCOVER *)
(* that asked for it is still there.                                       *)
TypeOK ==
  /\ st \in [Macs -> States] /\ ip \in [Macs -> 0..NumIps]
  /\ num \in [Macs -> Nat] /\ timeout \in [Macs -> Nat] /\ waited \in [Macs -> Nat]
  /\ conf \in [Macs -> 0..NumIps]
  /\ toServer \in [Macs -> Seq(Requests)] /\ toClient \in [Macs -> Seq(Replies)]
  /\ events \in 0..MaxEvents
  /\ now \in Nat
  /\ leases \in [Slots -> Entries]
  /\ file \in [at : Nat, recs : [Slots -> Entries]] /\ file.at <= now
  /\ pc \in {"down", "read", "loop", "find"}
  /\ pos \in Nat
  /\ oldest \in Slots \cup {0}
  /\ served \in Macs \cup {NULL} /\ forgot \in {"nothing", "offers", "leases"}
  /\ pc = "find" => served \in Macs /\ toServer[served] # << >> /\ Head(toServer[served]).type = "DISCOVER"

(* find_lease_by_mac and find_lease_by_nip return the first entry that     *)
(* matches: there is at most one of a client, and at most one of an        *)
(* address, in the table and in the file.                                  *)
OneEntry(t) ==
  \A i, j \in Slots : i # j => /\ t[i].nip # 0 => t[i].nip # t[j].nip
                               /\ t[i].mac # Zero => t[i].mac # t[j].mac
TableUnique == OneEntry(leases) /\ OneEntry(file.recs)

InUse(c) == st[c] # "EXIT" /\ conf[c] # 0

(* No two clients use the same address at the same time, unless leases     *)
(* that the server had granted are missing in the file it was started with.*)
NoSharedAddress ==
  forgot # "leases" => \A c, d \in Macs : c # d /\ InUse(c) /\ InUse(d) => conf[c] # conf[d]

Knows(t, c, limit) == \E i \in Slots : t[i].mac = c /\ t[i].nip = conf[c] /\ t[i].expires >= limit

(* With the same exception, the server knows of every address in use, and  *)
(* takes it for leased: in the table when it runs, in the file when it     *)
(* does not.                                                               *)
LeaseKnown ==
  forgot # "leases" =>
    \A c \in Macs : InUse(c) =>
      /\ pc \in {"loop", "find"} => Knows(leases, c, now)
      /\ pc = "down" => Knows(file.recs, c, now - file.at)

(* The address that a client has been offered, and asks for now, is        *)
(* reserved for it, unless the server has been restarted: offers are not   *)
(* in the file.                                                            *)
OfferHeld ==
  \A c \in Macs : forgot = "nothing" /\ pc # "down" /\ st[c] = "REQUESTING" => LeaseNip(c) = ip[c]

(* Once the file has been read, every address that had been reserved, and  *)
(* for nobody, is still reserved.  udhcpd.conf: "The amount of time that   *)
(* an IP will be reserved (leased to nobody) if a DHCP decline message is  *)
(* received".                                                              *)
ReservationsLoaded ==
  pc = "read" /\ pos \notin Slots =>
    \A i \in Slots :
      LET r == file.recs[i]
      IN  r.mac = Zero /\ r.nip # 0 /\ r.expires > now - file.at =>
            \E j \in Slots : leases[j].nip = r.nip /\ leases[j].expires >= now
=============================================================================
