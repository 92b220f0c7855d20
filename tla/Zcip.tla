-------------------------------- MODULE Zcip --------------------------------
(***************************************************************************)
(* zcip: hosts on one link choose their addresses by ARP probes, announce  *)
(* them and defend them (RFC 3927).                                        *)
(* busybox-1.32.0/networking/zcip.c, one process per host.                 *)
(*                                                                         *)
(* Addresses are 1..NumAddrs, 0 is 0.0.0.0.  Of an ARP packet zcip looks   *)
(* only at what it says about one address: "probe" asks for it, from       *)
(* 0.0.0.0; "claim" has it as its source.  Time is counted in ticks of a   *)
(* second, a delay of s to t seconds lasts s to t ticks; a packet arrives, *)
(* or is lost, in the tick in which it is sent.                            *)
(***************************************************************************)
EXTENDS Integers, Sequences, FiniteSets

CONSTANTS
  Hosts, NumAddrs,
  Ask,         \* option -r: a subset of the addresses, and 0 for none
  Quit,        \* whether option -q is given: a subset of BOOLEAN
  PROBE_WAIT, PROBE_MIN, PROBE_MAX, PROBE_NUM,
  ANNOUNCE_INTERVAL, ANNOUNCE_NUM, CONFLICT_MULTIPLIER, DEFEND_INTERVAL,
  ScriptTime,  \* the ticks that the config script may need
  MaxConflicts,    \* bound: conflicts is not counted further
  Events,      \* which of AllEvents happen
  MaxEvents,   \* bound: how many of them
  MaxLoss      \* bound: packets lost, in a run without events

Addrs == 1..NumAddrs
AllEvents == {"cut", "linkdown"}

ASSUME ZcipAssumption ==
  /\ NumAddrs \in Nat \ {0} /\ Ask \subseteq 0..NumAddrs /\ Ask # {}
  /\ Quit \in (SUBSET BOOLEAN) \ {{}}
  /\ {PROBE_WAIT, PROBE_MIN, PROBE_MAX, PROBE_NUM, ANNOUNCE_INTERVAL, ANNOUNCE_NUM,
      CONFLICT_MULTIPLIER, DEFEND_INTERVAL, ScriptTime, MaxConflicts, MaxLoss,
      MaxEvents} \subseteq Nat
  /\ PROBE_MIN <= PROBE_MAX
  /\ Events \subseteq AllEvents

VARIABLES
  state,       \* PROBE, ANNOUNCE, MONITOR, DEFEND; "config" while that script
               \* runs, "gone" when there is no zcip
  chosen,      \* chosen_nip
  nsent, conflicts,
  left,        \* the ticks until poll times out, Never if timeout_ms is -1
  conf,        \* the address on the interface, or 0
  sock,        \* the packets that the socket holds
  cut,         \* the link is split: every host hears only itself
  lost, events,    \* packets lost, events that happened
  excused      \* history: the link has been split

procVars == <<state, chosen, nsent, conflicts, left>>
linkVars == <<cut, excused, events>>
vars == <<procVars, conf, sock, lost, linkVars>>

Never == -1
States == {"PROBE", "ANNOUNCE", "config", "MONITOR", "DEFEND", "gone"}
Packets == [kind : {"probe", "claim"}, nip : Addrs]

Happens(e) == e \in Events /\ lost = 0 /\ events < MaxEvents /\ events' = events + 1

-----------------------------------------------------------------------------
(* External: the link and the kernels on it.  A kernel answers a probe for *)
(* the address of its interface.                                           *)

Listens(h) == state[h] # "gone"

send_arp_request(h, kind, a) ==
  LET p == [kind |-> kind, nip |-> a]
      answered == kind = "probe" /\ \E k \in Hosts \ {h} : conf[k] = a
  IN  sock' = IF cut THEN sock
              ELSE [k \in Hosts |->
                      IF k = h
                      THEN IF answered /\ Listens(h)
                           THEN Append(sock[k], [kind |-> "claim", nip |-> a]) ELSE sock[k]
                      ELSE IF Listens(k) THEN Append(sock[k], p) ELSE sock[k]]

-----------------------------------------------------------------------------
(* poll times out.                                                         *)

TimedOut(h, s) == state[h] = s /\ left[h] = 0

(* State, packets sent and timeout of h; the address stays.                *)
Wait(h, s, n, t) ==
  /\ state' = [state EXCEPT ![h] = s]
  /\ nsent' = [nsent EXCEPT ![h] = n]
  /\ left' = [left EXCEPT ![h] = t]
  /\ UNCHANGED <<chosen, conflicts>>

Probe(h) ==
  /\ TimedOut(h, "PROBE") /\ nsent[h] < PROBE_NUM
  /\ \E t \in PROBE_MIN..PROBE_MAX : Wait(h, "PROBE", nsent[h] + 1, t)
  /\ send_arp_request(h, "probe", chosen[h])
  /\ UNCHANGED <<conf, lost, linkVars>>

(* Mutant: the announcements are not counted.                              *)
BugAnnounce(h) ==
  /\ \/ TimedOut(h, "PROBE") /\ nsent[h] >= PROBE_NUM
     \/ TimedOut(h, "ANNOUNCE")
  /\ Wait(h, "ANNOUNCE", 1, ANNOUNCE_INTERVAL)
  /\ send_arp_request(h, "claim", chosen[h])
  /\ UNCHANGED <<conf, lost, linkVars>>

Announce(h) ==
  /\ \/ /\ TimedOut(h, "PROBE") /\ nsent[h] >= PROBE_NUM
        /\ Wait(h, "ANNOUNCE", 1, ANNOUNCE_INTERVAL)
     \/ /\ TimedOut(h, "ANNOUNCE") /\ nsent[h] < ANNOUNCE_NUM
        /\ Wait(h, "ANNOUNCE", nsent[h] + 1, ANNOUNCE_INTERVAL)
  /\ send_arp_request(h, "claim", chosen[h])
  /\ UNCHANGED <<conf, lost, linkVars>>

(* run(argv, "config", chosen_nip); zcip does nothing until it is done.    *)
RunConfig(h) ==
  /\ TimedOut(h, "ANNOUNCE") /\ nsent[h] >= ANNOUNCE_NUM
  /\ Wait(h, "config", nsent[h], ScriptTime)
  /\ UNCHANGED <<conf, sock, lost, linkVars>>

Configured(h) ==
  /\ state[h] = "config"
  /\ conf' = [conf EXCEPT ![h] = chosen[h]]
  /\ \/ /\ FALSE \in Quit
        /\ Wait(h, "MONITOR", nsent[h], Never)
        /\ UNCHANGED sock
     \/ /\ TRUE \in Quit
        /\ Wait(h, "gone", 0, Never)
        /\ sock' = [sock EXCEPT ![h] = << >>]
  /\ UNCHANGED <<lost, linkVars>>

DefendOver(h) ==
  /\ TimedOut(h, "DEFEND")
  /\ Wait(h, "MONITOR", nsent[h], Never)
  /\ UNCHANGED <<conf, sock, lost, linkVars>>

-----------------------------------------------------------------------------
(* A packet.                                                               *)

Reads(h) == state[h] \notin {"config", "gone"} /\ sock[h] # << >>
Consume(h) == sock' = [sock EXCEPT ![h] = Tail(@)]

SrcConflict(h) == Head(sock[h]) = [kind |-> "claim", nip |-> chosen[h]]
TargetConflict(h) == Head(sock[h]) = [kind |-> "probe", nip |-> chosen[h]]
Conflict(h) == SrcConflict(h) \/ TargetConflict(h)

(* new_nip_and_PROBE, with the timeout left and c conflicts.               *)
NewNip(h, c, t) ==
  /\ \E a \in Addrs : chosen' = [chosen EXCEPT ![h] = a]
  /\ state' = [state EXCEPT ![h] = "PROBE"]
  /\ nsent' = [nsent EXCEPT ![h] = 0]
  /\ conflicts' = [conflicts EXCEPT ![h] = c]
  /\ left' = [left EXCEPT ![h] = t]

Ignore(h) ==
  /\ Reads(h)
  /\ \/ ~ Conflict(h)
     \/ state[h] \in {"MONITOR", "DEFEND"} /\ ~ SrcConflict(h)
  /\ Consume(h)
  /\ UNCHANGED <<procVars, conf, lost, linkVars>>

(* Mutant: only a host that probes heeds a conflict.                       *)
BugTryAnother(h) ==
  /\ Reads(h) /\ state[h] \in {"PROBE", "ANNOUNCE"} /\ Conflict(h)
  /\ \/ state[h] = "PROBE" /\ NewNip(h, 1, PROBE_MIN)
     \/ state[h] = "ANNOUNCE" /\ UNCHANGED procVars
  /\ Consume(h)
  /\ UNCHANGED <<conf, lost, linkVars>>

TryAnother(h) ==
  /\ Reads(h) /\ state[h] \in {"PROBE", "ANNOUNCE"} /\ Conflict(h)
  /\ LET c == IF conflicts[h] < MaxConflicts THEN conflicts[h] + 1 ELSE MaxConflicts
     IN  \E t \in PROBE_MIN..PROBE_MIN + CONFLICT_MULTIPLIER * c : NewNip(h, c, t)
  /\ Consume(h)
  /\ UNCHANGED <<conf, lost, linkVars>>

(* Mutant: the state stays MONITOR.                                        *)
BugDefend(h) ==
  /\ Reads(h) /\ state[h] = "MONITOR" /\ SrcConflict(h)
  /\ LET p == [kind |-> "claim", nip |-> chosen[h]]
     IN  sock' = [k \in Hosts |-> IF k = h THEN Tail(sock[k])
                                  ELSE IF Listens(k) /\ ~ cut THEN Append(sock[k], p)
                                  ELSE sock[k]]
  /\ UNCHANGED <<procVars, conf, lost, linkVars>>

Defend(h) ==
  /\ Reads(h) /\ state[h] = "MONITOR" /\ SrcConflict(h)
  /\ Wait(h, "DEFEND", nsent[h], DEFEND_INTERVAL)
  /\ LET p == [kind |-> "claim", nip |-> chosen[h]]
     IN  sock' = [k \in Hosts |-> IF k = h THEN Tail(sock[k])
                                  ELSE IF Listens(k) /\ ~ cut THEN Append(sock[k], p)
                                  ELSE sock[k]]
  /\ UNCHANGED <<conf, lost, linkVars>>

(* run(argv, "deconfig", chosen_nip), and a new address.                   *)
GiveUp(h) ==
  /\ Reads(h) /\ state[h] = "DEFEND" /\ SrcConflict(h)
  /\ conf' = [conf EXCEPT ![h] = 0]
  /\ \E t \in 0..PROBE_WAIT : NewNip(h, 0, t)
  /\ Consume(h)
  /\ UNCHANGED <<lost, linkVars>>

(* POLLERR: zcip removes the address, if it is configured, and exits.      *)
LinkDown(h) ==
  /\ state[h] \notin {"config", "gone"} /\ sock[h] = << >>
  /\ Happens("linkdown")
  /\ conf' = IF state[h] \in {"MONITOR", "DEFEND"} THEN [conf EXCEPT ![h] = 0] ELSE conf
  /\ Wait(h, "gone", 0, Never)
  /\ UNCHANGED <<sock, lost, cut, excused>>

Zcip(h) ==
  \/ Probe(h) \/ Announce(h) \/ RunConfig(h) \/ Configured(h) \/ DefendOver(h)
  \/ Ignore(h) \/ TryAnother(h) \/ Defend(h) \/ GiveUp(h)

(* zcip is started, with its first address.                                *)
Start(h) ==
  /\ state[h] = "gone" /\ conf[h] = 0
  /\ \E r \in Ask, a \in Addrs, t \in 0..PROBE_WAIT :
       /\ r # 0 => a = r
       /\ chosen' = [chosen EXCEPT ![h] = a]
       /\ state' = [state EXCEPT ![h] = "PROBE"]
       /\ left' = [left EXCEPT ![h] = t]
  /\ nsent' = [nsent EXCEPT ![h] = 0]
  /\ conflicts' = [conflicts EXCEPT ![h] = 0]
  /\ UNCHANGED <<conf, sock, lost, linkVars>>

-----------------------------------------------------------------------------
(* External: traffic, loss, a split link, time.                            *)

Quiet == \A h \in Hosts : sock[h] = << >>

(* The kernel asks for some other address, and tells its own.  There is    *)
(* not so much traffic that poll never times out.                          *)
Traffic(h) ==
  /\ conf[h] # 0 /\ Quiet /\ \A k \in Hosts : left[k] # 0
  /\ send_arp_request(h, "claim", conf[h])
  /\ UNCHANGED <<procVars, conf, lost, linkVars>>

Lose(h) ==
  /\ sock[h] # << >> /\ lost < MaxLoss /\ events = 0
  /\ lost' = lost + 1
  /\ Consume(h)
  /\ UNCHANGED <<procVars, conf, linkVars>>

Split ==
  /\ ~ cut /\ Happens("cut")
  /\ cut' = TRUE /\ excused' = TRUE
  /\ UNCHANGED <<procVars, conf, sock, lost>>

Join ==
  /\ cut /\ cut' = FALSE
  /\ UNCHANGED <<procVars, conf, sock, lost, excused, events>>

Tick ==
  /\ \A h \in Hosts : left[h] # 0 /\ (state[h] # "config" => sock[h] = << >>)
  /\ \E h \in Hosts : left[h] > 0
  /\ left' = [h \in Hosts |-> IF left[h] > 0 THEN left[h] - 1 ELSE left[h]]
  /\ UNCHANGED <<state, chosen, nsent, conflicts, conf, sock, lost, linkVars>>

Init ==
  /\ state = [h \in Hosts |-> "gone"]
  /\ chosen = [h \in Hosts |-> 0]
  /\ nsent = [h \in Hosts |-> 0]
  /\ conflicts = [h \in Hosts |-> 0]
  /\ left = [h \in Hosts |-> Never]
  /\ conf = [h \in Hosts |-> 0]
  /\ sock = [h \in Hosts |-> << >>]
  /\ cut = FALSE /\ lost = 0 /\ events = 0 /\ excused = FALSE

Next ==
  \/ \E h \in Hosts : Zcip(h) \/ Start(h) \/ LinkDown(h) \/ Traffic(h) \/ Lose(h)
  \/ Split \/ Join \/ Tick

(* Processes are scheduled, time passes, a split link is repaired, and a   *)
(* host that has an address uses it.                                       *)
Spec ==
  /\ Init /\ [][Next]_vars
  /\ \A h \in Hosts : WF_vars(Zcip(h)) /\ WF_vars(Start(h)) /\ SF_vars(Traffic(h))
  /\ WF_vars(Join) /\ SF_vars(Tick)

-----------------------------------------------------------------------------
(* Properties.                                                             *)

(* Types; never more packets of a kind are counted than PROBE_NUM or       *)
(* ANNOUNCE_NUM allow.                                                     *)
TypeOK ==
  /\ state \in [Hosts -> States] /\ chosen \in [Hosts -> 0..NumAddrs]
  /\ nsent \in [Hosts -> 0..(IF PROBE_NUM >= ANNOUNCE_NUM THEN PROBE_NUM ELSE ANNOUNCE_NUM)]
  /\ conflicts \in [Hosts -> 0..MaxConflicts]
  /\ left \in [Hosts -> Nat \cup {Never}]
  /\ conf \in [Hosts -> 0..NumAddrs]
  /\ sock \in [Hosts -> Seq(Packets)]
  /\ {cut, excused} \subseteq BOOLEAN
  /\ lost \in 0..MaxLoss /\ events \in 0..MaxEvents

Shared(g, h) == g # h /\ conf[g] # 0 /\ conf[g] = conf[h]

(* As long as the link is in one piece, and no more than three packets are *)
(* lost, no two hosts have the same address on their interfaces, however   *)
(* their probes, announcements and scripts overlap.  Where a zcip has left *)
(* with option -q, its address is not defended against announcements, and  *)
(* a single lost packet is too many.                                       *)
Tolerated(g, h) == lost <= IF "gone" \in {state[g], state[h]} THEN 0 ELSE 3
NoDuplicate == ~ excused => \A g, h \in Hosts : Tolerated(g, h) => ~ Shared(g, h)

(* When a split link has given two hosts the same address, one of them     *)
(* gives it up once they can hear each other, if neither has left it alone *)
(* with option -q.                                                         *)
Clash == \E g, h \in Hosts : Shared(g, h) /\ "gone" \notin {state[g], state[h]}
ConflictEnds == Clash ~> ~ Clash

(* A host that probes gets its address, or else there is a rival for it.   *)
GetsAddress ==
  \A h \in Hosts :
    state[h] = "PROBE" ~> (conf[h] # 0 \/ \E g \in Hosts \ {h} : chosen[g] = chosen[h])
=============================================================================
