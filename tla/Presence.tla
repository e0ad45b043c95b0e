------------------------------- MODULE Presence -------------------------------
(***************************************************************************)
(* Who is on line: the multicast heartbeat of every daemon                 *)
(* (native/core/discovery/lan_heartbeat.cc), the timer that prunes silent  *)
(* peers and watches the network interfaces (Daemon::PruneStalePeers), and *)
(* the events of the relay, which feed the same PeerRegistry.              *)
(*                                                                         *)
(* Time passes in units of the heartbeat period (5 s).  A timer fires in   *)
(* the unit in which it is due; the order of what happens within a unit is *)
(* free, which also covers the drift of one daemon's timers against those  *)
(* of another.  An age is the number of units since a record was refreshed.*)
(***************************************************************************)
EXTENDS Integers, FiniteSets

CONSTANTS
  Device,      \* the daemons
  Segment,     \* [Device -> network segment]: multicast stays within one
  Timeout,     \* kPeerTimeout in units; the prune timer has the same period
  MaxLosses,   \* bound on presence datagrams lost
  MaxChanges,  \* bound on changes of network interfaces
  MaxDrops,    \* bound on registrations the relay loses while a daemon runs
  MaxCrashes   \* bound on crashes

ASSUME PresenceAssumption ==
  /\ IsFiniteSet(Device)
  /\ Timeout \in Nat \ {0}
  /\ {MaxLosses, MaxChanges, MaxDrops, MaxCrashes} \subseteq Nat

VARIABLES
  up,        \* the daemon runs
  tick,      \* LanHeartbeat::Tick: "due", "later" or "cancelled"
  pruneIn,   \* units until PruneStalePeers fires
  changed,   \* the interfaces differ from locals_
  age,       \* age[a][b]: age of b's record in peers_ of a, Gone if none
  via,       \* via[a][b]: PeerRecord.via
  reg,       \* the relay has b registered
  told,      \* told[a]: the peers whose peer_online a got last
  losses, changes, drops, crashes

counters == <<losses, changes, drops, crashes>>
relay == <<reg, told>>
vars == <<up, tick, pruneIn, changed, age, via, relay, counters>>

Gone == -1

Init ==
  /\ up = [d \in Device |-> TRUE]
  /\ tick = [d \in Device |-> "later"]
  /\ pruneIn = [d \in Device |-> Timeout]
  /\ changed = [d \in Device |-> FALSE]
  /\ age = [a \in Device |-> [b \in Device |-> Gone]]
  /\ via = [a \in Device |-> [b \in Device |-> "lan"]]
  /\ reg = [d \in Device |-> FALSE]
  /\ told = [d \in Device |-> {}]
  /\ losses = 0 /\ changes = 0 /\ drops = 0 /\ crashes = 0

------------------------------------------------------------------------------
(* Mutant: a daemon hears only peers of its registry. *)
ListenersThatKnow(b) ==
  {a \in Device \ {b} : up[a] /\ Segment[a] = Segment[b] /\ age[a][b] # Gone}

(* Who can hear the presence of b. *)
Listeners(b) ==
  {a \in Device \ {b} : up[a] /\ Segment[a] = Segment[b]}

(***************************************************************************)
(* Announce at b: OnLanPeer upserts b at the daemons R that receive it.  A *)
(* missing one is a loss, unless b still has the sockets of an interface   *)
(* that is gone.                                                           *)
(***************************************************************************)
AnnounceTo(b, R, reachable, table) ==
  LET missed == Cardinality(Listeners(b) \ R)
  IN  /\ losses' = losses + (IF reachable THEN missed ELSE 0)
      /\ losses' <= MaxLosses
      /\ age' = [a \in Device |-> IF a \in R THEN [table[a] EXCEPT ![b] = 0]
                                  ELSE table[a]]
      /\ via' = [a \in Device |-> IF a \in R THEN [via[a] EXCEPT ![b] = "lan"]
                                  ELSE via[a]]

(* LanHeartbeat::Tick announces and posts the next tick. *)
Tick(b) ==
  /\ up[b] /\ tick[b] = "due"
  /\ tick' = [tick EXCEPT ![b] = "later"]
  /\ \E R \in SUBSET Listeners(b) : AnnounceTo(b, R, ~changed[b], age)
  /\ UNCHANGED <<up, pruneIn, changed, relay, changes, drops, crashes>>

(* scan_start and set_profile of the WebUI announce out of turn. *)
Scan(b) ==
  /\ up[b]
  /\ \E R \in SUBSET Listeners(b) : AnnounceTo(b, R, ~changed[b], age)
  /\ UNCHANGED <<up, tick, pruneIn, changed, relay, changes, drops, crashes>>

(* Mutant: the comparison is the wrong way round for a record just in time.*)
PruneStaleEarly(ages, kept) ==
  [b \in Device |-> IF ages[b] >= Timeout - 1 THEN Gone ELSE ages[b]]

(* Mutant: a record that is too old is renewed instead of erased. *)
PruneStaleRenews(ages, kept) ==
  [b \in Device |-> IF ages[b] >= Timeout THEN 0 ELSE ages[b]]

(***************************************************************************)
(* PruneStale on one registry.  Ages are compared in milliseconds, and a   *)
(* timer never fires early: a record of exactly Timeout units may be just  *)
(* too old.                                                                *)
(***************************************************************************)
PruneStale(ages, kept) ==
  LET stale == {b \in Device : \/ ages[b] > Timeout
                               \/ ages[b] = Timeout /\ b \notin kept}
  IN  [b \in Device |-> IF b \in stale THEN Gone ELSE ages[b]]

(* Mutant: nothing is pruned. *)
PruneStalePeersKeeps(a) ==
  /\ up[a] /\ pruneIn[a] = 0
  /\ pruneIn' = [pruneIn EXCEPT ![a] = Timeout]
  /\ UNCHANGED <<up, tick, changed, age, via, relay, counters>>

(***************************************************************************)
(* PruneStalePeers: RefreshLocalIfaces, prune, post the next run.  After a *)
(* change of interfaces BindSockets invalidates the weak pointers of the   *)
(* heartbeat, those of the posted Tick with them, and announces.           *)
(***************************************************************************)
PruneStalePeers(a) ==
  /\ up[a] /\ pruneIn[a] = 0
  /\ pruneIn' = [pruneIn EXCEPT ![a] = Timeout]
  /\ changed' = [changed EXCEPT ![a] = FALSE]
  /\ tick' = IF changed[a] THEN [tick EXCEPT ![a] = "cancelled"] ELSE tick
  /\ \E kept \in SUBSET Device :
        LET table == [age EXCEPT ![a] = PruneStale(@, kept)]
        IN  IF changed[a]
            THEN \E R \in SUBSET Listeners(a) : AnnounceTo(a, R, TRUE, table)
            ELSE age' = table /\ UNCHANGED <<via, losses>>
  /\ UNCHANGED <<up, relay, changes, drops, crashes>>

(* A cable, a wireless network or a VPN comes or goes. *)
InterfacesChange(a) ==
  /\ up[a] /\ ~changed[a]
  /\ changes < MaxChanges /\ changes' = changes + 1
  /\ changed' = [changed EXCEPT ![a] = TRUE]
  /\ UNCHANGED <<up, tick, pruneIn, age, via, relay, losses, drops, crashes>>

------------------------------------------------------------------------------
(* The relay: what a daemon is told of the registrations (see Relay). *)

RelayRegisters(b) ==
  /\ up[b] /\ ~reg[b]
  /\ reg' = [reg EXCEPT ![b] = TRUE]
  /\ UNCHANGED <<up, tick, pruneIn, changed, age, via, told, counters>>

(* The registration ends with the daemon, or the relay loses it. *)
RelayUnregisters(b) ==
  /\ reg[b]
  /\ IF up[b] THEN drops < MaxDrops /\ drops' = drops + 1 ELSE UNCHANGED drops
  /\ reg' = [reg EXCEPT ![b] = FALSE]
  /\ UNCHANGED <<up, tick, pruneIn, changed, age, via, told, losses, changes,
                 crashes>>

(* OnRelayEvent with peer_online: upserted like a peer heard on the LAN. *)
RelayPeerOnline(a, b) ==
  /\ up[a] /\ reg[b] /\ a # b /\ b \notin told[a]
  /\ told' = [told EXCEPT ![a] = @ \cup {b}]
  /\ age' = [age EXCEPT ![a][b] = 0]
  /\ via' = [via EXCEPT ![a][b] = "relay"]
  /\ UNCHANGED <<up, tick, pruneIn, changed, reg, counters>>

(* OnRelayEvent with peer_offline: removed, whoever told of it. *)
RelayPeerOffline(a, b) ==
  /\ up[a] /\ ~reg[b] /\ b \in told[a]
  /\ told' = [told EXCEPT ![a] = @ \ {b}]
  /\ age' = [age EXCEPT ![a][b] = Gone]
  /\ UNCHANGED <<up, tick, pruneIn, changed, via, reg, counters>>

(* OnHubMessage: a frame from a peer refreshes its record, too. *)
FrameArrives(a, b) ==
  /\ up[a] /\ up[b] /\ a # b
  /\ age' = [age EXCEPT ![a][b] = 0]
  /\ via' = [via EXCEPT ![a][b] = "lan"]
  /\ UNCHANGED <<up, tick, pruneIn, changed, relay, counters>>

------------------------------------------------------------------------------
(* Processes and time. *)

Crash(a) ==
  /\ up[a] /\ crashes < MaxCrashes /\ crashes' = crashes + 1
  /\ up' = [up EXCEPT ![a] = FALSE]
  /\ age' = [age EXCEPT ![a] = [b \in Device |-> Gone]]
  /\ told' = [told EXCEPT ![a] = {}]
  /\ tick' = [tick EXCEPT ![a] = "cancelled"]
  /\ changed' = [changed EXCEPT ![a] = FALSE]
  /\ UNCHANGED <<pruneIn, via, reg, losses, changes, drops>>

(* StartOnIo: LanHeartbeat::Start announces and posts the tick. *)
StartOnIo(a) ==
  /\ ~up[a]
  /\ up' = [up EXCEPT ![a] = TRUE]
  /\ tick' = [tick EXCEPT ![a] = "later"]
  /\ pruneIn' = [pruneIn EXCEPT ![a] = Timeout]
  /\ \E R \in SUBSET Listeners(a) : AnnounceTo(a, R, TRUE, age)
  /\ UNCHANGED <<changed, relay, changes, drops, crashes>>

(* A unit of time passes once every timer that is due has fired. *)
Elapse ==
  /\ \A a \in Device : up[a] => tick[a] # "due" /\ pruneIn[a] > 0
  /\ tick' = [a \in Device |-> IF tick[a] = "later" THEN "due" ELSE tick[a]]
  /\ pruneIn' = [a \in Device |-> IF up[a] THEN pruneIn[a] - 1 ELSE pruneIn[a]]
  /\ age' = [a \in Device |-> [b \in Device |->
               IF age[a][b] = Gone THEN Gone ELSE age[a][b] + 1]]
  /\ UNCHANGED <<up, changed, via, relay, counters>>

Timers == \E a \in Device : Tick(a) \/ PruneStalePeers(a)

Outside ==
  \E a \in Device :
     Scan(a) \/ InterfacesChange(a) \/ Crash(a) \/ StartOnIo(a)

RelayEvents ==
  \/ \E b \in Device : RelayRegisters(b) \/ RelayUnregisters(b)
  \/ \E a, b \in Device : RelayPeerOnline(a, b) \/ RelayPeerOffline(a, b)

Frames == \E a, b \in Device : FrameArrives(a, b)

Next == Timers \/ Outside \/ RelayEvents \/ Frames \/ Elapse

Spec == Init /\ [][Next]_vars

(* Time passes, timers fire, and the relay tells what it knows. *)
Fairness ==
  /\ WF_vars(Elapse)
  /\ \A a \in Device : /\ WF_vars(Tick(a))
                       /\ WF_vars(PruneStalePeers(a))
                       /\ WF_vars(~up[a] /\ RelayUnregisters(a))
                       /\ \A b \in Device : WF_vars(RelayPeerOffline(a, b))

FairSpec == Spec /\ Fairness

------------------------------------------------------------------------------
(* Properties. *)

(* Timers and records hold what their types say. *)
TypeOK ==
  /\ up \in [Device -> BOOLEAN]
  /\ tick \in [Device -> {"due", "later", "cancelled"}]
  /\ pruneIn \in [Device -> 0..Timeout]
  /\ changed \in [Device -> BOOLEAN]
  /\ age \in [Device -> [Device -> Nat \cup {Gone}]]
  /\ via \in [Device -> [Device -> {"lan", "relay"}]]
  /\ reg \in [Device -> BOOLEAN]
  /\ told \in [Device -> SUBSET Device]
  /\ losses \in 0..MaxLosses
  /\ changes \in 0..MaxChanges
  /\ drops \in 0..MaxDrops
  /\ crashes \in 0..MaxCrashes

(* However timers, losses and interface changes interleave, no record is   *)
(* older than two timeouts (PruneStalePeers removes what is too old and    *)
(* runs again after one timeout): a roster shows a device that has gone    *)
(* for at most that long.                                                  *)
StaleBounded == \A a, b \in Device : age[a][b] + pruneIn[a] <= 2 * Timeout

Beating(b) == up[b] /\ tick[b] # "cancelled" /\ ~changed[b]

(* The timer of one daemon races the heartbeat of another: as long as at   *)
(* most one presence was lost and nobody crashed, pruning never costs a    *)
(* beating peer of the segment its record (5 s heartbeat, 15 s timeout).   *)
OneLossIsHarmless ==
  [][\A a, b \in Device :
       (/\ losses <= 1 /\ crashes = 0
        /\ PruneStalePeers(a) /\ Beating(b) /\ Segment[a] = Segment[b]
        /\ age[a][b] # Gone) => age'[a][b] # Gone]_vars

(* A daemon that has stopped for good leaves every roster, also when its   *)
(* last events come from the relay.                                        *)
GoneIsNoticed ==
  \A a, b \in Device : (<>[]~up[b]) => (<>[](age[a][b] = Gone))

(* Two daemons of a segment that go on beating find each other for good,   *)
(* whatever was lost before.                                               *)
FoundAgain ==
  \A a, b \in Device :
     (a # b /\ Segment[a] = Segment[b]) =>
        ((<>[](up[a] /\ Beating(b))) => (<>[](age[a][b] # Gone)))

(* docs/protocol.md 39: an endpoint multicasts its presence periodically   *)
(* (lan_heartbeat.cc 53: to stay on line and to detect who left).          *)
HeartbeatGoesOn == \A b \in Device : []<>(tick[b] = "due" \/ ~up[b])

(* peer_registry.h 1: LAN multicast and relay both flow into the index of  *)
(* the devices on line.  A device the relay says is on line is in it.      *)
RelayPeerIsListed ==
  \A a, b \in Device : (up[a] /\ reg[b] /\ b \in told[a]) => age[a][b] # Gone
=============================================================================
