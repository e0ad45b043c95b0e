-------------------------------- MODULE Relay --------------------------------
(***************************************************************************)
(* The relay of localim (native/core/discovery/relay_server.cc) and the    *)
(* relay clients of the daemons (relay_client.cc).  A daemon registers its *)
(* device and address table on a connection; the server keeps one slot per *)
(* connection and one route per device, replays who is online to a new     *)
(* registration and broadcasts peer_online and peer_offline to the others. *)
(*                                                                         *)
(* Server and clients run on IO threads of their own: a callback is one    *)
(* action.  A connection is two ordered queues.  The ends learn of its end *)
(* at different times: a daemon may be connected and registered again      *)
(* before the server has read the last frame of its previous connection.   *)
(* An address table is named by its version; 0 is no table.                *)
(***************************************************************************)
EXTENDS Naturals, Sequences, FiniteSetsExt, SequencesExt

CONSTANTS
  Device,       \* the daemons
  None,         \* no device
  MaxConns,     \* bound on connections opened
  MaxVersion,   \* bound on the versions of an address table
  MaxLosses,    \* bound on connections that break
  MaxRestarts   \* bound on restarts of a daemon or of the relay

ASSUME RelayAssumption ==
  /\ None \notin Device
  /\ MaxVersion \in Nat \ {0}
  /\ {MaxConns, MaxLosses, MaxRestarts} \subseteq Nat

VARIABLES
  \* the daemons
  version,   \* register_payload_: version of the address table
  cur,       \* socket_: the connection of the client, 0 if none
  shaken,    \* handshaken_: the 101 response has been stripped once
  stream,    \* where read_queue_ starts: "clean", "garbled" (inside a frame)
             \* or "realigned" (at a frame again, events having been lost)
  known,     \* known[d][e]: what relay events told d of e, 0 if off line
  \* the connections
  owner,     \* the device that opened it
  state,     \* "free", "handshake", "open" (it is in clients_) or "gone"
  regs,      \* register frames the server has not read
  out,       \* what the client has not read
  dev,       \* Client.device_id, None if it is empty
  ver,       \* Client.addrs
  \* the server
  routes,    \* routes_: the connection of a device, 0 if none
  losses, restarts

clientVars == <<version, cur, shaken, stream, known>>
serverVars == <<state, regs, out, dev, ver, routes>>
vars == <<clientVars, serverVars, owner, losses, restarts>>

Conn == 1..MaxConns
Welcome == [op |-> "welcome", peer |-> None, ver |-> 0]   \* the 101 response
Online(d, v) == [op |-> "peer_online", peer |-> d, ver |-> v]
Offline(d) == [op |-> "peer_offline", peer |-> d, ver |-> 0]

Init ==
  /\ version = [d \in Device |-> 1]
  /\ cur = [d \in Device |-> 0]
  /\ shaken = [d \in Device |-> FALSE]
  /\ stream = [d \in Device |-> "clean"]
  /\ known = [d \in Device |-> [e \in Device |-> 0]]
  /\ owner = [c \in Conn |-> None]
  /\ state = [c \in Conn |-> "free"]
  /\ regs = [c \in Conn |-> <<>>]
  /\ out = [c \in Conn |-> <<>>]
  /\ dev = [c \in Conn |-> None]
  /\ ver = [c \in Conn |-> 0]
  /\ routes = [d \in Device |-> 0]
  /\ losses = 0
  /\ restarts = 0

------------------------------------------------------------------------------
(* RelayClient. *)

(* Connect and OnConnected: the handshake and a register frame are written. *)
OnConnected(d, c) ==
  /\ cur[d] = 0 /\ state[c] = "free"
  /\ \A k \in Conn : k < c => state[k] # "free"
  /\ cur' = [cur EXCEPT ![d] = c]
  /\ owner' = [owner EXCEPT ![c] = d]
  /\ state' = [state EXCEPT ![c] = "handshake"]
  /\ regs' = [regs EXCEPT ![c] = <<version[d]>>]
  /\ UNCHANGED <<version, shaken, stream, known, out, dev, ver, routes,
                 losses, restarts>>

(* RefreshLocalIfaces then SetRegisterPayload. *)
SetRegisterPayload(d) ==
  LET v == version[d] + 1
  IN  /\ v <= MaxVersion
      /\ version' = [version EXCEPT ![d] = v]
      /\ regs' = IF cur[d] # 0 /\ shaken[d]
                 THEN [regs EXCEPT ![cur[d]] = Append(@, v)] ELSE regs
      /\ UNCHANGED <<cur, shaken, stream, known, owner, state, out, dev, ver,
                     routes, losses, restarts>>

(* OnRelayEvent. *)
OnRelayEvent(d, ev) ==
  known' = [known EXCEPT ![d][ev.peer] =
              IF ev.op = "peer_online" THEN ev.ver ELSE 0]

(***************************************************************************)
(* OnRecv: the response is stripped by the first connection of the process *)
(* only; on a later one its bytes are taken for frame headers, and they    *)
(* and the lengths found in the text swallow events until, by chance, a    *)
(* frame starts where the parser looks for one.                            *)
(***************************************************************************)
OnRecv(d) ==
  LET c == cur[d]
      ev == Head(out[c])
  IN  /\ c # 0
      /\ out[c] # <<>>
      /\ out' = [out EXCEPT ![c] = Tail(@)]
      /\ \/ /\ ev = Welcome
            /\ shaken' = [shaken EXCEPT ![d] = TRUE]
            /\ stream' = IF shaken[d] THEN [stream EXCEPT ![d] = "garbled"]
                         ELSE stream
            /\ UNCHANGED known
         \/ /\ ev # Welcome /\ stream[d] # "garbled"
            /\ OnRelayEvent(d, ev)
            /\ UNCHANGED <<shaken, stream>>
         \/ /\ ev # Welcome /\ stream[d] = "garbled"
            /\ \E s \in {"garbled", "realigned"} :
                  stream' = [stream EXCEPT ![d] = s]
            /\ UNCHANGED <<shaken, known>>
      /\ UNCHANGED <<version, cur, owner, state, regs, dev, ver, routes,
                     losses, restarts>>

(* OnRecv with an error: the client will connect again, the server may     *)
(* still hold register frames of the old connection.                       *)
ConnectionLost(d) ==
  LET c == cur[d]
  IN  /\ c # 0
      /\ IF state[c] = "gone" THEN UNCHANGED losses
         ELSE losses < MaxLosses /\ losses' = losses + 1
      /\ cur' = [cur EXCEPT ![d] = 0]
      /\ out' = [out EXCEPT ![c] = <<>>]
      /\ UNCHANGED <<version, shaken, stream, known, owner, state, regs, dev,
                     ver, routes, restarts>>

(* The daemon stops and starts again. *)
RestartDaemon(d) ==
  /\ restarts < MaxRestarts /\ restarts' = restarts + 1
  /\ cur' = [cur EXCEPT ![d] = 0]
  /\ out' = [c \in Conn |-> IF c = cur[d] THEN <<>> ELSE out[c]]
  /\ shaken' = [shaken EXCEPT ![d] = FALSE]
  /\ stream' = [stream EXCEPT ![d] = "clean"]
  /\ known' = [known EXCEPT ![d] = [e \in Device |-> 0]]
  /\ UNCHANGED <<version, owner, state, regs, dev, ver, routes, losses>>

------------------------------------------------------------------------------
(* RelayServer. *)

(* Nobody reads what is written to a connection the client has left. *)
Send(o, c, evs) ==
  IF cur[owner[c]] = c THEN [o EXCEPT ![c] = @ \o evs] ELSE o

(* BroadcastExcept, given the device ids of the slots. *)
BroadcastExcept(o, c, ids, ev) ==
  [k \in Conn |->
     IF k # c /\ state[k] = "open" /\ ids[k] # None
     THEN Send(o, k, <<ev>>)[k] ELSE o[k]]

OnHandshakeWritten(c) ==
  /\ state[c] = "handshake"
  /\ state' = [state EXCEPT ![c] = "open"]
  /\ out' = Send(out, c, <<Welcome>>)
  /\ UNCHANGED <<clientVars, owner, regs, dev, ver, routes, losses, restarts>>

(* DropPending: the client left during the handshake. *)
DropPending(c) ==
  /\ state[c] = "handshake" /\ cur[owner[c]] # c
  /\ state' = [state EXCEPT ![c] = "gone"]
  /\ regs' = [regs EXCEPT ![c] = <<>>]
  /\ UNCHANGED <<clientVars, owner, out, dev, ver, routes, losses, restarts>>

(* Mutant: the old slot keeps its device id. *)
KeepOldSlot(c, d) == [dev EXCEPT ![c] = d]

(* Register gives the slot of the device's previous connection away. *)
DisplaceSlot(c, d) ==
  [k \in Conn |-> IF k = c THEN d
                  ELSE IF k = routes[d] THEN None ELSE dev[k]]

(* Mutant: only devices that have no address table yet are replayed. *)
OnlineOthersWithoutTable(c, d) ==
  {e \in Device \ {d} : routes[e] # 0 /\ ver[routes[e]] = 0}

(* The devices whose peer_online is replayed to a registration of d. *)
OnlineOthers(c, d) ==
  {e \in Device \ {d} : /\ routes[e] # 0
                        /\ DisplaceSlot(c, d)[routes[e]] # None}

(* OnClientMessage then Register, for the next register frame. *)
Register(c) ==
  LET d == owner[c]
      v == Head(regs[c])
      ids == DisplaceSlot(c, d)
      others == SetToSeq(OnlineOthers(c, d))
      replay == [i \in 1..Len(others) |->
                   Online(others[i], ver[routes[others[i]]])]
  IN  /\ state[c] = "open" /\ regs[c] # <<>>
      /\ regs' = [regs EXCEPT ![c] = Tail(@)]
      /\ dev' = ids
      /\ ver' = [ver EXCEPT ![c] = v]
      /\ routes' = [routes EXCEPT ![d] = c]
      /\ out' = BroadcastExcept(Send(out, c, replay), c, ids, Online(d, v))
      /\ UNCHANGED <<clientVars, owner, state, losses, restarts>>

(* Mutant: the others are not told. *)
OnClientClosedSilently(c) ==
  LET d == dev[c]
  IN  /\ state[c] = "open" /\ cur[owner[c]] # c
      /\ state' = [state EXCEPT ![c] = "gone"]
      /\ regs' = [regs EXCEPT ![c] = <<>>]
      /\ dev' = [dev EXCEPT ![c] = None]
      /\ routes' = [e \in Device |-> IF e = d /\ routes[e] = c THEN 0
                                     ELSE routes[e]]
      /\ UNCHANGED <<clientVars, owner, out, ver, losses, restarts>>

(* OnClientClosed: the device is off line if this slot still was its route. *)
OnClientClosed(c) ==
  LET d == dev[c]
  IN  /\ state[c] = "open" /\ cur[owner[c]] # c
      /\ state' = [state EXCEPT ![c] = "gone"]
      /\ regs' = [regs EXCEPT ![c] = <<>>]
      /\ dev' = [dev EXCEPT ![c] = None]
      /\ IF d # None /\ routes[d] = c
         THEN /\ routes' = [routes EXCEPT ![d] = 0]
              /\ out' = BroadcastExcept(out, c, dev, Offline(d))
         ELSE UNCHANGED <<routes, out>>
      /\ UNCHANGED <<clientVars, owner, ver, losses, restarts>>

(* Stop, and a new relay process. *)
RestartRelay ==
  /\ restarts < MaxRestarts /\ restarts' = restarts + 1
  /\ state' = [c \in Conn |-> IF state[c] = "free" THEN "free" ELSE "gone"]
  /\ regs' = [c \in Conn |-> <<>>]
  /\ out' = [c \in Conn |-> <<>>]
  /\ dev' = [c \in Conn |-> None]
  /\ routes' = [d \in Device |-> 0]
  /\ UNCHANGED <<clientVars, owner, ver, losses>>

ClientStep ==
  \E d \in Device :
     \/ \E c \in Conn : OnConnected(d, c)
     \/ SetRegisterPayload(d)
     \/ OnRecv(d)
     \/ ConnectionLost(d)
     \/ RestartDaemon(d)

ServerStep ==
  \/ \E c \in Conn :
        \/ OnHandshakeWritten(c)
        \/ DropPending(c)
        \/ Register(c)
        \/ OnClientClosed(c)
  \/ RestartRelay

Next == ClientStep \/ ServerStep

Spec == Init /\ [][Next]_vars

------------------------------------------------------------------------------
(* Properties. *)

Event == [op : {"welcome", "peer_online", "peer_offline"},
          peer : Device \cup {None}, ver : 0..MaxVersion]

(* The tables of the server and of the clients hold what their types say.  *)
TypeOK ==
  /\ version \in [Device -> 0..MaxVersion]
  /\ cur \in [Device -> {0} \cup Conn]
  /\ shaken \in [Device -> BOOLEAN]
  /\ stream \in [Device -> {"clean", "garbled", "realigned"}]
  /\ known \in [Device -> [Device -> 0..MaxVersion]]
  /\ owner \in [Conn -> Device \cup {None}]
  /\ state \in [Conn -> {"free", "handshake", "open", "gone"}]
  /\ regs \in [Conn -> Seq(0..MaxVersion)]
  /\ out \in [Conn -> Seq(Event)]
  /\ dev \in [Conn -> Device \cup {None}]
  /\ ver \in [Conn -> 0..MaxVersion]
  /\ routes \in [Device -> {0} \cup Conn]
  /\ losses \in 0..MaxLosses
  /\ restarts \in 0..MaxRestarts

(* A route leads to the one open slot that holds its device id, however    *)
(* connections of one device overlap: Register displaces the old slot and  *)
(* OnClientClosed removes only its own route.                              *)
RoutesAgree ==
  \A d \in Device, c \in Conn :
     routes[d] = c <=> (dev[c] = d /\ state[c] = "open")

(* What makes RoutesAgree inductive: a slot only ever carries the id of    *)
(* the device that opened its connection (OnClientMessage registers the    *)
(* deviceId of the frame, which RelayClient takes from its own payload),   *)
(* and only slots in clients_ carry one.                                   *)
SlotInv ==
  /\ state \in [Conn -> {"free", "handshake", "open", "gone"}]
  /\ owner \in [Conn -> Device \cup {None}]
  /\ dev \in [Conn -> Device \cup {None}]
  /\ routes \in [Device -> {0} \cup Conn]
  /\ \A c \in Conn : state[c] # "free" => owner[c] \in Device
  /\ \A c \in Conn : dev[c] # None => dev[c] = owner[c] /\ state[c] = "open"
  /\ \A d \in Device, c \in Conn : routes[d] = c <=> dev[c] = d

(* What d will believe of e once it has read all that is on its way. *)
Believed(d, e) ==
  LET q == out[cur[d]]
      about == {i \in 1..Len(q) : q[i].peer = e}
  IN  IF about = {} THEN known[d][e] ELSE q[Max(about)].ver

Served(d) == cur[d] # 0 /\ dev[cur[d]] = d

(* Every event on its way to d will be parsed. *)
Aligned(d) ==
  /\ stream[d] = "clean"
  /\ \A i \in 1..Len(out[cur[d]]) : out[cur[d]][i] = Welcome => ~shaken[d]

Registered(e) == IF routes[e] = 0 THEN 0 ELSE ver[routes[e]]

(* A registered daemon whose stream is aligned learns of every registered  *)
(* device the addresses of its last registration, from the replay or from  *)
(* a broadcast, in whatever order the registrations, disconnections and    *)
(* displaced slots of the others happen (Register, BroadcastExcept).       *)
RosterComplete ==
  \A d \in Device : (Served(d) /\ Aligned(d)) =>
     \A e \in Device \ {d} :
        routes[e] # 0 => Believed(d, e) = Registered(e)

(* On the only connection of a daemon the events also take away every      *)
(* device whose route is gone (OnClientClosed), and none is about itself.  *)
RosterExact ==
  \A d \in Device :
     (/\ Served(d) /\ Aligned(d)
      /\ \A k \in Conn : owner[k] = d => k = cur[d]) =>
        \A e \in Device :
           Believed(d, e) = IF e = d THEN 0 ELSE Registered(e)

(* relay_server.cc 250: a reconnection or a repeated registration makes    *)
(* the old slot give way, so that the end of the old connection does not   *)
(* wrongly report the device off line.                                     *)
NoFalseOffline ==
  [][\A d \in Device :
       (routes[d] # 0 /\ routes'[d] = 0 /\ restarts' = restarts) =>
         ~ (cur[d] # 0 /\ state[cur[d]] = "open" /\ regs[cur[d]] = <<>>)]_vars

(* relay_client.cc 180-181: the 101 response is stripped first, so that    *)
(* its bytes are not taken for a frame and do not spoil the next ones.     *)
ResponseIsStripped == \A d \in Device : stream[d] = "clean"
=============================================================================
