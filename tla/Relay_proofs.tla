----------------------------- MODULE Relay_proofs -----------------------------
(***************************************************************************)
(* For any devices and any number of connections, losses and restarts: a   *)
(* route of the relay leads to the one open slot that carries its device,  *)
(* and the daemons learn from the relay who is on line.                    *)
(***************************************************************************)
EXTENDS Relay, FiniteSetTheorems, TLAPS

LEMMA ConnNat == Conn \subseteq Nat /\ 0 \notin Conn
  BY RelayAssumption DEF Conn

(* Every step but those named here leaves slots and routes alone.          *)
LEMMA SlotsUntouched ==
  ASSUME SlotInv, UNCHANGED <<state, owner, dev, routes>>
  PROVE  SlotInv'
  BY DEF SlotInv

LEMMA ConnectedStep ==
  ASSUME SlotInv, NEW d \in Device, NEW c \in Conn, OnConnected(d, c)
  PROVE  SlotInv'
<1>1. /\ owner' = [owner EXCEPT ![c] = d]
      /\ state' = [state EXCEPT ![c] = "handshake"]
      /\ UNCHANGED <<dev, routes>>
      /\ state[c] = "free"
  BY DEF OnConnected
<1>2. dev[c] = None
  BY <1>1 DEF SlotInv
<1> QED
  BY <1>1, <1>2, RelayAssumption DEF SlotInv

LEMMA HandshakeStep ==
  ASSUME SlotInv, NEW c \in Conn, OnHandshakeWritten(c) \/ DropPending(c)
  PROVE  SlotInv'
<1>1. /\ state[c] = "handshake"
      /\ \E s \in {"open", "gone"} : state' = [state EXCEPT ![c] = s]
      /\ UNCHANGED <<owner, dev, routes>>
  BY DEF OnHandshakeWritten, DropPending
<1>2. dev[c] = None
  BY <1>1 DEF SlotInv
<1> QED
  BY <1>1, <1>2 DEF SlotInv

(* The slot of the device's old route gives way, so the device has one.    *)
LEMMA RegisterStep ==
  ASSUME SlotInv, NEW c \in Conn, Register(c)
  PROVE  SlotInv'
<1> DEFINE d == owner[c]
<1>1. /\ state[c] = "open"
      /\ dev' = DisplaceSlot(c, d)
      /\ routes' = [routes EXCEPT ![d] = c]
      /\ UNCHANGED <<state, owner>>
  BY DEF Register
<1>2. d \in Device /\ d # None
  BY <1>1, RelayAssumption DEF SlotInv
<1>3. \A k \in Conn : dev'[k] = IF k = c THEN d
                                ELSE IF k = routes[d] THEN None ELSE dev[k]
  BY <1>1 DEF DisplaceSlot
<1>4. dev' \in [Conn -> Device \cup {None}]
  BY <1>1, <1>2 DEF DisplaceSlot, SlotInv
<1>5. routes' \in [Device -> {0} \cup Conn]
  BY <1>1, <1>2 DEF SlotInv
<1>6. \A k \in Conn : dev'[k] # None => dev'[k] = owner[k] /\ state[k] = "open"
  BY <1>1, <1>3 DEF SlotInv
<1>7. ASSUME NEW e \in Device, NEW k \in Conn
      PROVE  routes'[e] = k <=> dev'[k] = e
  <2>1. CASE e = d
    <3>1. routes'[e] = c
      BY <1>1, <1>2, <2>1 DEF SlotInv
    <3>2. k # c => dev'[k] # d
      BY <1>2, <1>3 DEF SlotInv
    <3> QED
      BY <1>3, <2>1, <3>1, <3>2
  <2>2. CASE e # d
    <3>1. routes'[e] = routes[e]
      BY <1>1, <2>2 DEF SlotInv
    <3>2. routes[e] # c
      BY <2>2, RelayAssumption DEF SlotInv
    <3>3. k = routes[d] => dev[k] = d
      BY <1>2 DEF SlotInv
    <3>4. routes[e] = k <=> dev[k] = e
      BY DEF SlotInv
    <3>5. e # None
      BY RelayAssumption
    <3> QED
      BY <1>3, <2>2, <3>1, <3>2, <3>3, <3>4, <3>5
  <2> QED
    BY <2>1, <2>2
<1> QED
  BY <1>1, <1>4, <1>5, <1>6, <1>7 DEF SlotInv

(* Only the route that still leads to the closed slot goes with it.        *)
LEMMA ClosedStep ==
  ASSUME SlotInv, NEW c \in Conn, OnClientClosed(c)
  PROVE  SlotInv'
<1>1. /\ state' = [state EXCEPT ![c] = "gone"]
      /\ dev' = [dev EXCEPT ![c] = None]
      /\ UNCHANGED owner
      /\ IF dev[c] # None /\ routes[dev[c]] = c
         THEN routes' = [routes EXCEPT ![dev[c]] = 0]
         ELSE routes' = routes
  BY DEF OnClientClosed
<1>2. dev[c] # None => dev[c] \in Device /\ routes[dev[c]] = c
  BY DEF SlotInv
<1>3. /\ state' \in [Conn -> {"free", "handshake", "open", "gone"}]
      /\ dev' \in [Conn -> Device \cup {None}]
      /\ routes' \in [Device -> {0} \cup Conn]
  BY <1>1, <1>2 DEF SlotInv
<1>4. \A k \in Conn : dev'[k] = IF k = c THEN None ELSE dev[k]
  BY <1>1 DEF SlotInv
<1>5. \A e \in Device : routes'[e] = IF e = dev[c] THEN 0 ELSE routes[e]
  BY <1>1, <1>2, RelayAssumption DEF SlotInv
<1>6. \A k \in Conn : state'[k] # "free" => owner[k] \in Device
  <2>1. state[c] # "free"
    BY DEF OnClientClosed
  <2> QED
    BY <1>1, <2>1 DEF SlotInv
<1>7. \A k \in Conn : dev'[k] # None => dev'[k] = owner[k] /\ state'[k] = "open"
  BY <1>1, <1>4 DEF SlotInv
<1>8. ASSUME NEW e \in Device, NEW k \in Conn
      PROVE  routes'[e] = k <=> dev'[k] = e
  <2>1. routes[e] = k <=> dev[k] = e
    BY DEF SlotInv
  <2>2. e # None /\ k # 0
    BY RelayAssumption, ConnNat
  <2>3. dev[c] = e <=> routes[e] = c
    BY DEF SlotInv
  <2> QED
    BY <1>4, <1>5, <2>1, <2>2, <2>3
<1> QED
  BY <1>1, <1>3, <1>6, <1>7, <1>8 DEF SlotInv

LEMMA RestartRelayStep ==
  ASSUME SlotInv, RestartRelay
  PROVE  SlotInv'
<1>1. /\ state' = [c \in Conn |-> IF state[c] = "free" THEN "free" ELSE "gone"]
      /\ dev' = [c \in Conn |-> None]
      /\ routes' = [d \in Device |-> 0]
      /\ UNCHANGED owner
  BY DEF RestartRelay
<1> QED
  BY <1>1, RelayAssumption, ConnNat DEF SlotInv

LEMMA SlotStep ==
  ASSUME SlotInv, [Next]_vars
  PROVE  SlotInv'
<1>1. ASSUME NEW d \in Device, NEW c \in Conn, OnConnected(d, c) PROVE SlotInv'
  BY <1>1, ConnectedStep
<1>2. ASSUME NEW d \in Device,
             \/ SetRegisterPayload(d)
             \/ OnRecv(d)
             \/ ConnectionLost(d)
             \/ RestartDaemon(d)
      PROVE  SlotInv'
  BY <1>2, SlotsUntouched
     DEF SetRegisterPayload, OnRecv, ConnectionLost, RestartDaemon
<1>3. ASSUME NEW c \in Conn, OnHandshakeWritten(c) \/ DropPending(c)
      PROVE  SlotInv'
  BY <1>3, HandshakeStep
<1>4. ASSUME NEW c \in Conn, Register(c) PROVE SlotInv'
  BY <1>4, RegisterStep
<1>5. ASSUME NEW c \in Conn, OnClientClosed(c) PROVE SlotInv'
  BY <1>5, ClosedStep
<1>6. CASE RestartRelay
  BY <1>6, RestartRelayStep
<1>7. CASE UNCHANGED vars
  BY <1>7, SlotsUntouched DEF vars, serverVars
<1> QED
  BY <1>1, <1>2, <1>3, <1>4, <1>5, <1>6, <1>7 DEF Next, ClientStep, ServerStep

(* Routes and slots agree in every behaviour: no device is held by two     *)
(* slots, and no route leads to a connection that is gone.                 *)
THEOREM OneSlotPerDevice == Spec => []RoutesAgree
<1>1. Init => SlotInv
  BY RelayAssumption, ConnNat DEF Init, SlotInv
<1>2. SlotInv /\ [Next]_vars => SlotInv'
  BY SlotStep
<1>3. SlotInv => RoutesAgree
  BY RelayAssumption DEF SlotInv, RoutesAgree
<1> QED
  BY <1>1, <1>2, <1>3, PTL DEF Spec
------------------------------------------------------------------------------
(* What is on its way *)

(* The server writes the response, the peers that are on line and those    *)
(* that are not.                                                           *)
IsFrame(f) ==
  \/ f = Welcome
  \/ f.op = "peer_online" /\ f.peer \in Device
  \/ f.op = "peer_offline" /\ f.peer \in Device /\ f.ver = 0

Written(q) == q \in Seq(Event) /\ \A i \in 1..Len(q) : IsFrame(q[i])

OutInv ==
  /\ out \in [Conn -> Seq(Event)] /\ \A c \in Conn : Written(out[c])
  /\ \A c \in Conn : state[c] \in {"free", "handshake"} => out[c] = <<>>

(* A client's connection is its own.                                       *)
OwnInv ==
  /\ \A d \in Device : cur[d] # 0 => owner[cur[d]] = d /\ state[cur[d]] # "free"
  /\ \A c \in Conn : state[c] = "free" => owner[c] = None

Inv == TypeOK /\ SlotInv /\ OwnInv /\ OutInv

LEMMA Numbers ==
  /\ MaxVersion \in Nat /\ 0 \in 0..MaxVersion /\ 1 \in 0..MaxVersion
  /\ MaxConns \in Nat /\ MaxLosses \in Nat /\ MaxRestarts \in Nat
  BY RelayAssumption

LEMMA Events ==
  /\ Welcome \in Event /\ IsFrame(Welcome)
  /\ \A e \in Device, v \in 0..MaxVersion : Online(e, v) \in Event /\ IsFrame(Online(e, v))
  /\ \A e \in Device : Offline(e) \in Event /\ IsFrame(Offline(e))
  BY Numbers DEF Welcome, Online, Offline, Event, IsFrame

LEMMA SeqTail ==
  ASSUME NEW S, NEW q \in Seq(S), q # <<>>
  PROVE  Head(q) \in S /\ Tail(q) \in Seq(S)
  OBVIOUS

LEMMA WrittenConcat ==
  ASSUME NEW q, NEW r, Written(q), Written(r)
  PROVE  Written(q \o r)
<1>1. q \in Seq(Event) /\ r \in Seq(Event) /\ q \o r \in Seq(Event)
  BY DEF Written
<1>2. \A i \in 1..Len(q \o r) :
        \/ i \in 1..Len(q) /\ (q \o r)[i] = q[i]
        \/ i - Len(q) \in 1..Len(r) /\ (q \o r)[i] = r[i - Len(q)]
  BY <1>1
<1>3. \A i \in 1..Len(q \o r) : IsFrame((q \o r)[i])
  BY <1>2 DEF Written
<1> QED
  BY <1>1, <1>3 DEF Written

LEMMA WrittenOne ==
  ASSUME NEW f \in Event, IsFrame(f)
  PROVE  Written(<<f>>)
  BY DEF Written

LEMMA WrittenTail ==
  ASSUME NEW q, Written(q), q # <<>>
  PROVE  Written(Tail(q)) /\ Head(q) \in Event /\ IsFrame(Head(q))
<1>1. /\ Tail(q) \in Seq(Event) /\ Len(Tail(q)) = Len(q) - 1 /\ Len(q) \in Nat \ {0}
      /\ Head(q) = q[1] /\ q[1] \in Event
      /\ \A i \in 1..(Len(q) - 1) : Tail(q)[i] = q[i + 1]
  BY DEF Written
<1> QED
  BY <1>1 DEF Written

(* A set of devices that have routes is finite.                            *)
LEMMA RoutedFinite ==
  ASSUME SlotInv, NEW S, S \subseteq {e \in Device : routes[e] # 0}
  PROVE  IsFiniteSet(S)
<1> DEFINE f == [e \in S |-> routes[e]]
<1>1. f \in [S -> Conn]
  BY DEF SlotInv
<1>2. \A a, b \in S : f[a] = f[b] => a = b
  BY DEF SlotInv
<1>3. f \in Injection(S, Conn)
  <2> HIDE DEF f
  <2> QED
    BY <1>1, <1>2 DEF Injection, IsInjective
<1>4. IsFiniteSet(Conn)
  BY Numbers, FS_Interval DEF Conn
<1> QED
  BY <1>3, <1>4, FS_Injection

(* A finite set's members in a sequence, each of them once.                *)
LEMMA SetToSeqFacts ==
  ASSUME NEW S, IsFiniteSet(S)
  PROVE  /\ SetToSeq(S) \in Seq(S) /\ Len(SetToSeq(S)) \in Nat
         /\ \A e \in S : \E i \in 1..Len(SetToSeq(S)) :
              SetToSeq(S)[i] = e /\ \A j \in 1..Len(SetToSeq(S)) : j # i => SetToSeq(S)[j] # e
<1> DEFINE n == Cardinality(S)
           f == SetToSeq(S)
<1>1. n \in Nat /\ ExistsBijection(1..n, S)
  BY FS_CardinalityType
<1>2. \E g \in [1..n -> S] : IsInjective(g)
  BY <1>1 DEF ExistsBijection, Bijection, Injection
<1>3. f \in [1..n -> S] /\ IsInjective(f)
  <2> HIDE DEF n
  <2> QED
    BY <1>2 DEF SetToSeq, n
<1>4. f \in Surjection(1..n, S)
  <2>1. f \in Injection(1..n, S)
    BY <1>3 DEF Injection
  <2>2. Cardinality(1..n) = n
    BY <1>1, FS_Interval
  <2> QED
    BY <2>1, <2>2, FS_Injection
<1> HIDE DEF f, n
<1>5. f \in Seq(S) /\ Len(f) = n
  BY <1>1, <1>3
<1>6. ASSUME NEW e \in S
      PROVE  \E i \in 1..n : f[i] = e /\ \A j \in 1..n : j # i => f[j] # e
  <2>1. PICK i \in 1..n : f[i] = e
    BY <1>4 DEF Surjection
  <2> QED
    BY <1>3, <2>1 DEF IsInjective
<1> QED
  BY <1>1, <1>5, <1>6 DEF f

(* Events that say nothing of e, or say of it v and that once.             *)
Omits(q, e) == \A i \in 1..Len(q) : q[i].peer # e
SaysOnce(q, e, v) ==
  \E i \in 1..Len(q) :
    q[i].peer = e /\ q[i].ver = v /\ \A j \in 1..Len(q) : j # i => q[j].peer # e

(* What Register replays to connection c.                                  *)
Replay(c) ==
  LET others == SetToSeq(OnlineOthers(c, owner[c]))
  IN  [i \in 1..Len(others) |-> Online(others[i], ver[routes[others[i]]])]

(* Every device that has a slot once the old one has given way, once each. *)
LEMMA ReplayFacts ==
  ASSUME Inv, NEW c \in Conn, state[c] = "open"
  PROVE  /\ Written(Replay(c))
         /\ \A e \in Device :
              IF e = owner[c] \/ routes[e] = 0 THEN Omits(Replay(c), e)
              ELSE SaysOnce(Replay(c), e, ver[routes[e]])
<1> DEFINE d == owner[c]
           S == OnlineOthers(c, d)
           others == SetToSeq(S)
           r == [i \in 1..Len(others) |-> Online(others[i], ver[routes[others[i]]])]
<1>1. Replay(c) = r
  BY DEF Replay
<1>2. d \in Device /\ S \subseteq {e \in Device \ {d} : routes[e] # 0}
  BY DEF Inv, SlotInv, OnlineOthers
<1>3. \A e \in Device \ {d} : routes[e] # 0 => e \in S
  <2> SUFFICES ASSUME NEW e \in Device, e # d, routes[e] # 0
               PROVE  DisplaceSlot(c, d)[routes[e]] # None
    BY DEF OnlineOthers
  <2>1. routes[e] \in Conn /\ dev[routes[e]] = e
    BY DEF Inv, SlotInv
  <2>2. routes[e] # c
    <3>1. dev[c] # None => dev[c] = d
      BY DEF Inv, SlotInv
    <3> QED
      BY <2>1, <3>1, RelayAssumption
  <2>3. routes[e] # routes[d]
    BY <1>2, <2>1 DEF Inv, SlotInv
  <2> QED
    BY <2>1, <2>2, <2>3, RelayAssumption DEF DisplaceSlot
<1>4. /\ others \in Seq(S) /\ Len(others) \in Nat
      /\ \A e \in S : \E i \in 1..Len(others) :
           others[i] = e /\ \A j \in 1..Len(others) : j # i => others[j] # e
  <2>1. IsFiniteSet(S)
    BY <1>2, RoutedFinite DEF Inv
  <2> HIDE DEF S
  <2> QED
    BY <2>1, SetToSeqFacts
<1> HIDE DEF S, others
<1>5. /\ Len(r) = Len(others)
      /\ \A i \in 1..Len(others) :
           others[i] \in S /\ r[i] = Online(others[i], ver[routes[others[i]]])
  BY <1>4
<1>6. \A e \in S : routes[e] \in Conn /\ ver[routes[e]] \in 0..MaxVersion
  BY <1>2 DEF Inv, SlotInv, TypeOK
<1>7. \A i \in 1..Len(others) : r[i] \in Event /\ IsFrame(r[i])
  BY <1>2, <1>5, <1>6, Events
<1>8. r \in Seq(Event)
  BY <1>4, <1>7
<1> HIDE DEF r
<1>9. \A i \in 1..Len(r) : r[i].peer = others[i] /\ r[i].ver = ver[routes[others[i]]]
  <2>1. \A e, v : Online(e, v).peer = e /\ Online(e, v).ver = v
    BY DEF Online
  <2> QED
    BY <1>5, <2>1
<1>10. Written(r)
  BY <1>5, <1>7, <1>8 DEF Written
<1>11. ASSUME NEW e \in Device, e = d \/ routes[e] = 0 PROVE Omits(r, e)
  BY <1>2, <1>5, <1>9, <1>11 DEF Omits
<1>12. ASSUME NEW e \in Device, e # d, routes[e] # 0 PROVE SaysOnce(r, e, ver[routes[e]])
  <2>1. PICK i \in 1..Len(others) :
             others[i] = e /\ \A j \in 1..Len(others) : j # i => others[j] # e
    BY <1>3, <1>4, <1>12
  <2> QED
    BY <1>5, <1>9, <2>1 DEF SaysOnce
<1> QED
  BY <1>1, <1>10, <1>11, <1>12

(* Who gets what is written to a connection.                               *)
LEMMA Sending ==
  ASSUME NEW o, DOMAIN o = Conn, NEW c \in Conn, NEW evs
  PROVE  /\ DOMAIN Send(o, c, evs) = Conn
         /\ \A k \in Conn : Send(o, c, evs)[k] =
              IF k = c /\ cur[owner[c]] = c THEN o[k] \o evs ELSE o[k]
  BY DEF Send

(* The queues after a registration.                                        *)
LEMMA RegisterOut ==
  ASSUME Inv, NEW c \in Conn, Register(c)
  PROVE  /\ out' = [k \in Conn |-> out'[k]]
         /\ out'[c] = IF cur[owner[c]] = c THEN out[c] \o Replay(c) ELSE out[c]
         /\ \A k \in Conn \ {c} :
              out'[k] = IF state[k] = "open" /\ dev'[k] # None /\ cur[owner[k]] = k
                        THEN out[k] \o <<Online(owner[c], Head(regs[c]))>> ELSE out[k]
<1> DEFINE ev == Online(owner[c], Head(regs[c]))
           o == Send(out, c, Replay(c))
<1>1. out' = BroadcastExcept(o, c, dev', ev)
  BY DEF Register, Replay
<1>2. DOMAIN out = Conn
  BY DEF Inv, OutInv
<1>3. DOMAIN o = Conn /\ \A k \in Conn :
        o[k] = IF k = c /\ cur[owner[c]] = c THEN out[k] \o Replay(c) ELSE out[k]
  BY <1>2, Sending
<1> HIDE DEF o, ev
<1>4. out' = [k \in Conn |-> out'[k]]
  BY <1>1 DEF BroadcastExcept
<1>5. out'[c] = o[c]
  BY <1>1 DEF BroadcastExcept
<1>6. ASSUME NEW k \in Conn \ {c}
      PROVE  out'[k] = IF state[k] = "open" /\ dev'[k] # None /\ cur[owner[k]] = k
                       THEN out[k] \o <<ev>> ELSE out[k]
  <2>1. out'[k] = IF state[k] = "open" /\ dev'[k] # None
                  THEN Send(o, k, <<ev>>)[k] ELSE o[k]
    BY <1>1 DEF BroadcastExcept
  <2>2. Send(o, k, <<ev>>)[k] = IF cur[owner[k]] = k THEN o[k] \o <<ev>> ELSE o[k]
    BY <1>3, Sending
  <2>3. o[k] = out[k]
    BY <1>3
  <2> QED
    BY <2>1, <2>2, <2>3
<1> QED
  BY <1>3, <1>4, <1>5, <1>6 DEF ev

(* The queues after the end of a connection.                               *)
LEMMA ClosedOut ==
  ASSUME Inv, NEW c \in Conn, OnClientClosed(c)
  PROVE  /\ out' = [k \in Conn |-> out'[k]]
         /\ dev[c] # None => dev[c] \in Device
         /\ \A k \in Conn :
              out'[k] = IF /\ dev[c] # None /\ k # c /\ state[k] = "open" /\ dev[k] # None
                           /\ cur[owner[k]] = k
                        THEN out[k] \o <<Offline(dev[c])>> ELSE out[k]
<1>1. dev[c] # None => dev[c] \in Device /\ routes[dev[c]] = c
  BY DEF Inv, SlotInv
<1>2. DOMAIN out = Conn /\ out = [k \in Conn |-> out[k]]
  BY DEF Inv, OutInv
<1>3. CASE dev[c] # None
  <2>1. out' = BroadcastExcept(out, c, dev, Offline(dev[c]))
    BY <1>1, <1>3 DEF OnClientClosed
  <2>2. out' = [k \in Conn |-> out'[k]]
    BY <2>1 DEF BroadcastExcept
  <2>3. ASSUME NEW k \in Conn
        PROVE  out'[k] = IF k # c /\ state[k] = "open" /\ dev[k] # None /\ cur[owner[k]] = k
                         THEN out[k] \o <<Offline(dev[c])>> ELSE out[k]
    <3>1. Send(out, k, <<Offline(dev[c])>>)[k] =
            IF cur[owner[k]] = k THEN out[k] \o <<Offline(dev[c])>> ELSE out[k]
      BY <1>2, Sending
    <3>2. out'[k] = IF k # c /\ state[k] = "open" /\ dev[k] # None
                    THEN Send(out, k, <<Offline(dev[c])>>)[k] ELSE out[k]
      BY <2>1 DEF BroadcastExcept
    <3> QED
      BY <3>1, <3>2
  <2> QED
    BY <1>1, <1>3, <2>2, <2>3
<1>4. CASE dev[c] = None
  BY <1>2, <1>4 DEF OnClientClosed
<1> QED
  BY <1>3, <1>4

------------------------------------------------------------------------------
(* The types *)

LEMMA InitInv == ASSUME Init PROVE Inv
<1>1. /\ owner = [c \in Conn |-> None] /\ dev = [c \in Conn |-> None]
      /\ state = [c \in Conn |-> "free"] /\ routes = [d \in Device |-> 0]
      /\ out = [c \in Conn |-> <<>>] /\ cur = [d \in Device |-> 0]
  BY DEF Init
<1>2. SlotInv
  BY <1>1, RelayAssumption, ConnNat DEF SlotInv
<1>3. OutInv
  <2>1. <<>> \in Seq(Event) /\ Written(<<>>)
    BY DEF Written
  <2> QED
    BY <1>1, <2>1 DEF OutInv
<1>4. OwnInv
  BY <1>1 DEF OwnInv
<1>5. TypeOK
  <2>1. <<>> \in Seq(0..MaxVersion)
    OBVIOUS
  <2> QED
    BY <1>2, <1>3, <2>1, Numbers DEF Init, TypeOK, SlotInv, OutInv
<1> QED
  BY <1>2, <1>3, <1>4, <1>5 DEF Inv

(* A step of the client of d, which empties or shortens one queue.         *)
LEMMA ConnectedInv ==
  ASSUME Inv, NEW d \in Device, NEW c \in Conn, OnConnected(d, c) PROVE Inv'
<1>1. SlotInv'
  BY ConnectedStep DEF Inv
<1>2. OutInv'
  BY DEF Inv, OutInv, SlotInv, OnConnected
<1>3. OwnInv'
  <2>1. /\ cur' = [cur EXCEPT ![d] = c] /\ owner' = [owner EXCEPT ![c] = d]
        /\ state' = [state EXCEPT ![c] = "handshake"] /\ state[c] = "free"
    BY DEF OnConnected
  <2>2. \A e \in Device : cur'[e] = IF e = d THEN c ELSE cur[e]
    BY <2>1 DEF Inv, TypeOK
  <2>3. \A k \in Conn : /\ owner'[k] = IF k = c THEN d ELSE owner[k]
                        /\ state'[k] = IF k = c THEN "handshake" ELSE state[k]
    BY <2>1 DEF Inv, TypeOK
  <2>4. \A e \in Device : cur[e] # 0 => cur[e] \in Conn
    BY DEF Inv, TypeOK
  <2> QED
    BY <2>1, <2>2, <2>3, <2>4, ConnNat DEF Inv, OwnInv
<1>4. TypeOK'
  <2>1. <<version[d]>> \in Seq(0..MaxVersion)
    BY DEF Inv, TypeOK
  <2> QED
    BY <1>1, <1>2, <2>1 DEF Inv, TypeOK, SlotInv, OutInv, OnConnected
<1> QED
  BY <1>1, <1>2, <1>3, <1>4 DEF Inv

LEMMA SetRegisterPayloadInv ==
  ASSUME Inv, NEW d \in Device, SetRegisterPayload(d) PROVE Inv'
<1>1. SlotInv' /\ OutInv' /\ OwnInv'
  BY SlotsUntouched DEF Inv, OutInv, OwnInv, SetRegisterPayload
<1>2. version' \in [Device -> 0..MaxVersion]
  <2>1. version[d] \in 0..MaxVersion /\ version[d] + 1 <= MaxVersion
    BY DEF Inv, TypeOK, SetRegisterPayload
  <2> QED
    BY <2>1, Numbers DEF Inv, TypeOK, SetRegisterPayload
<1>3. regs' \in [Conn -> Seq(0..MaxVersion)]
  <2>1. version[d] + 1 \in 0..MaxVersion
    BY Numbers DEF Inv, TypeOK, SetRegisterPayload
  <2>2. \A k \in Conn : Append(regs[k], version[d] + 1) \in Seq(0..MaxVersion)
    BY <2>1 DEF Inv, TypeOK
  <2> QED
    BY <2>2 DEF Inv, TypeOK, SetRegisterPayload
<1>4. TypeOK'
  BY <1>1, <1>2, <1>3 DEF Inv, TypeOK, SetRegisterPayload
<1> QED
  BY <1>1, <1>4 DEF Inv

LEMMA OnRecvInv == ASSUME Inv, NEW d \in Device, OnRecv(d) PROVE Inv'
<1> DEFINE c == cur[d]
           ev == Head(out[c])
<1>1. c \in Conn /\ out[c] # <<>> /\ out' = [out EXCEPT ![c] = Tail(out[c])]
  BY DEF OnRecv, Inv, TypeOK
<1>2. Written(Tail(out[c])) /\ ev \in Event /\ IsFrame(ev)
  BY <1>1, WrittenTail DEF Inv, OutInv
<1>3. SlotInv' /\ OwnInv'
  BY SlotsUntouched DEF Inv, OwnInv, OnRecv
<1>4. OutInv'
  <2>1. state' = state
    BY DEF OnRecv
  <2>2. \A k \in Conn : out'[k] = IF k = c THEN Tail(out[c]) ELSE out[k]
    BY <1>1 DEF Inv, OutInv
  <2>3. out' \in [Conn -> Seq(Event)]
    BY <1>1, <1>2 DEF Inv, OutInv, Written
  <2> QED
    BY <1>1, <1>2, <2>1, <2>2, <2>3 DEF Inv, OutInv
<1>5. known' \in [Device -> [Device -> 0..MaxVersion]]
  <2>1. CASE UNCHANGED known
    BY <2>1 DEF Inv, TypeOK
  <2>2. CASE ev # Welcome /\ OnRelayEvent(d, ev)
    <3>1. ev.peer \in Device
      BY <1>2, <2>2 DEF IsFrame
    <3>2. (IF ev.op = "peer_online" THEN ev.ver ELSE 0) \in 0..MaxVersion
      BY <1>2, Numbers DEF Event
    <3> HIDE DEF ev
    <3> QED
      BY <2>2, <3>1, <3>2 DEF Inv, TypeOK, OnRelayEvent
  <2> QED
    BY <2>1, <2>2 DEF OnRecv
<1>6. /\ shaken' \in [Device -> BOOLEAN]
      /\ stream' \in [Device -> {"clean", "garbled", "realigned"}]
  BY DEF Inv, TypeOK, OnRecv
<1>7. TypeOK'
  BY <1>3, <1>4, <1>5, <1>6 DEF Inv, TypeOK, SlotInv, OutInv, OnRecv
<1> QED
  BY <1>3, <1>4, <1>7 DEF Inv

LEMMA ClientLeavesInv ==
  ASSUME Inv, NEW d \in Device, ConnectionLost(d) \/ RestartDaemon(d) PROVE Inv'
<1>1. SlotInv'
  BY SlotsUntouched DEF Inv, ConnectionLost, RestartDaemon
<1>2. UNCHANGED <<state, owner>> /\ cur' = [cur EXCEPT ![d] = 0]
  BY DEF ConnectionLost, RestartDaemon
<1>3. OwnInv'
  BY <1>2 DEF Inv, TypeOK, OwnInv
<1>4. OutInv'
  <2>1. <<>> \in Seq(Event) /\ Written(<<>>)
    BY DEF Written
  <2>2. out' \in [Conn -> Seq(Event)] /\ \A k \in Conn : out'[k] = out[k] \/ out'[k] = <<>>
    BY <2>1 DEF Inv, OutInv, ConnectionLost, RestartDaemon
  <2> QED
    BY <1>2, <2>1, <2>2 DEF Inv, OutInv
<1>5. known' \in [Device -> [Device -> 0..MaxVersion]]
  <2>1. [e \in Device |-> 0] \in [Device -> 0..MaxVersion]
    BY Numbers
  <2> QED
    BY <2>1 DEF Inv, TypeOK, ConnectionLost, RestartDaemon
<1>6. /\ shaken' \in [Device -> BOOLEAN]
      /\ stream' \in [Device -> {"clean", "garbled", "realigned"}]
  BY DEF Inv, TypeOK, ConnectionLost, RestartDaemon
<1>7. losses' \in 0..MaxLosses /\ restarts' \in 0..MaxRestarts
  BY Numbers DEF Inv, TypeOK, ConnectionLost, RestartDaemon
<1>8. UNCHANGED <<version, regs, ver>> /\ cur' \in [Device -> {0} \cup Conn]
  BY <1>2 DEF Inv, TypeOK, ConnectionLost, RestartDaemon
<1>9. TypeOK'
  BY <1>1, <1>4, <1>5, <1>6, <1>7, <1>8 DEF Inv, TypeOK, SlotInv, OutInv
<1> QED
  BY <1>1, <1>3, <1>4, <1>9 DEF Inv

(* A step of the server, which leaves the clients alone.                   *)
LEMMA ServerStepInv ==
  ASSUME Inv, SlotInv', OutInv', UNCHANGED <<clientVars, owner>>,
         \A c \in Conn : state'[c] = "free" <=> state[c] = "free",
         regs' \in [Conn -> Seq(0..MaxVersion)], ver' \in [Conn -> 0..MaxVersion],
         losses' = losses, restarts' \in 0..MaxRestarts
  PROVE  Inv'
<1>1. OwnInv'
  BY DEF Inv, TypeOK, OwnInv, clientVars
<1>2. TypeOK'
  BY DEF Inv, TypeOK, SlotInv, OutInv, clientVars
<1> QED
  BY <1>1, <1>2 DEF Inv

LEMMA HandshakeWrittenInv ==
  ASSUME Inv, NEW c \in Conn, OnHandshakeWritten(c) PROVE Inv'
<1>1. /\ state[c] = "handshake" /\ state' = [state EXCEPT ![c] = "open"]
      /\ out' = Send(out, c, <<Welcome>>)
      /\ UNCHANGED <<clientVars, owner, regs, ver, losses, restarts>>
  BY DEF OnHandshakeWritten
<1>2. SlotInv'
  BY HandshakeStep DEF Inv
<1>3. \A k \in Conn : state'[k] = IF k = c THEN "open" ELSE state[k]
  BY <1>1 DEF Inv, TypeOK
<1>4. OutInv'
  <2>1. out' = out \/ out' = [out EXCEPT ![c] = out[c] \o <<Welcome>>]
    BY <1>1 DEF Send
  <2>2. Written(out[c] \o <<Welcome>>) /\ out[c] \o <<Welcome>> \in Seq(Event)
    <3>1. Written(<<Welcome>>) /\ Written(out[c])
      BY Events, WrittenOne DEF Inv, OutInv
    <3> QED
      BY <3>1, WrittenConcat DEF Written
  <2>3. out' \in [Conn -> Seq(Event)] /\ \A k \in Conn : k # c => out'[k] = out[k]
    BY <2>1, <2>2 DEF Inv, OutInv
  <2>4. Written(out'[c])
    BY <2>1, <2>2 DEF Inv, OutInv
  <2> QED
    BY <1>3, <2>3, <2>4 DEF Inv, OutInv
<1> QED
  BY <1>1, <1>2, <1>3, <1>4, ServerStepInv DEF Inv, TypeOK

LEMMA DropPendingInv ==
  ASSUME Inv, NEW c \in Conn, DropPending(c) PROVE Inv'
<1>1. /\ state[c] = "handshake" /\ state' = [state EXCEPT ![c] = "gone"]
      /\ regs' = [regs EXCEPT ![c] = <<>>]
      /\ UNCHANGED <<clientVars, owner, out, ver, losses, restarts>>
  BY DEF DropPending
<1>2. SlotInv'
  BY HandshakeStep DEF Inv
<1>3. \A k \in Conn : state'[k] = IF k = c THEN "gone" ELSE state[k]
  BY <1>1 DEF Inv, TypeOK
<1>4. OutInv'
  BY <1>1, <1>3 DEF Inv, OutInv
<1>5. regs' \in [Conn -> Seq(0..MaxVersion)]
  BY <1>1 DEF Inv, TypeOK
<1> QED
  BY <1>1, <1>2, <1>3, <1>4, <1>5, ServerStepInv DEF Inv, TypeOK

LEMMA RegisterInv ==
  ASSUME Inv, NEW c \in Conn, Register(c) PROVE Inv'
<1>1. /\ state[c] = "open" /\ regs[c] # <<>>
      /\ regs' = [regs EXCEPT ![c] = Tail(regs[c])]
      /\ ver' = [ver EXCEPT ![c] = Head(regs[c])]
      /\ UNCHANGED <<clientVars, owner, state, losses, restarts>>
  BY DEF Register
<1>2. SlotInv'
  BY RegisterStep DEF Inv
<1>3. regs[c] \in Seq(0..MaxVersion)
  BY DEF Inv, TypeOK
<1>4. Head(regs[c]) \in 0..MaxVersion /\ Tail(regs[c]) \in Seq(0..MaxVersion)
  BY <1>1, <1>3, SeqTail
<1>5. regs' \in [Conn -> Seq(0..MaxVersion)] /\ ver' \in [Conn -> 0..MaxVersion]
  BY <1>1, <1>4 DEF Inv, TypeOK
<1>6. OutInv'
  <2> DEFINE ev == Online(owner[c], Head(regs[c]))
  <2>1. Written(<<ev>>)
    BY <1>1, <1>4, Events, WrittenOne DEF Inv, SlotInv
  <2> HIDE DEF ev
  <2>2. Written(Replay(c))
    BY <1>1, ReplayFacts
  <2>3. \A k \in Conn : Written(out'[k])
    <3>1. \A k \in Conn : Written(out[k])
      BY DEF Inv, OutInv
    <3>2. Written(out'[c])
      <4>1. Written(out[c] \o Replay(c))
        BY <2>2, <3>1, WrittenConcat
      <4> QED
        BY <3>1, <4>1, RegisterOut
    <3>3. ASSUME NEW k \in Conn, k # c PROVE Written(out'[k])
      <4>1. out'[k] = out[k] \o <<ev>> \/ out'[k] = out[k]
        BY <3>3, RegisterOut DEF ev
      <4> QED
        BY <2>1, <3>1, <4>1, WrittenConcat
    <3> QED
      BY <3>2, <3>3
  <2>4. out' \in [Conn -> Seq(Event)]
    <3>1. out' = [k \in Conn |-> out'[k]]
      BY RegisterOut
    <3>2. \A k \in Conn : out'[k] \in Seq(Event)
      BY <2>3 DEF Written
    <3> QED
      BY <3>1, <3>2
  <2>5. \A k \in Conn : state'[k] \in {"free", "handshake"} => out'[k] = <<>>
    <3>1. \A k \in Conn : state[k] # "open" => out'[k] = out[k]
      BY <1>1, RegisterOut
    <3> QED
      BY <1>1, <3>1 DEF Inv, OutInv
  <2> QED
    BY <2>3, <2>4, <2>5 DEF OutInv
<1> QED
  BY <1>1, <1>2, <1>5, <1>6, ServerStepInv DEF Inv, TypeOK

LEMMA ClosedInv ==
  ASSUME Inv, NEW c \in Conn, OnClientClosed(c) PROVE Inv'
<1>1. /\ state[c] = "open" /\ state' = [state EXCEPT ![c] = "gone"]
      /\ regs' = [regs EXCEPT ![c] = <<>>]
      /\ UNCHANGED <<clientVars, owner, ver, losses, restarts>>
  BY DEF OnClientClosed
<1>2. SlotInv'
  BY ClosedStep DEF Inv
<1>3. \A k \in Conn : state'[k] = IF k = c THEN "gone" ELSE state[k]
  BY <1>1 DEF Inv, TypeOK
<1>4. OutInv'
  <2>1. \A k \in Conn : Written(out'[k])
    <3>1. \A k \in Conn : Written(out[k])
      BY DEF Inv, OutInv
    <3>2. dev[c] # None => Written(<<Offline(dev[c])>>)
      BY ClosedOut, Events, WrittenOne
    <3>3. ASSUME NEW k \in Conn PROVE Written(out'[k])
      <4>1. \/ out'[k] = out[k]
            \/ dev[c] # None /\ out'[k] = out[k] \o <<Offline(dev[c])>>
        BY ClosedOut
      <4> QED
        BY <3>1, <3>2, <4>1, WrittenConcat
    <3> QED
      BY <3>3
  <2>2. out' \in [Conn -> Seq(Event)]
    <3>1. out' = [k \in Conn |-> out'[k]]
      BY ClosedOut
    <3>2. \A k \in Conn : out'[k] \in Seq(Event)
      BY <2>1 DEF Written
    <3> QED
      BY <3>1, <3>2
  <2>3. \A k \in Conn : state'[k] \in {"free", "handshake"} => out'[k] = <<>>
    <3>1. \A k \in Conn : state[k] # "open" => out'[k] = out[k]
      BY ClosedOut
    <3> QED
      BY <1>1, <1>3, <3>1 DEF Inv, OutInv
  <2> QED
    BY <2>1, <2>2, <2>3 DEF OutInv
<1>5. regs' \in [Conn -> Seq(0..MaxVersion)]
  BY <1>1 DEF Inv, TypeOK
<1> QED
  BY <1>1, <1>2, <1>3, <1>4, <1>5, ServerStepInv DEF Inv, TypeOK

LEMMA RestartRelayInv == ASSUME Inv, RestartRelay PROVE Inv'
<1>1. /\ state' = [c \in Conn |-> IF state[c] = "free" THEN "free" ELSE "gone"]
      /\ regs' = [c \in Conn |-> <<>>] /\ out' = [c \in Conn |-> <<>>]
      /\ restarts < MaxRestarts /\ restarts' = restarts + 1
      /\ UNCHANGED <<clientVars, owner, ver, losses>>
  BY DEF RestartRelay
<1>2. SlotInv'
  BY RestartRelayStep DEF Inv
<1>3. OutInv'
  <2>1. <<>> \in Seq(Event) /\ Written(<<>>)
    BY DEF Written
  <2> QED
    BY <1>1, <2>1 DEF OutInv
<1>4. regs' \in [Conn -> Seq(0..MaxVersion)] /\ restarts' \in 0..MaxRestarts
  BY <1>1, Numbers DEF Inv, TypeOK
<1> QED
  BY <1>1, <1>2, <1>3, <1>4, ServerStepInv DEF Inv, TypeOK

LEMMA NextInv == ASSUME Inv, [Next]_vars PROVE Inv'
<1>1. ASSUME NEW d \in Device,
             \/ \E c \in Conn : OnConnected(d, c)
             \/ SetRegisterPayload(d) \/ OnRecv(d) \/ ConnectionLost(d) \/ RestartDaemon(d)
      PROVE  Inv'
  BY <1>1, ConnectedInv, SetRegisterPayloadInv, OnRecvInv, ClientLeavesInv
<1>2. ASSUME NEW c \in Conn,
             OnHandshakeWritten(c) \/ DropPending(c) \/ Register(c) \/ OnClientClosed(c)
      PROVE  Inv'
  BY <1>2, HandshakeWrittenInv, DropPendingInv, RegisterInv, ClosedInv
<1>3. CASE RestartRelay
  BY <1>3, RestartRelayInv
<1>4. CASE UNCHANGED vars
  <2>1. SlotInv' /\ OutInv' /\ OwnInv'
    BY <1>4, SlotsUntouched DEF Inv, OutInv, OwnInv, vars, clientVars, serverVars
  <2>2. TypeOK'
    BY <1>4 DEF Inv, TypeOK, vars, clientVars, serverVars
  <2> QED
    BY <2>1, <2>2 DEF Inv
<1> QED
  BY <1>1, <1>2, <1>3, <1>4 DEF Next, ClientStep, ServerStep

(* The tables of the relay and of its clients stay in their types.         *)
LEMMA Invariance == Spec => []Inv
  BY InitInv, NextInv, PTL DEF Spec

------------------------------------------------------------------------------
(* Who a daemon believes on line *)

(* The last event about e in q says v, or there is none and v is k.        *)
Ends(q, e, v, k) ==
  \/ \E i \in 1..Len(q) :
        q[i].peer = e /\ q[i].ver = v /\ \A j \in (i + 1)..Len(q) : q[j].peer # e
  \/ v = k /\ Omits(q, e)

Told(d, e, v) == Ends(out[cur[d]], e, v, known[d][e])

Complete(d) ==
  Served(d) /\ Aligned(d) =>
    \A e \in Device \ {d} : routes[e] # 0 => Told(d, e, ver[routes[e]])

Only(d) == \A k \in Conn : owner[k] = d => k = cur[d]

Exact(d) ==
  Served(d) /\ Aligned(d) /\ Only(d) =>
    \A e \in Device : e = d \/ routes[e] = 0 => Told(d, e, 0)

(* Before its first registration is read a daemon has heard of nobody.     *)
Awaiting(d) == cur[d] = 0 \/ (state[cur[d]] # "gone" /\ dev[cur[d]] # d)

Silent(q) == \A i \in 1..Len(q) : q[i] = Welcome

Unheard(d) ==
  Only(d) /\ Awaiting(d) =>
    (\A e \in Device : known[d][e] = 0) /\ (cur[d] # 0 => Silent(out[cur[d]]))

Roster(d) == Complete(d) /\ Exact(d) /\ Unheard(d)
RosterInv == \A d \in Device : Roster(d)

LEMMA EndsConcat ==
  ASSUME NEW q \in Seq(Event), NEW r \in Seq(Event), NEW e, NEW v, NEW k
  PROVE  /\ Ends(q, e, v, k) /\ Omits(r, e) => Ends(q \o r, e, v, k)
         /\ SaysOnce(r, e, v) => Ends(q \o r, e, v, k)
<1> DEFINE s == q \o r
<1>1. /\ Len(q) \in Nat /\ Len(r) \in Nat /\ Len(s) = Len(q) + Len(r)
      /\ \A i \in 1..Len(q) : s[i] = q[i]
      /\ \A i \in 1..Len(r) : s[Len(q) + i] = r[i]
  OBVIOUS
<1> HIDE DEF s
<1>2. \A j \in 1..Len(s) : \/ j \in 1..Len(q) /\ s[j] = q[j]
                           \/ j - Len(q) \in 1..Len(r) /\ s[j] = r[j - Len(q)]
  <2> SUFFICES ASSUME NEW j \in 1..Len(s), j > Len(q)
               PROVE  j - Len(q) \in 1..Len(r) /\ s[j] = r[j - Len(q)]
    BY <1>1
  <2>1. j - Len(q) \in 1..Len(r) /\ Len(q) + (j - Len(q)) = j
    BY <1>1
  <2> QED
    BY <1>1, <2>1
<1>3. ASSUME Ends(q, e, v, k), \A i \in 1..Len(r) : r[i].peer # e PROVE Ends(s, e, v, k)
  <2>1. CASE v = k /\ \A i \in 1..Len(q) : q[i].peer # e
    BY <1>2, <1>3, <2>1 DEF Ends, Omits
  <2>2. ASSUME NEW i \in 1..Len(q), q[i].peer = e, q[i].ver = v,
               \A j \in (i + 1)..Len(q) : q[j].peer # e
        PROVE  Ends(s, e, v, k)
    <3>1. i \in 1..Len(s) /\ s[i] = q[i]
      BY <1>1
    <3>2. \A j \in (i + 1)..Len(s) : s[j].peer # e
      <4> SUFFICES ASSUME NEW j \in (i + 1)..Len(s) PROVE s[j].peer # e
        OBVIOUS
      <4>1. j \in 1..Len(s) /\ (j \in 1..Len(q) => j \in (i + 1)..Len(q))
        BY <1>1
      <4> QED
        BY <1>2, <1>3, <2>2, <4>1
    <3> QED
      BY <2>2, <3>1, <3>2 DEF Ends, Omits
  <2> QED
    BY <1>3, <2>1, <2>2 DEF Ends, Omits
<1>4. ASSUME NEW i \in 1..Len(r), r[i].peer = e, r[i].ver = v,
             \A j \in 1..Len(r) : j # i => r[j].peer # e
      PROVE  Ends(s, e, v, k)
  <2>1. Len(q) + i \in 1..Len(s) /\ s[Len(q) + i] = r[i]
    BY <1>1
  <2>2. \A j \in (Len(q) + i + 1)..Len(s) : s[j].peer # e
    <3> SUFFICES ASSUME NEW j \in (Len(q) + i + 1)..Len(s) PROVE s[j].peer # e
      OBVIOUS
    <3>1. j \in 1..Len(s) /\ j \notin 1..Len(q) /\ j - Len(q) # i
      BY <1>1
    <3> QED
      BY <1>2, <1>4, <3>1
  <2> QED
    BY <1>4, <2>1, <2>2 DEF Ends, Omits
<1> QED
  BY <1>3, <1>4 DEF s, Omits, SaysOnce

LEMMA EndsTail ==
  ASSUME NEW q \in Seq(Event), q # <<>>, NEW e, NEW v, NEW k, Ends(q, e, v, k)
  PROVE  Ends(Tail(q), e, v, IF Head(q).peer = e THEN Head(q).ver ELSE k)
<1> DEFINE r == Tail(q)
           n == IF Head(q).peer = e THEN Head(q).ver ELSE k
<1>1. /\ Len(q) \in Nat \ {0} /\ Len(r) = Len(q) - 1 /\ Head(q) = q[1]
      /\ \A i \in 1..(Len(q) - 1) : r[i] = q[i + 1]
  OBVIOUS
<1> HIDE DEF r
<1>2. \A i \in 1..Len(r) : i + 1 \in 1..Len(q) /\ r[i] = q[i + 1]
  BY <1>1
<1>3. CASE v = k /\ \A i \in 1..Len(q) : q[i].peer # e
  <2>1. 1 \in 1..Len(q)
    BY <1>1
  <2> QED
    BY <1>1, <1>2, <1>3, <2>1 DEF Ends, Omits
<1>4. ASSUME NEW i \in 1..Len(q), q[i].peer = e, q[i].ver = v,
             \A j \in (i + 1)..Len(q) : q[j].peer # e
      PROVE  Ends(r, e, v, n)
  <2>1. CASE i = 1
    <3>1. \A j \in 1..Len(r) : j + 1 \in (i + 1)..Len(q)
      BY <1>1, <2>1
    <3>2. \A j \in 1..Len(r) : r[j].peer # e
      BY <1>2, <1>4, <3>1
    <3> QED
      BY <1>1, <1>4, <2>1, <3>2 DEF Ends, Omits
  <2>2. CASE i # 1
    <3>1. i - 1 \in 1..Len(r) /\ r[i - 1] = q[i]
      <4>1. i - 1 \in 1..Len(r) /\ (i - 1) + 1 = i
        BY <1>1, <2>2
      <4> QED
        BY <1>2, <4>1
    <3>2. \A j \in ((i - 1) + 1)..Len(r) : r[j].peer # e
      <4> SUFFICES ASSUME NEW j \in ((i - 1) + 1)..Len(r) PROVE r[j].peer # e
        OBVIOUS
      <4>1. j \in 1..Len(r) /\ j + 1 \in (i + 1)..Len(q)
        BY <1>1, <2>2
      <4> QED
        BY <1>2, <1>4, <4>1
    <3> QED
      BY <1>4, <3>1, <3>2 DEF Ends, Omits
  <2> QED
    BY <2>1, <2>2
<1> QED
  BY <1>3, <1>4 DEF Ends, r, Omits

(* What is believed is what the last event says.                           *)
LEMMA EndsBelieved ==
  ASSUME Inv, NEW d \in Device, cur[d] # 0, NEW e, NEW v, Told(d, e, v)
  PROVE  Believed(d, e) = v
<1> DEFINE q == out[cur[d]]
           about == {i \in 1..Len(q) : q[i].peer = e}
<1>0. Len(q) \in Nat
  <2>1. q \in Seq(Event)
    BY DEF Inv, TypeOK
  <2> QED
    BY <2>1
<1>1. CASE v = known[d][e] /\ \A i \in 1..Len(q) : q[i].peer # e
  BY <1>1 DEF Believed
<1>2. ASSUME NEW i \in 1..Len(q), q[i].peer = e, q[i].ver = v,
             \A j \in (i + 1)..Len(q) : q[j].peer # e
      PROVE  Believed(d, e) = v
  <2>1. i \in about /\ \A j \in about : i >= j
    BY <1>0, <1>2
  <2>2. about \subseteq Nat
    BY <1>0
  <2> HIDE DEF about
  <2>3. Max(about) = i
    <3> DEFINE Top(x) == x \in about /\ \A y \in about : x >= y
               m == Max(about)
    <3>1. m = CHOOSE x : Top(x)
      BY Zenon DEF Max
    <3>2. \E x : Top(x)
      BY <2>1
    <3> HIDE DEF m
    <3>3. Top(m)
      <4> HIDE DEF Top
      <4> QED
        BY <3>1, <3>2
    <3>4. m \in Nat /\ i \in Nat /\ i >= m /\ m >= i
      BY <2>1, <2>2, <3>3
    <3> QED
      BY <3>4 DEF m
  <2> QED
    BY <1>2, <2>1, <2>3 DEF Believed, about
<1> QED
  BY <1>1, <1>2 DEF Told, Ends, Omits

(* The connection that serves a device is open and its route.              *)
LEMMA ServedFacts ==
  ASSUME Inv, NEW d \in Device, cur[d] # 0
  PROVE  /\ cur[d] \in Conn /\ owner[cur[d]] = d /\ state[cur[d]] # "free"
         /\ Written(out[cur[d]]) /\ out[cur[d]] \in Seq(Event)
         /\ Served(d) => state[cur[d]] = "open" /\ routes[d] = cur[d]
         /\ ~ Served(d) => dev[cur[d]] = None
  BY RelayAssumption DEF Inv, TypeOK, OwnInv, OutInv, SlotInv, Served

(* A step that the daemon d and the relay's tables see nothing of.         *)
LEMMA Still ==
  ASSUME NEW d \in Device, Roster(d), UNCHANGED <<routes, ver>>,
         cur'[d] = cur[d], known'[d] = known[d], stream'[d] = stream[d], shaken'[d] = shaken[d],
         \A k \in Conn : owner'[k] = d <=> owner[k] = d,
         cur[d] # 0 => /\ out'[cur[d]] = out[cur[d]] /\ dev'[cur[d]] = dev[cur[d]]
                       /\ state'[cur[d]] = state[cur[d]]
  PROVE  Roster(d)'
<1>1. (Served(d)' <=> Served(d)) /\ (Only(d)' <=> Only(d))
  BY DEF Served, Only
<1>2. Served(d) => (Aligned(d)' <=> Aligned(d))
  BY DEF Served, Aligned
<1>3. Served(d) => \A e, v : Told(d, e, v) => Told(d, e, v)'
  BY DEF Served, Told
<1>4. Complete(d)'
  BY <1>1, <1>2, <1>3 DEF Roster, Complete
<1>5. Exact(d)'
  BY <1>1, <1>2, <1>3 DEF Roster, Exact
<1>6. Unheard(d)'
  BY <1>1 DEF Roster, Unheard, Awaiting
<1> QED
  BY <1>4, <1>5, <1>6 DEF Roster

LEMMA ConnectedRoster ==
  ASSUME Inv, RosterInv, NEW d \in Device, NEW c \in Conn, OnConnected(d, c) PROVE RosterInv'
<1>1. /\ cur[d] = 0 /\ cur' = [cur EXCEPT ![d] = c] /\ owner' = [owner EXCEPT ![c] = d]
      /\ state[c] = "free" /\ state' = [state EXCEPT ![c] = "handshake"]
      /\ UNCHANGED <<shaken, stream, known, out, dev, ver, routes>>
  BY DEF OnConnected
<1>2. /\ \A k \in Conn : owner'[k] = IF k = c THEN d ELSE owner[k]
      /\ \A k \in Conn : state'[k] = IF k = c THEN "handshake" ELSE state[k]
      /\ \A e \in Device : cur'[e] = IF e = d THEN c ELSE cur[e]
  BY <1>1 DEF Inv, TypeOK
<1>3. owner[c] = None /\ out[c] = <<>> /\ dev[c] = None /\ d # None
  BY <1>1, RelayAssumption DEF Inv, OwnInv, OutInv, SlotInv
<1>4. ASSUME NEW e \in Device, e # d PROVE Roster(e)'
  <2>1. cur[e] # 0 => cur[e] \in Conn /\ cur[e] # c
    BY <1>1, ServedFacts
  <2>2. \A k \in Conn : owner'[k] = e <=> owner[k] = e
    BY <1>2, <1>3, <1>4, RelayAssumption
  <2>3. Roster(e)
    BY DEF RosterInv
  <2> QED
    BY <1>1, <1>2, <1>4, <2>1, <2>2, <2>3, Still
<1>5. Roster(d)'
  <2>1. ~ Served(d)'
    BY <1>1, <1>2, <1>3 DEF Served
  <2>2. Unheard(d)'
    <3>1. Only(d)' => Only(d)
      BY <1>2, <1>3 DEF Only
    <3>2. Awaiting(d)
      BY <1>1 DEF Awaiting
    <3>3. Unheard(d)
      BY DEF RosterInv, Roster
    <3>4. Silent(out[c])
      BY <1>3 DEF Silent
    <3> QED
      BY <1>1, <1>2, <3>1, <3>2, <3>3, <3>4 DEF Unheard
  <2> QED
    BY <2>1, <2>2 DEF Roster, Complete, Exact
<1> QED
  BY <1>4, <1>5 DEF RosterInv

LEMMA ClientLeavesRoster ==
  ASSUME Inv, RosterInv, NEW d \in Device, ConnectionLost(d) \/ RestartDaemon(d)
  PROVE  RosterInv'
<1>1. /\ cur' = [cur EXCEPT ![d] = 0] /\ UNCHANGED <<owner, state, dev, ver, routes>>
      /\ \A k \in Conn : k # cur[d] => out'[k] = out[k]
      /\ \A e \in Device : e # d =>
           known'[e] = known[e] /\ stream'[e] = stream[e] /\ shaken'[e] = shaken[e]
      /\ cur[d] # 0 \/ \A e \in Device : known'[d][e] = 0
  <2>1. CASE ConnectionLost(d)
    BY <2>1 DEF Inv, TypeOK, ConnectionLost
  <2>2. CASE RestartDaemon(d)
    BY <2>2 DEF Inv, TypeOK, RestartDaemon
  <2> QED
    BY <2>1, <2>2
<1>2. \A e \in Device : cur'[e] = IF e = d THEN 0 ELSE cur[e]
  BY <1>1 DEF Inv, TypeOK
<1>3. ASSUME NEW e \in Device, e # d PROVE Roster(e)'
  <2>1. cur[e] # 0 => cur[e] \in Conn /\ cur[e] # cur[d]
    BY <1>3, ServedFacts
  <2>2. Roster(e)
    BY DEF RosterInv
  <2> QED
    BY <1>1, <1>2, <1>3, <2>1, <2>2, Still
<1>4. Roster(d)'
  <2>1. ~ Served(d)'
    BY <1>2 DEF Served
  <2>2. Only(d)' => cur[d] = 0
    BY <1>1, <1>2, ServedFacts, ConnNat DEF Only
  <2>3. Unheard(d)'
    BY <1>1, <1>2, <2>2 DEF Unheard
  <2> QED
    BY <2>1, <2>3 DEF Roster, Complete, Exact
<1> QED
  BY <1>3, <1>4 DEF RosterInv

LEMMA OnRecvRoster ==
  ASSUME Inv, RosterInv, NEW d \in Device, OnRecv(d) PROVE RosterInv'
<1> DEFINE c == cur[d]
           ev == Head(out[c])
<1>1. /\ c # 0 /\ out[c] # <<>> /\ out' = [out EXCEPT ![c] = Tail(out[c])]
      /\ UNCHANGED <<cur, owner, state, dev, ver, routes>>
  BY DEF OnRecv
<1>2. c \in Conn /\ out[c] \in Seq(Event) /\ Written(out[c]) /\ owner[c] = d
  BY <1>1, ServedFacts
<1>3. \A k \in Conn : out'[k] = IF k = c THEN Tail(out[c]) ELSE out[k]
  BY <1>1 DEF Inv, TypeOK
<1>4. \/ ev = Welcome /\ shaken'[d] = TRUE /\ (shaken[d] => stream'[d] = "garbled")
         /\ (~shaken[d] => stream'[d] = stream[d]) /\ known' = known
      \/ ev # Welcome /\ OnRelayEvent(d, ev) /\ shaken' = shaken /\ stream' = stream
      \/ ev # Welcome /\ stream'[d] # "clean" /\ known' = known
  BY DEF OnRecv, Inv, TypeOK
<1>5. \A e \in Device : e # d =>
        known'[e] = known[e] /\ stream'[e] = stream[e] /\ shaken'[e] = shaken[e]
  BY DEF OnRecv, OnRelayEvent, Inv, TypeOK
<1>6. IsFrame(ev) /\ ev \in Event
  BY <1>1, <1>2, WrittenTail
<1>7. \A i \in 1..Len(Tail(out[c])) : i + 1 \in 1..Len(out[c]) /\ Tail(out[c])[i] = out[c][i + 1]
  BY <1>1, <1>2
<1>8. 1 \in 1..Len(out[c]) /\ ev = out[c][1] /\ \A i \in 1..Len(out[c]) : i = 1 \/ i - 1 \in 1..Len(Tail(out[c]))
  BY <1>1, <1>2
<1> HIDE DEF ev, c
<1>9. ASSUME NEW e \in Device, e # d PROVE Roster(e)'
  <2>1. cur[e] # 0 => cur[e] \in Conn /\ cur[e] # c
    BY <1>2, <1>9, ServedFacts
  <2>2. Roster(e)
    BY DEF RosterInv
  <2> QED
    BY <1>1, <1>3, <1>5, <1>9, <2>1, <2>2, Still
<1>10. (Served(d)' <=> Served(d)) /\ (Only(d)' <=> Only(d)) /\ (Awaiting(d)' <=> Awaiting(d))
  BY <1>1 DEF Served, Only, Awaiting
<1>11. cur'[d] = c /\ out'[c] = Tail(out[c])
  BY <1>1, <1>2, <1>3 DEF c
<1>12. ASSUME Aligned(d)' PROVE Aligned(d) /\ (ev = Welcome \/ OnRelayEvent(d, ev))
  <2>1. stream'[d] = "clean" /\ \A i \in 1..Len(Tail(out[c])) : Tail(out[c])[i] = Welcome => ~ shaken'[d]
    BY <1>11, <1>12 DEF Aligned
  <2>2. stream[d] = "clean" /\ (ev = Welcome => ~ shaken[d]) /\ (ev # Welcome => shaken' = shaken)
    BY <1>4, <2>1
  <2>3. ev = Welcome \/ OnRelayEvent(d, ev)
    BY <1>4, <2>1
  <2>4. ASSUME NEW i \in 1..Len(out[c]), out[c][i] = Welcome PROVE ~ shaken[d]
    <3>1. CASE i = 1
      BY <1>8, <2>2, <2>4, <3>1
    <3>2. CASE i - 1 \in 1..Len(Tail(out[c]))
      <4>1. Tail(out[c])[i - 1] = Welcome
        BY <1>7, <2>4, <3>2
      <4> QED
        BY <2>1, <2>2, <3>2, <4>1
    <3> QED
      BY <1>8, <3>1, <3>2
  <2> QED
    BY <2>2, <2>3, <2>4 DEF Aligned, c
<1>13. ASSUME Aligned(d)', NEW e \in Device, NEW v, Told(d, e, v) PROVE Told(d, e, v)'
  <2>1. Ends(Tail(out[c]), e, v, IF ev.peer = e THEN ev.ver ELSE known[d][e])
    BY <1>1, <1>2, <1>13, EndsTail DEF Told, c, ev
  <2>2. known'[d][e] = IF ev.peer = e THEN ev.ver ELSE known[d][e]
    <3>1. CASE ev = Welcome
      <4>1. ev.peer # e
        BY <3>1, RelayAssumption DEF Welcome
      <4> QED
        BY <1>4, <3>1, <4>1
    <3>2. CASE ev # Welcome /\ OnRelayEvent(d, ev)
      <4>1. ev.peer \in Device /\ (ev.op # "peer_online" => ev.ver = 0)
        BY <1>6, <3>2 DEF IsFrame
      <4> QED
        BY <3>2, <4>1 DEF OnRelayEvent, Inv, TypeOK
    <3> QED
      BY <1>12, <1>13, <3>1, <3>2
  <2> QED
    BY <1>11, <2>1, <2>2 DEF Told
<1>14. Complete(d)' /\ Exact(d)'
  <2>1. Complete(d) /\ Exact(d)
    BY DEF RosterInv, Roster
  <2>2. Complete(d)'
    BY <1>1, <1>10, <1>12, <1>13, <2>1 DEF Complete
  <2>3. Exact(d)'
    BY <1>1, <1>10, <1>12, <1>13, <2>1 DEF Exact
  <2> QED
    BY <2>2, <2>3
<1>15. Unheard(d)'
  <2> SUFFICES ASSUME Only(d), Awaiting(d)
               PROVE  (\A e \in Device : known'[d][e] = 0) /\ Silent(Tail(out[c]))
    BY <1>1, <1>10, <1>11 DEF Unheard
  <2>1. Silent(out[c]) /\ \A e \in Device : known[d][e] = 0
    BY <1>1 DEF RosterInv, Roster, Unheard, c
  <2>2. ev = Welcome
    BY <1>8, <2>1 DEF Silent
  <2> QED
    BY <1>4, <1>7, <2>1, <2>2 DEF Silent
<1> QED
  BY <1>9, <1>14, <1>15 DEF RosterInv, Roster

LEMMA HandshakeRoster ==
  ASSUME Inv, RosterInv, NEW c \in Conn, OnHandshakeWritten(c) \/ DropPending(c)
  PROVE  RosterInv'
<1>1. /\ state[c] = "handshake" /\ UNCHANGED <<clientVars, owner, dev, ver, routes>>
      /\ \A k \in Conn : k # c => state'[k] = state[k]
      /\ \/ state' = [state EXCEPT ![c] = "open"] /\ out' = Send(out, c, <<Welcome>>)
         \/ cur[owner[c]] # c /\ out' = out
  BY DEF OnHandshakeWritten, DropPending, Inv, TypeOK
<1>2. DOMAIN out = Conn /\ out[c] = <<>>
  BY <1>1 DEF Inv, OutInv
<1>3. \A k \in Conn : k # c => out'[k] = out[k]
  BY <1>1, <1>2, Sending
<1>4. ASSUME NEW d \in Device, cur[d] # c PROVE Roster(d)'
  <2>1. cur[d] # 0 => cur[d] \in Conn
    BY ServedFacts
  <2>2. Roster(d)
    BY DEF RosterInv
  <2> QED
    BY <1>1, <1>3, <1>4, <2>1, <2>2, Still DEF clientVars
<1>5. ASSUME NEW d \in Device, cur[d] = c PROVE Roster(d)'
  <2>1. cur[d] # 0 /\ owner[c] = d /\ ~ Served(d)
    BY <1>1, <1>5, ServedFacts, ConnNat
  <2>2. ~ Served(d)'
    BY <1>1, <2>1 DEF Served, clientVars
  <2>3. out'[c] = out[c] \o <<Welcome>>
    BY <1>1, <1>2, <1>5, <2>1 DEF Send
  <2>4. Silent(out'[c])
    <3>1. out'[c] = <<Welcome>>
      BY <1>2, <2>3
    <3> QED
      BY <3>1 DEF Silent
  <2>5. Unheard(d)'
    <3>1. Unheard(d) /\ (Only(d)' => Only(d))
      BY <1>1 DEF RosterInv, Roster, Only, clientVars
    <3>2. Awaiting(d)
      BY <1>1, <1>5, <2>1 DEF Awaiting, Served
    <3> QED
      BY <1>1, <1>5, <2>4, <3>1, <3>2 DEF Unheard, clientVars
  <2> QED
    BY <2>2, <2>5 DEF Roster, Complete, Exact
<1> QED
  BY <1>4, <1>5 DEF RosterInv

(* The queue of d grows by r.                                              *)
LEMMA Grown ==
  ASSUME Inv, NEW d \in Device, cur[d] # 0, UNCHANGED clientVars,
         NEW r, Written(r), out'[cur[d]] = out[cur[d]] \o r
  PROVE  /\ Aligned(d)' => Aligned(d)
         /\ \A e \in Device : \A v : Told(d, e, v) /\ Omits(r, e) => Told(d, e, v)'
         /\ \A e \in Device : \A v : SaysOnce(r, e, v) => Told(d, e, v)'
<1>1. /\ cur' = cur /\ known' = known /\ shaken' = shaken /\ stream' = stream
      /\ out[cur[d]] \in Seq(Event) /\ r \in Seq(Event)
  BY ServedFacts DEF clientVars, Written
<1>2. Aligned(d)' => Aligned(d)
  <2>1. \A i \in 1..Len(out[cur[d]]) :
          i \in 1..Len(out[cur[d]] \o r) /\ (out[cur[d]] \o r)[i] = out[cur[d]][i]
    BY <1>1
  <2> QED
    BY <1>1, <2>1 DEF Aligned
<1>3. \A e, v : Told(d, e, v) = Ends(out[cur[d]], e, v, known[d][e])
  BY DEF Told
<1>4. \A e, v : Told(d, e, v)' <=> Ends(out[cur[d]] \o r, e, v, known[d][e])
  BY <1>1 DEF Told
<1> QED
  BY <1>1, <1>2, <1>3, <1>4, EndsConcat

LEMMA RegisterRoster ==
  ASSUME Inv, RosterInv, NEW c \in Conn, Register(c) PROVE RosterInv'
<1>0. PICK s \in Device, v \in 0..MaxVersion : s = owner[c] /\ v = Head(regs[c])
  <2>1. regs[c] \in Seq(0..MaxVersion) /\ regs[c] # <<>> /\ state[c] = "open"
    BY DEF Inv, TypeOK, Register
  <2>2. owner[c] \in Device
    BY <2>1 DEF Inv, SlotInv
  <2> QED
    BY <2>1, <2>2, SeqTail
<1> DEFINE ev == Online(s, v)
<1>1. /\ state[c] = "open" /\ regs[c] # <<>>
      /\ routes' = [routes EXCEPT ![s] = c] /\ ver' = [ver EXCEPT ![c] = v]
      /\ UNCHANGED <<clientVars, owner, state>>
  BY <1>0 DEF Register
<1>2. Inv'
  BY RegisterInv
<1>3. /\ \A e \in Device : routes'[e] = IF e = s THEN c ELSE routes[e]
      /\ \A k \in Conn : ver'[k] = IF k = c THEN v ELSE ver[k]
  BY <1>1 DEF Inv, TypeOK
<1>4. ev.peer = s /\ ev.ver = v /\ Written(<<ev>>)
  BY Events, WrittenOne DEF Online
<1> HIDE DEF ev
<1>5. \A e \in Device : routes[e] # 0 => routes[e] \in Conn /\ dev[routes[e]] = e /\ owner[routes[e]] = e
  BY RelayAssumption DEF Inv, SlotInv
<1>6. \A e \in Device \ {s} : /\ routes'[e] = routes[e]
                              /\ routes[e] # 0 => ver'[routes[e]] = ver[routes[e]]
  BY <1>0, <1>3, <1>5
<1>7. UNCHANGED <<cur, known, stream, shaken>>
  BY <1>1 DEF clientVars
<1>8. \A d \in Device : Only(d)' <=> Only(d)
  BY <1>1, <1>7 DEF Only
<1>9. \A d \in Device, k \in Conn : dev'[k] = d <=> routes'[d] = k
  BY <1>2 DEF Inv, SlotInv
<1>10. ASSUME NEW d \in Device, d # s PROVE Roster(d)'
  <2> DEFINE k == cur[d]
  <2>1. Roster(d)
    BY DEF RosterInv
  <2>2. CASE k = 0
    <3>1. ~ Served(d)'
      BY <1>7, <2>2 DEF Served
    <3>2. Unheard(d)'
      BY <1>7, <1>8, <2>1, <2>2 DEF Roster, Unheard, Awaiting
    <3> QED
      BY <3>1, <3>2 DEF Roster, Complete, Exact
  <2>3. CASE k # 0
    <3>1. k \in Conn /\ k # c /\ owner[k] = d
      BY <1>0, <1>10, <2>3, ServedFacts
    <3>2. Served(d)' <=> Served(d)
      BY <1>3, <1>7, <1>9, <1>10, <2>3, <3>1 DEF Served, Inv, SlotInv
    <3>3. CASE Served(d)
      <4>1. state[k] = "open" /\ dev'[k] = d /\ d # None
        BY <1>7, <2>3, <3>2, <3>3, ServedFacts, RelayAssumption DEF Served
      <4>2. out'[k] = out[k] \o <<ev>>
        <5>1. ev = Online(owner[c], Head(regs[c])) /\ cur[owner[k]] = k /\ dev'[k] # None
          BY <1>0, <3>1, <4>1 DEF ev
        <5>2. out'[k] = IF state[k] = "open" /\ dev'[k] # None /\ cur[owner[k]] = k
                        THEN out[k] \o <<Online(owner[c], Head(regs[c]))>> ELSE out[k]
          BY <3>1, RegisterOut
        <5> QED
          BY <4>1, <5>1, <5>2
      <4>3. /\ Aligned(d)' => Aligned(d)
            /\ \A e \in Device : \A w : Told(d, e, w) /\ e # s => Told(d, e, w)'
            /\ Told(d, s, v)'
        <5> HIDE DEF k
        <5>1. UNCHANGED clientVars /\ cur[d] # 0 /\ out'[cur[d]] = out[cur[d]] \o <<ev>>
          BY <1>1, <2>3, <4>2 DEF k
        <5>2. \A e \in Device : e # s => Omits(<<ev>>, e)
          BY <1>4 DEF Omits
        <5>3. SaysOnce(<<ev>>, s, v)
          <6>1. Len(<<ev>>) = 1 /\ <<ev>>[1] = ev /\ \A i \in 1..1 : i = 1
            OBVIOUS
          <6> QED
            BY <1>4, <6>1 DEF SaysOnce
        <5>4. /\ Aligned(d)' => Aligned(d)
              /\ \A e \in Device : \A w : Told(d, e, w) /\ Omits(<<ev>>, e) => Told(d, e, w)'
              /\ \A e \in Device : \A w : SaysOnce(<<ev>>, e, w) => Told(d, e, w)'
          BY <1>4, <5>1, Grown
        <5> QED
          BY <5>2, <5>3, <5>4
      <4>4. Complete(d)'
        <5> SUFFICES ASSUME Aligned(d)', NEW e \in Device \ {d}, routes'[e] # 0
                     PROVE  Told(d, e, ver[routes[e]])'
          BY DEF Complete
        <5>1. CASE e = s
          BY <1>3, <4>3, <5>1
        <5>2. CASE e # s
          <6>1. Told(d, e, ver[routes[e]]) /\ routes'[e] = routes[e]
                /\ ver'[routes'[e]] = ver[routes[e]]
            BY <1>6, <2>1, <3>3, <4>3, <5>2 DEF Roster, Complete
          <6>2. \A w : Told(d, e, w) => Told(d, e, w)'
            BY <4>3, <5>2
          <6>3. Told(d, e, ver[routes[e]])'
            BY <1>7, <6>1, <6>2 DEF Told
          <6> QED
            BY <6>3
        <5> QED
          BY <5>1, <5>2
      <4>5. Exact(d)'
        <5> SUFFICES ASSUME Aligned(d)', Only(d)', NEW e \in Device, e = d \/ routes'[e] = 0
                     PROVE  Told(d, e, 0)'
          BY DEF Exact
        <5>1. e # s
          BY <1>3, <1>10, ConnNat
        <5>2. Told(d, e, 0)
          BY <1>6, <1>8, <2>1, <3>3, <4>3, <5>1 DEF Roster, Exact
        <5> QED
          BY <4>3, <5>1, <5>2
      <4>6. Unheard(d)'
        BY <1>7, <2>3, <3>2, <3>3 DEF Unheard, Awaiting, Served
      <4> QED
        BY <4>4, <4>5, <4>6 DEF Roster
    <3>4. CASE ~ Served(d)
      <4>1. dev'[k] = None
        BY <1>1, <1>2, <1>7, <2>3, <3>2, <3>4, ServedFacts DEF Served, Inv, SlotInv
      <4>2. out'[k] = out[k]
        BY <3>1, <4>1, RegisterOut
      <4>3. Unheard(d)'
        BY <1>1, <1>7, <1>8, <2>1, <3>4, <4>2 DEF Roster, Unheard, Awaiting, Served
      <4> QED
        BY <3>2, <3>4, <4>3 DEF Roster, Complete, Exact
    <3> QED
      BY <3>3, <3>4
  <2> QED
    BY <2>2, <2>3
<1>11. Roster(s)'
  <2>1. CASE cur[s] # c
    <3>1. ~ Served(s)'
      BY <1>2, <1>3, <1>7, <1>9, <2>1 DEF Served, Inv, TypeOK
    <3>2. ~ Only(s)'
      BY <1>0, <1>1, <1>7, <2>1 DEF Only
    <3> QED
      BY <3>1, <3>2 DEF Roster, Complete, Exact, Unheard
  <2>2. CASE cur[s] = c
    <3>1. cur[s] # 0 /\ out'[c] = out[c] \o Replay(c)
      <4>1. out'[c] = IF cur[owner[c]] = c THEN out[c] \o Replay(c) ELSE out[c]
        BY RegisterOut
      <4> QED
        BY <1>0, <2>2, <4>1, ConnNat
    <3>2. /\ Written(Replay(c))
          /\ \A e \in Device : IF e = s \/ routes[e] = 0 THEN Omits(Replay(c), e)
                               ELSE SaysOnce(Replay(c), e, ver[routes[e]])
      BY <1>0, <1>1, ReplayFacts
    <3>3. /\ Aligned(s)' => Aligned(s)
          /\ \A e \in Device : \A w : Told(s, e, w) /\ Omits(Replay(c), e) => Told(s, e, w)'
          /\ \A e \in Device : \A w : SaysOnce(Replay(c), e, w) => Told(s, e, w)'
      <4>1. PICK r : r = Replay(c)
        OBVIOUS
      <4>2. Written(r) /\ out'[cur[s]] = out[cur[s]] \o r
        BY <2>2, <3>1, <3>2, <4>1
      <4>3. /\ Aligned(s)' => Aligned(s)
            /\ \A e \in Device : \A w : Told(s, e, w) /\ Omits(r, e) => Told(s, e, w)'
            /\ \A e \in Device : \A w : SaysOnce(r, e, w) => Told(s, e, w)'
        BY <1>1, <3>1, <4>2, Grown
      <4> QED
        BY <4>1, <4>3
    <3>4. Complete(s)'
      <4> SUFFICES ASSUME NEW e \in Device \ {s}, routes'[e] # 0
                   PROVE  Told(s, e, ver[routes[e]])'
        BY DEF Complete
      <4>1. routes'[e] = routes[e] /\ ver'[routes'[e]] = ver[routes[e]]
        BY <1>6
      <4>2. \A w : w = ver[routes[e]] => Told(s, e, w)'
        BY <3>2, <3>3, <4>1
      <4> QED
        BY <4>1, <4>2
    <3>5. Exact(s)'
      <4> SUFFICES ASSUME Aligned(s)', Only(s)', NEW e \in Device, e = s \/ routes'[e] = 0
                   PROVE  Told(s, e, 0)'
        BY DEF Exact
      <4>1. e = s \/ routes[e] = 0
        BY <1>6
      <4>2. Told(s, e, 0)
        <5>1. CASE Served(s)
          BY <1>8, <3>3, <4>1, <5>1 DEF RosterInv, Roster, Exact
        <5>2. CASE ~ Served(s)
          <6>1. Awaiting(s) /\ Only(s)
            BY <1>1, <1>8, <2>2, <5>2 DEF Awaiting, Served
          <6>2. Silent(out[cur[s]]) /\ known[s][e] = 0
            BY <1>2, <3>1, <6>1 DEF RosterInv, Roster, Unheard
          <6>3. Welcome.peer # e
            BY RelayAssumption DEF Welcome
          <6> QED
            BY <6>2, <6>3 DEF Told, Ends, Omits, Silent
        <5> QED
          BY <5>1, <5>2
      <4>3. Omits(Replay(c), e)
        BY <3>2, <4>1
      <4> QED
        BY <3>3, <4>2, <4>3
    <3>6. Unheard(s)'
      <4>1. Served(s)'
        BY <1>2, <1>3, <1>7, <1>9, <2>2, <3>1 DEF Served
      <4> QED
        BY <4>1 DEF Unheard, Awaiting, Served
    <3> QED
      BY <3>4, <3>5, <3>6 DEF Roster
  <2> QED
    BY <2>1, <2>2
<1> QED
  BY <1>10, <1>11 DEF RosterInv

LEMMA ClosedRoster ==
  ASSUME Inv, RosterInv, NEW c \in Conn, OnClientClosed(c) PROVE RosterInv'
<1>1. /\ state[c] = "open" /\ state' = [state EXCEPT ![c] = "gone"]
      /\ dev' = [dev EXCEPT ![c] = None] /\ cur[owner[c]] # c
      /\ routes' = routes \/ (dev[c] # None /\ routes' = [routes EXCEPT ![dev[c]] = 0])
      /\ UNCHANGED <<clientVars, owner, ver>>
  BY DEF OnClientClosed
<1>2. UNCHANGED <<cur, known, stream, shaken>>
  BY <1>1 DEF clientVars
<1>3. /\ \A k \in Conn : k # c => dev'[k] = dev[k] /\ state'[k] = state[k]
      /\ \A e \in Device : routes'[e] = IF e = dev[c] THEN 0 ELSE routes[e]
  <2>1. \A k \in Conn : k # c => dev'[k] = dev[k] /\ state'[k] = state[k]
    BY <1>1 DEF Inv, TypeOK
  <2>2. \A e \in Device : e = dev[c] <=> routes[e] = c
    BY DEF Inv, SlotInv
  <2>3. dev[c] # None => routes' = [routes EXCEPT ![dev[c]] = 0]
    BY <2>2 DEF OnClientClosed, Inv, SlotInv
  <2>4. dev[c] = None => routes' = routes
    BY DEF OnClientClosed
  <2>5. \A e \in Device : routes'[e] = IF e = dev[c] THEN 0 ELSE routes[e]
    <3>1. routes \in [Device -> {0} \cup Conn]
      BY DEF Inv, TypeOK
    <3> QED
      BY <2>3, <2>4, <3>1, RelayAssumption
  <2> QED
    BY <2>1, <2>5
<1>4. \A d \in Device : Only(d)' <=> Only(d)
  BY <1>1, <1>2 DEF Only
<1>5. ASSUME NEW d \in Device PROVE Roster(d)'
  <2>1. Roster(d)
    BY DEF RosterInv
  <2>2. CASE cur[d] = 0
    <3>1. ~ Served(d)'
      BY <1>2, <2>2 DEF Served
    <3>2. Unheard(d)'
      BY <1>2, <1>4, <2>1, <2>2 DEF Roster, Unheard, Awaiting
    <3> QED
      BY <3>1, <3>2 DEF Roster, Complete, Exact
  <2>3. CASE cur[d] # 0
    <3>1. cur[d] \in Conn /\ cur[d] # c /\ owner[cur[d]] = d
      BY <1>1, <2>3, ServedFacts
    <3>2. (Served(d)' <=> Served(d)) /\ (Awaiting(d)' <=> Awaiting(d))
      BY <1>2, <1>3, <3>1 DEF Served, Awaiting
    <3>3. CASE ~ Served(d)
      <4>1. dev[cur[d]] = None
        BY <2>3, <3>3, ServedFacts
      <4>2. out'[cur[d]] = out[cur[d]]
        BY <3>1, <4>1, ClosedOut
      <4>3. Unheard(d)'
        BY <1>2, <1>4, <2>1, <3>2, <4>2 DEF Roster, Unheard
      <4> QED
        BY <3>2, <3>3, <4>3 DEF Roster, Complete, Exact
    <3>4. CASE Served(d) /\ dev[c] = None
      <4>1. out'[cur[d]] = out[cur[d]]
        BY <3>1, <3>4, ClosedOut
      <4>2. \A e \in Device : routes'[e] = routes[e]
        BY <1>3, <3>4, RelayAssumption
      <4>3. /\ Aligned(d)' <=> Aligned(d)
            /\ \A e, w : Told(d, e, w)' <=> Told(d, e, w)
        BY <1>2, <4>1 DEF Aligned, Told
      <4>4. Complete(d)'
        BY <1>1, <2>1, <3>2, <4>2, <4>3 DEF Roster, Complete
      <4>5. Exact(d)'
        BY <1>4, <2>1, <3>2, <4>2, <4>3 DEF Roster, Exact
      <4>6. Unheard(d)'
        BY <1>2, <1>4, <2>1, <3>2, <4>1 DEF Roster, Unheard
      <4> QED
        BY <4>4, <4>5, <4>6 DEF Roster
    <3>5. CASE Served(d) /\ dev[c] # None
      <4>1. PICK s \in Device : s = dev[c]
        BY <3>5, ClosedOut
      <4>2. /\ Offline(s).peer = s /\ Offline(s).ver = 0 /\ Written(<<Offline(s)>>)
        BY Events, WrittenOne DEF Offline
      <4> DEFINE r == <<Offline(s)>>
      <4>3. out'[cur[d]] = out[cur[d]] \o r
        <5>1. state[cur[d]] = "open" /\ dev[cur[d]] # None /\ cur[owner[cur[d]]] = cur[d]
          BY <2>3, <3>1, <3>5, ServedFacts, RelayAssumption DEF Served
        <5>2. out'[cur[d]] = IF /\ dev[c] # None /\ cur[d] # c /\ state[cur[d]] = "open"
                                /\ dev[cur[d]] # None /\ cur[owner[cur[d]]] = cur[d]
                             THEN out[cur[d]] \o <<Offline(dev[c])>> ELSE out[cur[d]]
          BY <3>1, ClosedOut
        <5> QED
          BY <3>1, <3>5, <4>1, <5>1, <5>2
      <4>4. SaysOnce(r, s, 0) /\ \A e : e # s => Omits(r, e)
        <5>1. Len(r) = 1 /\ r[1] = Offline(s) /\ \A i \in 1..1 : i = 1
          OBVIOUS
        <5> HIDE DEF r
        <5> QED
          BY <4>2, <5>1 DEF Omits, SaysOnce
      <4>5. /\ Aligned(d)' => Aligned(d)
            /\ \A e \in Device : \A w : Told(d, e, w) /\ e # s => Told(d, e, w)'
            /\ Told(d, s, 0)'
        <5>1. Written(r)
          BY <4>2
        <5> HIDE DEF r
        <5>2. /\ Aligned(d)' => Aligned(d)
              /\ \A e \in Device : \A w : Told(d, e, w) /\ Omits(r, e) => Told(d, e, w)'
              /\ \A e \in Device : \A w : SaysOnce(r, e, w) => Told(d, e, w)'
          BY <1>1, <2>3, <4>3, <5>1, Grown
        <5> QED
          BY <4>4, <5>2
      <4> HIDE DEF r
      <4>6. Complete(d)'
        <5> SUFFICES ASSUME Aligned(d)', NEW e \in Device \ {d}, routes'[e] # 0
                     PROVE  Told(d, e, ver[routes[e]])'
          BY DEF Complete
        <5>1. e # s /\ routes'[e] = routes[e]
          BY <1>3, <4>1
        <5>2. Told(d, e, ver[routes[e]])
          BY <2>1, <3>5, <4>5, <5>1 DEF Roster, Complete
        <5>3. ver'[routes'[e]] = ver[routes[e]]
          BY <1>1, <5>1
        <5>4. \A w : w = ver[routes[e]] => Told(d, e, w)'
          BY <4>5, <5>1, <5>2
        <5> QED
          BY <5>3, <5>4
      <4>7. Exact(d)'
        <5> SUFFICES ASSUME Aligned(d)', Only(d)', NEW e \in Device, e = d \/ routes'[e] = 0
                     PROVE  Told(d, e, 0)'
          BY DEF Exact
        <5>1. CASE e = s
          BY <4>5, <5>1
        <5>2. CASE e # s
          <6>1. Told(d, e, 0)
            BY <1>3, <1>4, <2>1, <3>5, <4>1, <4>5, <5>2 DEF Roster, Exact
          <6> QED
            BY <4>5, <5>2, <6>1
        <5> QED
          BY <5>1, <5>2
      <4>8. Unheard(d)'
        BY <2>3, <3>2, <3>5 DEF Unheard, Awaiting, Served
      <4> QED
        BY <4>6, <4>7, <4>8 DEF Roster
    <3> QED
      BY <3>3, <3>4, <3>5
  <2> QED
    BY <2>2, <2>3
<1> QED
  BY <1>5 DEF RosterInv

LEMMA RestartRelayRoster ==
  ASSUME Inv, RosterInv, RestartRelay PROVE RosterInv'
<1>1. /\ state' = [c \in Conn |-> IF state[c] = "free" THEN "free" ELSE "gone"]
      /\ dev' = [c \in Conn |-> None] /\ UNCHANGED <<cur, known, owner>>
  BY DEF RestartRelay, clientVars
<1>2. ASSUME NEW d \in Device PROVE Roster(d)'
  <2>1. ~ Served(d)'
    BY <1>1, ServedFacts, RelayAssumption DEF Served
  <2>2. Unheard(d)'
    <3>1. Unheard(d) /\ (Only(d)' => Only(d))
      BY <1>1 DEF RosterInv, Roster, Only
    <3>2. Awaiting(d)' => cur[d] = 0
      BY <1>1, ServedFacts DEF Awaiting
    <3> QED
      BY <1>1, <3>1, <3>2 DEF Unheard, Awaiting
  <2> QED
    BY <2>1, <2>2 DEF Roster, Complete, Exact
<1> QED
  BY <1>2 DEF RosterInv

LEMMA InitRoster == ASSUME Init PROVE RosterInv
  BY DEF Init, RosterInv, Roster, Complete, Exact, Unheard, Served

LEMMA NextRoster == ASSUME Inv, RosterInv, [Next]_vars PROVE RosterInv'
<1>1. ASSUME NEW d \in Device,
             \/ \E c \in Conn : OnConnected(d, c)
             \/ OnRecv(d) \/ ConnectionLost(d) \/ RestartDaemon(d)
      PROVE  RosterInv'
  BY <1>1, ConnectedRoster, OnRecvRoster, ClientLeavesRoster
<1>2. ASSUME NEW c \in Conn,
             OnHandshakeWritten(c) \/ DropPending(c) \/ Register(c) \/ OnClientClosed(c)
      PROVE  RosterInv'
  BY <1>2, HandshakeRoster, RegisterRoster, ClosedRoster
<1>3. CASE RestartRelay
  BY <1>3, RestartRelayRoster
<1>4. CASE (\E d \in Device : SetRegisterPayload(d)) \/ UNCHANGED vars
  <2>1. UNCHANGED <<cur, known, stream, shaken, owner, out, dev, state, routes, ver>>
    BY <1>4 DEF SetRegisterPayload, vars, clientVars, serverVars
  <2> QED
    BY <2>1, Still DEF RosterInv
<1> QED
  BY <1>1, <1>2, <1>3, <1>4 DEF Next, ClientStep, ServerStep

LEMMA RosterInvariance == Spec => []RosterInv
<1>1. Init => RosterInv
  BY InitRoster
<1>2. Inv /\ RosterInv /\ [Next]_vars => RosterInv'
  BY NextRoster
<1> QED
  BY <1>1, <1>2, Invariance, PTL DEF Spec

------------------------------------------------------------------------------
(* What follows *)

(* The tables of the relay server and of its clients, and the queues       *)
(* between them, stay in their types (relay_server.cc, relay_client.cc).   *)
THEOREM TypeCorrect == Spec => []TypeOK
<1>1. Inv => TypeOK
  BY DEF Inv
<1> QED
  BY <1>1, Invariance, PTL

(* What a registered daemon will believe, once it has read all that is on  *)
(* its way, of a device that has a route is the device's last registration:*)
(* neither the replay nor the broadcasts of Register leave anyone out, in  *)
(* whatever order devices register, leave and displace their old slots.    *)
THEOREM NobodyIsMissing == Spec => []RosterComplete
<1>1. Inv /\ RosterInv => RosterComplete
  <2> SUFFICES ASSUME Inv, RosterInv, NEW d \in Device, Served(d), Aligned(d),
                      NEW e \in Device \ {d}, routes[e] # 0
               PROVE  Believed(d, e) = Registered(e)
    BY DEF RosterComplete
  <2>1. Told(d, e, ver[routes[e]]) /\ cur[d] # 0
    BY DEF RosterInv, Roster, Complete, Served
  <2> QED
    BY <2>1, EndsBelieved DEF Registered
<1> QED
  BY <1>1, Invariance, RosterInvariance, PTL

(* On the first connection of a daemon what it will believe is exact: a    *)
(* device whose route is gone is taken away again (OnClientClosed), and the*)
(* daemon is told nothing of itself.                                       *)
THEOREM NobodyLingers == Spec => []RosterExact
<1>1. Inv /\ RosterInv => RosterExact
  <2> SUFFICES ASSUME Inv, RosterInv, NEW d \in Device, Served(d), Aligned(d), Only(d),
                      NEW e \in Device
               PROVE  Believed(d, e) = IF e = d THEN 0 ELSE Registered(e)
    BY DEF RosterExact, Only
  <2>1. cur[d] # 0
    BY DEF Served
  <2>2. CASE e = d \/ routes[e] = 0
    <3>1. Told(d, e, 0)
      BY <2>2 DEF RosterInv, Roster, Exact
    <3> QED
      BY <2>1, <2>2, <3>1, EndsBelieved DEF Registered
  <2>3. CASE e # d /\ routes[e] # 0
    <3>1. Told(d, e, ver[routes[e]])
      BY <2>3 DEF RosterInv, Roster, Complete
    <3> QED
      BY <2>1, <2>3, <3>1, EndsBelieved DEF Registered
  <2> QED
    BY <2>2, <2>3
<1> QED
  BY <1>1, Invariance, RosterInvariance, PTL
=============================================================================
