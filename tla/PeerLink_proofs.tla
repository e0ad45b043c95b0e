---------------------------- MODULE PeerLink_proofs ----------------------------
(***************************************************************************)
(* Theorems about PeerLink, for every set of devices and addresses and     *)
(* every value of the bounds.                                              *)
(***************************************************************************)
EXTENDS PeerLink, SequenceTheorems, WellFoundedInduction, TLAPS

(* A nonempty set of candidates has a best one.                            *)
LEMMA BestInSet ==
  ASSUME NEW S \in SUBSET Addr, S # {}
  PROVE  Best(S) \in S
<1>1. IsWellFoundedOn(OpToRel(<, Nat), Nat)
  BY NatLessThanWellFounded, Zenon
<1>2. S \subseteq Nat
  BY PeerLinkAssumption
<1>3. PICK x \in S : \A y \in S : <<y, x>> \notin OpToRel(<, Nat)
  BY <1>1, <1>2, WFMin, Zenon
<1>4. ASSUME NEW y \in S PROVE x <= y
  <2>1. x \in Nat /\ y \in Nat
    BY <1>2
  <2>2. <<y, x>> \in OpToRel(<, Nat) <=> y < x
    BY <2>1 DEF OpToRel
  <2>3. ~(y < x)
    BY <1>3, <2>2, Zenon
  <2>4. QED BY <2>1, <2>3
<1>5. QED
  BY <1>4 DEF Best

(* Dialling the next candidate keeps the dial state well formed.           *)
LEMMA DialNextType ==
  ASSUME NEW l \in DialState, NEW known \in SUBSET Addr,
         NEW frame \in Frame \cup {NoFrame}
  PROVE  DialNext(l, known, frame) \in DialState
<1> DEFINE left == IF l.plan = NoPlan THEN known ELSE l.plan
           host == NextCandidate(left, l.route)
<1>1. left \in SUBSET Addr
  BY DEF DialState
<1>2. ASSUME left # {} PROVE host \in Addr
  BY <1>1, <1>2, BestInSet DEF NextCandidate
<1>3. CASE known = {}
  BY <1>3 DEF DialNext
<1>4. CASE known # {} /\ left = {}
  <2>1. DialNext(l, known, frame) = [l EXCEPT !.plan = NoPlan, !.pending = NoFrame]
    BY <1>4 DEF DialNext
  <2>2. QED BY <2>1 DEF DialState
<1>5. CASE known # {} /\ left # {}
  <2>1. DialNext(l, known, frame) =
          [l EXCEPT !.plan = left \ {host}, !.dialing = host,
                    !.pending = IF frame = NoFrame THEN @ ELSE frame]
    BY <1>5 DEF DialNext
  <2>2. left \ {host} \in SUBSET Addr /\ host \in Addr
    BY <1>1, <1>2, <1>5
  <2> HIDE DEF left, host
  <2>3. QED BY <2>1, <2>2 DEF DialState
<1>6. QED BY <1>3, <1>4, <1>5

LEMMA EnsureConnectionType ==
  ASSUME NEW l \in DialState, NEW known \in SUBSET Addr
  PROVE  EnsureConnection(l, known) \in DialState
BY DialNextType DEF EnsureConnection

LEMMA AfterFailureType ==
  ASSUME NEW l \in DialState, NEW known \in SUBSET Addr
  PROVE  AfterFailure(l, known) \in DialState
<1> DEFINE m == [l EXCEPT !.dialing = NoAddr,
                          !.route = IF @ = l.dialing THEN NoAddr ELSE @]
<1>1. m \in DialState
  BY DEF DialState
<1>2. QED BY <1>1, DialNextType DEF AfterFailure

LEMMA Frames ==
  /\ \A n \in Nat : Chat(n) \in Frame /\ Ack(n) \in Frame /\ Direct(n) \in Frame
  /\ NoFrame \notin Frame
BY DEF Chat, Ack, Direct, Frame, NoFrame

LEMMA AsFramesType ==
  ASSUME NEW q \in Seq(Nat)
  PROVE  AsFrames(q) \in Seq(Frame)
BY Frames DEF AsFrames

(* Replacing one entry of a table indexed by two devices.                  *)
LEMMA UpdateType ==
  ASSUME NEW T, NEW f \in [Device -> [Device -> T]],
         NEW a \in Device, NEW b \in Device, NEW v \in T
  PROVE  [f EXCEPT ![a][b] = v] \in [Device -> [Device -> T]]
OBVIOUS

(* What TypeOK says of one pair of devices.                                *)
LEMMA PairType ==
  ASSUME TypeOK, NEW a \in Device, NEW b \in Device
  PROVE  /\ addrs[a][b] \in SUBSET Addr
         /\ dial[a][b] \in DialState
         /\ conn[a][b] \in {"none", "open", "half"}
         /\ wire[a][b] \in Seq(Frame)
         /\ queue[a][b] \in Seq(Nat)
         /\ sent[a][b] \in Nat
         /\ inLog[a][b] \in Seq(Nat)
         /\ receipts[a][b] \in SUBSET Nat
         /\ direct[a][b] \in Nat
BY DEF TypeOK

LEMMA ConnType ==
  ASSUME TypeOK, NEW a \in Device, NEW b \in Device, NEW c \in {"none", "open", "half"}
  PROVE  [conn EXCEPT ![a][b] = c] \in [Device -> [Device -> {"none", "open", "half"}]]
BY DEF TypeOK

(* A fault that is still allowed keeps the count in its bounds.            *)
LEMMA FaultsType ==
  ASSUME TypeOK
  PROVE  /\ faults \in 0..MaxFaults
         /\ faults < MaxFaults => faults + 1 \in 0..MaxFaults
<1>1. faults \in 0..MaxFaults
  BY DEF TypeOK
<1>2. MaxFaults \in Nat
  BY PeerLinkAssumption
<1>3. QED BY <1>1, <1>2

LEMMA TransmitType ==
  ASSUME NEW w \in [Device -> [Device -> Seq(Frame)]],
         NEW a \in Device, NEW b \in Device, NEW frames \in Seq(Frame)
  PROVE  Transmit(a, b, w, frames) \in [Device -> [Device -> Seq(Frame)]]
<1>1. w[a][b] \o frames \in Seq(Frame)
  <2>1. w[a][b] \in Seq(Frame)
    OBVIOUS
  <2>2. QED BY <2>1
<1>2. [w EXCEPT ![a][b] = w[a][b] \o frames] \in [Device -> [Device -> Seq(Frame)]]
  BY <1>1, UpdateType
<1>3. QED BY <1>2 DEF Transmit

(* Both ways of sending keep the wire and the dial state well formed.      *)
LEMMA SendType ==
  ASSUME TypeOK, NEW a \in Device, NEW b \in Device,
         NEW known \in SUBSET Addr, NEW frame \in Frame,
         NEW w \in [Device -> [Device -> Seq(Frame)]],
         SendPeerEnvelope(a, b, known, w, frame)
  PROVE  /\ wire' \in [Device -> [Device -> Seq(Frame)]]
         /\ dial' \in [Device -> [Device -> DialState]]
<1>1. <<frame>> \in Seq(Frame)
  OBVIOUS
<1>2. Transmit(a, b, w, <<frame>>) \in [Device -> [Device -> Seq(Frame)]]
  BY <1>1, TransmitType
<1>3. DialNext(dial[a][b], known, frame) \in DialState
  BY PairType, DialNextType
<1>4. dial \in [Device -> [Device -> DialState]]
  BY DEF TypeOK
<1>5. [dial EXCEPT ![a][b] = DialNext(dial[a][b], known, frame)]
        \in [Device -> [Device -> DialState]]
  BY <1>3, <1>4, UpdateType
<1>6. QED
  BY <1>2, <1>4, <1>5 DEF SendPeerEnvelope

LEMMA RedeliverType ==
  ASSUME TypeOK, NEW a \in Device, NEW b \in Device,
         NEW known \in SUBSET Addr, MaybeRedeliver(a, b, known)
  PROVE  /\ wire' \in [Device -> [Device -> Seq(Frame)]]
         /\ dial' \in [Device -> [Device -> DialState]]
         /\ queue' \in [Device -> [Device -> Seq(Nat)]]
<1>1. /\ wire \in [Device -> [Device -> Seq(Frame)]]
      /\ dial \in [Device -> [Device -> DialState]]
      /\ queue \in [Device -> [Device -> Seq(Nat)]]
  BY DEF TypeOK
<1>2. AsFrames(queue[a][b]) \in Seq(Frame)
  BY PairType, AsFramesType
<1>3. Transmit(a, b, wire, AsFrames(queue[a][b])) \in [Device -> [Device -> Seq(Frame)]]
  BY <1>1, <1>2, TransmitType
<1>4. EnsureConnection(dial[a][b], known) \in DialState
  BY PairType, EnsureConnectionType
<1>5. [dial EXCEPT ![a][b] = EnsureConnection(dial[a][b], known)]
        \in [Device -> [Device -> DialState]]
  BY <1>1, <1>4, UpdateType
<1>6. [queue EXCEPT ![a][b] = <<>>] \in [Device -> [Device -> Seq(Nat)]]
  BY <1>1, UpdateType
<1>7. QED
  BY <1>1, <1>3, <1>5, <1>6 DEF MaybeRedeliver

(* TypeOK is an inductive invariant: one step per action.                  *)
THEOREM TypeCorrect == Spec => []TypeOK
<1>1. Init => TypeOK
  BY PeerLinkAssumption
     DEF Init, TypeOK, PerPeer, NoDial, DialState, NoFrame, NoPlan
<1>2. TypeOK /\ [Next]_vars => TypeOK'
  <2>0. SUFFICES ASSUME TypeOK, [Next]_vars PROVE TypeOK'
    OBVIOUS
  <2>1. ASSUME NEW a \in Device, NEW b \in Device, SendChat(a, b) PROVE TypeOK'
    <3> DEFINE n == sent[a][b] + 1
    <3>1. n \in Nat /\ Chat(n) \in Frame
      BY <2>0, PairType, Frames
    <3>2. [sent EXCEPT ![a][b] = n] \in [Device -> [Device -> Nat]]
      BY <2>0, <3>1 DEF TypeOK
    <3>3. Transmit(a, b, wire, <<Chat(n)>>) \in [Device -> [Device -> Seq(Frame)]]
      <4>1. wire \in [Device -> [Device -> Seq(Frame)]]
        BY <2>0 DEF TypeOK
      <4>2. <<Chat(n)>> \in Seq(Frame)
        BY <3>1
      <4>3. QED BY <4>1, <4>2, TransmitType
    <3>4. QueueOffline(queue[a][b], n) \in Seq(Nat)
      <4>1. queue[a][b] \in Seq(Nat)
        BY <2>0, PairType
      <4>2. Append(queue[a][b], n) \in Seq(Nat) /\ Append(queue[a][b], n) # <<>>
        BY <3>1, <4>1
      <4>3. QED BY <4>2 DEF QueueOffline
    <3>5. [queue EXCEPT ![a][b] = QueueOffline(@, n)] \in [Device -> [Device -> Seq(Nat)]]
      BY <2>0, <3>4 DEF TypeOK
    <3>6. EnsureConnection(dial[a][b], addrs[a][b]) \in DialState
      BY <2>0, PairType, EnsureConnectionType
    <3>7. [dial EXCEPT ![a][b] = EnsureConnection(@, addrs[a][b])]
            \in [Device -> [Device -> DialState]]
      BY <2>0, <3>6 DEF TypeOK
    <3>8. /\ wire' \in [Device -> [Device -> Seq(Frame)]]
          /\ dial' \in [Device -> [Device -> DialState]]
          /\ queue' \in [Device -> [Device -> Seq(Nat)]]
      BY <2>0, <2>1, <3>3, <3>5, <3>7 DEF SendChat, TypeOK
    <3>9. QED
      BY <2>0, <2>1, <3>2, <3>8 DEF SendChat, TypeOK
  <2>2. ASSUME NEW a \in Device, NEW b \in Device, SendDirect(a, b) PROVE TypeOK'
    <3>1. direct[a][b] + 1 \in Nat
      <4>1. direct[a][b] \in Nat
        BY <2>0, PairType
      <4>2. QED BY <4>1
    <3>2. [direct EXCEPT ![a][b] = direct[a][b] + 1] \in [Device -> [Device -> Nat]]
      <4>1. direct \in [Device -> [Device -> Nat]]
        BY <2>0 DEF TypeOK
      <4>2. QED BY <3>1, <4>1, UpdateType
    <3>3. SendPeerEnvelope(a, b, addrs[a][b], wire, Direct(direct[a][b] + 1))
      BY <2>2 DEF SendDirect
    <3>4. addrs[a][b] \in SUBSET Addr /\ wire \in [Device -> [Device -> Seq(Frame)]]
      BY <2>0, PairType DEF TypeOK
    <3>5. /\ wire' \in [Device -> [Device -> Seq(Frame)]]
          /\ dial' \in [Device -> [Device -> DialState]]
      BY <2>0, <3>1, <3>3, <3>4, Frames, SendType
    <3>6. QED
      BY <2>0, <2>2, <3>2, <3>5 DEF SendDirect, TypeOK
  <2>3. ASSUME NEW a \in Device, NEW b \in Device, NEW S \in SUBSET Addr \ {{}},
               OnLanPeer(a, b, S)
        PROVE  TypeOK'
    <3>1. addrs[a][b] \cup S \in SUBSET Addr
      BY <2>0, PairType
    <3>2. [addrs EXCEPT ![a][b] = addrs[a][b] \cup S] \in [Device -> [Device -> SUBSET Addr]]
      BY <2>0, <3>1 DEF TypeOK
    <3>3. MaybeRedeliver(a, b, addrs[a][b] \cup S)
      BY <2>3 DEF OnLanPeer
    <3>4. /\ wire' \in [Device -> [Device -> Seq(Frame)]]
          /\ dial' \in [Device -> [Device -> DialState]]
          /\ queue' \in [Device -> [Device -> Seq(Nat)]]
      BY <2>0, <3>1, <3>3, RedeliverType
    <3>5. QED
      BY <2>0, <2>3, <3>2, <3>4 DEF OnLanPeer, TypeOK, ledgers
  <2>4. ASSUME NEW a \in Device, NEW b \in Device, LosePeer(a, b) PROVE TypeOK'
    <3>1. faults' \in 0..MaxFaults
      BY <2>0, <2>4, FaultsType DEF LosePeer
    <3>2. QED
      BY <2>0, <2>4, <3>1 DEF LosePeer, TypeOK, ledgers
  <2>5. ASSUME NEW a \in Device, NEW b \in Device, DialSucceeded(a, b) PROVE TypeOK'
    <3> DEFINE parked == IF dial[a][b].pending = NoFrame THEN <<>>
                         ELSE <<dial[a][b].pending>>
               frames == AsFrames(queue[a][b]) \o parked
    <3>1. dial[a][b] \in DialState
      BY <2>0, PairType
    <3>2. [NoDial EXCEPT !.route = dial[a][b].dialing] \in DialState
      BY <3>1 DEF NoDial, DialState
    <3>3. parked \in Seq(Frame)
      BY <3>1 DEF DialState
    <3>4. AsFrames(queue[a][b]) \in Seq(Frame)
      BY <2>0, PairType, AsFramesType
    <3>5. frames \in Seq(Frame)
      <4> HIDE DEF parked
      <4>1. QED BY <3>3, <3>4
    <3> HIDE DEF frames
    <3>6. [wire EXCEPT ![a][b] = frames] \in [Device -> [Device -> Seq(Frame)]]
      BY <2>0, <3>5 DEF TypeOK
    <3>7. wire' = [wire EXCEPT ![a][b] = frames]
      BY <2>5 DEF DialSucceeded, frames
    <3>8. dial' \in [Device -> [Device -> DialState]]
      BY <2>0, <2>5, <3>2 DEF DialSucceeded, TypeOK
    <3>9. /\ conn' \in [Device -> [Device -> {"none", "open", "half"}]]
          /\ queue' \in [Device -> [Device -> Seq(Nat)]]
      <4>1. queue' \in [Device -> [Device -> Seq(Nat)]]
        <5>1. queue \in [Device -> [Device -> Seq(Nat)]] /\ <<>> \in Seq(Nat)
          BY <2>0 DEF TypeOK
        <5>2. [queue EXCEPT ![a][b] = <<>>] \in [Device -> [Device -> Seq(Nat)]]
          BY <5>1, UpdateType
        <5>3. QED BY <2>5, <5>2 DEF DialSucceeded
      <4>2. QED BY <2>0, <2>5, <4>1, ConnType DEF DialSucceeded
    <3>10. QED
      BY <2>0, <2>5, <3>6, <3>7, <3>8, <3>9 DEF DialSucceeded, TypeOK, ledgers
  <2>6. ASSUME NEW a \in Device, NEW b \in Device, DialFailed(a, b) PROVE TypeOK'
    <3>1. AfterFailure(dial[a][b], addrs[a][b]) \in DialState
      BY <2>0, PairType, AfterFailureType
    <3>2. dial' \in [Device -> [Device -> DialState]]
      BY <2>0, <2>6, <3>1 DEF DialFailed, TypeOK
    <3>3. faults' \in 0..MaxFaults
      BY <2>0, <2>6, FaultsType DEF DialFailed
    <3>4. QED
      BY <2>0, <2>6, <3>2, <3>3 DEF DialFailed, TypeOK, ledgers
  <2>7. ASSUME NEW a \in Device, NEW b \in Device, LinkBreaks(a, b) PROVE TypeOK'
    <3>1. faults' \in 0..MaxFaults
      BY <2>0, <2>7, FaultsType DEF LinkBreaks
    <3>2. conn' \in [Device -> [Device -> {"none", "open", "half"}]]
      BY <2>0, <2>7, ConnType DEF LinkBreaks
    <3>3. wire' \in [Device -> [Device -> Seq(Frame)]]
      <4>1. wire \in [Device -> [Device -> Seq(Frame)]] /\ <<>> \in Seq(Frame)
        BY <2>0 DEF TypeOK
      <4>2. [wire EXCEPT ![a][b] = <<>>] \in [Device -> [Device -> Seq(Frame)]]
        BY <4>1, UpdateType
      <4>3. QED BY <2>7, <4>2 DEF LinkBreaks
    <3>4. UNCHANGED <<up, addrs, dial, queue, ledgers, direct, crashes>>
      BY <2>7 DEF LinkBreaks
    <3>5. QED
      BY <2>0, <3>1, <3>2, <3>3, <3>4 DEF TypeOK, ledgers
  <2>8. ASSUME NEW a \in Device, NEW b \in Device, OnOutgoingClosed(a, b) PROVE TypeOK'
    <3>1. conn' \in [Device -> [Device -> {"none", "open", "half"}]]
      BY <2>0, <2>8, ConnType DEF OnOutgoingClosed
    <3>2. UNCHANGED <<up, addrs, dial, wire, queue, ledgers, direct, faults, crashes>>
      BY <2>8 DEF OnOutgoingClosed
    <3>3. QED
      BY <2>0, <3>1, <3>2 DEF TypeOK, ledgers
  <2>9. ASSUME NEW a \in Device, NEW b \in Device, NEW h \in Addr,
               HandleInboundPeerEnvelope(a, b, h)
        PROVE  TypeOK'
    <3> DEFINE f == Head(wire[a][b])
               rest == [wire EXCEPT ![a][b] = Tail(@)]
               known == addrs[b][a] \cup {h}
    <3>1. wire[a][b] \in Seq(Frame) /\ wire[a][b] # <<>>
      BY <2>0, <2>9, PairType DEF HandleInboundPeerEnvelope
    <3>2. f \in Frame /\ Tail(wire[a][b]) \in Seq(Frame)
      BY <3>1
    <3>3. f.n \in Nat
      BY <3>2 DEF Frame
    <3>4. rest \in [Device -> [Device -> Seq(Frame)]]
      BY <2>0, <3>2 DEF TypeOK
    <3>5. known \in SUBSET Addr
      BY <2>0, PairType
    <3>6. addrs' \in [Device -> [Device -> SUBSET Addr]]
      BY <2>0, <2>9, <3>5 DEF HandleInboundPeerEnvelope, TypeOK
    <3>7. CASE f.kind = "chat"
      <4>1. /\ inLog' = [inLog EXCEPT ![b][a] = AppendOnce(@, f.n)]
            /\ SendPeerEnvelope(b, a, known, rest, Ack(f.n))
            /\ UNCHANGED receipts
        BY <2>9, <3>7 DEF HandleInboundPeerEnvelope
      <4>2. /\ wire' \in [Device -> [Device -> Seq(Frame)]]
            /\ dial' \in [Device -> [Device -> DialState]]
        <5> HIDE DEF f, rest, known
        <5>1. QED BY <2>0, <3>3, <3>4, <3>5, <4>1, Frames, SendType
      <4>3. inLog' \in [Device -> [Device -> Seq(Nat)]]
        <5>1. inLog[b][a] \in Seq(Nat)
          BY <2>0, PairType
        <5>2. AppendOnce(inLog[b][a], f.n) \in Seq(Nat)
          <6> HIDE DEF f
          <6>1. QED BY <3>3, <5>1 DEF AppendOnce
        <5>3. inLog \in [Device -> [Device -> Seq(Nat)]]
          BY <2>0 DEF TypeOK
        <5>4. [inLog EXCEPT ![b][a] = AppendOnce(inLog[b][a], f.n)]
                \in [Device -> [Device -> Seq(Nat)]]
          BY <5>2, <5>3, UpdateType
        <5>5. QED BY <4>1, <5>4
      <4>4. QED
        BY <2>0, <2>9, <3>6, <4>1, <4>2, <4>3 DEF HandleInboundPeerEnvelope, TypeOK
    <3>8. CASE f.kind # "chat"
      <4>1. /\ wire' = rest
            /\ UNCHANGED <<dial, inLog>>
            /\ \/ receipts' = [receipts EXCEPT ![b][a] = @ \cup {f.n}]
               \/ UNCHANGED receipts
        BY <2>9, <3>8 DEF HandleInboundPeerEnvelope
      <4>2. receipts' \in [Device -> [Device -> SUBSET Nat]]
        <5>1. receipts[b][a] \cup {f.n} \in SUBSET Nat
          BY <2>0, <3>3, PairType
        <5>2. receipts \in [Device -> [Device -> SUBSET Nat]]
          BY <2>0 DEF TypeOK
        <5>3. [receipts EXCEPT ![b][a] = receipts[b][a] \cup {f.n}]
                \in [Device -> [Device -> SUBSET Nat]]
          BY <5>1, <5>2, UpdateType
        <5>4. QED BY <4>1, <5>2, <5>3
      <4>3. QED
        BY <2>0, <2>9, <3>4, <3>6, <4>1, <4>2 DEF HandleInboundPeerEnvelope, TypeOK
    <3>9. QED BY <3>7, <3>8
  <2>10. ASSUME NEW a \in Device, Crash(a) PROVE TypeOK'
    <3>1. NoDial \in DialState
      BY DEF NoDial, DialState
    <3>2. crashes' \in 0..MaxCrashes
      BY <2>0, <2>10, PeerLinkAssumption DEF Crash, TypeOK
    <3>3. /\ dial' \in [Device -> [Device -> DialState]]
          /\ addrs' \in [Device -> [Device -> SUBSET Addr]]
          /\ queue' \in [Device -> [Device -> Seq(Nat)]]
      BY <2>0, <2>10, <3>1 DEF Crash, TypeOK
    <3>4. conn' \in [Device -> [Device -> {"none", "open", "half"}]]
      BY <2>0, <2>10 DEF Crash, TypeOK
    <3>5. wire' \in [Device -> [Device -> Seq(Frame)]]
      BY <2>0, <2>10 DEF Crash, TypeOK
    <3>6. QED
      BY <2>0, <2>10, <3>2, <3>3, <3>4, <3>5 DEF Crash, TypeOK, ledgers
  <2>11. ASSUME NEW a \in Device, Restart(a) PROVE TypeOK'
    BY <2>0, <2>11 DEF Restart, TypeOK, tables, ledgers
  <2>12. CASE UNCHANGED vars
    BY <2>0, <2>12 DEF vars, TypeOK
  <2>13. QED
    BY <2>0, <2>1, <2>2, <2>3, <2>4, <2>5, <2>6, <2>7, <2>8, <2>9, <2>10, <2>11, <2>12
       DEF Next, Requests, Discovery, Sockets
<1>3. QED
  BY <1>1, <1>2, PTL DEF Spec
------------------------------------------------------------------------------
(* What the steps of a message do to the order along its path.             *)

LEMMA FrameIs ==
  /\ \A n : /\ Chat(n).kind = "chat" /\ Chat(n).n = n
            /\ Ack(n).kind = "ack" /\ Ack(n).n = n
            /\ Direct(n).kind = "direct"
  /\ NoFrame.kind = "none"
BY DEF Chat, Ack, Direct, NoFrame

(* Written to the open connection, behind everything in flight.            *)
LEMMA AcceptOnWire ==
  ASSUME NEW log \in Seq(Nat), NEW w \in Seq(Frame), NEW n \in Nat,
         Increasing(log, w, <<>>, n)
  PROVE  Increasing(log, w \o <<Chat(n + 1)>>, <<>>, n + 1)
<1> DEFINE v == w \o <<Chat(n + 1)>>
<1>1. /\ Len(v) = Len(w) + 1
      /\ \A i \in 1..Len(w) : v[i] = w[i]
      /\ v[Len(w) + 1] = Chat(n + 1)
  OBVIOUS
<1>2. Chat(n + 1).kind = "chat" /\ Chat(n + 1).n = n + 1
  BY FrameIs
<1>3. Len(<<>>) = 0 /\ Len(w) \in Nat /\ Len(log) \in Nat
  OBVIOUS
<1>4. \A k \in 1..Len(log) : log[k] \in Nat
  OBVIOUS
<1> HIDE DEF v
<1>5. \A i \in 1..Len(w) : w[i].kind = "chat" =>
        /\ w[i].n \in 1..n
        /\ \A k \in 1..Len(log) : log[k] < w[i].n
        /\ \A j \in 1..(i - 1) : w[j].kind = "chat" => w[j].n < w[i].n
  BY DEF Increasing
<1>6. \A k \in 1..Len(log) : log[k] >= 1 /\ log[k] <= n
  BY <1>3, <1>4 DEF Increasing
<1>7. ASSUME NEW i \in 1..Len(v), v[i].kind = "chat"
      PROVE  /\ v[i].n \in 1..(n + 1)
             /\ \A k \in 1..Len(log) : log[k] < v[i].n
             /\ \A j \in 1..(i - 1) : v[j].kind = "chat" => v[j].n < v[i].n
  <2>1. CASE i \in 1..Len(w)
    <3>1. v[i] = w[i] /\ \A j \in 1..(i - 1) : v[j] = w[j]
      BY <1>1, <1>3, <2>1
    <3>2. w[i].n \in 1..(n + 1)
      BY <1>5, <1>7, <2>1, <3>1
    <3>3. QED BY <1>5, <1>7, <2>1, <3>1, <3>2
  <2>2. CASE i = Len(w) + 1
    <3>1. v[i].n = n + 1
      BY <1>1, <1>2, <2>2
    <3>2. \A k \in 1..Len(log) : log[k] < n + 1
      BY <1>4, <1>6
    <3>3. \A j \in 1..(i - 1) : v[j].kind = "chat" => v[j].n < n + 1
      <4>1. \A j \in 1..Len(w) : w[j].kind = "chat" => w[j].n < n + 1
        BY <1>5
      <4>2. i - 1 = Len(w)
        BY <1>3, <2>2
      <4>3. QED BY <1>1, <4>1, <4>2
    <3>4. QED BY <3>1, <3>2, <3>3
  <2>3. QED BY <1>1, <1>3, <2>1, <2>2
<1>8. \A k \in 1..Len(log) : log[k] >= 1 /\ log[k] + 0 <= n + 1
  BY <1>4, <1>6
<1>9. Increasing(log, v, <<>>, n + 1)
  BY <1>3, <1>7, <1>8 DEF Increasing
<1>10. QED BY <1>9 DEF v

(* Accepted on a half-open connection: it is lost.                         *)
LEMMA AcceptLost ==
  ASSUME NEW log \in Seq(Nat), NEW w \in Seq(Frame), NEW q \in Seq(Nat),
         NEW n \in Nat, Increasing(log, w, q, n)
  PROVE  Increasing(log, w, q, n + 1)
<1>1. \A k \in 1..Len(log) : log[k] \in Nat
  OBVIOUS
<1>2. \A i \in 1..Len(w) : w[i].kind = "chat" => w[i].n \in 1..n
  BY DEF Increasing
<1>3. QED BY <1>1, <1>2 DEF Increasing

(* Queued: the cap gives up the oldest.                                    *)
LEMMA AcceptQueued ==
  ASSUME NEW log \in Seq(Nat), NEW q \in Seq(Nat), NEW n \in Nat,
         Increasing(log, <<>>, q, n)
  PROVE  Increasing(log, <<>>, QueueOffline(q, n + 1), n + 1)
<1>1. Len(Append(q, n + 1)) = Len(q) + 1
  OBVIOUS
<1>2. Len(QueueOffline(q, n + 1)) <= Len(q) + 1 /\ Len(QueueOffline(q, n + 1)) \in Nat
  <2>1. Append(q, n + 1) \in Seq(Nat) /\ Append(q, n + 1) # <<>>
    OBVIOUS
  <2>2. Len(Tail(Append(q, n + 1))) = Len(q)
    BY <1>1, <2>1
  <2>3. QED BY <1>1, <2>2 DEF QueueOffline
<1>3. \A k \in 1..Len(log) : log[k] \in Nat
  OBVIOUS
<1>4. QED BY <1>2, <1>3 DEF Increasing

(* ... and what is left is still the newest, without a gap.                *)
LEMMA QueuedNewest ==
  ASSUME NEW q \in Seq(Nat), NEW n \in Nat, Newest(q, n)
  PROVE  Newest(QueueOffline(q, n + 1), n + 1)
<1> DEFINE longer == Append(q, n + 1)
<1>0. QueueCap \in Nat \ {0}
  BY PeerLinkAssumption
<1>1. /\ Len(longer) = Len(q) + 1 /\ Len(q) \in Nat
      /\ \A i \in 1..Len(q) : longer[i] = q[i] /\ q[i] \in Nat
      /\ longer[Len(q) + 1] = n + 1
      /\ longer \in Seq(Nat)
  OBVIOUS
<1>2. Len(q) <= QueueCap /\ Len(q) <= n
  BY DEF Newest
<1>3. \A i \in 1..Len(q) : q[i] + Len(q) = n + i
  BY DEF Newest
<1> HIDE DEF longer
<1>4. \A i \in 1..Len(longer) : longer[i] + Len(longer) = n + 1 + i
  <2> SUFFICES ASSUME NEW i \in 1..Len(longer)
               PROVE  longer[i] + Len(longer) = n + 1 + i
    OBVIOUS
  <2>1. CASE i \in 1..Len(q)
    <3>1. longer[i] = q[i] /\ q[i] \in Nat /\ q[i] + Len(q) = n + i
      BY <1>1, <1>3, <2>1
    <3>2. i \in Nat /\ Len(q) \in Nat /\ Len(longer) = Len(q) + 1
      BY <1>1
    <3>3. QED BY <3>1, <3>2, SMTT(30)
  <2>2. CASE i = Len(q) + 1
    BY <1>1, <2>2
  <2>3. QED BY <1>1, <2>1, <2>2
<1>5. CASE Len(longer) <= QueueCap
  <2>1. QueueOffline(q, n + 1) = longer
    BY <1>5, <1>0, <1>1 DEF QueueOffline, longer
  <2>2. QED BY <1>1, <1>2, <1>4, <1>5, <2>1 DEF Newest
<1>6. CASE Len(longer) > QueueCap
  <2> DEFINE r == Tail(longer)
  <2>1. QueueOffline(q, n + 1) = r
    BY <1>6 DEF QueueOffline, longer
  <2>2. /\ Len(r) = Len(longer) - 1
        /\ \A i \in 1..Len(r) : r[i] = longer[i + 1]
    BY <1>1
  <2> HIDE DEF r
  <2>3. ASSUME NEW i \in 1..Len(r) PROVE r[i] + Len(r) = n + 1 + i
    <3>1. i + 1 \in 1..Len(longer)
      BY <1>1, <2>2
    <3>2. longer[i + 1] + Len(longer) = n + 1 + (i + 1)
      BY <1>4, <3>1
    <3>3. longer[i + 1] \in Nat
      BY <1>1, <3>1
    <3>4. i \in Nat /\ Len(longer) \in Nat /\ r[i] = longer[i + 1] /\ Len(r) = Len(longer) - 1
      BY <1>1, <2>2
    <3>5. longer[i + 1] + (Len(longer) - 1) = n + 1 + i
      <4> DEFINE x == longer[i + 1]
                 l == Len(longer)
      <4>1. x \in Nat /\ l \in Nat /\ i \in Nat /\ x + l = n + 1 + (i + 1)
        BY <3>2, <3>3, <3>4
      <4> HIDE DEF x, l
      <4>2. x + (l - 1) = n + 1 + i
        BY <4>1
      <4>3. QED BY <4>2 DEF x, l
    <3>6. QED BY <3>4, <3>5
  <2>4. Len(r) <= QueueCap /\ Len(r) <= n + 1
    BY <1>1, <1>2, <2>2
  <2>5. QED BY <2>1, <2>3, <2>4 DEF Newest
<1>7. QED BY <1>0, <1>1, <1>5, <1>6

(* A frame that is no chat message does not matter.                        *)
LEMMA OtherOnWire ==
  ASSUME NEW log \in Seq(Nat), NEW w \in Seq(Frame), NEW q \in Seq(Nat),
         NEW n \in Nat, NEW f, f.kind # "chat", Increasing(log, w, q, n)
  PROVE  Increasing(log, w \o <<f>>, q, n)
<1> DEFINE v == w \o <<f>>
<1>1. /\ Len(v) = Len(w) + 1
      /\ \A i \in 1..Len(w) : v[i] = w[i]
      /\ v[Len(w) + 1] = f
      /\ Len(w) \in Nat
  OBVIOUS
<1> HIDE DEF v
<1>2. QED
  BY <1>1 DEF Increasing

(* Flushed to a new connection, with a parked frame or none behind it.     *)
LEMMA FlushOnWire ==
  ASSUME NEW log \in Seq(Nat), NEW q \in Seq(Nat), NEW n \in Nat,
         Increasing(log, <<>>, q, n), Newest(q, n)
  PROVE  Increasing(log, AsFrames(q), <<>>, n)
<1> DEFINE w == AsFrames(q)
<1>1. /\ Len(w) = Len(q) /\ Len(q) \in Nat
      /\ \A i \in 1..Len(q) : w[i] = Chat(q[i])
  BY DEF AsFrames
<1>2. \A i \in 1..Len(q) : w[i].n = q[i] /\ q[i] \in Nat /\ q[i] + Len(q) = n + i
  BY <1>1, FrameIs DEF Newest
<1>3. \A k \in 1..Len(log) : log[k] \in Nat /\ log[k] >= 1 /\ log[k] + Len(q) <= n
  BY DEF Increasing
<1>4. Len(<<>>) = 0
  OBVIOUS
<1> HIDE DEF w
<1>5. ASSUME NEW i \in 1..Len(w)
      PROVE  /\ w[i].n \in 1..n
             /\ \A k \in 1..Len(log) : log[k] < w[i].n
             /\ \A j \in 1..(i - 1) : w[j].n < w[i].n
  <2>1. n >= Len(q)
    BY DEF Newest
  <2>2. i \in Nat /\ 1 <= i /\ i <= Len(q) /\ w[i].n = q[i] /\ q[i] + Len(q) = n + i
    BY <1>1, <1>2
  <2>3. w[i].n \in 1..n
    BY <1>1, <1>2, <2>1, <2>2
  <2>4. ASSUME NEW k \in 1..Len(log) PROVE log[k] < w[i].n
    <3>1. log[k] \in Nat /\ log[k] + Len(q) <= n
      BY <1>3
    <3>2. w[i].n \in Nat /\ w[i].n + Len(q) = n + i /\ i >= 1
      BY <1>2, <2>2
    <3>3. QED BY <1>1, <2>2, <3>1, <3>2
  <2>5. ASSUME NEW j \in 1..(i - 1) PROVE w[j].n < w[i].n
    <3>1. j \in 1..Len(q) /\ j < i
      BY <1>1, <2>2
    <3>2. QED BY <1>1, <1>2, <2>2, <3>1
  <2>6. QED BY <2>3, <2>4, <2>5
<1>6. \A k \in 1..Len(log) : log[k] >= 1 /\ log[k] + 0 <= n
  <2>1. n >= Len(q)
    BY DEF Newest
  <2>2. QED BY <1>1, <1>3, <2>1
<1>7. Increasing(log, w, <<>>, n)
  BY <1>4, <1>5, <1>6 DEF Increasing
<1>8. QED
  BY <1>7 DEF w

(* Read by the receiver.                                                   *)
LEMMA ReadChat ==
  ASSUME NEW log \in Seq(Nat), NEW w \in Seq(Frame), NEW n \in Nat,
         w # <<>>, Head(w).kind = "chat", Increasing(log, w, <<>>, n)
  PROVE  Increasing(Append(log, Head(w).n), Tail(w), <<>>, n)
<1> DEFINE v == Tail(w)
           m == Append(log, Head(w).n)
<1>1. /\ Len(w) \in Nat /\ Len(w) > 0 /\ Len(v) = Len(w) - 1
      /\ \A i \in 1..Len(v) : v[i] = w[i + 1]
      /\ Head(w) = w[1]
  OBVIOUS
<1>2. /\ Len(m) = Len(log) + 1 /\ Len(log) \in Nat
      /\ \A k \in 1..Len(log) : m[k] = log[k]
      /\ m[Len(log) + 1] = w[1].n
  BY <1>1
<1>3. w[1].n \in 1..n /\ \A k \in 1..Len(log) : log[k] < w[1].n
  BY <1>1 DEF Increasing
<1>4. Len(<<>>) = 0
  OBVIOUS
<1> HIDE DEF v, m
<1>5. ASSUME NEW i \in 1..Len(v), v[i].kind = "chat"
      PROVE  /\ v[i].n \in 1..n
             /\ \A k \in 1..Len(m) : m[k] < v[i].n
             /\ \A j \in 1..(i - 1) : v[j].kind = "chat" => v[j].n < v[i].n
  <2>1. i + 1 \in 1..Len(w) /\ v[i] = w[i + 1] /\ 1 \in 1..((i + 1) - 1)
    BY <1>1
  <2>2. /\ v[i].n \in 1..n
        /\ \A k \in 1..Len(log) : log[k] < v[i].n
        /\ \A j \in 1..((i + 1) - 1) : w[j].kind = "chat" => w[j].n < v[i].n
    BY <1>5, <2>1 DEF Increasing
  <2>3. w[1].n < v[i].n
    BY <1>1, <2>1, <2>2
  <2>4. \A k \in 1..Len(m) : m[k] < v[i].n
    BY <1>2, <2>2, <2>3
  <2>5. ASSUME NEW j \in 1..(i - 1), v[j].kind = "chat" PROVE v[j].n < v[i].n
    <3>1. j + 1 \in 1..((i + 1) - 1) /\ j \in 1..Len(v)
      BY <1>1
    <3>2. QED BY <1>1, <2>2, <2>5, <3>1
  <2>6. QED BY <2>2, <2>4, <2>5
<1>6. \A k \in 1..Len(m) : m[k] >= 1 /\ m[k] + 0 <= n
  <2>1. \A k \in 1..Len(log) : log[k] >= 1 /\ log[k] + 0 <= n
    BY <1>4 DEF Increasing
  <2>2. m[Len(log) + 1] >= 1 /\ m[Len(log) + 1] + 0 <= n
    BY <1>2, <1>3
  <2>3. \A k \in 1..Len(log) : m[k] >= 1 /\ m[k] + 0 <= n
    BY <1>2, <2>1
  <2>4. \A k \in 1..Len(m) : k \in 1..Len(log) \/ k = Len(log) + 1
    BY <1>2
  <2>5. QED BY <2>2, <2>3, <2>4
<1>7. QED
  BY <1>4, <1>5, <1>6 DEF Increasing

LEMMA ReadOther ==
  ASSUME NEW log \in Seq(Nat), NEW w \in Seq(Frame), NEW q \in Seq(Nat),
         NEW n \in Nat, w # <<>>, Increasing(log, w, q, n)
  PROVE  Increasing(log, Tail(w), q, n)
<1> DEFINE v == Tail(w)
<1>1. /\ Len(w) \in Nat /\ Len(w) > 0 /\ Len(v) = Len(w) - 1
      /\ \A i \in 1..Len(v) : v[i] = w[i + 1]
  OBVIOUS
<1> HIDE DEF v
<1>2. ASSUME NEW i \in 1..Len(v), v[i].kind = "chat"
      PROVE  /\ v[i].n \in 1..n
             /\ \A k \in 1..Len(log) : log[k] < v[i].n
             /\ \A j \in 1..(i - 1) : v[j].kind = "chat" => v[j].n < v[i].n
  <2>1. i + 1 \in 1..Len(w) /\ v[i] = w[i + 1]
    BY <1>1
  <2>2. /\ v[i].n \in 1..n
        /\ \A k \in 1..Len(log) : log[k] < v[i].n
        /\ \A j \in 1..((i + 1) - 1) : w[j].kind = "chat" => w[j].n < v[i].n
    BY <1>2, <2>1 DEF Increasing
  <2>3. ASSUME NEW j \in 1..(i - 1), v[j].kind = "chat" PROVE v[j].n < v[i].n
    <3>1. j + 1 \in 1..((i + 1) - 1) /\ j \in 1..Len(v)
      BY <1>1
    <3>2. QED BY <1>1, <2>2, <2>3, <3>1
  <2>4. QED BY <2>2, <2>3
<1>3. QED
  BY <1>2 DEF Increasing

(* What is on the wire or in the queue may get lost.                       *)
LEMMA LoseWire ==
  ASSUME NEW log \in Seq(Nat), NEW w \in Seq(Frame), NEW q \in Seq(Nat),
         NEW n \in Nat, Increasing(log, w, q, n)
  PROVE  Increasing(log, <<>>, q, n) /\ Increasing(log, <<>>, <<>>, n)
<1>1. \A k \in 1..Len(log) : log[k] \in Nat
  OBVIOUS
<1>2. Len(q) \in Nat /\ Len(<<>>) = 0
  OBVIOUS
<1>3. QED BY <1>1, <1>2 DEF Increasing
------------------------------------------------------------------------------
(* What a step changes, one pair of devices at a time.                     *)

LEMMA UpdateAt ==
  ASSUME NEW T, NEW f \in [Device -> [Device -> T]],
         NEW a \in Device, NEW b \in Device, NEW v,
         NEW x \in Device, NEW y \in Device
  PROVE  [f EXCEPT ![a][b] = v][x][y] = IF x = a /\ y = b THEN v ELSE f[x][y]
OBVIOUS

(* DialNext parks the new frame, keeps the parked one or drops it.         *)
LEMMA DialNextParks ==
  ASSUME NEW l \in DialState, NEW known, NEW frame
  PROVE  DialNext(l, known, frame).pending \in {l.pending, frame, NoFrame}
BY DEF DialNext, DialState

LEMMA AfterFailureParks ==
  ASSUME NEW l \in DialState, NEW known
  PROVE  AfterFailure(l, known).pending \in {l.pending, NoFrame}
<1> DEFINE m == [l EXCEPT !.dialing = NoAddr,
                          !.route = IF @ = l.dialing THEN NoAddr ELSE @]
<1>1. m \in DialState /\ m.pending = l.pending
  BY DEF DialState
<1>2. AfterFailure(l, known) = DialNext(m, known, NoFrame)
  BY DEF AfterFailure
<1> HIDE DEF m
<1>3. QED BY <1>1, <1>2, DialNextParks

(* While connected, neither dial state nor queue of the pair changes but   *)
(* by a crash, and nothing but DialSucceeded connects.                     *)
LEMMA CleanStep ==
  TypeOK /\ NothingWaitsWhenConnected /\ [Next]_vars => NothingWaitsWhenConnected'
<1> DEFINE Clean(x, y) == /\ dial[x][y] = [NoDial EXCEPT !.route = dial[x][y].route]
                          /\ queue[x][y] = <<>>
<1>0. SUFFICES ASSUME TypeOK, NothingWaitsWhenConnected, [Next]_vars,
                      NEW x \in Device, NEW y \in Device, Connected(x, y)'
               PROVE  Clean(x, y)'
  BY DEF NothingWaitsWhenConnected
<1>t. /\ dial \in [Device -> [Device -> DialState]]
      /\ conn \in [Device -> [Device -> {"none", "open", "half"}]]
      /\ wire \in [Device -> [Device -> Seq(Frame)]]
      /\ queue \in [Device -> [Device -> Seq(Nat)]]
  BY <1>0 DEF TypeOK
<1>k. ASSUME conn'[x][y] # "none" => conn[x][y] # "none",
             Connected(x, y) => dial'[x][y] = dial[x][y],
             Connected(x, y) /\ queue[x][y] = <<>> => queue'[x][y] = <<>>
      PROVE  Clean(x, y)'
  BY <1>0, <1>k DEF NothingWaitsWhenConnected, Connected
<1> HIDE DEF Clean
<1>1. ASSUME NEW a \in Device, NEW b \in Device, SendChat(a, b) PROVE Clean(x, y)'
  <2>1. conn' = conn
    BY <1>1 DEF SendChat
  <2>2. CASE Connected(a, b)
    BY <1>1, <1>k, <2>1, <2>2 DEF SendChat
  <2>3. CASE ~Connected(a, b)
    <3>1. ~(x = a /\ y = b)
      BY <1>0, <2>1, <2>3 DEF Connected
    <3>2. dial'[x][y] = dial[x][y] /\ queue'[x][y] = queue[x][y]
      <4>1. /\ queue' = [queue EXCEPT ![a][b] = QueueOffline(@, sent[a][b] + 1)]
            /\ dial' = [dial EXCEPT ![a][b] = EnsureConnection(@, addrs[a][b])]
        BY <1>1, <2>3 DEF SendChat
      <4>2. QED BY <1>t, <3>1, <4>1
    <3>3. QED BY <1>k, <2>1, <3>2
  <2>4. QED BY <2>2, <2>3
<1>2. ASSUME NEW a \in Device, NEW b \in Device, SendDirect(a, b) PROVE Clean(x, y)'
  <2>1. /\ conn' = conn /\ queue' = queue
        /\ SendPeerEnvelope(a, b, addrs[a][b], wire, Direct(direct[a][b] + 1))
    BY <1>2 DEF SendDirect
  <2>2. CASE Connected(a, b)
    BY <1>k, <2>1, <2>2 DEF SendPeerEnvelope
  <2>3. CASE ~Connected(a, b)
    <3>1. dial' = [dial EXCEPT ![a][b] = DialNext(dial[a][b], addrs[a][b],
                                                  Direct(direct[a][b] + 1))]
      BY <2>1, <2>3 DEF SendPeerEnvelope
    <3>2. Connected(x, y) => dial'[x][y] = dial[x][y]
      BY <1>t, <2>3, <3>1
    <3>3. QED BY <1>k, <2>1, <3>2
  <2>4. QED BY <2>2, <2>3
<1>3. ASSUME NEW a \in Device, NEW b \in Device, NEW S \in SUBSET Addr \ {{}},
             OnLanPeer(a, b, S)
      PROVE  Clean(x, y)'
  <2> DEFINE known == addrs[a][b] \cup S
  <2>1. conn' = conn /\ MaybeRedeliver(a, b, known)
    BY <1>3 DEF OnLanPeer
  <2> HIDE DEF known
  <2>2. CASE queue[a][b] = <<>>
    BY <1>k, <2>1, <2>2 DEF MaybeRedeliver
  <2>3. CASE queue[a][b] # <<>> /\ Connected(a, b)
    <3>1. dial' = dial /\ queue' = [queue EXCEPT ![a][b] = <<>>]
      BY <2>1, <2>3 DEF MaybeRedeliver
    <3>2. queue[x][y] = <<>> => queue'[x][y] = <<>>
      BY <1>t, <3>1
    <3>3. QED BY <1>k, <2>1, <3>1, <3>2
  <2>4. CASE queue[a][b] # <<>> /\ ~Connected(a, b)
    <3>1. /\ queue' = queue
          /\ dial' = [dial EXCEPT ![a][b] = EnsureConnection(dial[a][b], known)]
      BY <2>1, <2>4 DEF MaybeRedeliver
    <3>2. Connected(x, y) => dial'[x][y] = dial[x][y]
      BY <1>t, <2>4, <3>1
    <3>3. QED BY <1>k, <2>1, <3>1, <3>2
  <2>5. QED BY <2>2, <2>3, <2>4
<1>4. ASSUME NEW a \in Device, NEW b \in Device, LosePeer(a, b) PROVE Clean(x, y)'
  BY <1>4, <1>k DEF LosePeer
<1>5. ASSUME NEW a \in Device, NEW b \in Device, DialSucceeded(a, b) PROVE Clean(x, y)'
  <2>1. /\ dial' = [dial EXCEPT ![a][b] = [NoDial EXCEPT !.route = dial[a][b].dialing]]
        /\ conn' = [conn EXCEPT ![a][b] = "open"]
        /\ queue' = [queue EXCEPT ![a][b] = <<>>]
    BY <1>5 DEF DialSucceeded
  <2>2. CASE x = a /\ y = b
    <3>1. dial'[x][y] = [NoDial EXCEPT !.route = dial[a][b].dialing] /\ queue'[x][y] = <<>>
      BY <1>t, <2>1, <2>2
    <3>2. dial'[x][y].route = dial[a][b].dialing
      BY <3>1 DEF NoDial
    <3>3. QED BY <3>1, <3>2 DEF Clean
  <2>3. CASE ~(x = a /\ y = b)
    <3>1. conn'[x][y] = conn[x][y] /\ dial'[x][y] = dial[x][y] /\ queue'[x][y] = queue[x][y]
      BY <1>t, <2>1, <2>3
    <3>2. QED BY <1>k, <3>1
  <2>4. QED BY <2>2, <2>3
<1>6. ASSUME NEW a \in Device, NEW b \in Device, DialFailed(a, b) PROVE Clean(x, y)'
  <2>1. /\ dial' = [dial EXCEPT ![a][b] = AfterFailure(dial[a][b], addrs[a][b])]
        /\ conn' = conn /\ queue' = queue
        /\ dial[a][b].dialing # NoAddr
    BY <1>6 DEF DialFailed
  <2>2. ~Connected(a, b)
    <3>1. SUFFICES ASSUME Connected(a, b) PROVE FALSE
      OBVIOUS
    <3>2. dial[a][b] = [NoDial EXCEPT !.route = dial[a][b].route]
      BY <1>0, <3>1 DEF NothingWaitsWhenConnected
    <3>3. dial[a][b].dialing = NoAddr
      BY <3>2 DEF NoDial
    <3>4. QED BY <2>1, <3>3
  <2>3. Connected(x, y) => dial'[x][y] = dial[x][y]
    BY <1>t, <2>1, <2>2
  <2>4. QED BY <1>k, <2>1, <2>3
<1>7. ASSUME NEW a \in Device, NEW b \in Device, LinkBreaks(a, b) PROVE Clean(x, y)'
  <2>1. /\ dial' = dial /\ queue' = queue
        /\ conn[a][b] = "open" /\ conn' = [conn EXCEPT ![a][b] = "half"]
    BY <1>7 DEF LinkBreaks
  <2>2. conn'[x][y] # "none" => conn[x][y] # "none"
    BY <1>t, <2>1
  <2>3. QED BY <1>k, <2>1, <2>2
<1>8. ASSUME NEW a \in Device, NEW b \in Device, OnOutgoingClosed(a, b) PROVE Clean(x, y)'
  <2>1. dial' = dial /\ queue' = queue /\ conn' = [conn EXCEPT ![a][b] = "none"]
    BY <1>8 DEF OnOutgoingClosed
  <2>2. conn'[x][y] # "none" => conn[x][y] # "none"
    BY <1>t, <2>1
  <2>3. QED BY <1>k, <2>1, <2>2
<1>9. ASSUME NEW a \in Device, NEW b \in Device, NEW h \in Addr,
             HandleInboundPeerEnvelope(a, b, h)
      PROVE  Clean(x, y)'
  <2> DEFINE f == Head(wire[a][b])
             rest == [wire EXCEPT ![a][b] = Tail(@)]
             known == addrs[b][a] \cup {h}
  <2>1. conn' = conn /\ queue' = queue
    BY <1>9 DEF HandleInboundPeerEnvelope
  <2>2. dial' = dial \/ SendPeerEnvelope(b, a, known, rest, Ack(f.n))
    BY <1>9 DEF HandleInboundPeerEnvelope
  <2> HIDE DEF f, rest, known
  <2>3. CASE dial' = dial
    BY <1>k, <2>1, <2>3
  <2>4. CASE dial' # dial
    <3>1. ~Connected(b, a)
      BY <2>2, <2>4 DEF SendPeerEnvelope
    <3>2. dial' = [dial EXCEPT ![b][a] = DialNext(dial[b][a], known, Ack(f.n))]
      BY <2>2, <2>4, <3>1 DEF SendPeerEnvelope
    <3>3. Connected(x, y) => dial'[x][y] = dial[x][y]
      BY <1>t, <3>1, <3>2
    <3>4. QED BY <1>k, <2>1, <3>3
  <2>5. QED BY <2>3, <2>4
<1>10. ASSUME NEW a \in Device, Crash(a) PROVE Clean(x, y)'
  <2>1. /\ dial' = [dial EXCEPT ![a] = [b \in Device |-> NoDial]]
        /\ queue' = [queue EXCEPT ![a] = [b \in Device |-> <<>>]]
        /\ conn'[x][y] = IF x = a THEN "none"
                         ELSE IF y = a /\ conn[x][y] = "open" THEN "half"
                         ELSE conn[x][y]
    BY <1>10 DEF Crash
  <2>2. x # a
    BY <1>0, <2>1 DEF Connected
  <2>3. dial'[x][y] = dial[x][y] /\ queue'[x][y] = queue[x][y]
    BY <1>t, <2>1, <2>2
  <2>4. conn'[x][y] # "none" => conn[x][y] # "none"
    BY <2>1, <2>2
  <2>5. QED BY <1>k, <2>3, <2>4
<1>11. ASSUME NEW a \in Device, Restart(a) PROVE Clean(x, y)'
  BY <1>11, <1>k DEF Restart, tables
<1>12. CASE UNCHANGED vars
  BY <1>12, <1>k DEF vars
<1>13. QED
  BY <1>0, <1>1, <1>2, <1>3, <1>4, <1>5, <1>6, <1>7, <1>8, <1>9, <1>10, <1>11, <1>12
     DEF Next, Requests, Discovery, Sockets

(* Whatever the other processes do, nothing waits on an open connection.   *)
THEOREM NothingWaits == Spec => []NothingWaitsWhenConnected
<1>1. Init => NothingWaitsWhenConnected
  BY DEF Init, NothingWaitsWhenConnected, Connected, PerPeer
<1>2. QED
  BY <1>1, CleanStep, TypeCorrect, PTL DEF Spec
------------------------------------------------------------------------------
(* The offline queue.                                                      *)

LEMMA EmptyIsNewest ==
  ASSUME NEW n \in Nat
  PROVE  Newest(<<>>, n)
<1>1. Len(<<>>) = 0
  OBVIOUS
<1>2. QueueCap \in Nat
  BY PeerLinkAssumption
<1>3. QED BY <1>1, <1>2 DEF Newest

(* One action changes the queue and the count of one pair, or empties      *)
(* queues.                                                                 *)
LEMMA QueueStep ==
  TypeOK /\ NothingWaitsWhenConnected /\ QueueHoldsTheNewest /\ [Next]_vars
    => QueueHoldsTheNewest'
<1> DEFINE Good(x, y) == Newest(queue[x][y], sent[x][y])
<1>0. SUFFICES ASSUME TypeOK, NothingWaitsWhenConnected, QueueHoldsTheNewest,
                      [Next]_vars, NEW x \in Device, NEW y \in Device
               PROVE  Good(x, y)'
  BY DEF QueueHoldsTheNewest
<1>t. /\ queue \in [Device -> [Device -> Seq(Nat)]]
      /\ sent \in [Device -> [Device -> Nat]]
  BY <1>0 DEF TypeOK
<1>n. queue[x][y] \in Seq(Nat) /\ sent[x][y] \in Nat
  BY <1>0, PairType
<1>g. Good(x, y)
  BY <1>0 DEF QueueHoldsTheNewest
<1>k. ASSUME sent'[x][y] = sent[x][y], queue'[x][y] \in {queue[x][y], <<>>}
      PROVE  Good(x, y)'
  BY <1>g, <1>k, <1>n, EmptyIsNewest
<1>e. ASSUME sent' = sent, NEW a \in Device, NEW b \in Device,
             queue' = [queue EXCEPT ![a][b] = <<>>]
      PROVE  Good(x, y)'
  <2>1. queue'[x][y] \in {queue[x][y], <<>>}
    BY <1>e, <1>t
  <2>2. QED BY <1>e, <1>k, <2>1
<1>1. ASSUME NEW a \in Device, NEW b \in Device, SendChat(a, b) PROVE Good(x, y)'
  <2>1. sent' = [sent EXCEPT ![a][b] = sent[a][b] + 1]
    BY <1>1 DEF SendChat
  <2>2. CASE ~(x = a /\ y = b)
    <3>1. sent'[x][y] = sent[x][y]
      BY <1>t, <2>1, <2>2
    <3>2. queue'[x][y] = queue[x][y]
      <4>1. CASE Connected(a, b)
        BY <1>1, <4>1 DEF SendChat
      <4>2. CASE ~Connected(a, b)
        <5>1. queue' = [queue EXCEPT ![a][b] = QueueOffline(@, sent[a][b] + 1)]
          BY <1>1, <4>2 DEF SendChat
        <5>2. QED BY <1>t, <2>2, <5>1
      <4>3. QED BY <4>1, <4>2
    <3>3. QED BY <1>k, <3>1, <3>2
  <2>3. CASE x = a /\ y = b
    <3>1. sent'[x][y] = sent[x][y] + 1
      BY <1>t, <2>1, <2>3
    <3>2. CASE Connected(a, b)
      <4>1. queue'[x][y] = <<>>
        BY <1>0, <1>1, <2>3, <3>2 DEF SendChat, NothingWaitsWhenConnected
      <4>2. sent[x][y] + 1 \in Nat
        BY <1>n
      <4>3. QED BY <3>1, <4>1, <4>2, EmptyIsNewest
    <3>3. CASE ~Connected(a, b)
      <4>1. queue' = [queue EXCEPT ![a][b] = QueueOffline(queue[a][b], sent[a][b] + 1)]
        BY <1>1, <3>3 DEF SendChat
      <4>2. queue'[x][y] = QueueOffline(queue[x][y], sent[x][y] + 1)
        BY <1>t, <2>3, <4>1
      <4>3. QED BY <1>g, <1>n, <3>1, <4>2, QueuedNewest
    <3>4. QED BY <3>2, <3>3
  <2>4. QED BY <2>2, <2>3
<1>2. ASSUME NEW a \in Device, NEW b \in Device, NEW S \in SUBSET Addr \ {{}},
             OnLanPeer(a, b, S)
      PROVE  Good(x, y)'
  <2>1. sent' = sent /\ (queue' = queue \/ queue' = [queue EXCEPT ![a][b] = <<>>])
    BY <1>2 DEF OnLanPeer, MaybeRedeliver, ledgers
  <2>2. QED BY <1>e, <1>k, <2>1
<1>3. ASSUME NEW a \in Device, NEW b \in Device, DialSucceeded(a, b) PROVE Good(x, y)'
  <2>1. sent' = sent /\ queue' = [queue EXCEPT ![a][b] = <<>>]
    BY <1>3 DEF DialSucceeded, ledgers
  <2>2. QED BY <1>e, <2>1
<1>4. ASSUME NEW a \in Device, Crash(a) PROVE Good(x, y)'
  <2>1. sent' = sent /\ queue' = [queue EXCEPT ![a] = [b \in Device |-> <<>>]]
    BY <1>4 DEF Crash, ledgers
  <2>2. queue'[x][y] \in {queue[x][y], <<>>}
    BY <1>t, <2>1
  <2>3. QED BY <1>k, <2>1, <2>2
<1>5. ASSUME sent' = sent, queue' = queue PROVE Good(x, y)'
  BY <1>5, <1>k
<1> HIDE DEF Good
<1>6. ASSUME NEW a \in Device, NEW b \in Device,
             \/ SendDirect(a, b) \/ LosePeer(a, b) \/ DialFailed(a, b)
             \/ LinkBreaks(a, b) \/ OnOutgoingClosed(a, b)
             \/ \E h \in Addr : HandleInboundPeerEnvelope(a, b, h)
      PROVE  Good(x, y)'
  BY <1>5, <1>6 DEF SendDirect, LosePeer, DialFailed, LinkBreaks, OnOutgoingClosed,
                    HandleInboundPeerEnvelope, ledgers
<1>7. ASSUME NEW a \in Device, Restart(a) PROVE Good(x, y)'
  BY <1>5, <1>7 DEF Restart, tables, ledgers
<1>8. CASE UNCHANGED vars
  BY <1>5, <1>8 DEF vars
<1>9. QED
  BY <1>0, <1>1, <1>2, <1>3, <1>4, <1>6, <1>7, <1>8
     DEF Next, Requests, Discovery, Sockets

(* QueueHoldsTheNewest: what waits for an absent peer is the newest of     *)
(* what was accepted for it, in order.                                     *)
THEOREM QueueIsNewest == Spec => []QueueHoldsTheNewest
<1>1. Init => QueueHoldsTheNewest
  BY EmptyIsNewest DEF Init, QueueHoldsTheNewest, PerPeer
<1>2. QED
  BY <1>1, QueueStep, TypeCorrect, NothingWaits, PTL DEF Spec
------------------------------------------------------------------------------
(* The path of the chat messages from one device to another.               *)

(* What the path of a pair is, with its connection.                        *)
PathOf(c, log, w, q, n) == (w # <<>> => c = "open") /\ Increasing(log, w, q, n)

LEMMA FlushPath ==
  ASSUME NEW log \in Seq(Nat), NEW q \in Seq(Nat), NEW n \in Nat,
         NEW f \in Frame \cup {NoFrame}, f.kind # "chat",
         Increasing(log, <<>>, q, n), Newest(q, n)
  PROVE  Increasing(log, AsFrames(q) \o (IF f = NoFrame THEN <<>> ELSE <<f>>), <<>>, n)
<1>1. Increasing(log, AsFrames(q), <<>>, n)
  BY FlushOnWire
<1>2. AsFrames(q) \in Seq(Frame)
  BY AsFramesType
<1>3. CASE f = NoFrame
  <2>1. AsFrames(q) \o <<>> = AsFrames(q)
    BY <1>2
  <2>2. QED BY <1>1, <1>3, <2>1
<1>4. CASE f # NoFrame
  <2>1. Increasing(log, AsFrames(q) \o <<f>>, <<>>, n)
    <3> DEFINE w == AsFrames(q)
               none == <<>>
    <3>1. w \in Seq(Frame) /\ Increasing(log, w, none, n) /\ none \in Seq(Nat)
      BY <1>1, <1>2
    <3> HIDE DEF w, none
    <3>2. Increasing(log, w \o <<f>>, none, n)
      BY <3>1, OtherOnWire
    <3>3. QED BY <3>2 DEF w, none
  <2>2. QED BY <1>4, <2>1
<1>5. QED BY <1>3, <1>4

(* A message on the wire is not yet in the ledger, so Append takes it.     *)
LEMMA ReadPath ==
  ASSUME NEW log \in Seq(Nat), NEW w \in Seq(Frame), NEW n \in Nat,
         w # <<>>, Head(w).kind = "chat", Increasing(log, w, <<>>, n)
  PROVE  /\ AppendOnce(log, Head(w).n) = Append(log, Head(w).n)
         /\ Increasing(AppendOnce(log, Head(w).n), Tail(w), <<>>, n)
<1>1. Len(w) \in Nat /\ Len(w) > 0 /\ Head(w) = w[1]
  OBVIOUS
<1>2. \A k \in 1..Len(log) : log[k] < w[1].n /\ log[k] \in Nat
  BY <1>1 DEF Increasing
<1>3. w[1].n \in Nat
  <2>1. w[1] \in Frame
    BY <1>1
  <2>2. QED BY <2>1 DEF Frame
<1>4. ~\E k \in 1..Len(log) : log[k] = w[1].n
  BY <1>2, <1>3
<1>5. AppendOnce(log, Head(w).n) = Append(log, Head(w).n)
  BY <1>1, <1>4 DEF AppendOnce
<1>6. QED BY <1>5, ReadChat

(* The wires v after a device sent a frame, one pair at a time, given the  *)
(* table c of connections.                                                 *)
LEMMA SendElsewhere ==
  ASSUME NEW w \in [Device -> [Device -> Seq(Frame)]], NEW c,
         NEW a \in Device, NEW b \in Device, NEW f, NEW v,
         v = IF c[a][b] = "open" THEN [w EXCEPT ![a][b] = @ \o <<f>>] ELSE w,
         NEW x \in Device, NEW y \in Device
  PROVE  \/ v[x][y] = w[x][y]
         \/ v[x][y] = w[x][y] \o <<f>> /\ c[x][y] = "open"
OBVIOUS

LEMMA PathStep ==
  /\ TypeOK /\ NothingWaitsWhenConnected /\ QueueHoldsTheNewest /\ PathInOrder
  /\ \A a, b \in Device : dial[a][b].pending.kind # "chat"
  /\ [Next]_vars
  => PathInOrder'
<1> DEFINE Path(x, y) == PathOf(conn[x][y], inLog[y][x], wire[x][y],
                                queue[x][y], sent[x][y])
<1>0. SUFFICES ASSUME TypeOK, NothingWaitsWhenConnected, QueueHoldsTheNewest,
                      PathInOrder,
                      \A a, b \in Device : dial[a][b].pending.kind # "chat",
                      [Next]_vars, NEW x \in Device, NEW y \in Device
               PROVE  Path(x, y)'
  BY DEF PathInOrder, PathOf
<1>t. /\ conn \in [Device -> [Device -> {"none", "open", "half"}]]
      /\ wire \in [Device -> [Device -> Seq(Frame)]]
      /\ queue \in [Device -> [Device -> Seq(Nat)]]
      /\ sent \in [Device -> [Device -> Nat]]
      /\ inLog \in [Device -> [Device -> Seq(Nat)]]
  BY <1>0 DEF TypeOK
<1>n. /\ inLog[y][x] \in Seq(Nat) /\ wire[x][y] \in Seq(Frame)
      /\ queue[x][y] \in Seq(Nat) /\ sent[x][y] \in Nat
  BY <1>0, PairType
<1>g. PathOf(conn[x][y], inLog[y][x], wire[x][y], queue[x][y], sent[x][y])
  BY <1>0 DEF PathInOrder, PathOf
<1>q. Connected(x, y) => queue[x][y] = <<>>
  BY <1>0 DEF NothingWaitsWhenConnected
<1>k. ASSUME conn[x][y] = "open" => conn'[x][y] = "open",
             inLog'[y][x] = inLog[y][x], wire'[x][y] = wire[x][y],
             queue'[x][y] = queue[x][y], sent'[x][y] = sent[x][y]
      PROVE  Path(x, y)'
  BY <1>g, <1>k DEF PathOf
(* The wire is lost, and perhaps the queue. *)
<1>l. ASSUME wire'[x][y] = <<>>, inLog'[y][x] = inLog[y][x],
             sent'[x][y] = sent[x][y], queue'[x][y] \in {queue[x][y], <<>>}
      PROVE  Path(x, y)'
  <2>1. /\ Increasing(inLog[y][x], <<>>, queue[x][y], sent[x][y])
        /\ Increasing(inLog[y][x], <<>>, <<>>, sent[x][y])
    BY <1>g, <1>n, LoseWire DEF PathOf
  <2>2. QED BY <1>l, <2>1 DEF PathOf
(* One frame that is no chat message is written, if there is a connection. *)
<1>w. ASSUME NEW f, f.kind # "chat",
             \/ wire'[x][y] = wire[x][y]
             \/ wire'[x][y] = wire[x][y] \o <<f>> /\ conn[x][y] = "open",
             conn'[x][y] = conn[x][y], inLog'[y][x] = inLog[y][x],
             queue'[x][y] = queue[x][y], sent'[x][y] = sent[x][y]
      PROVE  Path(x, y)'
  <2>1. CASE wire'[x][y] = wire[x][y]
    BY <1>k, <1>w, <2>1
  <2>2. CASE wire'[x][y] = wire[x][y] \o <<f>> /\ conn[x][y] = "open"
    <3>1. Increasing(inLog[y][x], wire[x][y] \o <<f>>, queue[x][y], sent[x][y])
      BY <1>g, <1>n, <1>w, OtherOnWire DEF PathOf
    <3>2. QED BY <1>w, <2>2, <3>1 DEF PathOf
  <2>3. QED BY <1>w, <2>1, <2>2
<1> HIDE DEF Path
<1>1. ASSUME NEW a \in Device, NEW b \in Device, SendChat(a, b) PROVE Path(x, y)'
  <2>1. /\ conn' = conn /\ inLog' = inLog
        /\ sent' = [sent EXCEPT ![a][b] = sent[a][b] + 1]
    BY <1>1 DEF SendChat
  <2>2. CASE ~(x = a /\ y = b)
    <3>1. sent'[x][y] = sent[x][y]
      BY <1>t, <2>1, <2>2
    <3>2. CASE Connected(a, b)
      <4>1. /\ queue' = queue
            /\ wire' = Transmit(a, b, wire, <<Chat(sent[a][b] + 1)>>)
        BY <1>1, <3>2 DEF SendChat
      <4>2. wire'[x][y] = wire[x][y]
        BY <1>t, <2>2, <4>1 DEF Transmit
      <4>3. QED BY <1>k, <2>1, <3>1, <4>1, <4>2
    <3>3. CASE ~Connected(a, b)
      <4>1. /\ queue' = [queue EXCEPT ![a][b] = QueueOffline(@, sent[a][b] + 1)]
            /\ wire' = wire
        BY <1>1, <3>3 DEF SendChat
      <4>2. queue'[x][y] = queue[x][y]
        BY <1>t, <2>2, <4>1
      <4>3. QED BY <1>k, <2>1, <3>1, <4>1, <4>2
    <3>4. QED BY <3>2, <3>3
  <2>3. CASE x = a /\ y = b
    <3>1. sent'[x][y] = sent[x][y] + 1
      BY <1>t, <2>1, <2>3
    <3>2. CASE conn[x][y] = "open"
      <4>1. /\ queue' = queue /\ queue[x][y] = <<>>
            /\ wire' = [wire EXCEPT ![a][b] = @ \o <<Chat(sent[a][b] + 1)>>]
        BY <1>1, <1>q, <2>3, <3>2 DEF SendChat, Connected, Transmit
      <4>2. wire'[x][y] = wire[x][y] \o <<Chat(sent[x][y] + 1)>>
        BY <1>t, <2>3, <4>1
      <4>3. Increasing(inLog[y][x], wire[x][y] \o <<Chat(sent[x][y] + 1)>>,
                       <<>>, sent[x][y] + 1)
        BY <1>g, <1>n, <4>1, AcceptOnWire DEF PathOf
      <4>4. QED BY <2>1, <3>1, <3>2, <4>1, <4>2, <4>3 DEF Path, PathOf
    <3>3. CASE conn[x][y] # "open" /\ Connected(x, y)
      <4>1. queue' = queue /\ wire' = wire
        BY <1>1, <2>3, <3>3 DEF SendChat, Transmit
      <4>2. Increasing(inLog[y][x], wire[x][y], queue[x][y], sent[x][y] + 1)
        BY <1>g, <1>n, AcceptLost DEF PathOf
      <4>3. QED BY <1>g, <2>1, <3>1, <4>1, <4>2 DEF Path, PathOf
    <3>4. CASE ~Connected(x, y)
      <4>1. /\ wire' = wire
            /\ queue' = [queue EXCEPT ![a][b] = QueueOffline(@, sent[a][b] + 1)]
        BY <1>1, <2>3, <3>4 DEF SendChat
      <4>2. queue'[x][y] = QueueOffline(queue[x][y], sent[x][y] + 1)
        BY <1>t, <2>3, <4>1
      <4>3. wire[x][y] = <<>>
        BY <1>g, <3>4 DEF PathOf, Connected
      <4>4. Increasing(inLog[y][x], <<>>, QueueOffline(queue[x][y], sent[x][y] + 1),
                       sent[x][y] + 1)
        BY <1>g, <1>n, <4>3, AcceptQueued DEF PathOf
      <4>5. QED BY <2>1, <3>1, <4>1, <4>2, <4>3, <4>4 DEF Path, PathOf
    <3>5. QED BY <3>2, <3>3, <3>4
  <2>4. QED BY <2>2, <2>3
<1>2. ASSUME NEW a \in Device, NEW b \in Device, SendDirect(a, b) PROVE Path(x, y)'
  <2> DEFINE f == Direct(direct[a][b] + 1)
  <2>1. /\ UNCHANGED <<conn, queue, sent, inLog>>
        /\ SendPeerEnvelope(a, b, addrs[a][b], wire, f)
    BY <1>2 DEF SendDirect
  <2>2. f.kind # "chat"
    BY FrameIs
  <2> HIDE DEF f
  <2>3. \/ wire'[x][y] = wire[x][y]
        \/ wire'[x][y] = wire[x][y] \o <<f>> /\ conn[x][y] = "open"
    <3>1. wire' = IF conn[a][b] = "open" THEN [wire EXCEPT ![a][b] = @ \o <<f>>]
                  ELSE wire
      BY <2>1 DEF SendPeerEnvelope, Transmit, Connected
    <3>2. wire \in [Device -> [Device -> Seq(Frame)]]
      BY <1>t
    <3>3. QED BY <3>1, <3>2, SendElsewhere
  <2>4. conn'[x][y] = conn[x][y] /\ inLog'[y][x] = inLog[y][x]
        /\ queue'[x][y] = queue[x][y] /\ sent'[x][y] = sent[x][y]
    BY <2>1
  <2>5. QED BY <1>w, <2>2, <2>3, <2>4
<1>3. ASSUME NEW a \in Device, NEW b \in Device, NEW S \in SUBSET Addr \ {{}},
             OnLanPeer(a, b, S)
      PROVE  Path(x, y)'
  <2>1. UNCHANGED <<conn, inLog, sent, wire, queue>>
    <3>1. CASE queue[a][b] = <<>>
      BY <1>3, <3>1 DEF OnLanPeer, MaybeRedeliver, ledgers
    <3>2. CASE queue[a][b] # <<>>
      <4>1. ~Connected(a, b)
        BY <1>0, <3>2 DEF NothingWaitsWhenConnected
      <4>2. QED BY <1>3, <3>2, <4>1 DEF OnLanPeer, MaybeRedeliver, ledgers
    <3>3. QED BY <3>1, <3>2
  <2>2. QED BY <1>k, <2>1
<1>4. ASSUME NEW a \in Device, NEW b \in Device, DialSucceeded(a, b) PROVE Path(x, y)'
  <2> DEFINE f == dial[a][b].pending
             parked == IF f = NoFrame THEN <<>> ELSE <<f>>
  <2>1. /\ conn' = [conn EXCEPT ![a][b] = "open"]
        /\ wire' = [wire EXCEPT ![a][b] = AsFrames(queue[a][b]) \o parked]
        /\ queue' = [queue EXCEPT ![a][b] = <<>>]
        /\ inLog' = inLog /\ sent' = sent
    BY <1>4 DEF DialSucceeded, ledgers
  <2>2. CASE ~(x = a /\ y = b)
    <3>1. /\ conn'[x][y] = conn[x][y] /\ wire'[x][y] = wire[x][y]
          /\ queue'[x][y] = queue[x][y]
      BY <1>t, <2>1, <2>2
    <3>2. QED BY <1>k, <2>1, <3>1
  <2>3. CASE x = a /\ y = b
    <3>1. ~Connected(a, b)
      <4>1. SUFFICES ASSUME Connected(a, b) PROVE FALSE
        OBVIOUS
      <4>2. dial[a][b] = [NoDial EXCEPT !.route = dial[a][b].route]
        BY <1>0, <4>1 DEF NothingWaitsWhenConnected
      <4>3. dial[a][b].dialing = NoAddr
        BY <4>2 DEF NoDial
      <4>4. QED BY <1>4, <4>3 DEF DialSucceeded
    <3>2. wire[x][y] = <<>>
      BY <1>g, <2>3, <3>1 DEF PathOf, Connected
    <3>3. f \in Frame \cup {NoFrame} /\ f.kind # "chat"
      <4>1. dial[a][b] \in DialState
        BY <1>0, PairType
      <4>2. QED BY <1>0, <4>1 DEF DialState
    <3>4. Newest(queue[x][y], sent[x][y])
      BY <1>0 DEF QueueHoldsTheNewest
    <3>5. /\ conn'[x][y] = "open"
          /\ wire'[x][y] = AsFrames(queue[x][y]) \o parked
          /\ queue'[x][y] = <<>>
      <4> HIDE DEF parked
      <4>1. QED BY <1>t, <2>1, <2>3
    <3> HIDE DEF f
    <3>6. Increasing(inLog[y][x], AsFrames(queue[x][y]) \o parked, <<>>, sent[x][y])
      BY <1>g, <1>n, <3>2, <3>3, <3>4, FlushPath DEF PathOf
    <3>7. QED BY <2>1, <3>5, <3>6 DEF Path, PathOf
  <2>4. QED BY <2>2, <2>3
<1>5. ASSUME NEW a \in Device, NEW b \in Device, LinkBreaks(a, b) PROVE Path(x, y)'
  <2>1. /\ conn' = [conn EXCEPT ![a][b] = "half"]
        /\ wire' = [wire EXCEPT ![a][b] = <<>>]
        /\ UNCHANGED <<queue, inLog, sent>>
    BY <1>5 DEF LinkBreaks, ledgers
  <2>2. CASE x = a /\ y = b
    <3>1. wire'[x][y] = <<>>
      BY <1>t, <2>1, <2>2
    <3>2. QED BY <1>l, <2>1, <3>1
  <2>3. CASE ~(x = a /\ y = b)
    <3>1. conn'[x][y] = conn[x][y] /\ wire'[x][y] = wire[x][y]
      BY <1>t, <2>1, <2>3
    <3>2. QED BY <1>k, <2>1, <3>1
  <2>4. QED BY <2>2, <2>3
<1>6. ASSUME NEW a \in Device, NEW b \in Device, OnOutgoingClosed(a, b) PROVE Path(x, y)'
  <2>1. /\ conn' = [conn EXCEPT ![a][b] = "none"] /\ conn[a][b] = "half"
        /\ UNCHANGED <<wire, queue, inLog, sent>>
    BY <1>6 DEF OnOutgoingClosed, ledgers
  <2>2. conn[x][y] = "open" => conn'[x][y] = "open"
    BY <1>t, <2>1
  <2>3. QED BY <1>k, <2>1, <2>2
<1>7. ASSUME NEW a \in Device, NEW b \in Device, LosePeer(a, b) \/ DialFailed(a, b)
      PROVE  Path(x, y)'
  BY <1>k, <1>7 DEF LosePeer, DialFailed, ledgers
<1>8. ASSUME NEW a \in Device, Crash(a) PROVE Path(x, y)'
  <2>1. /\ inLog' = inLog /\ sent' = sent
        /\ queue' = [queue EXCEPT ![a] = [b \in Device |-> <<>>]]
        /\ conn'[x][y] = IF x = a THEN "none"
                         ELSE IF y = a /\ conn[x][y] = "open" THEN "half"
                         ELSE conn[x][y]
        /\ wire'[x][y] = IF a \in {x, y} THEN <<>> ELSE wire[x][y]
    BY <1>8 DEF Crash, ledgers
  <2>2. queue'[x][y] = IF x = a THEN <<>> ELSE queue[x][y]
    BY <1>t, <2>1
  <2>3. CASE a \in {x, y}
    BY <1>l, <2>1, <2>2, <2>3
  <2>4. CASE a \notin {x, y}
    BY <1>k, <2>1, <2>2, <2>4
  <2>5. QED BY <2>3, <2>4
<1>9. ASSUME NEW a \in Device, Restart(a) PROVE Path(x, y)'
  BY <1>k, <1>9 DEF Restart, tables, ledgers
<1>10. CASE UNCHANGED vars
  BY <1>k, <1>10 DEF vars
<1>11. ASSUME NEW a \in Device, NEW b \in Device, NEW h \in Addr,
              HandleInboundPeerEnvelope(a, b, h)
       PROVE  Path(x, y)'
  <2> DEFINE f == Head(wire[a][b])
             rest == [wire EXCEPT ![a][b] = Tail(@)]
             known == addrs[b][a] \cup {h}
  <2>1. /\ UNCHANGED <<conn, queue, sent>>
        /\ conn[a][b] = "open" /\ wire[a][b] # <<>>
        /\ \/ /\ f.kind = "chat"
              /\ inLog' = [inLog EXCEPT ![b][a] = AppendOnce(@, f.n)]
              /\ SendPeerEnvelope(b, a, known, rest, Ack(f.n))
           \/ /\ f.kind # "chat" /\ wire' = rest /\ inLog' = inLog
    BY <1>11 DEF HandleInboundPeerEnvelope
  <2>2. /\ wire[a][b] \in Seq(Frame)
        /\ Tail(wire[a][b]) \in Seq(Frame)
    <3>1. wire[a][b] \in Seq(Frame)
      BY <1>0, PairType
    <3>2. QED BY <2>1, <3>1
  <2>3. rest \in [Device -> [Device -> Seq(Frame)]]
    BY <1>t, <2>2, UpdateType
  <2>4. rest[x][y] = IF x = a /\ y = b THEN Tail(wire[x][y]) ELSE wire[x][y]
    BY <1>t
  <2>5. rest[x][y] \in Seq(Frame)
    BY <2>3
  (* What the pair looks like once the frame is read and stored. *)
  <2>6. PathOf(conn[x][y], inLog'[y][x], rest[x][y], queue[x][y], sent[x][y])
    <3> HIDE DEF rest, known
    <3>1. CASE ~(x = a /\ y = b)
      <4>1. inLog'[y][x] = inLog[y][x]
        <5>1. CASE inLog' = inLog
          BY <5>1
        <5>2. CASE inLog' # inLog
          <6>1. inLog' = [inLog EXCEPT ![b][a] = AppendOnce(@, f.n)]
            BY <2>1, <5>2
          <6>2. QED BY <1>t, <3>1, <6>1
        <5>3. QED BY <5>1, <5>2
      <4>2. QED BY <1>g, <2>4, <3>1, <4>1
    <3>2. CASE x = a /\ y = b /\ f.kind # "chat"
      <4>1. inLog' = inLog /\ rest[x][y] = Tail(wire[x][y])
        BY <2>1, <2>4, <3>2
      <4>2. Increasing(inLog[y][x], Tail(wire[x][y]), queue[x][y], sent[x][y])
        BY <1>g, <1>n, <2>1, <3>2, ReadOther DEF PathOf
      <4>3. QED BY <2>1, <3>2, <4>1, <4>2 DEF PathOf
    <3>3. CASE x = a /\ y = b /\ f.kind = "chat"
      <4>1. /\ inLog' = [inLog EXCEPT ![b][a] = AppendOnce(inLog[b][a], f.n)]
            /\ rest[x][y] = Tail(wire[x][y])
        BY <2>1, <2>4, <3>3
      <4>2. inLog'[y][x] = AppendOnce(inLog[y][x], f.n)
        <5> HIDE DEF f
        <5>1. QED BY <1>t, <3>3, <4>1
      <4>3. queue[x][y] = <<>>
        BY <1>q, <2>1, <3>3 DEF Connected
      <4>4. Increasing(AppendOnce(inLog[y][x], f.n), Tail(wire[x][y]), <<>>, sent[x][y])
        BY <1>g, <1>n, <2>1, <3>3, <4>3, ReadPath DEF PathOf
      <4>5. QED BY <2>1, <3>3, <4>1, <4>2, <4>3, <4>4 DEF PathOf
    <3>4. QED BY <3>1, <3>2, <3>3
  <2>7. \/ wire'[x][y] = rest[x][y]
        \/ wire'[x][y] = rest[x][y] \o <<Ack(f.n)>> /\ conn[x][y] = "open"
    <3> DEFINE g == Ack(f.n)
    <3> HIDE DEF rest, known, f
    <3>1. CASE wire' = rest
      BY <3>1
    <3>2. CASE wire' # rest
      <4>1. wire' = IF conn[b][a] = "open" THEN [rest EXCEPT ![b][a] = @ \o <<g>>]
                    ELSE rest
        BY <2>1, <3>2 DEF SendPeerEnvelope, Transmit, Connected
      <4> HIDE DEF g
      <4>2. \/ wire'[x][y] = rest[x][y]
            \/ wire'[x][y] = rest[x][y] \o <<g>> /\ conn[x][y] = "open"
        BY <2>3, <4>1, SendElsewhere
      <4>3. QED BY <4>2 DEF g
    <3>3. QED BY <3>1, <3>2
  <2> DEFINE log == inLog'[y][x]
             w == rest[x][y]
             g == Ack(f.n)
  <2>8. log \in Seq(Nat)
    <3>1. f.n \in Nat
      <4>1. f \in Frame
        BY <2>1, <2>2
      <4>2. QED BY <4>1 DEF Frame
    <3> HIDE DEF f, rest, known
    <3>2. CASE inLog' = inLog
      BY <1>n, <3>2
    <3>3. CASE inLog' # inLog
      <4>1. inLog' = [inLog EXCEPT ![b][a] = AppendOnce(@, f.n)]
        BY <2>1, <3>3
      <4>2. inLog[b][a] \in Seq(Nat)
        BY <1>0, PairType
      <4>3. AppendOnce(inLog[b][a], f.n) \in Seq(Nat)
        BY <3>1, <4>2 DEF AppendOnce
      <4>4. QED BY <1>t, <4>1, <4>3, UpdateType
    <3>4. QED BY <3>2, <3>3
  <2>9. g.kind # "chat"
    BY FrameIs
  <2>10. CASE wire'[x][y] = w
    BY <2>1, <2>6, <2>10 DEF Path
  <2>11. CASE wire'[x][y] = w \o <<g>> /\ conn[x][y] = "open"
    <3> HIDE DEF f, rest, known, log, w, g
    <3>1. Increasing(log, w, queue[x][y], sent[x][y])
      BY <2>6 DEF PathOf, log, w
    <3>2. w \in Seq(Frame)
      BY <2>5 DEF w
    <3>3. Increasing(log, w \o <<g>>, queue[x][y], sent[x][y])
      BY <1>n, <2>8, <2>9, <3>1, <3>2, OtherOnWire
    <3>4. QED BY <2>1, <2>11, <3>3 DEF Path, PathOf, log
  <2>12. QED BY <2>7, <2>10, <2>11
<1>12. QED
  BY <1>0, <1>1, <1>2, <1>3, <1>4, <1>5, <1>6, <1>7, <1>8, <1>9, <1>10, <1>11
     DEF Next, Requests, Discovery, Sockets
------------------------------------------------------------------------------
(* Receipts.                                                               *)

(* The log holds the message n; what the receipt f says is true of it.     *)
Holds(log, n) == \E i \in 1..Len(log) : log[i] = n
Backed(log, f) == f.kind = "ack" => Holds(log, f.n)

(* ReceiptMeansStored for one pair: the log of the receiver, the receipts  *)
(* its sender shows, the frame the receiver parked and what it has written.*)
Truthful(log, R, p, w) ==
  /\ \A n \in R : Holds(log, n)
  /\ Backed(log, p) /\ p.kind # "chat"
  /\ \A i \in 1..Len(w) : Backed(log, w[i])

LEMMA AppendHolds ==
  ASSUME NEW log \in Seq(Nat), NEW n \in Nat
  PROVE  /\ Holds(AppendOnce(log, n), n)
         /\ \A m : Holds(log, m) => Holds(AppendOnce(log, n), m)
<1>1. CASE Holds(log, n)
  BY <1>1 DEF Holds, AppendOnce
<1>2. CASE ~Holds(log, n)
  <2> DEFINE new == Append(log, n)
  <2>1. AppendOnce(log, n) = new
    BY <1>2 DEF Holds, AppendOnce
  <2>2. /\ Len(new) = Len(log) + 1 /\ Len(log) \in Nat
        /\ \A i \in 1..Len(log) : new[i] = log[i]
        /\ new[Len(log) + 1] = n
    OBVIOUS
  <2> HIDE DEF new
  <2>3. Holds(new, n)
    <3>1. Len(log) + 1 \in 1..Len(new)
      BY <2>2
    <3>2. QED BY <2>2, <3>1 DEF Holds
  <2>4. ASSUME NEW m, Holds(log, m) PROVE Holds(new, m)
    <3>1. PICK i \in 1..Len(log) : log[i] = m
      BY <2>4 DEF Holds
    <3>2. i \in 1..Len(new) /\ new[i] = m
      BY <2>2, <3>1
    <3>3. QED BY <3>2 DEF Holds
  <2>5. QED BY <2>1, <2>3, <2>4
<1>3. QED BY <1>1, <1>2

LEMMA TruthfulGrows ==
  ASSUME NEW log \in Seq(Nat), NEW n \in Nat, NEW R, NEW p, NEW w,
         Truthful(log, R, p, w)
  PROVE  Truthful(AppendOnce(log, n), R, p, w)
BY AppendHolds DEF Truthful, Backed

LEMMA TruthfulWire ==
  ASSUME NEW log, NEW R, NEW p, NEW w \in Seq(Frame), NEW f \in Frame,
         Truthful(log, R, p, w), Backed(log, f)
  PROVE  Truthful(log, R, p, w \o <<f>>)
<1>1. /\ Len(w \o <<f>>) = Len(w) + 1 /\ Len(w) \in Nat
      /\ \A i \in 1..Len(w) : (w \o <<f>>)[i] = w[i]
      /\ (w \o <<f>>)[Len(w) + 1] = f
  OBVIOUS
<1>2. ASSUME NEW i \in 1..Len(w \o <<f>>) PROVE Backed(log, (w \o <<f>>)[i])
  <2>1. i \in 1..Len(w) \/ i = Len(w) + 1
    BY <1>1
  <2>2. QED BY <1>1, <2>1 DEF Truthful
<1>3. QED BY <1>2 DEF Truthful

LEMMA TruthfulRead ==
  ASSUME NEW log, NEW R, NEW p, NEW w \in Seq(Frame), w # <<>>,
         Truthful(log, R, p, w)
  PROVE  Truthful(log, R, p, Tail(w)) /\ Backed(log, Head(w))
<1> DEFINE v == Tail(w)
<1>1. /\ Len(w) \in Nat /\ Len(w) > 0 /\ Len(v) = Len(w) - 1
      /\ \A i \in 1..Len(v) : v[i] = w[i + 1]
      /\ Head(w) = w[1]
  OBVIOUS
<1> HIDE DEF v
<1>2. \A i \in 1..Len(v) : i + 1 \in 1..Len(w)
  BY <1>1
<1>3. \A i \in 1..Len(v) : Backed(log, v[i])
  BY <1>1, <1>2 DEF Truthful
<1>4. 1 \in 1..Len(w)
  BY <1>1
<1>5. QED BY <1>1, <1>3, <1>4 DEF Truthful, v

LEMMA TruthfulFlush ==
  ASSUME NEW log, NEW R, NEW p \in Frame \cup {NoFrame}, NEW w, NEW q \in Seq(Nat),
         Truthful(log, R, p, w)
  PROVE  /\ Truthful(log, R, NoFrame, <<>>)
         /\ Truthful(log, R, NoFrame,
                     AsFrames(q) \o (IF p = NoFrame THEN <<>> ELSE <<p>>))
<1>1. Truthful(log, R, NoFrame, <<>>)
  <2>1. 1..Len(<<>>) = {} /\ NoFrame.kind = "none"
    BY FrameIs
  <2>2. QED BY <2>1 DEF Truthful, Backed
<1> DEFINE v == AsFrames(q)
<1>2. v \in Seq(Frame) /\ \A i \in 1..Len(v) : Backed(log, v[i])
  BY AsFramesType, FrameIs DEF AsFrames, Backed
<1> HIDE DEF v
<1>3. Truthful(log, R, NoFrame, v)
  BY <1>1, <1>2 DEF Truthful
<1>4. CASE p = NoFrame
  <2>1. v \o <<>> = v
    BY <1>2
  <2>2. QED BY <1>1, <1>3, <1>4, <2>1 DEF v
<1>5. CASE p # NoFrame
  <2>1. Truthful(log, R, NoFrame, v \o <<p>>)
    BY <1>2, <1>3, <1>5, TruthfulWire DEF Truthful
  <2>2. QED BY <1>1, <1>5, <2>1 DEF v
<1>6. QED BY <1>4, <1>5

(* A frame other than a chat message and backed by the log is parked, or   *)
(* the parked one is kept or dropped.                                      *)
LEMMA TruthfulParked ==
  ASSUME NEW log, NEW R, NEW p, NEW w, NEW f, NEW l \in DialState, NEW known,
         Truthful(log, R, l.pending, w), Backed(log, f), f.kind # "chat",
         p \in {l.pending, f, NoFrame}
  PROVE  Truthful(log, R, p, w)
BY FrameIs DEF Truthful, Backed

LEMMA EnsureParks ==
  ASSUME NEW l \in DialState, NEW known
  PROVE  EnsureConnection(l, known).pending \in {l.pending, NoFrame}
BY DialNextParks DEF EnsureConnection

LEMMA ReceiptStep ==
  TypeOK /\ NothingWaitsWhenConnected /\ ReceiptMeansStored /\ [Next]_vars
    => ReceiptMeansStored'
<1> DEFINE Pair(x, y) == Truthful(inLog[y][x], receipts[x][y],
                                  dial[y][x].pending, wire[y][x])
<1>a. ReceiptMeansStored <=> \A x, y \in Device : Pair(x, y)
  BY DEF ReceiptMeansStored, Stored, Truthful, Backed, Holds
<1>0. SUFFICES ASSUME TypeOK, NothingWaitsWhenConnected, ReceiptMeansStored,
                      [Next]_vars, NEW x \in Device, NEW y \in Device
               PROVE  Pair(x, y)'
  <2>1. (\A x, y \in Device : Pair(x, y)') => ReceiptMeansStored'
    BY SMTT(30) DEF ReceiptMeansStored, Stored, Truthful, Backed, Holds
  <2> HIDE DEF Pair
  <2> QED BY <2>1
<1>t. /\ conn \in [Device -> [Device -> {"none", "open", "half"}]]
      /\ wire \in [Device -> [Device -> Seq(Frame)]]
      /\ dial \in [Device -> [Device -> DialState]]
      /\ inLog \in [Device -> [Device -> Seq(Nat)]]
      /\ receipts \in [Device -> [Device -> SUBSET Nat]]
  BY <1>0 DEF TypeOK
<1>n. /\ inLog[y][x] \in Seq(Nat) /\ wire[y][x] \in Seq(Frame)
      /\ dial[y][x] \in DialState /\ queue[y][x] \in Seq(Nat)
  BY <1>0, PairType
<1>g. Truthful(inLog[y][x], receipts[x][y], dial[y][x].pending, wire[y][x])
  BY <1>0, <1>a
<1>k. ASSUME inLog'[y][x] = inLog[y][x], receipts'[x][y] = receipts[x][y],
             dial'[y][x].pending \in {dial[y][x].pending, NoFrame},
             wire'[y][x] \in {wire[y][x], <<>>}
      PROVE  Pair(x, y)'
  <2>1. NoFrame.kind = "none" /\ 1..Len(<<>>) = {}
    BY FrameIs
  <2>2. QED BY <1>g, <1>k, <2>1 DEF Truthful, Backed
<1> HIDE DEF Pair
<1>1. ASSUME NEW a \in Device, NEW b \in Device, SendChat(a, b) PROVE Pair(x, y)'
  <2> DEFINE c == Chat(sent[a][b] + 1)
  <2>1. inLog' = inLog /\ receipts' = receipts
    BY <1>1 DEF SendChat
  <2>2. CASE Connected(a, b)
    <3>1. /\ dial' = dial
          /\ wire' = IF conn[a][b] = "open" THEN [wire EXCEPT ![a][b] = @ \o <<c>>]
                     ELSE wire
      BY <1>1, <2>2 DEF SendChat, Transmit
    <3>2. c \in Frame /\ c.kind = "chat"
      <4>1. sent[a][b] \in Nat
        BY <1>0, PairType
      <4>2. QED BY <4>1, Frames, FrameIs
    <3> HIDE DEF c
    <3>3. wire'[y][x] = wire[y][x] \/ wire'[y][x] = wire[y][x] \o <<c>>
      BY <1>t, <3>1, SendElsewhere
    <3>4. CASE wire'[y][x] = wire[y][x]
      BY <1>k, <2>1, <3>1, <3>4
    <3>5. CASE wire'[y][x] = wire[y][x] \o <<c>>
      <4>1. Backed(inLog[y][x], c)
        BY <3>2 DEF Backed
      <4>2. Truthful(inLog[y][x], receipts[x][y], dial[y][x].pending,
                     wire[y][x] \o <<c>>)
        BY <1>g, <1>n, <3>2, <4>1, TruthfulWire
      <4>3. QED BY <2>1, <3>1, <3>5, <4>2 DEF Pair
    <3>6. QED BY <3>3, <3>4, <3>5
  <2>3. CASE ~Connected(a, b)
    <3>1. /\ dial' = [dial EXCEPT ![a][b] = EnsureConnection(@, addrs[a][b])]
          /\ wire' = wire
      BY <1>1, <2>3 DEF SendChat
    <3>2. dial'[y][x] \in {dial[y][x], EnsureConnection(dial[y][x], addrs[a][b])}
      BY <1>t, <3>1
    <3>3. dial'[y][x].pending \in {dial[y][x].pending, NoFrame}
      BY <1>n, <3>2, EnsureParks
    <3>4. QED BY <1>k, <2>1, <3>1, <3>3
  <2>4. QED BY <2>2, <2>3
<1>2. ASSUME NEW a \in Device, NEW b \in Device, SendDirect(a, b) PROVE Pair(x, y)'
  <2> DEFINE f == Direct(direct[a][b] + 1)
  <2>1. /\ inLog' = inLog /\ receipts' = receipts
        /\ SendPeerEnvelope(a, b, addrs[a][b], wire, f)
    BY <1>2 DEF SendDirect
  <2>2. f \in Frame /\ f.kind = "direct"
    <3>1. direct[a][b] \in Nat
      BY <1>0, PairType
    <3>2. QED BY <3>1, Frames, FrameIs
  <2> HIDE DEF f
  <2>3. Backed(inLog[y][x], f) /\ f.kind # "chat"
    BY <2>2 DEF Backed
  <2>4. CASE Connected(a, b)
    <3>1. /\ dial' = dial
          /\ wire' = IF conn[a][b] = "open" THEN [wire EXCEPT ![a][b] = @ \o <<f>>]
                     ELSE wire
      BY <2>1, <2>4 DEF SendPeerEnvelope, Transmit
    <3>2. wire'[y][x] = wire[y][x] \/ wire'[y][x] = wire[y][x] \o <<f>>
      BY <1>t, <3>1, SendElsewhere
    <3>3. CASE wire'[y][x] = wire[y][x]
      BY <1>k, <2>1, <3>1, <3>3
    <3>4. CASE wire'[y][x] = wire[y][x] \o <<f>>
      <4>1. Truthful(inLog[y][x], receipts[x][y], dial[y][x].pending,
                     wire[y][x] \o <<f>>)
        BY <1>g, <1>n, <2>2, <2>3, TruthfulWire
      <4>2. QED BY <2>1, <3>1, <3>4, <4>1 DEF Pair
    <3>5. QED BY <3>2, <3>3, <3>4
  <2>5. CASE ~Connected(a, b)
    <3>1. /\ dial' = [dial EXCEPT ![a][b] = DialNext(@, addrs[a][b], f)]
          /\ wire' = wire
      BY <2>1, <2>5 DEF SendPeerEnvelope
    <3>2. dial'[y][x] \in {dial[y][x], DialNext(dial[y][x], addrs[a][b], f)}
      BY <1>t, <3>1
    <3>3. dial'[y][x].pending \in {dial[y][x].pending, f, NoFrame}
      BY <1>n, <3>2, DialNextParks
    <3>4. Truthful(inLog[y][x], receipts[x][y], dial'[y][x].pending, wire[y][x])
      BY <1>g, <1>n, <2>3, <3>3, TruthfulParked
    <3>5. QED BY <2>1, <3>1, <3>4 DEF Pair
  <2>6. QED BY <2>4, <2>5
<1>3. ASSUME NEW a \in Device, NEW b \in Device, NEW S \in SUBSET Addr \ {{}},
             OnLanPeer(a, b, S)
      PROVE  Pair(x, y)'
  <2> DEFINE known == addrs[a][b] \cup S
  <2>1. /\ UNCHANGED <<inLog, receipts, wire>>
        /\ dial' = dial \/ dial' = [dial EXCEPT ![a][b] = EnsureConnection(@, known)]
    <3>1. CASE queue[a][b] = <<>>
      BY <1>3, <3>1 DEF OnLanPeer, MaybeRedeliver, ledgers
    <3>2. CASE queue[a][b] # <<>>
      <4>1. ~Connected(a, b)
        BY <1>0, <3>2 DEF NothingWaitsWhenConnected
      <4>2. QED BY <1>3, <3>2, <4>1 DEF OnLanPeer, MaybeRedeliver, ledgers
    <3>3. QED BY <3>1, <3>2
  <2> HIDE DEF known
  <2>2. dial'[y][x].pending \in {dial[y][x].pending, NoFrame}
    <3>1. CASE dial' = dial
      BY <3>1
    <3>2. CASE dial' = [dial EXCEPT ![a][b] = EnsureConnection(@, known)]
      <4>1. dial'[y][x] \in {dial[y][x], EnsureConnection(dial[y][x], known)}
        BY <1>t, <3>2
      <4>2. QED BY <1>n, <4>1, EnsureParks
    <3>3. QED BY <2>1, <3>1, <3>2
  <2>3. QED BY <1>k, <2>1, <2>2
<1>4. ASSUME NEW a \in Device, NEW b \in Device, DialSucceeded(a, b) PROVE Pair(x, y)'
  <2> DEFINE p == dial[a][b].pending
             v == AsFrames(queue[a][b]) \o (IF p = NoFrame THEN <<>> ELSE <<p>>)
             l == [NoDial EXCEPT !.route = dial[a][b].dialing]
  <2>1. /\ inLog' = inLog /\ receipts' = receipts
        /\ dial' = [dial EXCEPT ![a][b] = l]
        /\ wire' = [wire EXCEPT ![a][b] = v]
    BY <1>4 DEF DialSucceeded, ledgers
  <2>2. l.pending = NoFrame
    BY DEF NoDial
  <2>3. CASE y = a /\ x = b
    <3>1. p \in Frame \cup {NoFrame}
      BY <1>n, <2>3 DEF DialState
    <3>2. Truthful(inLog[y][x], receipts[x][y], NoFrame, v)
      <4> HIDE DEF p
      <4>1. Truthful(inLog[y][x], receipts[x][y], p, wire[y][x])
        BY <1>g, <2>3 DEF p
      <4>2. QED BY <1>n, <2>3, <3>1, <4>1, TruthfulFlush
    <3> HIDE DEF v, l
    <3>3. dial'[y][x] = l /\ wire'[y][x] = v
      BY <1>t, <2>1, <2>3
    <3>4. QED BY <2>1, <2>2, <3>2, <3>3 DEF Pair
  <2>4. CASE ~(y = a /\ x = b)
    <3> HIDE DEF v, l
    <3>1. dial'[y][x] = dial[y][x] /\ wire'[y][x] = wire[y][x]
      BY <1>t, <2>1, <2>4
    <3>2. QED BY <1>k, <2>1, <3>1
  <2>5. QED BY <2>3, <2>4
<1>5. ASSUME NEW a \in Device, NEW b \in Device, DialFailed(a, b) PROVE Pair(x, y)'
  <2>1. /\ UNCHANGED <<inLog, receipts, wire>>
        /\ dial' = [dial EXCEPT ![a][b] = AfterFailure(@, addrs[a][b])]
    BY <1>5 DEF DialFailed, ledgers
  <2>2. dial'[y][x] \in {dial[y][x], AfterFailure(dial[y][x], addrs[a][b])}
    BY <1>t, <2>1
  <2>3. dial'[y][x].pending \in {dial[y][x].pending, NoFrame}
    BY <1>n, <2>2, AfterFailureParks
  <2>4. QED BY <1>k, <2>1, <2>3
<1>6. ASSUME NEW a \in Device, NEW b \in Device,
             LinkBreaks(a, b) \/ OnOutgoingClosed(a, b) \/ LosePeer(a, b)
      PROVE  Pair(x, y)'
  <2>1. /\ UNCHANGED <<inLog, receipts, dial>>
        /\ wire' = wire \/ wire' = [wire EXCEPT ![a][b] = <<>>]
    BY <1>6 DEF LinkBreaks, OnOutgoingClosed, LosePeer, ledgers
  <2>2. wire'[y][x] \in {wire[y][x], <<>>}
    <3>1. CASE wire' = wire
      BY <3>1
    <3>2. CASE wire' = [wire EXCEPT ![a][b] = <<>>]
      BY <1>t, <3>2
    <3>3. QED BY <2>1, <3>1, <3>2
  <2>3. QED BY <1>k, <2>1, <2>2
<1>7. ASSUME NEW a \in Device, Crash(a) PROVE Pair(x, y)'
  <2>1. /\ inLog' = inLog /\ receipts' = receipts
        /\ dial' = [dial EXCEPT ![a] = [b \in Device |-> NoDial]]
        /\ wire'[y][x] = IF a \in {y, x} THEN <<>> ELSE wire[y][x]
    BY <1>7 DEF Crash, ledgers
  <2>2. dial'[y][x] \in {dial[y][x], NoDial}
    BY <1>t, <2>1
  <2>3. NoDial.pending = NoFrame
    BY DEF NoDial
  <2>4. QED BY <1>k, <2>1, <2>2, <2>3
<1>8. ASSUME NEW a \in Device, Restart(a) PROVE Pair(x, y)'
  BY <1>8, <1>k DEF Restart, tables, ledgers
<1>9. CASE UNCHANGED vars
  BY <1>9, <1>k DEF vars
<1>10. ASSUME NEW a \in Device, NEW b \in Device, NEW h \in Addr,
              HandleInboundPeerEnvelope(a, b, h)
       PROVE  Pair(x, y)'
  <2> DEFINE f == Head(wire[a][b])
             rest == [wire EXCEPT ![a][b] = Tail(@)]
             known == addrs[b][a] \cup {h}
             g == Ack(f.n)
  <2>1. wire[a][b] # <<>> /\ wire[a][b] \in Seq(Frame)
    BY <1>0, <1>10, PairType DEF HandleInboundPeerEnvelope
  <2>2. f \in Frame /\ Tail(wire[a][b]) \in Seq(Frame)
    BY <2>1
  <2>3. f.n \in Nat
    BY <2>2 DEF Frame
  <2>4. g \in Frame /\ g.kind = "ack" /\ g.n = f.n
    BY <2>3, Frames, FrameIs
  <2>5. rest \in [Device -> [Device -> Seq(Frame)]]
    BY <1>t, <2>2, UpdateType
  <2>6. rest[y][x] \in Seq(Frame)
    BY <2>5
  (* The frame is read. *)
  <2>7. Truthful(inLog[y][x], receipts[x][y], dial[y][x].pending, rest[y][x])
    <3>1. CASE y = a /\ x = b
      <4>1. rest[y][x] = Tail(wire[y][x])
        BY <1>t, <3>1
      <4>2. QED BY <1>g, <1>n, <2>1, <3>1, <4>1, TruthfulRead
    <3>2. CASE ~(y = a /\ x = b)
      <4>1. rest[y][x] = wire[y][x]
        BY <1>t, <3>2
      <4>2. QED BY <1>g, <4>1
    <3>3. QED BY <3>1, <3>2
  <2>8. \/ /\ f.kind = "chat"
           /\ inLog' = [inLog EXCEPT ![b][a] = AppendOnce(@, f.n)]
           /\ SendPeerEnvelope(b, a, known, rest, g)
           /\ receipts' = receipts
        \/ /\ f.kind = "ack"
           /\ receipts' = [receipts EXCEPT ![b][a] = @ \cup {f.n}]
           /\ wire' = rest /\ UNCHANGED <<dial, inLog>>
        \/ wire' = rest /\ UNCHANGED <<dial, inLog, receipts>>
    BY <1>10 DEF HandleInboundPeerEnvelope
  <2>9. Backed(inLog[a][b], f)
    <3>1. Truthful(inLog[a][b], receipts[b][a], dial[a][b].pending, wire[a][b])
      BY <1>0 DEF ReceiptMeansStored, Stored, Truthful, Backed, Holds
    <3>2. QED BY <2>1, <3>1, TruthfulRead
  <2> HIDE DEF f, rest, known, g
  <2>10. CASE wire' = rest /\ UNCHANGED <<dial, inLog, receipts>>
    BY <2>7, <2>10 DEF Pair
  <2>11. CASE /\ f.kind = "ack"
              /\ receipts' = [receipts EXCEPT ![b][a] = @ \cup {f.n}]
              /\ wire' = rest /\ UNCHANGED <<dial, inLog>>
    <3>1. CASE x = b /\ y = a
      <4>1. receipts'[x][y] = receipts[x][y] \cup {f.n}
        BY <1>t, <2>11, <3>1
      <4>2. Holds(inLog[y][x], f.n)
        BY <2>9, <2>11, <3>1 DEF Backed
      <4>3. Truthful(inLog[y][x], receipts[x][y] \cup {f.n}, dial[y][x].pending,
                     rest[y][x])
        BY <2>7, <4>2 DEF Truthful
      <4>4. QED BY <2>11, <4>1, <4>3 DEF Pair
    <3>2. CASE ~(x = b /\ y = a)
      <4>1. receipts'[x][y] = receipts[x][y]
        BY <1>t, <2>11, <3>2
      <4>2. QED BY <2>7, <2>11, <4>1 DEF Pair
    <3>3. QED BY <3>1, <3>2
  <2>12. CASE /\ inLog' = [inLog EXCEPT ![b][a] = AppendOnce(@, f.n)]
              /\ SendPeerEnvelope(b, a, known, rest, g)
              /\ receipts' = receipts
    <3>1. CASE ~(y = b /\ x = a)
      <4>1. inLog'[y][x] = inLog[y][x]
        BY <1>t, <2>12, <3>1
      <4>2. wire'[y][x] = rest[y][x] /\ dial'[y][x] = dial[y][x]
        <5>1. CASE Connected(b, a)
          <6>1. /\ dial' = dial
                /\ wire' = IF conn[b][a] = "open" THEN [rest EXCEPT ![b][a] = @ \o <<g>>]
                           ELSE rest
            BY <2>12, <5>1 DEF SendPeerEnvelope, Transmit
          <6>2. QED BY <2>5, <3>1, <6>1
        <5>2. CASE ~Connected(b, a)
          <6>1. /\ dial' = [dial EXCEPT ![b][a] = DialNext(@, known, g)]
                /\ wire' = rest
            BY <2>12, <5>2 DEF SendPeerEnvelope
          <6>2. QED BY <1>t, <3>1, <6>1
        <5>3. QED BY <5>1, <5>2
      <4>3. QED BY <2>7, <2>12, <4>1, <4>2 DEF Pair
    <3>2. CASE y = b /\ x = a
      <4> DEFINE log == AppendOnce(inLog[y][x], f.n)
      <4>1. inLog'[y][x] = log
        BY <1>t, <2>12, <3>2
      <4>2. Backed(log, g)
        BY <1>n, <2>3, <2>4, AppendHolds DEF Backed
      <4>3. Truthful(log, receipts[x][y], dial[y][x].pending, rest[y][x])
        BY <1>n, <2>3, <2>7, TruthfulGrows
      <4> HIDE DEF log
      <4>4. CASE Connected(b, a)
        <5>1. /\ dial' = dial
              /\ wire' = IF conn[b][a] = "open" THEN [rest EXCEPT ![b][a] = @ \o <<g>>]
                         ELSE rest
          BY <2>12, <4>4 DEF SendPeerEnvelope, Transmit
        <5>2. wire'[y][x] = rest[y][x] \/ wire'[y][x] = rest[y][x] \o <<g>>
          BY <2>5, <5>1, SendElsewhere
        <5>3. Truthful(log, receipts[x][y], dial[y][x].pending, rest[y][x] \o <<g>>)
          BY <2>4, <2>6, <4>2, <4>3, TruthfulWire
        <5>4. QED BY <2>12, <4>1, <4>3, <5>1, <5>2, <5>3 DEF Pair
      <4>5. CASE ~Connected(b, a)
        <5>1. /\ dial' = [dial EXCEPT ![b][a] = DialNext(@, known, g)]
              /\ wire' = rest
          BY <2>12, <4>5 DEF SendPeerEnvelope
        <5>2. dial'[y][x] = DialNext(dial[y][x], known, g)
          BY <1>t, <3>2, <5>1
        <5>3. dial'[y][x].pending \in {dial[y][x].pending, g, NoFrame}
          BY <1>n, <5>2, DialNextParks
        <5>4. Truthful(log, receipts[x][y], dial'[y][x].pending, rest[y][x])
          BY <1>n, <2>4, <4>2, <4>3, <5>3, TruthfulParked
        <5>5. QED BY <2>12, <4>1, <5>1, <5>4 DEF Pair
      <4>6. QED BY <4>4, <4>5
    <3>3. QED BY <3>1, <3>2
  <2>13. QED BY <2>8, <2>10, <2>11, <2>12
<1>11. QED
  BY <1>0, <1>1, <1>2, <1>3, <1>4, <1>5, <1>6, <1>7, <1>8, <1>9, <1>10
     DEF Next, Requests, Discovery, Sockets

------------------------------------------------------------------------------
(* The path is in order and receipts are true.                             *)

(* PathInOrder and ReceiptMeansStored, with what they rest on: nothing     *)
(* waits on an open connection, so message.send may write to it at once,   *)
(* and the queue is the newest messages in order, so a flush continues     *)
(* what was written before.                                                *)
IInv == /\ TypeOK
        /\ NothingWaitsWhenConnected
        /\ QueueHoldsTheNewest
        /\ PathInOrder
        /\ ReceiptMeansStored

LEMMA IInvInit == Init => IInv
<1>0. SUFFICES ASSUME Init PROVE IInv
  OBVIOUS
<1>1. TypeOK
  BY <1>0, PeerLinkAssumption
     DEF Init, TypeOK, PerPeer, NoDial, DialState, NoFrame, NoPlan
<1>2. NothingWaitsWhenConnected
  BY <1>0 DEF Init, NothingWaitsWhenConnected, Connected, PerPeer
<1>3. QueueHoldsTheNewest
  BY <1>0, EmptyIsNewest DEF Init, QueueHoldsTheNewest, PerPeer
<1>4. ASSUME NEW a \in Device, NEW b \in Device
      PROVE  /\ inLog[b][a] = <<>> /\ wire[a][b] = <<>> /\ queue[a][b] = <<>>
             /\ sent[a][b] = 0 /\ receipts[a][b] = {}
             /\ dial[b][a].pending.kind = "none"
  BY <1>0, FrameIs DEF Init, PerPeer, NoDial
<1>5. Len(<<>>) = 0
  OBVIOUS
<1>6. PathInOrder
  BY <1>4, <1>5 DEF PathInOrder, Increasing
<1>7. ReceiptMeansStored
  BY <1>4, <1>5 DEF ReceiptMeansStored
<1>8. QED BY <1>1, <1>2, <1>3, <1>6, <1>7 DEF IInv

LEMMA IInvStep == IInv /\ TypeOK' /\ [Next]_vars => IInv'
<1>1. ReceiptMeansStored => \A a, b \in Device : dial[a][b].pending.kind # "chat"
  BY DEF ReceiptMeansStored
<1>2. QED
  BY <1>1, CleanStep, QueueStep, PathStep, ReceiptStep DEF IInv

LEMMA Invariant == Spec => []IInv
<1>1. QED
  BY IInvInit, IInvStep, TypeCorrect, PTL DEF Spec

(* PathInOrder: the ledger of the receiver, the wire and the offline queue *)
(* hold increasing messages, in this order, whatever breaks or crashes.    *)
THEOREM InOrder == Spec => []PathInOrder
<1>1. IInv => PathInOrder
  BY DEF IInv
<1>2. QED BY <1>1, Invariant, PTL

(* ReceiptMeansStored: a message shown as delivered, or whose receipt is   *)
(* parked or in flight, is in the ledger of its receiver.                  *)
THEOREM ReceiptsAreTrue == Spec => []ReceiptMeansStored
<1>1. IInv => ReceiptMeansStored
  BY DEF IInv
<1>2. QED BY <1>1, Invariant, PTL

------------------------------------------------------------------------------
(* The transport implements the service its users see.                     *)

(* Every step is one of ChatService or leaves what the users see alone:    *)
(* message.send accepts, a chat message read stores, a receipt read        *)
(* delivers.                                                               *)
LEMMA ServiceStep == IInv /\ [Next]_vars => [Service!Next]_(Service!vars)
<1> DEFINE Goal == [Service!Next]_(Service!vars)
<1>0. SUFFICES ASSUME IInv, [Next]_vars PROVE Goal
  OBVIOUS
<1>t. TypeOK /\ PathInOrder /\ ReceiptMeansStored /\ NothingWaitsWhenConnected
  BY <1>0 DEF IInv
<1>k. ASSUME UNCHANGED <<sent, inLog, receipts>> PROVE Goal
  BY <1>k DEF Service!vars
<1>1. ASSUME NEW a \in Device, NEW b \in Device, SendChat(a, b) PROVE Goal
  <2>1. Service!Accept(a, b)
    BY <1>1 DEF SendChat, Service!Accept
  <2>2. QED BY <2>1 DEF Service!Next
<1>2. ASSUME NEW a \in Device, NEW b \in Device, NEW h \in Addr,
             HandleInboundPeerEnvelope(a, b, h)
      PROVE  Goal
  <2> DEFINE f == Head(wire[a][b])
  <2>1. /\ sent' = sent
        /\ wire[a][b] # <<>> /\ conn[a][b] = "open"
        /\ \/ /\ f.kind = "chat" /\ receipts' = receipts
              /\ inLog' = [inLog EXCEPT ![b][a] = AppendOnce(@, f.n)]
           \/ /\ f.kind = "ack" /\ inLog' = inLog
              /\ receipts' = [receipts EXCEPT ![b][a] = @ \cup {f.n}]
           \/ UNCHANGED <<sent, inLog, receipts>>
    BY <1>2 DEF HandleInboundPeerEnvelope
  <2>2. wire[a][b] \in Seq(Frame)
    BY <1>t, PairType
  <2>3. Len(wire[a][b]) \in Nat /\ 1 \in 1..Len(wire[a][b]) /\ f = wire[a][b][1]
    BY <2>1, <2>2
  <2> HIDE DEF f
  <2>4. CASE f.kind = "chat" /\ receipts' = receipts
             /\ inLog' = [inLog EXCEPT ![b][a] = AppendOnce(@, f.n)]
    <3>1. queue[a][b] = <<>>
      BY <1>t, <2>1 DEF NothingWaitsWhenConnected, Connected
    <3>2. Increasing(inLog[b][a], wire[a][b], <<>>, sent[a][b])
      BY <1>t, <3>1 DEF PathInOrder
    <3>3. /\ f.n \in 1..sent[a][b]
          /\ \A i \in 1..Len(inLog[b][a]) : inLog[b][a][i] < f.n
      BY <2>3, <2>4, <3>2 DEF Increasing
    <3>4. AppendOnce(inLog[b][a], f.n) = Append(inLog[b][a], f.n)
      <4>1. inLog[b][a] \in Seq(Nat) /\ sent[a][b] \in Nat
        BY <1>t, PairType
      <4>2. QED BY <2>1, <2>2, <2>4, <3>2, <4>1, ReadPath DEF f
    <3>5. Service!Store(a, b, f.n)
      <4>1. inLog' = [inLog EXCEPT ![b][a] = Append(inLog[b][a], f.n)]
        BY <2>4, <3>4
      <4>2. QED BY <2>1, <2>4, <3>3, <4>1 DEF Service!Store
    <3>6. QED BY <3>3, <3>5 DEF Service!Next
  <2>5. CASE f.kind = "ack" /\ inLog' = inLog
             /\ receipts' = [receipts EXCEPT ![b][a] = @ \cup {f.n}]
    <3>1. Stored(b, a, f.n)
      BY <1>t, <2>3, <2>5 DEF ReceiptMeansStored
    <3>2. Service!Deliver(b, a, f.n)
      BY <2>1, <2>5, <3>1 DEF Service!Deliver, Stored
    <3>3. f.n \in 1..sent[b][a]
      <4>1. PICK i \in 1..Len(inLog[a][b]) : inLog[a][b][i] = f.n
        BY <3>1 DEF Stored
      <4>2. /\ inLog[a][b] \in Seq(Nat) /\ sent[b][a] \in Nat
            /\ queue[b][a] \in Seq(Nat)
        BY <1>t, PairType
      <4>3. inLog[a][b][i] >= 1 /\ inLog[a][b][i] + Len(queue[b][a]) <= sent[b][a]
        BY <1>t DEF PathInOrder, Increasing
      <4>4. Len(queue[b][a]) \in Nat /\ f.n \in Nat
        BY <4>1, <4>2
      <4>5. QED BY <4>1, <4>2, <4>3, <4>4
    <3>4. QED BY <3>2, <3>3 DEF Service!Next
  <2>6. QED BY <1>k, <2>1, <2>4, <2>5
<1> HIDE DEF Goal
<1>3. ASSUME NEW a \in Device, NEW b \in Device,
             \/ SendDirect(a, b) \/ LosePeer(a, b) \/ DialSucceeded(a, b)
             \/ DialFailed(a, b) \/ LinkBreaks(a, b) \/ OnOutgoingClosed(a, b)
             \/ \E S \in SUBSET Addr \ {{}} : OnLanPeer(a, b, S)
      PROVE  Goal
  BY <1>3, <1>k DEF SendDirect, LosePeer, DialSucceeded, DialFailed, LinkBreaks,
                    OnOutgoingClosed, OnLanPeer, ledgers
<1>4. ASSUME NEW a \in Device, Crash(a) \/ Restart(a) PROVE Goal
  BY <1>4, <1>k DEF Crash, Restart, ledgers
<1>5. CASE UNCHANGED vars
  BY <1>5, <1>k DEF vars
<1>6. QED
  BY <1>0, <1>1, <1>2, <1>3, <1>4, <1>5 DEF Next, Requests, Discovery, Sockets

(* PeerLink implements ChatService: across dials, broken links, offline    *)
(* queues and crashes, users see each message at most once, in order, and  *)
(* as delivered only when it is stored.                                    *)
THEOREM Implements == Spec => ChatServiceSpec
<1>1. Init => Service!Init
  BY DEF Init, Service!Init, PerPeer
<1>2. QED
  BY <1>1, Invariant, ServiceStep, PTL DEF Spec, ChatServiceSpec, Service!Spec
=============================================================================
