------------------------------- MODULE PeerLink -------------------------------
(***************************************************************************)
(* The daemon-to-daemon transport of localim (native/core/daemon.cc): the  *)
(* address table of a peer, the dial plan that tries its candidates in     *)
(* order, the one frame parked while a dial is in progress, the outgoing   *)
(* WebSocket connection, the offline queue of one-to-one chat messages and *)
(* the delivery receipts.  Each daemon runs all of this on one IO thread,  *)
(* so a handler is one action; the daemons, the sockets and the heartbeat  *)
(* interleave freely.                                                      *)
(*                                                                         *)
(* A chat message is named by its position in the order in which its       *)
(* sender accepted it for that receiver; a frame is what goes on the wire. *)
(* TCP delivers in order or breaks: the frames in flight are then lost and *)
(* the dialling side learns of it later (a half-open connection).          *)
(***************************************************************************)
EXTENDS Naturals, Sequences

CONSTANTS
  Device,     \* the daemons
  Addr,       \* candidate addresses, numbered best first as RankPeerAddrs does
  QueueCap,   \* kOfflineQueueCap
  MaxChat,    \* [Device -> Nat]: bound on chat messages a device sends a peer
  MaxDirect,  \* [Device -> Nat]: bound on frames sent outside the queue
  MaxFaults,  \* bound on dial failures, broken links and lost peers
  MaxCrashes  \* bound on daemon crashes

ASSUME PeerLinkAssumption ==
  /\ Addr \subseteq Nat \ {0}
  /\ QueueCap \in Nat \ {0}
  /\ MaxChat \in [Device -> Nat]
  /\ MaxDirect \in [Device -> Nat]
  /\ MaxFaults \in Nat
  /\ MaxCrashes \in Nat

VARIABLES
  up,        \* the daemon process of a device is running
  addrs,     \* peers_: addrs[a][b], what a knows of b's addresses ({}: none)
  dial,      \* dial_plan_ with dial_idx_, dialing_, route_ and pending_out_
  conn,      \* outgoing_: a's connection to b, "half" when b's end is gone
  wire,      \* frames a wrote to that connection and b has not read
  queue,     \* offline_q_
  sent,      \* a's ledger: how many chat messages it accepted for b
  inLog,     \* inLog[b][a]: b's ledger of what came from a, oldest first
  receipts,  \* receipts[a][b]: the messages a's WebUI shows as delivered
  direct,    \* how many frames outside the queue a sent b
  faults,    \* faults so far
  crashes    \* crashes so far

tables == <<addrs, dial, conn, wire, queue>>
ledgers == <<sent, inLog, receipts>>
vars == <<up, addrs, dial, conn, wire, queue, sent, inLog, receipts, direct,
          faults, crashes>>

NoAddr == 0
NoPlan == {NoAddr}   \* dial_plan_ has no entry

Frame == [kind : {"chat", "ack", "direct"}, n : Nat]
NoFrame == [kind |-> "none", n |-> 0]
Chat(n) == [kind |-> "chat", n |-> n]
Ack(n) == [kind |-> "ack", n |-> n]
Direct(n) == [kind |-> "direct", n |-> n]

(* What the maps of daemon.h say of a peer nobody has dialled. *)
NoDial == [plan |-> NoPlan, dialing |-> NoAddr, route |-> NoAddr,
           pending |-> NoFrame]

PerPeer(v) == [a \in Device |-> [b \in Device |-> v]]

Init ==
  /\ up = [a \in Device |-> TRUE]
  /\ addrs = PerPeer({})
  /\ dial = PerPeer(NoDial)
  /\ conn = PerPeer("none")
  /\ wire = PerPeer(<<>>)
  /\ queue = PerPeer(<<>>)
  /\ sent = PerPeer(0)
  /\ inLog = PerPeer(<<>>)
  /\ receipts = PerPeer({})
  /\ direct = PerPeer(0)
  /\ faults = 0
  /\ crashes = 0

------------------------------------------------------------------------------
(* Helpers of daemon.cc. *)

Connected(a, b) == conn[a][b] # "none"

Best(S) == CHOOSE x \in S : \A y \in S : x <= y

(* The order of PeerCandidates: the address that worked last, then by rank. *)
NextCandidate(left, route) == IF route \in left THEN route ELSE Best(left)

(***************************************************************************)
(* DialNext on the dial state l of an unconnected peer: no record, nothing *)
(* to do; a candidate left, dial it in place of any dial in progress and   *)
(* park the frame, if there is one; none left, forget plan and frame.      *)
(***************************************************************************)
DialNext(l, known, frame) ==
  LET left == IF l.plan = NoPlan THEN known ELSE l.plan
      host == NextCandidate(left, l.route)
  IN  IF known = {} THEN l
      ELSE IF left = {}
      THEN [l EXCEPT !.plan = NoPlan, !.pending = NoFrame]
      ELSE [l EXCEPT !.plan = left \ {host}, !.dialing = host,
                     !.pending = IF frame = NoFrame THEN @ ELSE frame]

EnsureConnection(l, known) ==
  IF l.dialing # NoAddr THEN l ELSE DialNext(l, known, NoFrame)

(* Writing to a half-open connection succeeds and reaches nobody. *)
Transmit(a, b, w, frames) ==
  IF conn[a][b] = "open" THEN [w EXCEPT ![a][b] = @ \o frames] ELSE w

(* SendPeerEnvelope: on the connection if there is one, else dial. *)
SendPeerEnvelope(a, b, known, w, frame) ==
  /\ wire' = IF Connected(a, b) THEN Transmit(a, b, w, <<frame>>) ELSE w
  /\ dial' = IF Connected(a, b) THEN dial
             ELSE [dial EXCEPT ![a][b] = DialNext(@, known, frame)]

(* MessageStore::Append drops a message it already holds (same nonce). *)
AppendOnce(log, n) ==
  IF \E i \in 1..Len(log) : log[i] = n THEN log ELSE Append(log, n)

(* Mutant: a full queue refuses the new message. *)
QueueOfflineDropsNewest(q, n) ==
  IF Len(q) >= QueueCap THEN q ELSE Append(q, n)

(* QueueOffline drops the oldest message above the cap. *)
QueueOffline(q, n) ==
  LET longer == Append(q, n)
  IN  IF Len(longer) > QueueCap THEN Tail(longer) ELSE longer

(* Mutant: the queue is written from its end. *)
AsFramesNewestFirst(q) == [i \in 1..Len(q) |-> Chat(q[Len(q) + 1 - i])]

AsFrames(q) == [i \in 1..Len(q) |-> Chat(q[i])]

(* Mutant: nothing happens when a peer comes back. *)
MaybeRedeliverNever(a, b, known) == UNCHANGED <<dial, wire, queue>>

(***************************************************************************)
(* MaybeRedeliver after b was heard of: flush the queue if connected, else *)
(* make sure a dial is in progress; nothing when the queue is empty.       *)
(***************************************************************************)
MaybeRedeliver(a, b, known) ==
  IF queue[a][b] = <<>> THEN UNCHANGED <<dial, wire, queue>>
  ELSE IF Connected(a, b)
  THEN /\ wire' = Transmit(a, b, wire, AsFrames(queue[a][b]))
       /\ queue' = [queue EXCEPT ![a][b] = <<>>]
       /\ UNCHANGED dial
  ELSE /\ dial' = [dial EXCEPT ![a][b] = EnsureConnection(@, known)]
       /\ UNCHANGED <<wire, queue>>

------------------------------------------------------------------------------
(* Requests of the WebUI. *)

(* message.send of a one-to-one chat: stored and echoed whatever happens. *)
SendChat(a, b) ==
  LET n == sent[a][b] + 1
  IN  /\ up[a] /\ a # b
      /\ n <= MaxChat[a]
      /\ sent' = [sent EXCEPT ![a][b] = n]
      /\ IF Connected(a, b)
         THEN /\ wire' = Transmit(a, b, wire, <<Chat(n)>>)
              /\ UNCHANGED <<dial, queue>>
         ELSE /\ queue' = [queue EXCEPT ![a][b] = QueueOffline(@, n)]
              /\ dial' = [dial EXCEPT
                            ![a][b] = EnsureConnection(@, addrs[a][b])]
              /\ UNCHANGED wire
      /\ UNCHANGED <<up, addrs, conn, inLog, receipts, direct,
                     faults, crashes>>

(* A media or room signal, or a room message, to a peer of the registry. *)
SendDirect(a, b) ==
  LET k == direct[a][b] + 1
  IN  /\ up[a] /\ a # b
      /\ addrs[a][b] # {}
      /\ k <= MaxDirect[a]
      /\ direct' = [direct EXCEPT ![a][b] = k]
      /\ SendPeerEnvelope(a, b, addrs[a][b], wire, Direct(k))
      /\ UNCHANGED <<up, addrs, conn, queue, sent, inLog, receipts, faults,
                     crashes>>

------------------------------------------------------------------------------
(* Discovery. *)

(* OnLanPeer: presence of b naming the addresses S, merged by Upsert. *)
OnLanPeer(a, b, S) ==
  LET known == addrs[a][b] \cup S
  IN  /\ up[a] /\ up[b] /\ a # b
      /\ addrs' = [addrs EXCEPT ![a][b] = known]
      /\ MaybeRedeliver(a, b, known)
      /\ UNCHANGED <<up, conn, ledgers, direct, faults, crashes>>

(* PruneStalePeers or a relay peer_offline drops the record: b is down, or *)
(* its presence did not arrive in time, which counts as a fault.           *)
LosePeer(a, b) ==
  /\ up[a] /\ addrs[a][b] # {}
  /\ IF up[b] THEN faults < MaxFaults /\ faults' = faults + 1
     ELSE UNCHANGED faults
  /\ addrs' = [addrs EXCEPT ![a][b] = {}]
  /\ UNCHANGED <<up, dial, conn, wire, queue, ledgers, direct, crashes>>

------------------------------------------------------------------------------
(* Sockets. *)

(* Mutant: the queue is written and not emptied. *)
DialSucceededKeepsQueue(a, b) ==
  /\ dial[a][b].dialing # NoAddr /\ up[b]
  /\ dial' =
       [dial EXCEPT ![a][b] = [NoDial EXCEPT !.route = dial[a][b].dialing]]
  /\ conn' = [conn EXCEPT ![a][b] = "open"]
  /\ wire' = [wire EXCEPT ![a][b] = AsFrames(queue[a][b])]
  /\ UNCHANGED <<up, addrs, queue, ledgers, direct, faults, crashes>>

(* Mutant: the rest of the plan survives the connection. *)
DialSucceededKeepsPlan(a, b) ==
  /\ dial[a][b].dialing # NoAddr /\ up[b]
  /\ dial' = [dial EXCEPT ![a][b].dialing = NoAddr, ![a][b].pending = NoFrame]
  /\ conn' = [conn EXCEPT ![a][b] = "open"]
  /\ wire' = [wire EXCEPT ![a][b] = AsFrames(queue[a][b])]
  /\ queue' = [queue EXCEPT ![a][b] = <<>>]
  /\ UNCHANGED <<up, addrs, ledgers, direct, faults, crashes>>

(* OnPeerDialResult with net::OK: flush the queue, then the parked frame. *)
DialSucceeded(a, b) ==
  LET l == dial[a][b]
      parked == IF l.pending = NoFrame THEN <<>> ELSE <<l.pending>>
  IN  /\ l.dialing # NoAddr /\ up[b]
      /\ dial' = [dial EXCEPT ![a][b] = [NoDial EXCEPT !.route = l.dialing]]
      /\ conn' = [conn EXCEPT ![a][b] = "open"]
      /\ wire' = [wire EXCEPT ![a][b] = AsFrames(queue[a][b]) \o parked]
      /\ queue' = [queue EXCEPT ![a][b] = <<>>]
      /\ UNCHANGED <<up, addrs, ledgers, direct, faults, crashes>>

(* The dial state once the dial in progress has failed: next candidate. *)
AfterFailure(l, known) ==
  DialNext([l EXCEPT !.dialing = NoAddr,
                     !.route = IF @ = l.dialing THEN NoAddr ELSE @],
           known, NoFrame)

DialFailed(a, b) ==
  /\ dial[a][b].dialing # NoAddr
  /\ IF up[b] THEN faults < MaxFaults /\ faults' = faults + 1
     ELSE UNCHANGED faults
  /\ dial' = [dial EXCEPT ![a][b] = AfterFailure(@, addrs[a][b])]
  /\ UNCHANGED <<up, addrs, conn, wire, queue, ledgers, direct, crashes>>

(* The network breaks a connection: what it carried is gone. *)
LinkBreaks(a, b) ==
  /\ conn[a][b] = "open"
  /\ faults < MaxFaults /\ faults' = faults + 1
  /\ conn' = [conn EXCEPT ![a][b] = "half"]
  /\ wire' = [wire EXCEPT ![a][b] = <<>>]
  /\ UNCHANGED <<up, addrs, dial, queue, ledgers, direct, crashes>>

(* OnOutgoingClosed: the read that fails tells the dialling side. *)
OnOutgoingClosed(a, b) ==
  /\ conn[a][b] = "half"
  /\ conn' = [conn EXCEPT ![a][b] = "none"]
  /\ UNCHANGED <<up, addrs, dial, wire, queue, ledgers, direct,
                 faults, crashes>>

(***************************************************************************)
(* OnHubMessage then HandleInboundPeerEnvelope at b, for the next frame    *)
(* from a: the address h the frame names is merged into the registry; a    *)
(* chat message goes to the ledger and is answered by a receipt; a         *)
(* receipt goes to the WebUI; other frames leave this state alone.         *)
(***************************************************************************)
HandleInboundPeerEnvelope(a, b, h) ==
  LET f == Head(wire[a][b])
      rest == [wire EXCEPT ![a][b] = Tail(@)]
      known == addrs[b][a] \cup {h}
  IN  /\ conn[a][b] = "open" /\ wire[a][b] # <<>>
      /\ addrs' = [addrs EXCEPT ![b][a] = known]
      /\ \/ /\ f.kind = "chat"
            /\ inLog' = [inLog EXCEPT ![b][a] = AppendOnce(@, f.n)]
            /\ SendPeerEnvelope(b, a, known, rest, Ack(f.n))
            /\ UNCHANGED receipts
         \/ /\ f.kind = "ack"
            /\ receipts' = [receipts EXCEPT ![b][a] = @ \cup {f.n}]
            /\ wire' = rest
            /\ UNCHANGED <<dial, inLog>>
         \/ /\ f.kind = "direct"
            /\ wire' = rest
            /\ UNCHANGED <<dial, inLog, receipts>>
      /\ UNCHANGED <<up, conn, queue, sent, direct, faults, crashes>>

------------------------------------------------------------------------------
(* Processes. *)

(* A crash loses everything but the ledger file; the peers' connections to *)
(* the dead process become half-open.                                      *)
Crash(a) ==
  /\ up[a]
  /\ crashes < MaxCrashes /\ crashes' = crashes + 1
  /\ up' = [up EXCEPT ![a] = FALSE]
  /\ addrs' = [addrs EXCEPT ![a] = [b \in Device |-> {}]]
  /\ dial' = [dial EXCEPT ![a] = [b \in Device |-> NoDial]]
  /\ queue' = [queue EXCEPT ![a] = [b \in Device |-> <<>>]]
  /\ conn' = [c \in Device |-> [d \in Device |->
                IF c = a THEN "none"
                ELSE IF d = a /\ conn[c][d] = "open" THEN "half"
                ELSE conn[c][d]]]
  /\ wire' = [c \in Device |-> [d \in Device |->
                IF a \in {c, d} THEN <<>> ELSE wire[c][d]]]
  /\ UNCHANGED <<ledgers, direct, faults>>

(* Mutant: the ledger is not loaded. *)
RestartWithoutLoad(a) ==
  /\ ~up[a]
  /\ up' = [up EXCEPT ![a] = TRUE]
  /\ inLog' = [inLog EXCEPT ![a] = [b \in Device |-> <<>>]]
  /\ UNCHANGED <<tables, sent, receipts, direct, faults, crashes>>

(* StartOnIo: the ledger is loaded, every other table starts empty. *)
Restart(a) ==
  /\ ~up[a]
  /\ up' = [up EXCEPT ![a] = TRUE]
  /\ UNCHANGED <<tables, ledgers, direct, faults, crashes>>

Requests == \E a, b \in Device : SendChat(a, b) \/ SendDirect(a, b)

Sockets ==
  \E a, b \in Device :
     \/ DialSucceeded(a, b)
     \/ DialFailed(a, b)
     \/ LinkBreaks(a, b)
     \/ OnOutgoingClosed(a, b)
     \/ \E h \in Addr : HandleInboundPeerEnvelope(a, b, h)

Discovery ==
  \E a, b \in Device :
     \/ \E S \in SUBSET Addr \ {{}} : OnLanPeer(a, b, S)
     \/ LosePeer(a, b)

Next ==
  \/ Requests
  \/ Discovery
  \/ Sockets
  \/ \E a \in Device : Crash(a) \/ Restart(a)

Spec == Init /\ [][Next]_vars

(***************************************************************************)
(* What keeps happening: presence is multicast every five seconds and the  *)
(* daemon's network stack completes every connect, read and close; nothing *)
(* forces a request, a fault or a crash.                                   *)
(***************************************************************************)
Fairness ==
  \A a, b \in Device :
     /\ WF_vars(\E S \in SUBSET Addr \ {{}} : OnLanPeer(a, b, S))
     /\ WF_vars(DialSucceeded(a, b))
     /\ WF_vars(OnOutgoingClosed(a, b))
     /\ WF_vars(\E h \in Addr : HandleInboundPeerEnvelope(a, b, h))
     /\ WF_vars(Restart(a))

FairSpec == Spec /\ Fairness

------------------------------------------------------------------------------
(* Properties. *)

DialState == [plan : (SUBSET Addr) \cup {NoPlan}, dialing : Addr \cup {NoAddr},
              route : Addr \cup {NoAddr}, pending : Frame \cup {NoFrame}]

(* Every table of daemon.h holds what its type says, within the bounds.    *)
TypeOK ==
  /\ up \in [Device -> BOOLEAN]
  /\ addrs \in [Device -> [Device -> SUBSET Addr]]
  /\ dial \in [Device -> [Device -> DialState]]
  /\ conn \in [Device -> [Device -> {"none", "open", "half"}]]
  /\ wire \in [Device -> [Device -> Seq(Frame)]]
  /\ queue \in [Device -> [Device -> Seq(Nat)]]
  /\ sent \in [Device -> [Device -> Nat]]
  /\ inLog \in [Device -> [Device -> Seq(Nat)]]
  /\ receipts \in [Device -> [Device -> SUBSET Nat]]
  /\ direct \in [Device -> [Device -> Nat]]
  /\ faults \in 0..MaxFaults
  /\ crashes \in 0..MaxCrashes

(* While there is a connection nothing waits for one: no dial, no plan, no *)
(* parked frame and no queued message.  message.send relies on it when it  *)
(* writes straight to an open connection (daemon.cc, message.send): a      *)
(* queued message would be overtaken by a later one, or stay for ever.     *)
NothingWaitsWhenConnected ==
  \A a, b \in Device :
     Connected(a, b) =>
       /\ dial[a][b] = [NoDial EXCEPT !.route = dial[a][b].route]
       /\ queue[a][b] = <<>>

(* The offline queue is the newest messages accepted for the peer, oldest  *)
(* first, without a gap: the cap gives up the oldest and a flush takes all *)
(* (QueueOffline, FlushQueue).                                             *)
Newest(q, n) ==
  /\ Len(q) <= QueueCap /\ Len(q) <= n
  /\ \A i \in 1..Len(q) : q[i] + Len(q) = n + i

QueueHoldsTheNewest ==
  \A a, b \in Device : Newest(queue[a][b], sent[a][b])

Stored(a, b, n) == \E i \in 1..Len(inLog[b][a]) : inLog[b][a][i] = n
Queued(a, b, n) == \E i \in 1..Len(queue[a][b]) : queue[a][b][i] = n

(* Of the n messages accepted, the log, the wire w and the queue q hold    *)
(* increasing ones, in this order.                                         *)
Increasing(log, w, q, n) ==
  /\ \A i \in 1..Len(w) : w[i].kind = "chat" =>
        /\ w[i].n \in 1..n
        /\ \A k \in 1..Len(log) : log[k] < w[i].n
        /\ \A j \in 1..(i - 1) : w[j].kind = "chat" => w[j].n < w[i].n
  /\ \A k \in 1..Len(log) : log[k] >= 1 /\ log[k] + Len(q) <= n

(* Chat messages increase from the ledger of the receiver along the wire   *)
(* to the offline queue, whatever was lost in between: FlushQueue runs     *)
(* before anything newer is written, and no message is on two of them.     *)
PathInOrder ==
  \A a, b \in Device :
     /\ wire[a][b] # <<>> => conn[a][b] = "open"
     /\ Increasing(inLog[b][a], wire[a][b], queue[a][b], sent[a][b])

(* A message is in the ledger of the receiver before its receipt is parked *)
(* or written, and stays there: a message shown as delivered is stored,    *)
(* across crashes of either side (HandleInboundPeerEnvelope appends before *)
(* it answers).                                                            *)
ReceiptMeansStored ==
  \A a, b \in Device :
     /\ \A n \in receipts[a][b] : Stored(a, b, n)
     /\ dial[b][a].pending.kind = "ack" => Stored(a, b, dial[b][a].pending.n)
     /\ dial[b][a].pending.kind # "chat"
     /\ \A i \in 1..Len(wire[b][a]) :
          wire[b][a][i].kind = "ack" => Stored(a, b, wire[b][a][i].n)

(* Chat between daemons is the service of ChatService: in order, at most   *)
(* once, and shown as delivered only when stored.                          *)
Service == INSTANCE ChatService WITH
             accepted <- sent, stored <- inLog, delivered <- receipts
ChatServiceSpec == Service!Spec

(* No fault and no crash can happen any more. *)
Quiet == faults = MaxFaults /\ crashes = MaxCrashes

(* Once failures stop, a queued message reaches the ledger of the peer or  *)
(* is pushed out by newer ones: presence redials (MaybeRedeliver) whatever *)
(* dial plan, route or half-open connection the failures left behind.      *)
QueuedReachesPeer ==
  \A a, b \in Device : \A n \in 1..MaxChat[a] :
     (Queued(a, b, n) /\ Quiet) ~>
       (Stored(a, b, n) \/ n + QueueCap <= sent[a][b])

(* daemon.h 104: delivery is confirmed by the receipt of the peer.  With   *)
(* no failure at all, every accepted message is shown as delivered.        *)
EveryMessageConfirmed ==
  \A a, b \in Device : \A n \in 1..MaxChat[a] :
     (sent[a][b] >= n) ~> (n \in receipts[a][b])
=============================================================================
