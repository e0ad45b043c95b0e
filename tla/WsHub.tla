-------------------------------- MODULE WsHub --------------------------------
(***************************************************************************)
(* The WebSocket hub of a daemon (native/core/ws_hub.cc) and the           *)
(* connections it keeps (native/core/ws_connection.cc): accepting several  *)
(* clients at once, their handshakes, the parser that finds frames in what *)
(* TCP delivers in pieces, and the queue from which a connection writes.   *)
(*                                                                         *)
(* Clients are other daemons, whose WsConnection writes frames right       *)
(* behind the request of the handshake, and pages, whose browser waits for *)
(* the response.  The ports are independent, so there is one listener.     *)
(*                                                                         *)
(* A unit stands for bytes that the parser only uses together; it is known *)
(* by the frame it belongs to, 0 for the request.                          *)
(***************************************************************************)
EXTENDS Integers, Sequences, FiniteSets, SequencesExt

CONSTANTS
  Peers, Pages,   \* the clients: daemons and pages
  None,           \* no client: an accept that is under way, no callback
  MaxFrames       \* bound: MaxFrames[c] frames of client c

Conns == Peers \cup Pages

ASSUME HubAssumption ==
  /\ Peers \cap Pages = {} /\ None \notin Conns
  /\ MaxFrames \in [Conns -> Nat]

Text == {"short", "long"}
Frames == Text \cup {"close"}

VARIABLES
  sent,      \* the frames each client has handed to its connection
  outq,      \* write_queue_ of the client: frames by their number in sent
  wire,      \* units written and not read
  ended,     \* the client's end of the socket is closed
  torn,      \* the clients of which the socket has taken a part of a frame only
  stage,     \* at the hub: "none", "backlog", "reading" and "writing" the handshake, "open",
             \* "dead" (closed and in the table), "gone"
  pending,   \* Listener::pending; None is the slot that Accept fills
  buf,       \* buffer of the handshake, then read_queue_ of the connection
  parsing,   \* the client in whose callback the hub is, or None
  clients,   \* clients_
  ports,     \* client_port_ of the daemon
  got,       \* the units handed to on_message as payloads
  answered   \* answers to requests that found their client

client == <<sent, outq, wire, ended, torn>>
tables == <<clients, ports>>
vars == <<client, stage, pending, buf, parsing, tables, got, answered>>

Init ==
  /\ sent = [c \in Conns |-> <<>>] /\ outq = [c \in Conns |-> <<>>]
  /\ wire = [c \in Conns |-> <<>>] /\ ended = [c \in Conns |-> FALSE]
  /\ torn = {}
  /\ stage = [c \in Conns |-> "none"]
  /\ pending = <<None>>
  /\ buf = [c \in Conns |-> <<>>] /\ parsing = None
  /\ clients = {} /\ ports = {}
  /\ got = [c \in Conns |-> <<>>] /\ answered = [c \in Conns |-> 0]

-----------------------------------------------------------------------------
Unit(n, p) == [of |-> n, part |-> p]

\* Clients mask; the length is in the second byte or behind it.
Parts(f) == IF f = "long" THEN <<"b0", "b1", "len", "mask", "payload">>
                          ELSE <<"b0", "b1", "mask", "payload">>
PartsOf(c, n) == IF n = 0 THEN <<"request", "blank">> ELSE Parts(sent[c][n])
Units(c, n) == [i \in DOMAIN PartsOf(c, n) |-> Unit(n, PartsOf(c, n)[i])]

\* StartAsClient, or the browser: the request is the first thing in the queue.
Dial(c) ==
  /\ stage[c] = "none"
  /\ stage' = [stage EXCEPT ![c] = "backlog"]
  /\ outq' = [outq EXCEPT ![c] = <<0>>]
  /\ UNCHANGED <<sent, wire, ended, torn, pending, buf, parsing, tables, got, answered>>

\* A page has the response perhaps before the hub learns that it is written.
MaySend(c, f) ==
  \/ c \in Peers /\ f \in Text /\ stage[c] # "none"
  \/ c \in Pages /\ stage[c] \in {"writing", "open"}

SendText(c, f) ==
  /\ MaySend(c, f) /\ ~ended[c]
  /\ Len(sent[c]) < MaxFrames[c]
  /\ \A n \in DOMAIN sent[c] : sent[c][n] # "close"
  /\ sent' = [sent EXCEPT ![c] = Append(@, f)]
  /\ outq' = [outq EXCEPT ![c] = Append(@, Len(sent[c]) + 1)]
  /\ UNCHANGED <<wire, ended, torn, stage, pending, buf, parsing, tables, got, answered>>

\* TryWriteNext and OnWrite: the socket has taken k units of the frame in front, and the frame
\* leaves the queue whatever the number.
OnWrite(c, k) ==
  /\ outq[c] # <<>>
  /\ LET units == Units(c, Head(outq[c])) IN
       /\ k \in 1..Len(units)
       /\ k < Len(units) => c \in Peers /\ Len(units) = 5
       /\ wire' = [wire EXCEPT ![c] = @ \o SubSeq(units, 1, k)]
       /\ torn' = IF k < Len(units) THEN torn \cup {c} ELSE torn
  /\ outq' = [outq EXCEPT ![c] = Tail(@)]
  /\ UNCHANGED <<sent, ended, stage, pending, buf, parsing, tables, got, answered>>

\* The client closes, crashes or is cut off, and what was on the wire may be lost.
ClientEnds(c, w) ==
  /\ stage[c] # "none" /\ ~ended[c]
  /\ w \in {wire[c], <<>>}
  /\ ended' = [ended EXCEPT ![c] = TRUE]
  /\ wire' = [wire EXCEPT ![c] = w]
  /\ outq' = [outq EXCEPT ![c] = <<>>]
  /\ UNCHANGED <<sent, torn, stage, pending, buf, parsing, tables, got, answered>>

-----------------------------------------------------------------------------
(* The hub: every callback runs on the IO thread, so none starts in another. *)

Idle == parsing = None

\* Mutant: the next accept waits until the handshake is over.
OnAcceptOne(c) ==
  /\ Idle /\ stage[c] = "backlog" /\ Len(pending) = 1
  /\ pending' = Append([pending EXCEPT ![Len(pending)] = c], None)
  /\ stage' = [stage EXCEPT ![c] = "reading"]
  /\ UNCHANGED <<client, buf, parsing, tables, got, answered>>

\* OnAccept: the last handshake gets the socket, and the next accept a slot behind it.  An
\* accept that fails gives up its slot for another.
OnAccept(c) ==
  /\ Idle /\ stage[c] = "backlog"
  /\ pending' = Append([pending EXCEPT ![Len(pending)] = c], None)
  /\ stage' = [stage EXCEPT ![c] = "reading"]
  /\ UNCHANGED <<client, buf, parsing, tables, got, answered>>

\* Mutant: the last one is dropped.
DropPendingLast(c) ==
  c \in ToSet(pending) /\ pending' = SubSeq(pending, 1, Len(pending) - 1)

\* DropPending: by address, wherever it stands.
DropPending(c) ==
  \E i \in DOMAIN pending : pending[i] = c /\ pending' = RemoveAt(pending, i)

Ended(c) == ended[c] /\ wire[c] = <<>>

\* n units come in one read.
Reads(c, n) ==
  /\ n \in 1..Len(wire[c])
  /\ wire' = [wire EXCEPT ![c] = SubSeq(@, n + 1, Len(@))]
  /\ UNCHANGED <<sent, outq, ended, torn>>

Blank(q) == {i \in DOMAIN q : q[i].part = "blank"}

\* Mutant: the blank line stays.
OnHandshakeReadShort(c, n) ==
  LET q == buf[c] \o SubSeq(wire[c], 1, n) IN
  /\ Idle /\ stage[c] = "reading"
  /\ Reads(c, n)
  /\ IF Blank(q) = {}
     THEN buf' = [buf EXCEPT ![c] = q] /\ UNCHANGED stage
     ELSE /\ \E i \in Blank(q) : buf' = [buf EXCEPT ![c] = SubSeq(q, i, Len(q))]
          /\ stage' = [stage EXCEPT ![c] = "writing"]
  /\ UNCHANGED <<pending, parsing, tables, got, answered>>

\* Mutant: what follows the request is thrown away.
OnHandshakeReadAlone(c, n) ==
  LET q == buf[c] \o SubSeq(wire[c], 1, n) IN
  /\ Idle /\ stage[c] = "reading"
  /\ Reads(c, n)
  /\ IF Blank(q) = {}
     THEN buf' = [buf EXCEPT ![c] = q] /\ UNCHANGED stage
     ELSE /\ buf' = [buf EXCEPT ![c] = <<>>]
          /\ stage' = [stage EXCEPT ![c] = "writing"]
  /\ UNCHANGED <<pending, parsing, tables, got, answered>>

\* The request is read to its blank line; what follows is kept for the connection.
OnHandshakeRead(c, n) ==
  LET q == buf[c] \o SubSeq(wire[c], 1, n) IN
  /\ Idle /\ stage[c] = "reading"
  /\ Reads(c, n)
  /\ IF Blank(q) = {}
     THEN buf' = [buf EXCEPT ![c] = q] /\ UNCHANGED stage
     ELSE /\ \E i \in Blank(q) : buf' = [buf EXCEPT ![c] = SubSeq(q, i + 1, Len(q))]
          /\ stage' = [stage EXCEPT ![c] = "writing"]
  /\ UNCHANGED <<pending, parsing, tables, got, answered>>

\* The read, or the write of the response, fails.
HandshakeFails(c) ==
  /\ Idle
  /\ \/ stage[c] = "reading" /\ Ended(c)
     \/ stage[c] = "writing" /\ ended[c]
  /\ DropPending(c)
  /\ stage' = [stage EXCEPT ![c] = "gone"]
  /\ UNCHANGED <<client, buf, parsing, tables, got, answered>>

\* Mutant: the frames that came with the request wait for the next read.
OnHandshakeWrittenLazy(c) ==
  /\ Idle /\ stage[c] = "writing"
  /\ stage' = [stage EXCEPT ![c] = "open"]
  /\ clients' = clients \cup {c} /\ ports' = ports \cup {c}
  /\ DropPending(c)
  /\ UNCHANGED <<client, buf, parsing, got, answered>>

\* The response is written: the connection starts with the frames that came with the request.
OnHandshakeWritten(c) ==
  /\ Idle /\ stage[c] = "writing"
  /\ parsing' = c
  /\ UNCHANGED <<client, stage, pending, buf, tables, got, answered>>

\* The place of the payload in a read queue that starts with a frame, or 0 when that needs more.
PayloadAt(c) ==
  LET q == buf[c] IN
  IF Len(q) < 2 THEN 0
  ELSE LET n == Len(Parts(sent[c][q[2].of])) IN IF Len(q) < n THEN 0 ELSE n

\* The read queue starts with a header; behind a frame that was cut off it may not.
InStep(q) ==
  /\ Len(q) >= 1 => q[1].part = "b0"
  /\ Len(q) >= 2 => q[2].part = "b1"

\* on_message: the daemon notes the port, and answers a page if the hub knows the client.
Emit(c, u) ==
  /\ got' = [got EXCEPT ![c] = Append(@, u)]
  /\ ports' = ports \cup {c}
  /\ answered' = IF c \in Pages \cap clients THEN [answered EXCEPT ![c] = @ + 1] ELSE answered

\* One round of TryParse.  A close frame is passed over, and nothing comes behind it.  Out of
\* step anything may be taken for a frame; it is no envelope.
ParseFrame(c) ==
  LET q == buf[c]
      at == PayloadAt(c) IN
  /\ parsing = c
  /\ \/ /\ InStep(q) /\ at # 0
        /\ buf' = [buf EXCEPT ![c] = SubSeq(q, at + 1, Len(q))]
        /\ IF sent[c][q[2].of] \in Text
           THEN Emit(c, q[at])
           ELSE UNCHANGED <<got, ports, answered>>
     \/ /\ ~InStep(q)
        /\ \E n \in 1..Len(q) : buf' = [buf EXCEPT ![c] = SubSeq(q, n + 1, Len(q))]
        /\ UNCHANGED <<got, ports, answered>>
  /\ UNCHANGED <<client, stage, pending, parsing, clients>>

Parsed(c) == parsing = c /\ (InStep(buf[c]) => PayloadAt(c) = 0)

\* The read of the new connection waits, or ends at once: Close then finds no client to take
\* out, and only now the client is entered.
Entered(c) ==
  /\ Parsed(c) /\ stage[c] = "writing"
  /\ \/ stage' = [stage EXCEPT ![c] = "open"]
     \/ Ended(c) /\ stage' = [stage EXCEPT ![c] = "dead"]
  /\ clients' = clients \cup {c} /\ ports' = ports \cup {c}
  /\ DropPending(c)
  /\ parsing' = None
  /\ UNCHANGED <<client, buf, got, answered>>

\* OnRead, from the message loop or at once behind StartReading.
OnRead(c, n) ==
  /\ \/ Idle /\ stage[c] = "open"
     \/ Parsed(c) /\ stage[c] = "writing"
  /\ Reads(c, n)
  /\ buf' = [buf EXCEPT ![c] = @ \o SubSeq(wire[c], 1, n)]
  /\ parsing' = c
  /\ UNCHANGED <<stage, pending, tables, got, answered>>

\* The callback is over: the next read waits.
Waits(c) ==
  /\ Parsed(c) /\ stage[c] = "open"
  /\ parsing' = None
  /\ UNCHANGED <<client, stage, pending, buf, tables, got, answered>>

\* Mutant: the daemon is not told.
OnClientClosedUntold(c) ==
  /\ Idle /\ stage[c] = "open" /\ Ended(c)
  /\ stage' = [stage EXCEPT ![c] = "gone"]
  /\ clients' = clients \ {c}
  /\ UNCHANGED <<client, pending, buf, parsing, ports, got, answered>>

\* Close, OnClientClosed and on_closed.
OnClientClosed(c) ==
  /\ Idle /\ stage[c] = "open" /\ Ended(c)
  /\ stage' = [stage EXCEPT ![c] = "gone"]
  /\ clients' = clients \ {c} /\ ports' = ports \ {c}
  /\ UNCHANGED <<client, pending, buf, parsing, got, answered>>

-----------------------------------------------------------------------------
Client(c) ==
  \/ Dial(c)
  \/ \E f \in Frames : SendText(c, f)
  \/ \E k \in 1..5 : OnWrite(c, k)
  \/ \E w \in {wire[c], <<>>} : ClientEnds(c, w)

Hub(c) ==
  \/ OnAccept(c) \/ HandshakeFails(c) \/ OnHandshakeWritten(c)
  \/ \E n \in 1..Len(wire[c]) : OnHandshakeRead(c, n) \/ OnRead(c, n)
  \/ ParseFrame(c) \/ Entered(c) \/ Waits(c) \/ OnClientClosed(c)

Next == \E c \in Conns : Client(c) \/ Hub(c)

Spec == Init /\ [][Next]_vars

\* The IO thread gets to every socket that is ready, and the socket of a daemon takes what is
\* written.  A page may leave its handshake unfinished.
Fairness ==
  /\ \A c \in Conns : WF_vars(OnAccept(c)) /\ WF_vars(ParseFrame(c))
                        /\ WF_vars(Entered(c)) /\ WF_vars(Waits(c))
  /\ \A c \in Peers :
       /\ WF_vars(\E k \in 1..5 : OnWrite(c, k))
       /\ WF_vars(\E n \in 1..Len(wire[c]) : OnHandshakeRead(c, n))
       /\ WF_vars(OnHandshakeWritten(c))
       /\ WF_vars(\E n \in 1..Len(wire[c]) : OnRead(c, n))

FairSpec == Spec /\ Fairness

-----------------------------------------------------------------------------
FrameUnit == [of : Nat \ {0}, part : {"b0", "b1", "len", "mask", "payload"}]
RequestUnit == {Unit(0, "request"), Unit(0, "blank")}

\* Once the handshake is read, the connection holds nothing but bytes of frames.
TypeOK ==
  /\ sent \in [Conns -> Seq(Frames)] /\ outq \in [Conns -> Seq(Nat)]
  /\ wire \in [Conns -> Seq(RequestUnit \cup FrameUnit)] /\ ended \in [Conns -> BOOLEAN]
  /\ torn \subseteq Conns
  /\ stage \in [Conns ->
       {"none", "backlog", "reading", "writing", "open", "dead", "gone"}]
  /\ pending \in Seq(Conns \cup {None})
  /\ buf \in [Conns -> Seq(RequestUnit \cup FrameUnit)]
  /\ \A c \in Conns : stage[c] \in {"writing", "open", "dead"} => buf[c] \in Seq(FrameUnit)
  /\ parsing \in Conns \cup {None}
  /\ clients \subseteq Conns /\ ports \subseteq Conns
  /\ got \in [Conns -> Seq(FrameUnit)] /\ answered \in [Conns -> Nat]

\* However handshakes begin and end, the slot that the next accept fills is the last
\* (ws_hub.cc:106), and each of the others belongs to one client in its handshake.
AcceptFillsLast ==
  /\ pending # <<>> /\ pending[Len(pending)] = None
  /\ \A i, j \in DOMAIN pending : pending[i] = pending[j] => i = j
  /\ \A c \in Conns : (\E i \in DOMAIN pending : pending[i] = c) <=> stage[c] \in {"reading", "writing"}

\* Between callbacks the table of the hub and that of the daemon, which is kept by three
\* callbacks, have the same clients, those that are open among them (daemon.cc:164, 170, 819).
TablesAgree ==
  Idle => /\ clients = ports
          /\ clients = {c \in Conns : stage[c] \in {"open", "dead"}}

\* Frame n of c has come to its last byte.
Come(c, n) ==
  /\ \A i \in DOMAIN outq[c] : outq[c][i] # n
  /\ \A i \in DOMAIN wire[c] : wire[c][i] # Unit(n, "payload")

\* However TCP cuts the stream, also around the handshake, and whatever others do, between
\* callbacks every message of an open connection that has come to its last byte was handed on,
\* once and in order (ws_connection.cc:83), as long as the client's socket took whole frames.
MessagesDelivered ==
  \A c \in Conns \ torn :
    /\ \A i \in DOMAIN got[c] : got[c][i] = Unit(i, "payload")
    /\ Idle /\ stage[c] = "open" /\ ~ended[c] =>
         \A n \in DOMAIN sent[c] : sent[c][n] \in Text /\ Come(c, n) => n \in DOMAIN got[c]

\* The hub and its connections keep what the other modules expect of a connection.
Arrived == [c \in Conns |-> [i \in DOMAIN got[c] |-> sent[c][got[c][i].of]]]
Link == INSTANCE FrameLink WITH
  arrived <- Arrived, over <- {c \in Conns : stage[c] \in {"dead", "gone"}}
FrameLinkSpec == Link!Spec

\* Clients that leave their handshake unfinished keep no other from being heard: what a daemon
\* sends comes, unless its connection ends or a write of it is cut off (ws_hub.cc:113).
NobodyBlocks ==
  \A c \in Peers : \A n \in 1..MaxFrames[c] :
    (n \in DOMAIN sent[c]) ~> (n \in DOMAIN got[c] \/ ended[c] \/ c \in torn)

\* A connection sends frames (ws_connection.h:36): behind each unit that is written comes the
\* next one of its frame.
SendsWholeFrames ==
  \A c \in Conns :
    LET s == buf[c] \o wire[c] IN
    \A i \in DOMAIN s :
      \/ s[i].part \in {"payload", "blank"}
      \/ i < Len(s) /\ s[i + 1].of = s[i].of

\* A request that came to the daemon is answered: the client is in the table before frames that
\* came with the handshake are handled (relay_server.cc:199).
RequestsAnswered ==
  \A c \in Pages : answered[c] = Len(got[c])
=============================================================================
