----------------------------- MODULE DevDaemon -----------------------------
(***************************************************************************)
(* The development daemon (dev/daemon/daemon.mjs): a stand-in for the      *)
(* native daemon that answers a page over its own WebSocket parser.  TCP   *)
(* cuts the stream of a client anywhere; a "data" callback takes what has  *)
(* come and loops over the frames in it.  Pages share the peers, the       *)
(* rooms and the counter of answers.                                       *)
(*                                                                         *)
(* A unit stands for bytes that the parser only uses together: the end of  *)
(* the HTTP request, the two header bytes, the long length, the mask, the  *)
(* payload.                                                                *)
(***************************************************************************)
EXTENDS Integers, Sequences, FiniteSets, SequencesExt

CONSTANTS Socks, NoSock,
          Calls,        \* the requests that are made, a subset of Methods
          Long,         \* those whose frame has a long length
          MaxRequests   \* bound: frames of each client

Methods == {"list", "scan_start", "send", "create", "join", "members", "other"}

ASSUME DevAssumption ==
  NoSock \notin Socks /\ Calls \subseteq Methods /\ Long \subseteq Calls /\ MaxRequests \in Nat

\* A request in a text frame; the others, which carry none that matters.
Request(m) == [op |-> "text", req |-> m]
Ping == [op |-> "ping", req |-> "other"]
Close == [op |-> "close", req |-> "other"]
Sendable == {Request(m) : m \in Calls} \cup {Ping, Close}

\* A unit is known by the number of its frame, 0 for the request of the handshake.
Piece(n, p) == [of |-> n, part |-> p]

\* A frame as a client sends it: always masked, its length in the header or after it.
PiecesOf(f) == IF f.req \in Long THEN <<"b0", "b1", "len", "mask", "payload">>
                                 ELSE <<"b0", "b1", "mask", "payload">>
Pieces(n, f) == [i \in DOMAIN PiecesOf(f) |-> Piece(n, PiecesOf(f)[i])]

VARIABLES
  peers,      \* whether the made-up peer is there
  seq,        \* answers so far
  rooms,      \* the members of the one room, with repetition; empty: not created
  sock,       \* "new", "open" once the handshake is done, "closed"
  buffer,     \* units that have come and are not used up
  running,    \* the socket whose data callback is in its loop
  echoTimers, foundTimers,   \* timers, in the order in which they were set
  out,        \* what was written to each socket
  line,       \* units on their way
  frames,     \* frames each client has sent
  handled     \* and the numbers of those that were handled

data == <<peers, seq, rooms>>
timers == <<echoTimers, foundTimers>>
pages == <<line, frames>>
devVars == <<data, sock, buffer, running, timers, out, pages, handled>>

DevInit ==
  /\ peers = FALSE /\ seq = 0 /\ rooms = <<>>
  /\ sock = [s \in Socks |-> "new"]
  /\ buffer = [s \in Socks |-> <<>>] /\ running = NoSock
  /\ echoTimers = <<>> /\ foundTimers = <<>>
  /\ out = [s \in Socks |-> <<>>]
  /\ line = [s \in Socks |-> <<Piece(0, "upgrade"), Piece(0, "blank")>>]
  /\ frames = [s \in Socks |-> <<>>] /\ handled = [s \in Socks |-> <<>>]

-----------------------------------------------------------------------------
\* A client writes a frame, before it has seen an answer to the last one or after.
ClientSends(s, f) ==
  /\ running = NoSock /\ sock[s] # "closed"
  /\ Len(frames[s]) < MaxRequests
  /\ Close \notin ToSet(frames[s])
  /\ line' = [line EXCEPT ![s] = @ \o Pieces(Len(frames[s]) + 1, f)]
  /\ frames' = [frames EXCEPT ![s] = Append(@, f)]
  /\ UNCHANGED <<data, sock, buffer, running, timers, out, handled>>

\* A chunk of n units comes, and the data callback starts: nothing happens until the request
\* of the handshake is whole, what follows it in the chunk is a frame already.
OnData(s, n) ==
  LET got == buffer[s] \o SubSeq(line[s], 1, n)
      whole == \E i \in DOMAIN got : got[i].part = "blank" IN
  /\ running = NoSock /\ sock[s] # "closed"
  /\ line' = [line EXCEPT ![s] = SubSeq(@, n + 1, Len(@))]
  /\ IF sock[s] = "new"
     THEN IF whole
          THEN /\ sock' = [sock EXCEPT ![s] = "open"]
               /\ out' = [out EXCEPT ![s] = Append(@, [t |-> "101", n |-> 0, x |-> 0])]
               /\ buffer' = [buffer EXCEPT ![s] = SubSeq(got, 3, Len(got))]
               /\ running' = s
          ELSE buffer' = [buffer EXCEPT ![s] = got] /\ UNCHANGED <<sock, out, running>>
     ELSE /\ buffer' = [buffer EXCEPT ![s] = got]
          /\ running' = s
          /\ UNCHANGED <<sock, out>>
  /\ UNCHANGED <<data, timers, frames, handled>>

\* The place of the payload in a buffer that starts with a frame, or 0 when that needs more.
Header(f) == IF f.req \in Long THEN 3 ELSE 2
BodyAt(s) ==
  LET q == buffer[s] IN
  IF Len(q) < 2 \/ Len(q) < Header(frames[s][q[2].of]) + 2 THEN 0
  ELSE Header(frames[s][q[2].of]) + 2

-----------------------------------------------------------------------------
(* handleReq *)

\* replyObj: an answer with a txn of its own making; x is its content where that matters.
Reply(s, m, x) ==
  /\ seq' = seq + 1
  /\ out' = [out EXCEPT ![s] = Append(@, [t |-> m, n |-> seq + 1, x |-> x])]

\* scan_start: the peer is found a moment later.
ScanStart(s) ==
  /\ foundTimers' = Append(foundTimers, s)
  /\ Reply(s, "scan_start", 0)
  /\ UNCHANGED <<peers, rooms, echoTimers>>

\* message.send: the message has the counter as it was before its answer, and so has the answer.
MessageSend(s) ==
  /\ echoTimers' = Append(echoTimers, <<s, seq>>)
  /\ Reply(s, "send", seq)
  /\ UNCHANGED <<peers, rooms, foundTimers>>

\* A second room has an id of its own and is not followed.
RoomCreate(s) ==
  /\ rooms' = IF rooms = <<>> THEN <<"dev-node-1">> ELSE rooms
  /\ Reply(s, "create", 0)
  /\ UNCHANGED <<peers, timers>>

\* A member that joins again is there twice.
RoomJoin(s) ==
  /\ rooms' = IF rooms = <<>> THEN rooms ELSE Append(rooms, "dev-node-1")
  /\ Reply(s, "join", 0)
  /\ UNCHANGED <<peers, timers>>

\* roster.list and room.members answer with what is there.
Answer(s, m, x) == Reply(s, m, x) /\ UNCHANGED <<peers, rooms, timers>>

HandleReq(s, m) ==
  \/ m = "scan_start" /\ ScanStart(s)
  \/ m = "send" /\ MessageSend(s)
  \/ m = "create" /\ RoomCreate(s)
  \/ m = "join" /\ RoomJoin(s)
  \/ m = "list" /\ Answer(s, m, IF peers THEN 1 ELSE 0)
  \/ m = "members" /\ Answer(s, m, Len(rooms))
  \/ m = "other" /\ Answer(s, m, 0)

\* Mutant: the callback stops after the first request it has answered.
TakeFrameOne ==
  LET s == running
      at == BodyAt(s)
      n == buffer[s][at].of
      f == frames[s][n] IN
  /\ running # NoSock
  /\ running' = NoSock
  /\ IF at = 0
     THEN UNCHANGED <<data, sock, buffer, timers, out, handled>>
     ELSE /\ buffer' = [buffer EXCEPT ![s] = SubSeq(@, at + 1, Len(@))]
          /\ IF f.op = "text"
             THEN /\ HandleReq(s, f.req)
                  /\ handled' = [handled EXCEPT ![s] = Append(@, n)]
                  /\ UNCHANGED sock
             ELSE /\ sock' = [sock EXCEPT ![s] = IF f.op = "close" THEN "closed" ELSE @]
                  /\ UNCHANGED <<data, timers, out, handled>>
  /\ UNCHANGED pages

\* One round of the loop: a whole frame is taken out; it ends the connection, is passed over or
\* handled.  Without a whole frame the callback returns.
TakeFrame ==
  LET s == running
      at == BodyAt(s)
      n == buffer[s][at].of
      f == frames[s][n] IN
  /\ running # NoSock
  /\ IF at = 0
     THEN running' = NoSock /\ UNCHANGED <<data, sock, buffer, timers, out, handled>>
     ELSE /\ buffer' = [buffer EXCEPT ![s] = SubSeq(@, at + 1, Len(@))]
          /\ \/ /\ f.op = "close"
                /\ sock' = [sock EXCEPT ![s] = "closed"]
                /\ running' = NoSock
                /\ UNCHANGED <<data, timers, out, handled>>
             \/ f.op = "ping" /\ UNCHANGED <<data, sock, running, timers, out, handled>>
             \/ /\ f.op = "text" /\ HandleReq(s, f.req)
                /\ handled' = [handled EXCEPT ![s] = Append(@, n)]
                /\ UNCHANGED <<sock, running>>
  /\ UNCHANGED pages

-----------------------------------------------------------------------------
\* env.ev: an event, to the page that asked.
Event(s, e) == out' = IF sock[s] = "open" THEN [out EXCEPT ![s] = Append(@, e)] ELSE out

EchoTimer ==
  /\ running = NoSock /\ echoTimers # <<>>
  /\ echoTimers' = Tail(echoTimers)
  /\ Event(Head(echoTimers)[1], [t |-> "chat", n |-> 0, x |-> Head(echoTimers)[2]])
  /\ UNCHANGED <<data, sock, buffer, running, foundTimers, pages, handled>>

FoundTimer ==
  /\ running = NoSock /\ foundTimers # <<>>
  /\ foundTimers' = Tail(foundTimers)
  /\ peers' = TRUE
  /\ Event(Head(foundTimers), [t |-> "peer_found", n |-> 0, x |-> 0])
  /\ UNCHANGED <<seq, rooms, sock, buffer, running, echoTimers, pages, handled>>

DevNext ==
  \/ TakeFrame \/ EchoTimer \/ FoundTimer
  \/ \E s \in Socks :
       \/ \E f \in Sendable : ClientSends(s, f)
       \/ \E n \in 1..Len(line[s]) : OnData(s, n)

DevSpec == DevInit /\ [][DevNext]_devVars

-----------------------------------------------------------------------------
\* Frame n of s has come to its last byte.
Complete(s, n) == \A i \in DOMAIN line[s] : line[s][i] # Piece(n, "payload")

\* However TCP cuts the stream, between callbacks exactly the requests that have come to their
\* last byte are handled, once and in order, and no byte is taken for another's
\* (daemon.mjs:155).
ParserKeepsUp ==
  running = NoSock =>
    \A s \in Socks : sock[s] # "new" =>
      /\ ToSet(handled[s]) =
           {n \in DOMAIN frames[s] : frames[s][n].op = "text" /\ Complete(s, n)}
      /\ \A i, j \in DOMAIN handled[s] : i < j => handled[s][i] < handled[s][j]
=============================================================================
