# localim: models and proofs

localim is an instant messenger for a local network. Every device runs a daemon
(C++ on Chromium's `net` and `base`) that finds other devices by multicast or
through a relay, and a WebUI (TypeScript) that talks to its daemon over a local
WebSocket. There is no central server for chat: daemons connect to each other.

This directory holds TLA+ modules for the parts of localim in which the order of
events matters, configurations that check them with TLC, and theorems about them
that TLAPS proves for every value of the constants.

    tlc -workers 2 -config PeerLink.cfg MCPeerLink.tla
    tlapm PeerLink_proofs.tla

## 1. Inventory

All paths are relative to the repository; `core/` is `src/native/core/`, `ui/` is
`src/ui/src/`. Each daemon does everything on one IO thread, so a callback is
atomic; what interleaves is daemons, sockets, timers, the relay and the WebUIs.

| Component | State | Operations | Talks to |
|---|---|---|---|
| Peer transport (`core/daemon.cc`) | `dial_plan_`, `dial_idx_`, `dialing_`, `pending_out_`, `route_`, `outgoing_`, `offline_q_` | send, dial next candidate, dial result, close, flush, redeliver | registry (addresses), WebSocket connections, message ledger |
| Message ledger (`core/session/message_store.cc`) | messages by id, the file | `Append` with duplicate check, `Load`, `History` | transport, WebUI |
| Relay server (`core/discovery/relay_server.cc`) | `clients_`, `routes_`, pending handshakes | handshake, register, close, broadcast | relay clients |
| Relay client (`core/discovery/relay_client.cc`) | `socket_`, `handshaken_`, `read_queue_`, `register_payload_`, retry timer | connect, register, parse, retry | relay server, registry |
| LAN heartbeat (`core/discovery/lan_heartbeat.cc`) | sockets, tick task, announcement | tick, announce, rebind, receive | registry |
| Peer registry (`core/session/peer_registry.cc`) | one record per device | upsert, remove, prune | heartbeat, relay client, transport, rooms |
| Rooms (`core/session/room_manager.cc`, `daemon.cc`) | member table and sequence number per room | create, join, leave, invite, kick, three signals | transport, registry |
| Room share and remote control (`ui/client/webrtc.ts`, `core/remote/remote_control.cc`) | shares, viewers, controllers, injection switch | request, grant, revoke, release, input | media signals |
| Media signalling (`ui/client/webrtc.ts`) | one session per call, one pending offer | invite, offer, answer, candidate, hangup | daemon's media relay |
| File transfer (`ui/client/xfer.ts`, `core/transport/file_transfer.cc`) | chunks and offsets per transfer | offer, accept, chunk, cancel, resume | data channel |
| Route selection (`core/discovery/lan_ifaces.cc`) | none | rank addresses | transport |
| WebSocket hub and connection (`core/ws_hub.cc`, `core/ws_connection.cc`) | clients, handshakes, read and write queues | accept, read, parse, write, close | all of the above |
| Frame authentication (`core/cipher.cc`, `daemon.cc`) | keys, seen nonces | sign, verify | transport |
| WebUI client and store (`ui/client/native_client.ts`, `ui/store.ts`) | pending requests, rosters, conversations | request, answer, timeout, reconnect, merge | daemon |
| Development daemon (`dev/daemon/daemon.mjs`) | peers, rooms, a counter, the buffer of each socket | parse, answer, timers | pages |
| Views (`ui/views`) | none of their own: they show the store | the buttons that start what users do | WebUI client, media engine |
| Web server, identity, injectors, schema | none that the protocol sees | | |

What is hard here, and what makes each component correct:

* **Transport.** A dial, an incoming frame, a heartbeat and a new message race for
  the same few tables; TCP breaks without either side being told at once; either
  process may crash. It is correct when chat arrives in order, at most once, and
  when the sender's "delivered" means the receiver has it on disk; and when a
  queued message does not wait for ever.
* **Relay.** A daemon that reconnects has two connections for a while and the
  server sees their frames and their ends in an order of its own. It is correct
  when a device has one slot and everybody is told exactly who is there.
* **Presence.** Timers of different daemons drift, datagrams are lost, interfaces
  change, and relay and multicast write the same record. It is correct when what
  is gone disappears, what is there stays, and what was lost is found again.
* **Rooms.** Tables are replicated by whole-table signals that may be lost while
  requests, invitations and kicks go on. It is correct when a member's table is
  the owner's once signals have settled.
* **Transfers.** A channel breaks, the user cancels or interrupts, a later session
  asks where to go on. It is correct when the file offered to the receiver is the whole
  file, no chunk is skipped, and a cancellation drops what the receiver has of it.
* **Calls.** Invitation, offer, acceptance and two captures the users have to agree to
  come in any order, and there is one slot for an offer that waits. It is correct when
  nothing is answered unasked and nobody who accepted is forgotten, unless a newer offer
  took the slot.
* **Share and control.** The page decides who is in control, the daemon has one switch
  and injects what comes while it is on; neither looks at the sender of an input. It is
  correct when the switch is on exactly while the page has a controller, when nothing is
  injected of a viewer who was not allowed to control, and when the panel is open at the
  viewers in control and at no others (which fails, section 6).
* **Sockets.** TCP cuts a stream anywhere, also between a handshake and the frames behind
  it, while other clients connect and go. It is correct when every frame that came whole is
  handed on once and in order, nobody's handshake holds up another's, and the tables that
  different callbacks keep have the same clients.
* **Page.** Answers and events are merged into one store while the socket and the page
  come and go. It is correct when nothing is shown twice, lost or left stale.

## 2. Modules

| Module | What it is |
|---|---|
| `ChatService` | What a user of one-to-one chat is promised; abstract |
| `PeerLink` | The transport of `daemon.cc`; implements `ChatService` |
| `Relay` | Relay server and relay clients |
| `Presence` | Heartbeat, prune timer, registry and relay events |
| `Rooms` | Member tables and room signals |
| `FileTransfer` | One file over the data channels of `webrtc.ts`, with its cards |
| `Calls` | Sessions, signals and overlays of calls between pages |
| `ShareControl` | A room's screen share, its controllers and the daemon's switch |
| `WebClient` | A page, and its daemon as the page sees it |
| `FrameLink` | What a connection promises to the other modules; abstract |
| `WsHub` | The daemon's WebSocket hub and its connections; implements `FrameLink` |
| `DevDaemon` | The development daemon and its stream parser |
| `MCPeerLink`, `MCRelay`, `MCPresence`, `MCRooms`, `MCFileTransfer`, `MCCalls`, `MCShareControl`, `MCWebClient`, `MCWsHub`, `MCDevDaemon` | Instances and symmetry for TLC |
| `PeerLink_proofs`, `Relay_proofs`, `FileTransfer_proofs`, `Calls_proofs`, `ShareControl_proofs`, `WebClient_proofs` | Theorems about the module of that name |
| `Tables_proofs` | Theorems about the two tables of devices, `Presence` and `Rooms` |
| `Sockets_proofs` | Theorems about the two stream parsers, `WsHub` and `DevDaemon` |

The modules proved about together (`Presence` and `Rooms`, `WsHub` and `DevDaemon`) have
no name in common: `Rooms` has `RoomsInit`, `RoomsNext`, `RoomsSpec`, `DevDaemon` has
`DevInit`, `DevNext`, `DevSpec`.

Operators whose comment starts with "Mutant" are faulty variants of the definition
below them. No specification uses them; they show that a property depends on the
line they change.

### PeerLink

`dial[a][b]` gathers what daemon `a` keeps for peer `b` while dialling: the plan (the
candidates not tried yet, `NoPlan` when there is no entry), the address being dialled,
the preferred route and the parked frame. `conn[a][b]` is the entry of `outgoing_`:
`"open"`, `"none"`, or `"half"` when the other end is gone and the read has not failed
yet; `wire[a][b]` is what was written and not read. A chat message is its number in the
order in which `message.send` accepted it for the peer, so `sent` is the sender's
ledger, and "in order" is "increasing".

| Action | Code |
|---|---|
| `SendChat` | `message.send` in `Dispatch`: ledger, then connection or `QueueOffline` and `EnsureConnection` |
| `SendDirect` | media and room signals: `SendPeerEnvelope`, which parks one frame and dials |
| `OnLanPeer` | `OnLanPeer` and `OnRelayEvent`: addresses are merged, then `MaybeRedeliver` |
| `LosePeer` | `PruneStalePeers` for one peer |
| `DialSucceeded`, `DialFailed` | `OnPeerDialResult`; success sends the parked frame and then flushes the queue, failure dials the next candidate |
| `LinkBreaks`, `OnOutgoingClosed` | a read that fails, and the callback that erases the entry |
| `HandleInboundPeerEnvelope` | an incoming frame: address update, ledger, receipt or delivery mark |
| `Crash`, `Restart` | the process ends; `StartOnIo` loads the ledger |

Abstractions: addresses are numbers, best first, as `RankPeerAddrs` orders them; all
candidates are valid IP literals; a connect that completes synchronously is the
interleaving in which it completes next; a flush is one step that succeeds (a broken
link then loses what was written); `Append` does not fail on disk; frames are not
signed (the default without a key); nonces are unique and not empty.

### Relay

A connection is `out` (what the client has not read) and `regs` (registrations the
server has not read), its `state` at the server, and `dev`, `ver`, the fields of its
slot. `version` names an address table, so a roster entry that is out of date is a
version that differs. `stream` says where the client's parser stands: `handshaken_` and
`read_queue_` outlive a connection, so on a later one the 101 response is handed to the
frame parser, which may stop in the middle of a frame (`"garbled"`) and find a frame
boundary again by chance (`"realigned"`); both outcomes are allowed. Each callback of
`RelayServer` and `RelayClient` is one action; `Register` is the whole of it: displaced
slot, replay to the new client and broadcast. `RestartRelay` and `RestartDaemon` start
with empty tables.

### Presence

Time is counted in heartbeat periods of 5 s; `Timeout` is 3 of them (15 s), which is
also the period of the prune timer. `Elapse` lets one unit pass when every timer due has
fired; within a unit the order is free, which covers the phase and drift of the timers.
A record is its age, and `via` its source. `tick = "cancelled"` is a tick task whose weak
pointer `BindSockets` has invalidated. A datagram may be lost per receiver; what a daemon
sends on sockets of an interface that is gone reaches any subset. `RelayPeerOnline` and
`RelayPeerOffline` are the two events of `OnRelayEvent`; `FrameArrives` is the `Upsert`
of `OnHubMessage`. The merging of addresses is in `PeerLink`; the 800 ms filter for the
same datagram on several sockets is left out (it only refreshes what is fresh).

### Rooms

Rooms are independent, so there is one, created by `Owner`. `members[d]` is the table
of `d`, `known` who has the room at all, `net` the signals under way in order, `sees` the
peer registry. `missed` is a history variable: who was not sent the owner's present
table, because it was not in the registry, left, or the signal was given up.
`HandleInboundRoomSignal` has a disjunct for each signal and one for those ignored. No
daemon crashes here; one that does starts without rooms.

### FileTransfer

The file is its number of chunks, `0..MaxChunks`; an empty file is one of the cases.
Session 1 is the one of `sendFileTo`, the others are those of `resumeFile`, each with
its own channel, so that chunks of an older session can come after a newer one has
started. `next[k]` is the loop of `sendFile` in session `k`; `canceled` and `silent` are
its two flags. `rec` is the entry of `persistRecv` with the chunks held and the length of
the gapless prefix; `waiting` is `resumePromises`; `finishing` are the hashes being
computed, during which frames go on coming.

| Action | Code |
|---|---|
| `SendFileTo`, `ResumeFile` | the buttons: card, source, session |
| `ChannelOpens`, `OpeningTimesOut` | `onopen`, or `waitDcOpen` giving up |
| `ReceiveAck`, `AskTimesOut` | the two outcomes of `awaitOn` |
| `SendLoop` | one round of `start`: `StopSilently`, `StopCanceled`, `Fail`, `Finish`, `SendChunk` |
| `CancelFile`, `InterruptFile`, `Hangup` | `cancelFileByFileId`, `interruptFile` and its timer |
| `OnChannelMessage` | `ReceiveMeta`, `ReceiveChunk`, `ReceiveFend`, `ReceiveAsk` |
| `FinishReceive`, `OnClose`, `OnCallHangup` | the hash is there; the receiver's end of a channel |

Abstractions: header and binary frame of a chunk are one frame (`ReceiveHead` and the rest
of `ReceiveChunk`); the back pressure of
`bufferedAmount` is the freedom to delay `SendLoop`; hashes match; one file at a time.

### Calls

A call is one use of a callId; `From`, `To`, `Mode` say between whom and of which kind,
`"voice"` stands for voice and video. `capturing` are the calls whose `getUserMedia` or
`getDisplayMedia` is awaited; everything else goes on meanwhile. `slot` is
`pendingOffer`, `armed` is `armedAnswer`, `iceQueue` the candidates that wait. A signal
goes by way of two daemons, in order per pair of pages; `Lose` drops one. `Receive`
has a disjunct per handler; `RemoteDescriptionSet` is the second half of `onSignal`,
after its `await`. The history variables `offered`, `accepted`, `answered`, `displaced`
and `broken` only serve the properties.

Abstractions: the candidates that waited are added in one step (`flushIce` awaits each);
`call_accept` leaves in the step that takes the offer from the slot, in the code after the
offer was handled (webrtc.ts:428-436).

### ShareControl

One room, one host, its viewers. `share`, `viewers`, `calls` and `ctrl` are `roomShares`,
`roomShareByCallId` and `ctrlMembers`; `commands` is the socket to the host's daemon,
`hosting` its switch. `verdicts` remembers of each input the session it came over, whether
anyone was in control when the page passed it on, and whether it was injected; `granted`
remembers whom the host allowed to control, in which share. Requests go from `toHost`,
answers to `toViewer`, inputs over a channel of their own (`inputs`), which keeps no
order with the signals. `Told`, `EndShare` and `DisarmIfLast` are `native.send`,
`endRoomShare` and `syncShareControllers`. The buttons of `media.ts` are the guards of
what users do; `StopByScript` is the call that only the end-to-end script makes.

Abstractions: the shares are of one room, while the code counts controllers per room and has
one switch; the host's page is not loaded again and its socket to the daemon does not end;
a control channel is always made (the `catch` of `enableShareControl`, webrtc.ts:792-796,
is left out: no panel, a host that goes on holding the viewer for a controller). What the
code does in the first two cases is in section 6.

### WebClient

`Page` is the id that `login` makes up, `Daemon` the one the daemon writes into
messages. `up` and `down` are the socket; what is on it is gone when it closes. The
daemon keeps `registry`, `ledger` and `table`, which change under the page. `convs` holds
the lines of each conversation in order; `whole`, `tracked`, `echoed` and `receipts`
remember what came over this connection. `Dispatch`, `Inbound`, `InboundAck`,
`PeerFound`, `PeerGone`, `RoomSynced`, `MemberJoined` and `Kicked` are what the daemon
does, as far as the page can tell; `OnMessage` is the page's whole handler. Time stamps,
and so the order of a merged history, are left out.

### WsHub

The clients of one listener: `Peers` are other daemons, whose `WsConnection` puts frames
right behind the request of the handshake, `Pages` are browsers, which wait for the
response. Bytes that the parser only uses together are a unit: request, blank line, two
header bytes, long length, mask, payload. `sent`, `outq` and `wire` are the client's side
and the stream, `buf` is the buffer of the handshake and then `read_queue_`, `pending` the
handshakes of the listener, whose last slot the next accept fills. The hub's table is
`clients`, the daemon's is `ports`. `parsing` is the client in whose callback the IO thread
is: a callback takes several steps, and no other starts meanwhile, but clients go on.
`torn` remembers of which clients a socket has taken a part of a frame only.

| Action | Code |
|---|---|
| `Dial`, `SendText`, `OnWrite`, `ClientEnds` | the client: `StartAsClient`, `SendText`, `TryWriteNext` with `OnWrite`, and its end |
| `OnAccept`, `HandshakeFails` | `DoAccept`, `OnAccept`, and the two ends of a handshake by `DropPending` |
| `OnHandshakeRead`, `OnHandshakeWritten`, `Entered` | `OnHandshakeRead`, `OnHandshakeWritten` up to the first parse, and its rest |
| `OnRead`, `ParseFrame`, `Waits` | `OnRead`, one round of `TryParse`, and the return from it |
| `OnClientClosed` | `Close`, `OnClientClosed` and `on_closed` of the daemon |

`OnWrite(c, k)` takes `k` units of the frame in front: `OnWrite` in the code drops the frame
whatever the number of bytes written was. Behind such a frame the parser may take anything
for a frame (`~InStep`). Requests that are refused, because they carry no key or are too
long, are left out, and so are the frames from the hub to its clients. They go through the same
queue and the same parser, except that a client does not parse what came together with the
101 response before its next read (ws_connection.cc:160-162).

Also left out: frames other than whole text and close frames (a text frame that is the first
of several, a continuation or a ping is read and dropped, ws_connection.cc:68-74; daemons
send none, whether a page does is up to its browser); a write that fails at once in a reply sent from `on_message`,
which destroys the connection under the parser (ws_connection.cc:214-229); an accept that
fails, which is tried again and changes nothing here, while one that fails at once for good
would recurse (ws_hub.cc:107-110).

### DevDaemon

A unit stands for bytes that the parser only uses together: the two halves of the
handshake, two header bytes, a long length, the mask, the payload; it is known by the
number of its frame. `OnData` takes any number of units, `TakeFrame` is one round of the
loop. `HandleReq` has the requests that read or change its data; the rest are `"other"`.
Writes to a socket that is just closing are left out.

## 3. Runs

| Run | Bounds | States | Checks |
|---|---|---|---|
| `peerlink` | 2 devices, 2 addresses, queue of 2, 3 messages one way, receipts the other, 1 direct frame, 1 fault, 1 crash | 243 k | `NothingWaitsWhenConnected`, `QueueHoldsTheNewest`, `PathInOrder`, `ReceiptMeansStored`, `ChatServiceSpec`, `QueuedReachesPeer` |
| `relay_safety` | 3 devices, 3 connections, 2 versions, 1 break, 1 restart, symmetry | 2.0 M | `RoutesAgree`, `RosterComplete`, `RosterExact` |
| `presence_liveness` | 2 devices, 1 loss, 1 change of interfaces, 1 dropped registration, 1 crash | 676 k | `StaleBounded`, `GoneIsNoticed`, `FoundAgain`, `OneLossIsHarmless` |
| `rooms_safety` | 3 devices, 6 requests, 1 signal or peer lost, symmetry | 435 k | `MeshAgrees` |
| `transfer` | files of 0 to 3 chunks, 2 sessions, 1 broken channel, 1 timeout | 283 k | `BlobIsWhole`, `NoGap`, `ResumePointIsHeld`, `TransferEnds`, `CancelDropsPartial` |
| `calls` | 3 pages; 2 calls out of a voice call, a share and a file session to one page; 1 candidate, 1 loss or hangup | 405 k | `NoCandidateStranded`, `AnsweredOnlyIfAccepted`, `AnswerCarriesMedia`, `ViewerIsAnswered` |
| `share` | 2 viewers, 1 share, 2 requests, 1 leave, 1 input, symmetry | 3.2 M | `TypeOK`, `SwitchFollowsControllers`, `InjectedOnlyIfAllowed`, `ControllerHasPanel` |
| `client` | 1 peer, 3 messages (to the user, from the user, to the room), 4 requests, 1 break or reload, 2 changes | 2.4 M | `TypeOK`, `ShownOnce`, `ConversationComplete`, `DeliveredShown`, `OnlineMeansIntroduced`, `RoomFollows` |
| `dev` | 2 clients with 2 frames each, 7 requests, one with a long length, symmetry | 2.1 M | `ParserKeepsUp` |
| `hub` | a daemon with 2 frames and a page with 1, short and long, each may end at any time; writes of the daemon may be cut off | 952 k | `TypeOK`, `AcceptFillsLast`, `TablesAgree`, `MessagesDelivered`, `FrameLinkSpec`, `NobodyBlocks` |

`presence_beat` and `share_panel` end in a counterexample; section 6 says what they
show. A type invariant is checked where it says more than types: the switch and the page
of `ShareControl`, the numbers of requests in `WebClient`, what a buffer of `WsHub` may
hold after the handshake. The others are proved for every value of the constants
(section 5).

Why the bounds are enough. The transport's tables are kept per pair of daemons, so two
daemons show everything a pair can do. Two candidates give a plan that is exhausted, one
that is not, and a preferred route that differs from the best address. Three messages
overflow the queue of two, receipts dial and use the connection the other way, and one
fault with one crash gives a half-open connection, a failed dial or a forgotten
peer before or after a restart. For the relay three connections give one device three in
a row, or two that overlap while another registers; two versions make a refresh
distinguishable. Heartbeats depend only on the pair, and three units of timeout make a
record of every age; one lost datagram may fall into every phase of the two timers.
Six requests let the owner create, invite both members and kick and invite one of them
again while the first signals are still under way.

Three chunks let a transfer be interrupted after none, one, two and all of them; a second
session is the one that can race the first. Two calls that meet at one page compete for
its slot and its overlay, which is all that calls share; the three kinds differ in when
they capture and whether they need acceptance. One controller leaving while another
stays, or being the last, needs two viewers, and so does an input that comes from one of them
while the other is in control. A second share that replaces
the first (`MaxShares = 2` with one request) has 19.8 million states, too many for a run that is
repeated often; the switch and the panel were checked with it once, without an error. For
any number of shares there are the theorems of section 5. The page is checked with one break or
reload, after which it is a new page on an old ledger. Two clients share the data of the
development daemon, and two frames are what a chunk can cut or join. The hub has a client
of each kind: what one does to the other goes through the slots of the handshakes, the two
tables and the IO thread, and a daemon's two frames come with the handshake, after it, or
one each.

`CHECK_DEADLOCK FALSE` is set where the bounded counters let the system stop: requests,
frames, calls or connections are used up, and then nothing is left to happen.

Every property of a passing run has a faulty variant of one definition that breaks it
(`PROJECT.json`, "mutants"): a receipt sent without a ledger that survives a restart, a
queue that drops the newest message or is flushed in the wrong order, a slot that is not
displaced, an end of a connection that is not broadcast, a prune timer that compares
wrongly or does nothing, a signal table that is merged instead of replaced, a chunk that is
not waited for, an offer that is answered unasked, a switch that is turned off too early, a refusal that
is taken for a grant, a receipt looked for under the wrong name, a parser that returns too early, a handshake that
throws away the frames behind it.

### What the properties say

* `NothingWaitsWhenConnected`: beside a connection there is no dial, no parked frame and
  no queue. `message.send` relies on it when it writes past the queue.
* `QueueHoldsTheNewest`: at the cap the oldest is given up, without a gap.
* `PathInOrder`: ledger of the receiver, wire and queue hold increasing messages.
* `ReceiptMeansStored`: every receipt, shown, under way or parked, is of a message in the
  receiver's ledger.
* `ChatServiceSpec`: all of this as a refinement of `ChatService`, with `accepted`,
  `stored` and `delivered` mapped to `sent`, `inLog` and `receipts`.
* `QueuedReachesPeer`: a queued message is stored by the peer or pushed out by newer ones,
  once failures stop.
* `RoutesAgree`, `RosterComplete`, `RosterExact`: one slot per device; what a daemon will
  believe when it has read what is under way is the server's table. `RosterComplete` is
  for every registered daemon whose parser is at a frame boundary, `RosterExact` for its
  first connection (an older one may have left names behind).
* `StaleBounded`, `GoneIsNoticed`, `OneLossIsHarmless`, `FoundAgain`: the timers remove
  what is gone, in bounded time, and not what is there.
* `MeshAgrees`: whoever was sent the owner's present table has it, or gets it last.
* `BlobIsWhole`, `NoGap`, `ResumePointIsHeld`: the file offered is complete; a loop never
  passes a chunk that is neither held nor on its way; the point to go on at is held for
  as long as the sender may use it, although the receiver's entry may be dropped meanwhile.
* `TransferEnds`, `CancelDropsPartial`: a loop ends with the whole file, or because the
  channel closed or the user canceled; when a cancellation comes on an open channel, what the
  receiver has of the file is dropped in the end. Empty files are excepted: no chunk ever
  completes them (section 6). `CancelDropsPartial` is satisfied by any later moment without
  an entry; it does not say that none is made after it.
* `NoCandidateStranded`, `AnsweredOnlyIfAccepted`, `AnswerCarriesMedia`,
  `ViewerIsAnswered`: what the slot, the armed answers and the queue of candidates are for.
  `ViewerIsAnswered` excepts an offer that a newer one replaced in the slot (`displaced`).
* `SwitchFollowsControllers`: once its commands are handled the daemon's one switch is on
  exactly when the page has any controller. It says nothing about which viewer may inject.
* `InjectedOnlyIfAllowed`: page and daemon look at no sender, so whose input is injected
  rests on who has a panel and a channel, which only a grant gives. Whatever is injected
  came over a session whose viewer was allowed to control since that share began, and while
  someone was in control. That it is the sender who is in control at that moment does not
  hold, not even when everything was delivered in time (`PanelMeansControl`, section 6).
* `ControllerHasPanel`: who is in control has the panel, up to what is on its way. This is
  one direction; the other is `PanelMeansControl`.
* `ShownOnce`, `ConversationComplete`, `DeliveredShown`, `RoomFollows`: the store is the
  daemon's data, up to what is on its way. `OnlineMeansIntroduced`: the daemon knows the
  user of every open connection.
* `AcceptFillsLast`, `TablesAgree`: each slot but the last belongs to one handshake, and
  between callbacks hub and daemon know the same clients, those that are open among them.
* `MessagesDelivered`, `FrameLinkSpec`: whatever the cuts, what came whole was handed on,
  once and in order; connections are the queues of whole frames that the other modules take
  them for. Both except a client from the moment its socket takes a part of a frame.
* `NobodyBlocks`: what a daemon sends comes, whoever else leaves a handshake unfinished.
* `ParserKeepsUp`: what was handled is what has come, whatever the cuts.

## 4. Fairness

`PeerLink`: weak fairness of presence (`LanHeartbeat` ticks every 5 s; a daemon whose
interfaces change is the exception of section 6), of a dial that can succeed, of the read
and the close callback of a socket, and of restarting a daemon. Dial failures, broken
links and crashes are bounded and never forced, so a dial to a running daemon does
succeed once the faults are used up. Requests of users are not fair.

`Presence`: time passes, the posted tasks (`Tick`, `PruneStalePeers`) run, the relay
notices the end of a daemon's connection and its `peer_offline` is read. Losses,
interface changes, crashes, scans and registrations are not fair. `Relay` and `Rooms`
state safety only.

`FileTransfer`: the browsers run the loop of `sendFile`, deliver what is on an open
channel, finish hashes and fire the hangup timer; opening a channel, breaks, timeouts and
buttons are not fair. `Calls`: daemons pass signals on and `setRemoteDescription` comes
back; captures need the user and are not fair. `ShareControl` and `WebClient` state that
messages, commands and timers are handled; their checked properties are invariants.

`WsHub`: the IO thread gets to each socket that is ready and goes on with its callback, and
the socket of a daemon takes what is written to it. Nothing is asked of pages, whose
handshakes may stay unfinished, nor of ends of connections. `DevDaemon` states safety only.

## 5. Proofs

| Theorem | States | Invariant used |
|---|---|---|
| `PeerLink_proofs!TypeCorrect` | `Spec => []TypeOK` | itself |
| `PeerLink_proofs!NothingWaits` | `Spec => []NothingWaitsWhenConnected` | with `TypeOK` |
| `PeerLink_proofs!QueueIsNewest` | `Spec => []QueueHoldsTheNewest` | with `TypeOK` |
| `PeerLink_proofs!InOrder` | `Spec => []PathInOrder` | with all the above |
| `PeerLink_proofs!ReceiptsAreTrue` | `Spec => []ReceiptMeansStored` | with all the above |
| `PeerLink_proofs!Implements` | `Spec => ChatServiceSpec` | all the above |
| `Relay_proofs!TypeCorrect` | `Spec => []TypeOK` | `Inv` |
| `Relay_proofs!OneSlotPerDevice` | `Spec => []RoutesAgree` | `SlotInv` |
| `Relay_proofs!NobodyIsMissing` | `Spec => []RosterComplete` | `RosterInv` |
| `Relay_proofs!NobodyLingers` | `Spec => []RosterExact` | `RosterInv` |
| `Tables_proofs!TypeCorrect` | `Spec => []TypeOK` of `Presence` | `Inv`, `Watch`, `Counters` |
| `Tables_proofs!RecordsAgeOut` | `Spec => []StaleBounded` | `Inv`: types, and a stopped daemon has no records |
| `Tables_proofs!LossTolerated` | `Timeout >= 3` and `Spec => OneLossIsHarmless` | `BeatInv` |
| `Tables_proofs!RoomTypesCorrect` | `RoomsSpec => []RoomsTypeOK` | `Books` |
| `Tables_proofs!MeshStaysConsistent` | `RoomsSpec => []MeshAgrees` | `MeshInv`: types of the channels, and only the owner sends tables |
| `FileTransfer_proofs!TypeCorrect` | `Spec => []TypeOK` | `Inv` |
| `FileTransfer_proofs!FileIsWhole` | `Spec => []BlobIsWhole` | `Inv`: types, chunks on the channels are chunks of the file, the prefix of the entry has no gap |
| `FileTransfer_proofs!NothingSkipped` | `Spec => []NoGap` | `ResumeInv` |
| `FileTransfer_proofs!ResumesWhereHeld` | `Spec => []ResumePointIsHeld` | `ResumeInv` |
| `Calls_proofs!TypeCorrect` | `Spec => []TypeOK` | `Inv` |
| `Calls_proofs!CandidatesNotStranded` | `Spec => []NoCandidateStranded` | with `Inv` |
| `Calls_proofs!AnsweredWithConsent` | `Spec => []AnsweredOnlyIfAccepted` | `RouteInv`, `AcceptInv` |
| `Calls_proofs!AnswerHasMedia` | `Spec => []AnswerCarriesMedia` | `RouteInv`, `MediaInv` |
| `ShareControl_proofs!TypeCorrect` | `Spec => []TypeOK` | `TypeInv` |
| `ShareControl_proofs!SwitchIsRight` | `Spec => []SwitchFollowsControllers` | `SwitchInv` |
| `ShareControl_proofs!InjectionIsRight` | `Spec => []InjectedOnlyIfAllowed` | `SwitchInv`, `AllowedInv` |
| `ShareControl_proofs!PanelIsThere` | `Spec => []ControllerHasPanel` | `InviteInv`, `PanelInv` |
| `WebClient_proofs!TypeCorrect` | `Spec => []TypeOK` | `Types`, `MatchInv` |
| `WebClient_proofs!Introduced` | `Spec => []OnlineMeansIntroduced` | with `QuietInv` |
| `WebClient_proofs!NothingShownTwice` | `Spec => []ShownOnce` | `LedgerInv`, `OnceInv` |
| `WebClient_proofs!NothingLost` | `Spec => []ConversationComplete` | `CoverInv`, `CompleteInv` |
| `WebClient_proofs!ReceiptsReachTheirLine` | `Spec => []DeliveredShown` | `SendInv`, `EchoInv` |
| `WebClient_proofs!RoomIsTheDaemons` | `Spec => []RoomFollows` | `RoomInv` |
| `Sockets_proofs!TypeCorrect` | `Spec => []TypeOK` of `WsHub` | `Inv` |
| `Sockets_proofs!SlotIsLast` | `Spec => []AcceptFillsLast` | `Inv`, with itself |
| `Sockets_proofs!TablesAlike` | `Spec => []TablesAgree` | `TablesInv` |
| `Sockets_proofs!Delivered` | `Spec => []MessagesDelivered` | `WholeInv` |
| `Sockets_proofs!Implements` | `Spec => FrameLinkSpec` | `WholeInv` |
| `Sockets_proofs!KeepsUp` | `DevSpec => []ParserKeepsUp` | `DevInv` |

They hold for every value of the constants that satisfies the assumption of the module:
any devices, addresses, messages, calls, viewers, queue cap, timeout and length of a file,
and any bounds. The assumptions ask for names that differ (nobody is not a device), for
bounds that are naturals and for a few that are not zero, for an owner that is a device, a
call between two devices, and finite sets where the code counts or walks through a table:
the devices of `Presence`, the messages of `WebClient`. The theorems cover every action,
faults, crashes and reloads included. `LossTolerated` has a hypothesis of its own: a
timeout of at least three beats, as in the code (beats every 5 s, timeout 15 s); with two
it is false.

**Transport.** `PathInOrder` is not inductive alone. A flush puts the
queue on a wire, which keeps the order only if nothing newer is on that wire already,
which is `NothingWaitsWhenConnected` read backwards: no connection while something is
queued, and an empty wire without a connection. That what is queued is newer than what is
stored follows from `QueueHoldsTheNewest`. `ReceiptMeansStored` then needs that a ledger
only grows and that a receipt is made in the step that stores. The refinement follows
pointwise: a step that sends is `Accept`, a step that reads a chat frame is `Store`
or, for a duplicate, a stutter, a step that reads a receipt is `Confirm`.

**Relay.** `RoutesAgree` is strengthened by what `Register` checks and the client
guarantees: a slot only ever carries the device that opened its connection, and only an
open slot carries one. `RosterComplete` and `RosterExact` speak of what a daemon will
believe when it has read its queue. Reading a whole queue is a fold; `Ends` says the same
pointwise: the last event about `e` in the queue says `v`, or there is none and the daemon
believes `v` now. A registration replays every routed device once (`ReplayFacts`) and is
broadcast to the others, so `Ends` is kept device by device. Exactness also needs
`Unheard`: before its first registration is read a daemon has heard of nobody.

**Presence.** For `OneLossIsHarmless` the record of a beating peer of the segment is, as
long as nobody has crashed, at most as many beats old as presences were lost, and one more
while the next beat is due (`Young`). Pruning then meets a record of age two at most.

**Rooms.** For `MeshAgrees` the step to show is that each change of the owner's table either
appends it as the last table of a channel or puts the receiver into `missed`.

**File transfer.** `BlobIsWhole` rests on the entry of the receiver: its chunks are chunks
of the file and those below `contig` are all there. `Placed` moves `contig` to the first
gap, which is found because every set of numbers has a least one (`GapExists`), and which
the end of the file bounds; so when `contig` reaches the size, the number of chunks put
together is the size. It does not matter which session a chunk came from, which is why
cancellation, resumption and a restart from the beginning need no argument of their own.
They do for `NoGap` and `ResumePointIsHeld`: `LiveInv` says that one session at most
carries the file, so that no other session can make the receiver drop its entry, and for
that session the file is declared before its chunks (`Declared`), what the loop has passed
is held or on the channel (`Held`), and an answer to `fresume` names chunks that are held
(`Answered`).

**Calls.** `RouteInv` says that a signal is only ever on the way between the two ends of its
call; the rest is said call by call: a call that is not made is unknown to the callee, an
invitation is the first that a callee hears of it, a capture or an armed answer follows an
acceptance, and a voice call that is answered has its track.

**Share and control.** `SwitchInv` says what the switch will be after the commands on their
way, and that each input between them was sent under the switch it will meet. For the panel,
`InviteInv` orders what a viewer does about a share behind its one invitation, and
`PanelInv` says that a grant follows an invitation which is still to be read, and that a
viewer the host has lost is past the share. Whose input it is, is the matter of `AllowedInv`:
a viewer makes a channel when it reads a grant, for the session it looks at then. Each grant
on the way is recorded in `granted`, and its share is not older than the one the viewer looks
at when it reads it (`Fit`), because invitations and grants come in the order of the shares;
so the session of a channel, of an input on it, of a command and of a verdict is of a viewer
who was allowed since that share began.

**Page.** Steps are sorted by what they are to the page's lines and to the queue from the
daemon (`StepKinds`): nothing changes, the connection ends, the daemon tells something or
announces a message, the page reads. `MatchInv` gives an answer the request it belongs to:
numbers of requests are not used twice on a page, and a new page has an empty queue.
`OnceInv`: a message that came once has one line, or one event on the way with no history
before it that contains the message. `CoverInv`: an answer to a history request lacks only
messages whose event is on the way behind it or whose line is there. `EchoInv`: before a
receipt comes the event of its message, because a text reaches the daemon once (`SendInv`)
and is announced in the step that stores it. For the room, an entry that goes through all
events of the queue ends at the daemon's table; that there is such a run of entries is part
of the invariant (`RoomInv`), and that there is no other (`RunIsOne`) follows from the least
place at which two would differ.

**Hub.** The stream of a client is what it has read and what is on its way
(`Stream`), and reading moves units from one part to the other. `TablesInv` says in which
stage a client has a slot and an entry, also in the middle of a callback; an accept, and a
handshake that ends anywhere among the others, keep the last slot empty, because removing
an element in front keeps the order of those behind it. `RequestInv` and `QueueInv` place
the request in front of the frames. `MessagesDelivered` then needs, for a client whose
frames were taken whole, that its stream is the units of consecutive frames: it begins
with the one after the last that was handed on (`Begins`), each unit is the one that
follows (`GoesOn`), it ends with the last frame written (`Ends`) and misses none in between
(`Holds`). So the payload that the parser finds is of the frame in front (`FrontOfBuffer`),
and between callbacks the queue is shorter than a frame. What a client adds to its stream
after a frame that was cut off is outside `WholeInv` from that step on, and so in
`FrameLink`. The refinement reads off the same invariant: the frame handed on is the next
in `sent` (`HandedOn`).

**Development daemon.** `SockInv` says it of one socket: buffer and line together are the
units from the front frame to the last one sent (`Flowing`, with `First` for the front),
what was handled are the requests before the front, in order (`HandledUpTo`), a close frame
is the last, and while the callback does not run there is no whole frame in the buffer
(`Place`). A frame that is sent goes behind the flow (`FlowSent`), what is taken from it is
exactly the frame in front (`PlaceOfBody`, `FlowTaken`), and a chunk changes only where the
flow is cut (`Moved`). A payload in the line is then of a frame that was not handled, and one
that is nowhere was (`SockKeepsUp`).

Every invariant that a run checks is proved, and so are the two refinements and
`OneLossIsHarmless`. Only model-checked are the liveness properties `QueuedReachesPeer`,
`GoneIsNoticed`, `FoundAgain`, `TransferEnds`, `CancelDropsPartial`, `ViewerIsAnswered` and
`NobodyBlocks`, which rest on fairness and so on ENABLED. Facts that need induction over
data are avoided: sequences are described pointwise, and no module here declares a
RECURSIVE operator.

## 6. Where the code differs from what it says

Each of these runs checks one sentence of the repository and finds a behaviour of the
code that contradicts it.

| Run | Sentence | What happens |
|---|---|---|
| `presence_beat` | protocol.md:39, the endpoint multicasts its presence periodically | Rebinding the sockets (lan_heartbeat.cc:101) invalidates the posted tick; nothing posts it again |
| `share_panel` | webrtc.ts:602, a viewer whose control is taken back leaves the control mode at once, and its inputs are passed back no more | `enableShareControl` (webrtc.ts:789-790) awaits its offer and then opens the panel whatever became of the grant: the revocation came while there was no panel to close. The viewer's inputs go to the host's daemon and are injected when another viewer is in control, because `onChannelMessage` looks at no controllers |

Met while modelling, in the steps of the modules but without a run of their own. Where a
property is named, it is stated in the module and TLC refutes it when it is put into the
configuration.

* native_client.ts:233: a conversation with one peer is filed under that peer, whoever
  writes. The author in the daemon's echo is the daemon's id, the page compares with the id
  that `login` made up: the message is filed under the daemon's id and the open conversation
  does not show it (`WebClient!FiledUnderPeer`; docs/roadmap.md:237 knows of the two ids).
* daemon.h:104: delivery is confirmed by the peer's receipt. With no failure, two messages
  can arrive before the receiver has a connection back: the second receipt exhausts the
  dial plan of the first (daemon.cc:547) and one message is never shown as delivered
  (`PeerLink!EveryMessageConfirmed`).
* relay_server.cc:250: the old slot gives way so that its end does not report the device
  off line. A registration still unread in the old connection takes the route back from
  the new one (line 256); the old connection then ends and removes it
  (`Relay!NoFalseOffline`).
* relay_client.h, relay_client.cc:180: the 101 response is stripped before frames are
  parsed. `handshaken_` is never reset: on the second connection it is not
  (`Relay!ResponseIsStripped`).
* peer_registry.h:1: LAN and relay both flow into the index of the devices on line. The
  relay announces once per registration, the prune timer removes the record after 15 s
  (daemon.cc:262, `Presence!RelayPeerIsListed`).
* daemon.cc:772: a daemon that is kicked removes the room. It removes itself from the table
  and keeps the room while others are in it (`Rooms!KickedForgetsRoom`).
* protocol.md:43: a peer that is found is reported as `discovery.peer_found`, which is what
  the daemon sends (daemon.cc:1279); the page's handler is named `presence.peer_found`
  (native_client.ts:134), so that the roster only changes when it is loaded
  (`WebClient!FoundPeerIsShown`). It is loaded at login and not, as the comment at line 91
  says, after a reconnection.
* webrtc.ts:554: a viewer's request to stop is shown to the host. The button passes the
  callId (media.ts:63), the host looks for a room of that name
  (`ShareControl!StopRequestIsShown`).
* webrtc.ts:403: an offer that comes after the acceptance is answered at once. For a voice
  call whose tracks are on the connection already `addTrack` throws, and nobody answers
  (`Calls!AcceptedIsAnswered`).
* protocol.md:84: `transfer_ack` confirms that a transfer is complete. The sender sends it
  when the last chunk is handed to the channel (`FileTransfer!AckMeansReceived`). An empty
  file has no chunk and is never completed at the receiver.
* ws_connection.h:36: a connection sends frames. `OnWrite` (ws_connection.cc:214) takes any
  positive number of bytes for the whole of them; the rest of the frame is never sent, and
  the receiver is out of step (`WsHub!SendsWholeFrames`).
* relay_server.cc:199: a client is in the table before its first frames are handled. In the
  hub it is entered after (ws_hub.cc:193-198), so that an answer to a request that came with
  the handshake finds nobody (`WsHub!RequestsAnswered`). A connection whose first read ends
  at once is entered when it has already closed, and stays in both tables for good
  (`Entered`, stage `"dead"`).
* daemon.cc:1104 reads the switch as a string. A call for remote control between two sends
  the boolean `false` (webrtc.ts:463, 546), which is taken for the default `"true"`.
* A viewer who closes the overlay of a share tells nobody: controllers and switch stay as
  they are (webrtc.ts:378 says that leaving takes control back). `call_hangup` does not
  look at the controllers; a share that is started again keeps them.
* The loop of `startRoomShare` goes on inviting after the share has ended, or after a
  member was removed from it (`InviteNext`).
* A panel without control also comes of a grant that crosses the viewer's own release on
  the way: the host takes the release for the end of the new control (`OnRelease`), and the
  viewer opens its panel when it reads the grant.
* The host's page is loaded again, or its socket to the daemon ends: the page forgets its
  controllers, or its `remote_host` is dropped (native_client.ts:106), and the daemon's
  `set_on_closed` (daemon.cc:164) only forgets the connection. The switch stays on.
* Controllers are counted per room, and the switch is one: with shares of two rooms the last
  controller of one turns it off for those of the other (webrtc.ts:841-847).
* The receiver that completes a file before the message that announces it makes a card of
  its own, and the message adds a second one (`CompleteReceive`).
* daemon.mjs:4: every request is answered. The answer has a `txn` of the daemon's own, so
  that the page's promise times out (`Reply`).
* Text that is typed while the socket is closed is gone (`SendText`); a message that a peer
  sends again is shown again (`PushMessage`); a page that is kicked from a room compares
  with its own id and keeps the room (`OnRoomEvent`).
* docs/protocol.md:62-63: the parked frame is dropped only when all candidates failed.
  `DialNext` called for another frame during the last dial drops it at once
  (`DialNext`, `SendPeerEnvelope`).
* docs/roadmap.md:227: a message for a peer that is off line is queued. Over a half-open
  connection it is written and lost (`SendChat`, daemon.cc:977).
* relay_client.h:34: a changed address table is registered at once. Between `OnConnected`
  and the 101 response it is not (`SetRegisterPayload`, relay_client.cc:141).
* docs/protocol.md:48: peers are kept per device and source. There is one record per
  device, and `peer_offline` removes it even if it was heard on the LAN
  (`RelayPeerOffline`, daemon.cc:1311).
* daemon.cc:430: signals keep the member tables the same. A member that leaves tells
  nobody (`Leave`, daemon.cc:1036).
* docs/protocol.md:91: the sequence number of a room grows. A room that is forgotten
  and received again starts at 1 (`HandleInboundRoomSignal`, room_manager.cc:35).

## 7. Not modelled, and why

* The bytes of a header, masks, the frames from the hub to its clients, keys of the
  handshake; the signatures of frames. Modules other than `WsHub` and `DevDaemon` use a
  connection as a queue of whole frames, which is what `FrameLink` promises.
* A disk write that fails in `Append`, a synchronous write failure in the middle of
  `FlushQueue`, of `BroadcastExcept` or of a reply sent from `on_message`: listed as hazards.
* Text frames in several parts, and other kinds of frames, which the parser drops.
* A crash of a daemon in `Rooms`, which empties its `rooms_`.
* In `ShareControl`, the end of the page's socket to its daemon, a reload of the host's page,
  shares of two rooms at once, and a control channel that fails to open.
* The ranking of addresses, the time window of signed frames, the limit of `History`: pure
  functions without steps of others in between.
* The status table of `core/transport/file_transfer.cc`: it counts what the page tells it
  and reports it back to the page.
* In the WebUI: layout, toasts, a changed name, voice messages (a recording is sent as a
  file), control in a call between two, the creation of a room by the page.
* Static web servers, identity files, input injectors, build files: pure I/O or calls of
  the operating system. Of the end-to-end scripts one call that no button makes is
  modelled.

## 8. Plan

Order of the work, most important behaviour first; all of it is done.

1. `ChatService`, `PeerLink`, refinement and proofs.
2. `Relay`, slots proved.
3. `Presence`, bounded staleness proved.
4. `Rooms`, agreement proved.
5. `FileTransfer`.
6. `Calls`.
7. `ShareControl`.
8. `WebClient`.
9. `DevDaemon`.
10. Theorems about the WebUI: `FileTransfer`, `Calls`, `ShareControl`, `WebClient`.
11. Theorems about the daemons: `TypeOK` of `Relay`, `Presence` and `Rooms`; the rosters of
    the relay; `OneLossIsHarmless`.
12. `WsHub`: handshake, frame parser and writer of a connection; `FrameLink` proved.
13. `ParserKeepsUp` of `DevDaemon` proved.
