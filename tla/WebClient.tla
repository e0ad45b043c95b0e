----------------------------- MODULE WebClient -----------------------------
(***************************************************************************)
(* The page of one user (ui/client/native_client.ts, ui/store.ts, the      *)
(* login, roster and input line of ui/views) and the daemon it is          *)
(* connected to, as far as the page sees it: requests with an answer, and  *)
(* events that the daemon pushes.  The connection drops and is made again, *)
(* the page is loaded again; the daemon keeps its ledger, its peers and    *)
(* its table of the room meanwhile.                                        *)
(*                                                                         *)
(* The page has its own idea of who it is: login makes up an id, and the   *)
(* daemon, which has another one, writes its own into every message.       *)
(***************************************************************************)
EXTENDS Integers, Sequences, FiniteSets, SequencesExt

CONSTANTS Peers,        \* device ids of other daemons
          Daemon, Page, \* device ids: the daemon's, and the one of the page's profile
          Room, Nobody,
          Messages,     \* by nonce
          Author, Dest, \* who writes a message, and to whom: a device or the room
          MaxBreaks,    \* bound: connections that end or cannot be made, and pages loaded again
          MaxRequests,  \* bound: requests of each loaded page
          MaxChanges,   \* bound: changes of the daemon's peers and of its room
          MaxArrivals,  \* bound: messages that come from peers
          MaxQueue      \* bound: envelopes that wait for the page

Ids == Peers \cup {Daemon}

ASSUME ClientAssumption ==
  /\ IsFiniteSet(Messages)
  /\ {Daemon, Page, Room, Nobody} \cap Peers = {}
  /\ Cardinality({Daemon, Page, Room, Nobody}) = 4
  /\ Author \in [Messages -> Ids] /\ Dest \in [Messages -> Ids \cup {Room}]
  /\ \A m \in Messages : Author[m] # Dest[m]
  /\ MaxBreaks \in Nat /\ MaxRequests \in Nat /\ MaxChanges \in Nat
  /\ MaxArrivals \in Nat /\ MaxQueue \in Nat

Typed == {m \in Messages : Author[m] = Daemon}
Keys == Ids \cup {Page, Room}

Methods == {"hello", "list", "history", "send"}

\* An envelope of the page; txn numbers the requests of a loaded page.
Req(t, x, n) == [t |-> t, x |-> x, txn |-> n]

\* An envelope of the daemon: an event, or the answer to request txn.
Ev(t, x) == [t |-> t, x |-> x, txn |-> 0]
Res(t, x, n) == [t |-> t, x |-> x, txn |-> n]

NoRoom == [known |-> FALSE, members |-> {}]

VARIABLES
  (* the page: app.state, localStorage, NativeClient *)
  ws,         \* the socket
  timer,      \* connect is due again
  saved,      \* localStorage has a profile
  profile,    \* app.state.profile is set
  connected,  \* app.state.connected
  peers,      \* app.state.peers
  convs,      \* app.state.conversations: per key, messages with their status
  room,       \* app.state.rooms, of the one room
  route,      \* target of the open conversation
  pending,    \* requests whose promise is not settled
  txn,        \* number of envelopes sent
  (* the daemon *)
  registry,   \* its peers
  ledger,     \* its MessageStore
  table,      \* its table of the room
  greeted,    \* it was told hello on this connection
  (* between them *)
  up, down,
  (* history *)
  typed,      \* messages that were typed
  arrivals,   \* how often each message came to the daemon
  acked,      \* typed messages whose receipt has come
  whole,      \* keys whose history was applied on this connection
  tracked,    \* the room was pushed on this connection
  echoed,     \* messages pushed on this connection
  receipts,   \* receipts pushed on this connection
  breaks, changes

state == <<profile, connected, peers, convs, room, route>>
socket == <<ws, timer>>
client == <<pending, txn>>
daemon == <<registry, ledger, table>>
here == <<whole, tracked, echoed, receipts>>
ledgerHistory == <<typed, arrivals, acked>>
bounds == <<breaks, changes>>
vars == <<state, socket, saved, client, daemon, greeted, up, down, here, ledgerHistory, bounds>>

NoConversation == [k \in Keys |-> <<>>]

Init ==
  /\ profile = FALSE /\ connected = FALSE /\ peers = {}
  /\ convs = NoConversation /\ room = NoRoom /\ route = Nobody
  /\ ws = "connecting" /\ timer = FALSE /\ pending = {} /\ txn = 0
  /\ saved \in BOOLEAN
  /\ registry \in SUBSET Peers /\ ledger = {} /\ table = {} /\ greeted = FALSE
  /\ up = <<>> /\ down = <<>>
  /\ typed = {} /\ arrivals = [m \in Messages |-> 0] /\ acked = {}
  /\ whole = {} /\ tracked = FALSE /\ echoed = {} /\ receipts = {}
  /\ breaks = 0 /\ changes = 0

-----------------------------------------------------------------------------
(* The socket *)

\* send: one envelope.  On a closed socket it is dropped without a word; on one that is
\* connecting ws.send throws, so callers have the guard ws # "connecting".
Sent(q, t, x, n) == IF ws = "open" THEN Append(q, Req(t, x, n)) ELSE q

\* What makes the user known, as onopen and login send it: hello, and scan_start, which is not
\* told apart from it.
Introduction(n) == <<Req("hello", Nobody, n + 1)>>

\* Mutant: only a user who has logged in on this page is introduced.
OnOpenLoggedIn ==
  /\ ws = "connecting"
  /\ ws' = "open" /\ connected' = TRUE
  /\ IF profile THEN up' = Introduction(txn) /\ txn' = txn + 1
                ELSE UNCHANGED <<up, txn>>
  /\ UNCHANGED <<profile, peers, convs, room, route, timer, saved, pending, daemon, greeted, down,
                 here, ledgerHistory, bounds>>

\* onopen: a page with a saved profile introduces itself, logged in or not.
OnOpen ==
  /\ ws = "connecting"
  /\ ws' = "open" /\ connected' = TRUE
  /\ IF saved THEN up' = Introduction(txn) /\ txn' = txn + 1
              ELSE UNCHANGED <<up, txn>>
  /\ UNCHANGED <<profile, peers, convs, room, route, timer, saved, pending, daemon, greeted, down,
                 here, ledgerHistory, bounds>>

\* What was on its way is gone, and the daemon forgets the client.
ConnectionGone ==
  /\ up' = <<>> /\ down' = <<>> /\ greeted' = FALSE
  /\ whole' = {} /\ tracked' = FALSE /\ echoed' = {} /\ receipts' = {}

\* onclose, of a connection or of an attempt.
OnClose ==
  /\ ws \in {"connecting", "open"}
  /\ breaks < MaxBreaks /\ breaks' = breaks + 1
  /\ ws' = "closed" /\ connected' = FALSE
  /\ timer' = TRUE
  /\ ConnectionGone
  /\ UNCHANGED <<profile, peers, convs, room, route, saved, client, daemon, ledgerHistory, changes>>

Connect ==
  /\ timer
  /\ timer' = FALSE /\ ws' = "connecting"
  /\ UNCHANGED <<state, saved, client, daemon, greeted, up, down, here, ledgerHistory, bounds>>

\* The page is loaded again; localStorage outlives it.
Reload ==
  /\ breaks < MaxBreaks /\ breaks' = breaks + 1
  /\ profile' = FALSE /\ connected' = FALSE /\ peers' = {}
  /\ convs' = NoConversation /\ room' = NoRoom /\ route' = Nobody
  /\ ws' = "connecting" /\ timer' = FALSE /\ pending' = {} /\ txn' = 0
  /\ ConnectionGone
  /\ UNCHANGED <<saved, daemon, ledgerHistory, changes>>

-----------------------------------------------------------------------------
(* The user *)

LoginForm == ~profile

\* login.  On a connecting socket its first send throws: the profile is set, the rest not run.
Login ==
  /\ LoginForm
  /\ profile' = TRUE /\ saved' = TRUE
  /\ IF ws = "connecting"
     THEN UNCHANGED <<up, txn, pending>>
     ELSE LET ask == Req("list", Nobody, txn + 2) IN
          /\ up' = IF ws = "open" THEN up \o Introduction(txn) \o <<ask>> ELSE up
          /\ txn' = txn + 2
          /\ pending' = pending \cup {ask}
  /\ UNCHANGED <<connected, peers, convs, room, route, socket, daemon, greeted, down, here,
                 ledgerHistory, bounds>>

\* A click on a device or on a room: loadHistory, and the conversation is opened.
OpenConversation(k) ==
  LET ask == Req("history", k, txn + 1) IN
  /\ k \in peers \/ (k = Room /\ room.known)
  /\ ws # "connecting" /\ txn < MaxRequests
  /\ up' = Sent(up, "history", k, txn + 1)
  /\ pending' = pending \cup {ask} /\ txn' = txn + 1
  /\ route' = k
  /\ UNCHANGED <<profile, connected, peers, convs, room, socket, saved, daemon, greeted, down, here,
                 ledgerHistory, bounds>>

\* sendText: the text leaves the input line whether or not it could be sent.
SendText(m) ==
  /\ m \in Typed \ typed /\ Dest[m] = route
  /\ ws # "connecting" /\ txn < MaxRequests
  /\ typed' = typed \cup {m}
  /\ up' = Sent(up, "send", m, txn + 1) /\ txn' = txn + 1
  /\ UNCHANGED <<state, socket, saved, pending, daemon, greeted, down, here, arrivals, acked, bounds>>

-----------------------------------------------------------------------------
(* The daemon *)

\* Bounds.
QueueHasRoom == Len(down) < MaxQueue
Arrived == SumFunctionOnSet(arrivals, Messages \ Typed)
Change == changes < MaxChanges /\ changes' = changes + 1 /\ QueueHasRoom

\* SendToWebUi: an event is pushed to a page that is connected.
Push(q, e) == IF ws = "open" THEN Append(q, e) ELSE q

\* The conversation under which the daemon files a message.
ConvKey(m) == IF Dest[m] = Room THEN Room ELSE IF Author[m] = Daemon THEN Dest[m] ELSE Author[m]

History(k) == {m \in ledger : ConvKey(m) = k}

\* A message goes into the ledger, where a nonce is kept once, and to the page.
Announce(m, q) ==
  /\ ledger' = ledger \cup {m}
  /\ down' = Push(q, Ev("chat", m))
  /\ arrivals' = [arrivals EXCEPT ![m] = @ + 1]
  /\ echoed' = IF ws = "open" THEN echoed \cup {m} ELSE echoed

\* Dispatch, of the oldest envelope of the page.  The answers to hello and send, for which
\* the page has no promise, are left out.
Dispatch ==
  /\ up # <<>> /\ QueueHasRoom
  /\ up' = Tail(up)
  /\ LET r == Head(up) IN
     \/ /\ r.t = "hello"
        /\ greeted' = TRUE
        /\ UNCHANGED <<down, ledger, arrivals, echoed>>
     \/ /\ r.t = "list"
        /\ down' = Append(down, Res("list", registry, r.txn))
        /\ UNCHANGED <<greeted, ledger, arrivals, echoed>>
     \/ /\ r.t = "history"
        /\ down' = Append(down, Res("history", History(r.x), r.txn))
        /\ UNCHANGED <<greeted, ledger, arrivals, echoed>>
     \/ /\ r.t = "send"
        /\ Announce(r.x, down)
        /\ UNCHANGED greeted
  /\ UNCHANGED <<state, socket, saved, client, registry, table, whole, tracked, receipts, typed,
                 acked, bounds>>

\* HandleInboundPeerEnvelope: a peer's message, which may come again: the ledger drops it, the
\* page is told.
Inbound(m) ==
  /\ m \in Messages \ Typed /\ Arrived < MaxArrivals /\ QueueHasRoom
  /\ Announce(m, down)
  /\ UNCHANGED <<state, socket, saved, client, registry, table, greeted, up, whole, tracked,
                 receipts, typed, acked, bounds>>

\* A receipt for a message of this daemon.
InboundAck(m) ==
  /\ m \in (Typed \cap ledger) \ acked /\ Dest[m] # Room /\ QueueHasRoom
  /\ acked' = acked \cup {m}
  /\ down' = Push(down, Ev("ack", m))
  /\ receipts' = IF ws = "open" THEN receipts \cup {m} ELSE receipts
  /\ UNCHANGED <<state, socket, saved, client, daemon, greeted, up, whole, tracked, echoed, typed,
                 arrivals, bounds>>

\* OnLanPeer: a peer is there, and the page is told in the name of discovery.
PeerFound(p) ==
  /\ p \notin registry /\ Change
  /\ registry' = registry \cup {p}
  /\ down' = Push(down, Ev("discovery.peer_found", p))
  /\ UNCHANGED <<state, socket, saved, client, ledger, table, greeted, up, here, ledgerHistory,
                 breaks>>

\* PruneStale, or peer_offline of the relay: the page is not told.
PeerGone(p) ==
  /\ p \in registry /\ Change
  /\ registry' = registry \ {p}
  /\ UNCHANGED <<state, socket, saved, client, ledger, table, greeted, up, down, here,
                 ledgerHistory, breaks>>

\* joined, invited and sync carry the whole table.
RoomSynced(S) ==
  /\ Change /\ S # table
  /\ table' = S
  /\ down' = Push(down, Ev("sync", S))
  /\ tracked' = (ws = "open" \/ tracked)
  /\ UNCHANGED <<state, socket, saved, client, registry, ledger, greeted, up, whole, echoed,
                 receipts, ledgerHistory, breaks>>

\* member_joined, at the owner, and member_left, at the one that is kicked, carry one member.
MemberJoined(d) ==
  /\ Change /\ table # {} /\ d \notin table
  /\ table' = table \cup {d}
  /\ down' = Push(down, Ev("member_joined", d))
  /\ UNCHANGED <<state, socket, saved, client, registry, ledger, greeted, up, here, ledgerHistory,
                 breaks>>

Kicked ==
  /\ Change /\ Daemon \in table
  /\ table' = table \ {Daemon}
  /\ down' = Push(down, Ev("member_left", Daemon))
  /\ UNCHANGED <<state, socket, saved, client, registry, ledger, greeted, up, here, ledgerHistory,
                 breaks>>

-----------------------------------------------------------------------------
(* The page gets an envelope: onMessage *)

\* Mutant: the kind of the message is not looked at.
KeyOfAuthor(m) == IF profile /\ Author[m] = Page THEN Dest[m] ELSE Author[m]

\* The page's conversation of a message: the daemon's id in it is not the page's.
Key(m) ==
  IF Dest[m] = Room THEN Room
  ELSE IF profile /\ Author[m] = Page THEN Dest[m] ELSE Author[m]

Shown(q) == {q[n].m : n \in DOMAIN q}

\* pushMessage
PushMessage(m) == convs' = [convs EXCEPT ![Key(m)] = Append(@, [m |-> m, status |-> "sent"])]

\* Mutant: what is there already is added again.
LoadHistoryAgain(k, items) ==
  LET new == {m \in items : Key(m) = k} IN
  \E added \in [1..Cardinality(new) -> new] :
    /\ {added[n] : n \in DOMAIN added} = new
    /\ convs' = [convs EXCEPT ![k] = @ \o [n \in DOMAIN added |-> [m |-> added[n], status |-> "sent"]]]

\* loadHistory: what is not there yet is added, if the page files it under this conversation.
\* The order, by time stamp, is left out.
LoadHistory(k, items) ==
  LET new == {m \in items \ Shown(convs[k]) : Key(m) = k} IN
  \E added \in [1..Cardinality(new) -> new] :
    /\ {added[n] : n \in DOMAIN added} = new
    /\ convs' = [convs EXCEPT ![k] = @ \o [n \in DOMAIN added |-> [m |-> added[n], status |-> "sent"]]]

\* The first line of message m in conversation k becomes delivered.
Delivered(k, m) ==
  LET n == CHOOSE i \in DOMAIN convs[k] :
             convs[k][i].m = m /\ \A j \in 1..(i - 1) : convs[k][j].m # m IN
  convs' = [convs EXCEPT ![k][n].status = "delivered"]

\* Mutant: the message is looked for under its receiver.
MarkDeliveredAtDest(m) ==
  IF m \in Shown(convs[Dest[m]]) THEN Delivered(Dest[m], m) ELSE UNCHANGED convs

\* message.ack: the message is looked for in all conversations, the first that has it is taken.
MarkDelivered(m) ==
  LET having == {k \in Keys : m \in Shown(convs[k])} IN
  \/ having = {} /\ UNCHANGED convs
  \/ \E k \in having : Delivered(k, m)

\* Mutant: members that are gone stay.
UpsertRoomMerges(r, S) == [known |-> TRUE, members |-> r.members \cup S]

\* upsertRoom
UpsertRoom(r, S) == [known |-> TRUE, members |-> S]

\* Mutant: also of a room that is not there.
SetMembersAnyway(r, S) == [r EXCEPT !.members = S]

\* setMembers, of a room that is there.
SetMembers(r, S) == IF r.known THEN [r EXCEPT !.members = S] ELSE r

\* The handlers of ns room.  A member that leaves is compared with the page's id.
OnRoomEvent(r, e) ==
  IF e.t = "sync" THEN UpsertRoom(r, e.x)
  ELSE IF e.t = "member_joined" THEN SetMembers(r, r.members \cup {e.x})
  ELSE IF e.t = "member_left"
       THEN IF e.x = Page THEN NoRoom ELSE SetMembers(r, r.members \ {e.x})
       ELSE r

\* loadRoster: the list replaces what is there.
LoadRoster(list) == peers' = list

\* An answer settles its request; the answer to a request that timed out is dropped.
OnResult(r) ==
  LET asked == {p \in pending : p.txn = r.txn} IN
  /\ pending' = pending \ asked
  /\ IF asked = {} THEN UNCHANGED <<peers, convs, whole>>
     ELSE \/ /\ r.t = "list" /\ LoadRoster(r.x)
             /\ UNCHANGED <<convs, whole>>
          \/ /\ r.t = "history"
             /\ \E p \in asked :
                  LoadHistory(p.x, r.x) /\ whole' = whole \cup {p.x}
             /\ UNCHANGED peers
  /\ UNCHANGED room

\* No handler has the name discovery.peer_found: the one for peer_found is in ns presence.
OnEvent(e) ==
  /\ \/ e.t = "chat" /\ PushMessage(e.x) /\ UNCHANGED room
     \/ e.t = "ack" /\ MarkDelivered(e.x) /\ UNCHANGED room
     \/ e.t = "discovery.peer_found" /\ UNCHANGED <<convs, room>>
     \/ /\ e.t \in {"sync", "member_joined", "member_left"}
        /\ room' = OnRoomEvent(room, e) /\ UNCHANGED convs
  /\ UNCHANGED <<peers, pending, whole>>

OnMessage ==
  /\ down # <<>>
  /\ down' = Tail(down)
  /\ LET e == Head(down) IN IF e.txn = 0 THEN OnEvent(e) ELSE OnResult(e)
  /\ UNCHANGED <<profile, connected, route, socket, saved, txn, daemon, greeted, up, tracked,
                 echoed, receipts, ledgerHistory, bounds>>

\* The timer of request.
RequestTimesOut(r) ==
  /\ pending' = pending \ {r}
  /\ UNCHANGED <<state, socket, saved, txn, daemon, greeted, up, down, here, ledgerHistory, bounds>>

-----------------------------------------------------------------------------
Next ==
  \/ OnOpen \/ OnClose \/ Connect \/ Reload
  \/ Login \/ Dispatch \/ OnMessage \/ Kicked
  \/ \E k \in Keys : OpenConversation(k)
  \/ \E m \in Messages : SendText(m) \/ Inbound(m) \/ InboundAck(m)
  \/ \E p \in Peers : PeerFound(p) \/ PeerGone(p)
  \/ \E S \in SUBSET Ids : S # {} /\ RoomSynced(S)
  \/ \E d \in Ids : MemberJoined(d)
  \/ \E r \in pending : RequestTimesOut(r)

\* The browser runs its timer, opens the socket and handles what comes; the daemon answers.
Fairness == WF_vars(Connect) /\ WF_vars(OnOpen) /\ WF_vars(Dispatch) /\ WF_vars(OnMessage)

Spec == Init /\ [][Next]_vars /\ Fairness

-----------------------------------------------------------------------------
Requests == [t : Methods, x : Keys \cup Messages \cup {Nobody}, txn : Nat]

TypeOK ==
  /\ ws \in {"connecting", "open", "closed"} /\ timer \in BOOLEAN
  /\ saved \in BOOLEAN /\ profile \in BOOLEAN /\ connected \in BOOLEAN
  /\ peers \subseteq Peers /\ registry \subseteq Peers
  /\ \A k \in Keys : convs[k] \in Seq([m : Messages, status : {"sent", "delivered"}])
  /\ room \in [known : {TRUE}, members : SUBSET Ids] \cup {NoRoom} /\ table \subseteq Ids
  /\ route \in Peers \cup {Room, Nobody}
  /\ pending \subseteq Requests /\ txn \in Nat /\ up \in Seq(Requests)
  /\ ledger \subseteq Messages /\ typed \subseteq Typed /\ acked \subseteq Typed
  /\ arrivals \in [Messages -> Nat]
  /\ whole \subseteq Keys /\ tracked \in BOOLEAN /\ greeted \in BOOLEAN
  /\ echoed \subseteq Messages /\ receipts \subseteq Typed
  /\ breaks \in 0..MaxBreaks /\ changes \in 0..MaxChanges

OnItsWay(e) == \E n \in DOMAIN down : down[n] = e

\* Showings of a message, in any conversation.
Showings(m) == {x \in Keys \X (1..(2 * Cardinality(Messages))) :
                  x[2] \in DOMAIN convs[x[1]] /\ convs[x[1]][x[2]].m = m}

\* A message that came to the daemon once is shown once, however often its history is loaded and
\* whether the history or the event comes first, also after a drop or a reload
\* (native_client.ts:68, merging by nonce).
ShownOnce == \A m \in Messages : arrivals[m] < 2 => Cardinality(Showings(m)) < 2

\* A conversation whose history was loaded on this connection is complete and stays so: every
\* message in the daemon's ledger is shown or its event is on the way.  What the user wrote to a
\* single peer is left out (see FiledUnderPeer).
ConversationComplete ==
  \A k \in whole : \A m \in History(k) :
    \/ m \in Typed /\ Dest[m] # Room
    \/ m \in Shown(convs[k]) \/ OnItsWay(Ev("chat", m))

\* The receipt of a message reaches its line in the page, whatever is loaded in between
\* (native_client.ts:148): no later step takes the mark away.
DeliveredShown ==
  \A m \in echoed \cap receipts :
    \/ OnItsWay(Ev("ack", m))
    \/ \E k \in Keys : \E n \in DOMAIN convs[k] : convs[k][n] = [m |-> m, status |-> "delivered"]

\* The daemon knows the user of every connection that is up, also when the login fell into the
\* time without one, or the page was loaded again.
OnlineMeansIntroduced ==
  (ws = "open" /\ saved) => greeted \/ \E n \in DOMAIN up : up[n].t = "hello"

\* The room as the page has it when it has handled n of the envelopes on their way.
RoomAfter[n \in 0..Len(down)] ==
  IF n = 0 THEN room ELSE OnRoomEvent(RoomAfter[n - 1], down[n])

\* The page's table of the room is the daemon's as soon as it has handled what is on its way,
\* from the first whole table of a connection on.
RoomFollows == tracked => RoomAfter[Len(down)].members = table

\* docs/protocol.md:43: a peer that is found is reported to the page as discovery.peer_found; the
\* page shows it in its roster.
FoundPeerIsShown ==
  \A p \in Peers :
    (profile /\ OnItsWay(Ev("discovery.peer_found", p))) ~> (p \in peers \/ p \notin registry \/ ws # "open")

\* native_client.ts:233: a conversation with one peer is filed under that peer, whoever writes.
\* It fails: the daemon's echo names the daemon's id as the author, the page compares with the
\* id that login made up (docs/roadmap.md, point 36).
FiledUnderPeer ==
  \A m \in Typed : Dest[m] # Room =>
    \A k \in Keys : m \in Shown(convs[k]) => k = Dest[m]
=============================================================================
