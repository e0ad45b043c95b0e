---------------------------- MODULE WebClient_proofs ----------------------------
(***************************************************************************)
(* For any peers, messages and bounds: what the page shows is what its     *)
(* daemon has.  In this order: sequences and types; the numbers of         *)
(* requests; the connection; what a step is to the two; then the ledger,   *)
(* the lines of a message, the histories, the receipts and the room.       *)
(***************************************************************************)
EXTENDS WebClient, SequenceTheorems, FiniteSetTheorems, NaturalsInduction, TLAPS

(***************************************************************************)
(* Sequences and constants.                                                *)
(***************************************************************************)
LEMMA AppendElems ==
  ASSUME NEW S, NEW q \in Seq(S), NEW e \in S
  PROVE  /\ Append(q, e) \in Seq(S)
         /\ Len(Append(q, e)) = Len(q) + 1
         /\ DOMAIN q \subseteq DOMAIN Append(q, e)
         /\ Len(q) + 1 \in DOMAIN Append(q, e)
         /\ Append(q, e)[Len(q) + 1] = e
         /\ \A i \in DOMAIN q : Append(q, e)[i] = q[i] /\ i < Len(q) + 1
         /\ \A i \in DOMAIN Append(q, e) : i \in DOMAIN q \/ i = Len(q) + 1
OBVIOUS

LEMMA TailElems ==
  ASSUME NEW S, NEW q \in Seq(S), q # <<>>
  PROVE  /\ Tail(q) \in Seq(S)
         /\ 1 \in DOMAIN q /\ Head(q) = q[1] /\ Head(q) \in S
         /\ \A i \in DOMAIN Tail(q) : i \in Nat \ {0} /\ i + 1 \in DOMAIN q /\ Tail(q)[i] = q[i + 1]
         /\ \A i \in DOMAIN q : i \in Nat /\ (i = 1 \/ (i - 1 \in DOMAIN Tail(q) /\ Tail(q)[i - 1] = q[i]))
<1>1. Len(q) \in Nat \ {0}
  BY EmptySeq
<1>2. Head(q) = q[1] /\ Tail(q) \in Seq(S) /\ Len(Tail(q)) = Len(q) - 1
  BY <1>1
<1>3. \A i \in 1..(Len(q) - 1) : Tail(q)[i] = q[i + 1]
  BY <1>1
<1>4. DOMAIN q = 1..Len(q) /\ DOMAIN Tail(q) = 1..(Len(q) - 1)
  BY <1>1, <1>2
<1> QED
  BY <1>1, <1>2, <1>3, <1>4

LEMMA EmptyElems ==
  ASSUME NEW S
  PROVE  <<>> \in Seq(S) /\ DOMAIN <<>> = {}
OBVIOUS

LEMMA OneMore ==
  ASSUME NEW S, IsFiniteSet(S), NEW x, NEW n \in Nat, Cardinality(S) <= n
  PROVE  /\ IsFiniteSet(S \cup {x}) /\ Cardinality(S \cup {x}) \in Nat
         /\ Cardinality(S \cup {x}) <= n + 1
<1>1. Cardinality(S) \in Nat
  BY FS_CardinalityType
<1>2. /\ IsFiniteSet(S \cup {x})
      /\ Cardinality(S \cup {x}) = IF x \in S THEN Cardinality(S) ELSE Cardinality(S) + 1
  BY FS_AddElement
<1> QED
  BY <1>1, <1>2

(* The daemon, the page, the room and nobody have four names.              *)
LEMMA Distinct ==
  /\ Page # Daemon /\ Page # Room /\ Room # Daemon
  /\ Nobody # Daemon /\ Nobody # Page /\ Nobody # Room
  /\ \A p \in Peers : p # Daemon /\ p # Page /\ p # Room /\ p # Nobody
<1>1. ASSUME NEW a, NEW b, NEW c
      PROVE  Cardinality({a, b, c}) \in Nat /\ Cardinality({a, b, c}) <= 3
  <2> DEFINE one == {c}
             two == one \cup {b}
             three == two \cup {a}
  <2>1. IsFiniteSet(one) /\ Cardinality(one) <= 1
    <3>1. IsFiniteSet(one) /\ Cardinality(one) = 1
      BY FS_Singleton, Zenon
    <3> QED
      BY <3>1
  <2>2. {a, b, c} = three
    OBVIOUS
  <2> HIDE DEF one
  <2>3. IsFiniteSet(two) /\ Cardinality(two) \in Nat /\ Cardinality(two) <= 1 + 1
    BY <2>1, OneMore
  <2> HIDE DEF two
  <2>4. Cardinality(two) <= 2
    BY <2>3
  <2>5. Cardinality(three) \in Nat /\ Cardinality(three) <= 2 + 1
    BY <2>3, <2>4, OneMore
  <2> HIDE DEF three
  <2> QED
    BY <2>2, <2>5
<1>2. Cardinality({Daemon, Page, Room, Nobody}) = 4
  BY ClientAssumption
<1>3. \A a, b, c : {Daemon, Page, Room, Nobody} # {a, b, c}
  BY <1>1, <1>2
<1>4. Page # Daemon /\ Page # Room /\ Room # Daemon
  <2>1. Page = Daemon => {Daemon, Page, Room, Nobody} = {Page, Room, Nobody}
    OBVIOUS
  <2>2. Page = Room => {Daemon, Page, Room, Nobody} = {Daemon, Room, Nobody}
    OBVIOUS
  <2>3. Room = Daemon => {Daemon, Page, Room, Nobody} = {Page, Room, Nobody}
    OBVIOUS
  <2> QED
    BY <1>3, <2>1, <2>2, <2>3
<1>5. Nobody # Daemon /\ Nobody # Page /\ Nobody # Room
  <2>1. Nobody = Daemon => {Daemon, Page, Room, Nobody} = {Page, Room, Nobody}
    OBVIOUS
  <2>2. Nobody = Page => {Daemon, Page, Room, Nobody} = {Daemon, Room, Nobody}
    OBVIOUS
  <2>3. Nobody = Room => {Daemon, Page, Room, Nobody} = {Daemon, Page, Nobody}
    OBVIOUS
  <2> QED
    BY <1>3, <2>1, <2>2, <2>3
<1> QED
  BY <1>4, <1>5, ClientAssumption

(* Where the page files a message: nobody writes in the name of its id.    *)
Filing(m) == IF Dest[m] = Room THEN Room ELSE Author[m]

LEMMA FilingIsKey ==
  ASSUME NEW m \in Messages
  PROVE  /\ Key(m) = Filing(m)
         /\ Filing(m) \in Keys
         /\ ConvKey(m) \in Keys
         /\ ConvKey(m) # Filing(m) => m \in Typed /\ Dest[m] # Room
<1>1. Author[m] \in Ids /\ Dest[m] \in Ids \cup {Room}
  BY ClientAssumption
<1>2. Author[m] # Page
  BY <1>1, Distinct DEF Ids
<1> QED
  BY <1>1, <1>2 DEF Key, Filing, ConvKey, Keys, Ids, Typed

------------------------------------------------------------------------------
(***************************************************************************)
(* Types.                                                                  *)
(***************************************************************************)
Line == [m : Messages, status : {"sent", "delivered"}]
Numbers == Nat \ {0}

Questions == [t : {"list"}, x : {Nobody}, txn : Numbers]
        \cup [t : {"history"}, x : Keys, txn : Numbers]
Asked == Questions \cup [t : {"hello"}, x : {Nobody}, txn : Numbers]
                   \cup [t : {"send"}, x : Typed, txn : Numbers]

Events == [t : {"chat"}, x : Messages, txn : {0}]
     \cup [t : {"ack"}, x : Typed, txn : {0}]
     \cup [t : {"discovery.peer_found"}, x : Peers, txn : {0}]
     \cup [t : {"sync"}, x : SUBSET Ids, txn : {0}]
     \cup [t : {"member_joined", "member_left"}, x : Ids, txn : {0}]
Answers == [t : {"list"}, x : SUBSET Peers, txn : Numbers]
      \cup [t : {"history"}, x : SUBSET Messages, txn : Numbers]
Envelopes == Events \cup Answers

ScreenOK ==
  /\ profile \in BOOLEAN /\ connected \in BOOLEAN /\ peers \subseteq Peers
  /\ room \in [known : {TRUE}, members : SUBSET Ids] \cup {NoRoom}
  /\ route \in Peers \cup {Room, Nobody}

LinesOK == convs \in [Keys -> Seq(Line)]

SocketOK ==
  /\ ws \in {"connecting", "open", "closed"} /\ timer \in BOOLEAN
  /\ saved \in BOOLEAN
  /\ breaks \in 0..MaxBreaks /\ changes \in 0..MaxChanges

WireOK ==
  /\ up \in Seq(Asked) /\ down \in Seq(Envelopes)
  /\ pending \subseteq Questions /\ txn \in Nat

DaemonOK ==
  /\ registry \subseteq Peers /\ ledger \subseteq Messages /\ table \subseteq Ids
  /\ typed \subseteq Typed /\ acked \subseteq Typed /\ arrivals \in [Messages -> Nat]
  /\ greeted \in BOOLEAN

HereOK ==
  /\ whole \subseteq Keys /\ tracked \in BOOLEAN
  /\ echoed \subseteq Messages /\ receipts \subseteq Typed

Types == ScreenOK /\ LinesOK /\ SocketOK /\ WireOK /\ DaemonOK /\ HereOK

(* An answer has the number of its question, and is of its kind.           *)
MatchInv ==
  /\ \A n \in DOMAIN up : up[n].txn <= txn
  /\ \A n \in DOMAIN down : down[n].txn <= txn
  /\ \A p \in pending : /\ p.txn <= txn
                        /\ \A n \in DOMAIN up : up[n].txn = p.txn => up[n] = p
                        /\ \A n \in DOMAIN down : down[n].txn = p.txn => down[n].t = p.t

LEMMA TypesGiveTypeOK == Types => TypeOK
<1> SUFFICES ASSUME Types PROVE TypeOK
  OBVIOUS
<1>1. Asked \subseteq Requests /\ Questions \subseteq Requests
  BY DEF Asked, Questions, Requests, Methods, Numbers, Typed
<1>2. up \in Seq(Requests)
  <2>1. up \in Seq(Asked)
    BY DEF Types, WireOK
  <2> QED
    BY <1>1, <2>1
<1>3. pending \subseteq Requests /\ txn \in Nat
  BY <1>1 DEF Types, WireOK
<1>4. \A k \in Keys : convs[k] \in Seq([m : Messages, status : {"sent", "delivered"}])
  BY DEF Types, LinesOK, Line
<1> QED
  BY <1>2, <1>3, <1>4 DEF Types, ScreenOK, SocketOK, DaemonOK, HereOK, TypeOK

LEMMA MadeEnvelopes ==
  /\ \A m \in Messages : Ev("chat", m) \in Envelopes
  /\ \A m \in Typed : Ev("ack", m) \in Envelopes
  /\ \A p \in Peers : Ev("discovery.peer_found", p) \in Envelopes
  /\ \A S \in SUBSET Ids : Ev("sync", S) \in Envelopes
  /\ \A d \in Ids : Ev("member_joined", d) \in Envelopes /\ Ev("member_left", d) \in Envelopes
  /\ \A S \in SUBSET Peers, n \in Numbers : Res("list", S, n) \in Envelopes
  /\ \A S \in SUBSET Messages, n \in Numbers : Res("history", S, n) \in Envelopes
BY DEF Ev, Res, Envelopes, Events, Answers

LEMMA EnvelopeKinds ==
  ASSUME NEW e \in Envelopes
  PROVE  /\ e.txn \in Nat
         /\ e.txn = 0 => e.t \in {"chat", "ack", "discovery.peer_found", "sync",
                                  "member_joined", "member_left"}
         /\ e.txn # 0 => e.t \in {"list", "history"}
         /\ e.t = "chat" => e.txn = 0 /\ e.x \in Messages /\ e = Ev("chat", e.x)
         /\ e.t = "ack" => e.txn = 0 /\ e.x \in Typed /\ e = Ev("ack", e.x)
         /\ e.t = "sync" => e.x \in SUBSET Ids
         /\ e.t \in {"member_joined", "member_left"} => e.x \in Ids
         /\ e.t = "list" => e.txn # 0 /\ e.x \in SUBSET Peers
         /\ e.t = "history" => e.txn # 0 /\ e.x \in SUBSET Messages
<1>1. CASE e \in Events
  BY <1>1 DEF Events, Ev
<1>2. CASE e \in Answers
  BY <1>2 DEF Answers, Numbers
<1> QED
  BY <1>1, <1>2 DEF Envelopes

LEMMA AskedKinds ==
  ASSUME NEW r \in Asked
  PROVE  /\ r.txn \in Numbers
         /\ r.t \in {"list", "history", "hello", "send"}
         /\ r.t = "send" => r.x \in Typed
         /\ r.t = "history" => r.x \in Keys
BY DEF Asked, Questions

LEMMA QuestionKinds ==
  ASSUME NEW p \in Questions
  PROVE  /\ p \in Asked /\ p.txn \in Numbers
         /\ p.t \in {"list", "history"}
         /\ p.t = "history" => p.x \in Keys
BY DEF Asked, Questions

LEMMA MadeRequests ==
  ASSUME NEW n \in Numbers
  PROVE  /\ Req("hello", Nobody, n) \in Asked
         /\ Req("list", Nobody, n) \in Questions
         /\ \A k \in Keys : Req("history", k, n) \in Questions
         /\ \A m \in Typed : Req("send", m, n) \in Asked
BY DEF Req, Asked, Questions

(* What the page sends: one request after the other.                       *)
LEMMA SentIs ==
  ASSUME NEW q, NEW t, NEW x, NEW n
  PROVE  Sent(q, t, x, n) \in {q, Append(q, Req(t, x, n))}
BY DEF Sent

LEMMA LoginSends ==
  ASSUME NEW q \in Seq(Asked), NEW n \in Nat
  PROVE  q \o Introduction(n) \o <<Req("list", Nobody, n + 2)>>
           = Append(Append(q, Req("hello", Nobody, n + 1)), Req("list", Nobody, n + 2))
<1> DEFINE h == Req("hello", Nobody, n + 1)
           l == Req("list", Nobody, n + 2)
<1>1. h \in Asked /\ l \in Asked
  BY MadeRequests DEF Numbers, Asked
<1>2. Introduction(n) = <<h>>
  BY DEF Introduction
<1> HIDE DEF h, l
<1>3. q \o <<h>> = Append(q, h)
  BY <1>1, AppendIsConcat
<1>4. Append(q, h) \in Seq(Asked)
  BY <1>1
<1>5. Append(q, h) \o <<l>> = Append(Append(q, h), l)
  BY <1>1, <1>4, AppendIsConcat
<1> QED
  BY <1>2, <1>3, <1>5 DEF h, l

LEMMA TypesOfSocket ==
  ASSUME Types, OnOpen \/ OnClose \/ Connect \/ Reload
  PROVE  Types'
<1> USE DEF Types, ScreenOK, LinesOK, SocketOK, WireOK, DaemonOK, HereOK
<1>1. CASE OnOpen
  <2>1. up' \in Seq(Asked) /\ txn' \in Nat
    <3>1. Introduction(txn) \in Seq(Asked)
      <4>1. txn + 1 \in Numbers
        BY DEF Numbers
      <4> QED
        BY <4>1, MadeRequests DEF Introduction
    <3> QED
      BY <1>1, <3>1 DEF OnOpen
  <2>2. ScreenOK' /\ LinesOK'
    BY <1>1 DEF OnOpen
  <2>3. SocketOK'
    BY <1>1 DEF OnOpen, bounds
  <2>4. WireOK'
    BY <1>1, <2>1 DEF OnOpen
  <2>5. DaemonOK' /\ HereOK'
    BY <1>1 DEF OnOpen, daemon, here, ledgerHistory
  <2> QED
    BY <2>2, <2>3, <2>4, <2>5
<1>2. CASE OnClose
  <2>1. breaks' \in 0..MaxBreaks
    BY <1>2, ClientAssumption DEF OnClose
  <2>2. up' \in Seq(Asked) /\ down' \in Seq(Envelopes)
    BY <1>2, EmptyElems DEF OnClose, ConnectionGone
  <2> QED
    BY <1>2, <2>1, <2>2 DEF OnClose, ConnectionGone, client, daemon, ledgerHistory
<1>3. CASE Connect
  BY <1>3 DEF Connect, state, client, daemon, here, ledgerHistory, bounds
<1>4. CASE Reload
  <2>1. breaks' \in 0..MaxBreaks
    BY <1>4, ClientAssumption DEF Reload
  <2>2. up' \in Seq(Asked) /\ down' \in Seq(Envelopes)
    BY <1>4, EmptyElems DEF Reload, ConnectionGone
  <2>3. convs' \in [Keys -> Seq(Line)]
    BY <1>4, EmptyElems DEF Reload, NoConversation
  <2>4. /\ room' = NoRoom /\ route' = Nobody /\ peers' = {} /\ pending' = {} /\ txn' = 0
        /\ profile' = FALSE /\ connected' = FALSE
    BY <1>4 DEF Reload
  <2>5. ScreenOK' /\ LinesOK' /\ WireOK'
    BY <2>2, <2>3, <2>4
  <2>6. SocketOK'
    BY <1>4, <2>1 DEF Reload
  <2>7. DaemonOK' /\ HereOK'
    BY <1>4 DEF Reload, ConnectionGone, daemon, ledgerHistory
  <2> QED
    BY <2>5, <2>6, <2>7
<1> QED
  BY <1>1, <1>2, <1>3, <1>4

LEMMA TypesOfUser ==
  ASSUME Types, \/ Login
                \/ \E k \in Keys : OpenConversation(k)
                \/ \E m \in Messages : SendText(m)
  PROVE  Types'
<1> USE DEF Types, ScreenOK, LinesOK, SocketOK, WireOK, DaemonOK, HereOK
<1>0. txn + 1 \in Numbers /\ txn + 2 \in Numbers
  BY DEF Numbers
<1>1. CASE Login
  <2>1. up' \in Seq(Asked) /\ txn' \in Nat /\ pending' \subseteq Questions
    <3>1. CASE ws = "connecting"
      BY <1>1, <3>1 DEF Login
    <3>2. CASE ws # "connecting"
      <4>1. /\ Req("hello", Nobody, txn + 1) \in Asked
            /\ Req("list", Nobody, txn + 2) \in Questions
        BY <1>0, MadeRequests
      <4>2. Req("list", Nobody, txn + 2) \in Asked
        BY <4>1, QuestionKinds
      <4>3. Append(Append(up, Req("hello", Nobody, txn + 1)), Req("list", Nobody, txn + 2))
               \in Seq(Asked)
        BY <4>1, <4>2, AppendElems
      <4>4. up' = up \/ up' = Append(Append(up, Req("hello", Nobody, txn + 1)),
                                     Req("list", Nobody, txn + 2))
        BY <1>1, <3>2, LoginSends DEF Login
      <4>5. txn' = txn + 2 /\ pending' = pending \cup {Req("list", Nobody, txn + 2)}
        BY <1>1, <3>2 DEF Login
      <4>6. up' \in Seq(Asked)
        BY <4>3, <4>4
      <4> QED
        BY <4>1, <4>5, <4>6
    <3> QED
      BY <3>1, <3>2
  <2> QED
    BY <1>1, <2>1 DEF Login, socket, daemon, here, ledgerHistory, bounds
<1>2. ASSUME NEW k \in Keys, OpenConversation(k)
      PROVE  Types'
  <2>1. Req("history", k, txn + 1) \in Questions
    BY <1>0, MadeRequests
  <2>2. up' \in Seq(Asked) /\ txn' \in Nat /\ pending' \subseteq Questions
    <3>1. /\ up' \in {up, Append(up, Req("history", k, txn + 1))}
          /\ txn' = txn + 1 /\ pending' = pending \cup {Req("history", k, txn + 1)}
      BY <1>2, SentIs DEF OpenConversation
    <3>2. Append(up, Req("history", k, txn + 1)) \in Seq(Asked)
      BY <2>1, QuestionKinds, AppendElems
    <3>3. up' \in Seq(Asked)
      BY <3>1, <3>2
    <3> QED
      BY <2>1, <3>1, <3>3
  <2>3. route' \in Peers \cup {Room, Nobody}
    BY <1>2 DEF OpenConversation
  <2> QED
    BY <1>2, <2>2, <2>3 DEF OpenConversation, socket, daemon, here, ledgerHistory, bounds
<1>3. ASSUME NEW m \in Messages, SendText(m)
      PROVE  Types'
  <2>1. Req("send", m, txn + 1) \in Asked
    BY <1>0, <1>3, MadeRequests DEF SendText
  <2>2. up' \in Seq(Asked) /\ txn' \in Nat
    <3>1. up' \in {up, Append(up, Req("send", m, txn + 1))} /\ txn' = txn + 1
      BY <1>3, SentIs DEF SendText
    <3>2. Append(up, Req("send", m, txn + 1)) \in Seq(Asked)
      BY <2>1, AppendElems
    <3>3. up' \in Seq(Asked)
      BY <3>1, <3>2
    <3> QED
      BY <3>1, <3>3
  <2>3. typed' \subseteq Typed
    BY <1>3 DEF SendText
  <2>4. /\ UNCHANGED <<state, socket, saved, pending, daemon, greeted, down, here>>
        /\ UNCHANGED <<arrivals, acked, bounds>>
    BY <1>3 DEF SendText
  <2>5. ScreenOK' /\ LinesOK' /\ SocketOK'
    BY <2>4 DEF ScreenOK, LinesOK, SocketOK, state, socket, bounds
  <2>6. WireOK' /\ HereOK'
    BY <2>2, <2>4 DEF WireOK, HereOK, here
  <2>7. DaemonOK'
    BY <2>3, <2>4 DEF DaemonOK, daemon
  <2> QED
    BY <2>5, <2>6, <2>7
<1> QED
  BY <1>1, <1>2, <1>3

(* What the daemon tells the page: nothing, or one envelope more.          *)
LEMMA PushIs ==
  ASSUME NEW q, NEW e
  PROVE  /\ Push(q, e) \in {q, Append(q, e)}
         /\ ws = "open" => Push(q, e) = Append(q, e)
         /\ ws # "open" => Push(q, e) = q
BY DEF Push

LEMMA HistoryIsLedger ==
  ASSUME NEW k
  PROVE  History(k) \subseteq ledger
BY DEF History

LEMMA TypesOfAnnounce ==
  ASSUME WireOK, DaemonOK, HereOK, NEW m \in Messages, Announce(m, down)
  PROVE  /\ ledger' \subseteq Messages /\ down' \in Seq(Envelopes)
         /\ arrivals' \in [Messages -> Nat] /\ echoed' \subseteq Messages
<1> USE DEF WireOK, DaemonOK, HereOK
<1>1. down' \in {down, Append(down, Ev("chat", m))}
  BY PushIs DEF Announce
<1>2. Append(down, Ev("chat", m)) \in Seq(Envelopes)
  BY MadeEnvelopes, AppendElems
<1>3. arrivals' \in [Messages -> Nat]
  BY DEF Announce
<1> QED
  BY <1>1, <1>2, <1>3 DEF Announce

LEMMA TypesOfDispatch ==
  ASSUME Types, Dispatch
  PROVE  Types'
<1> DEFINE r == Head(up)
<1>1. /\ up \in Seq(Asked) /\ up # <<>> /\ down \in Seq(Envelopes)
      /\ r \in Asked /\ up' = Tail(up) /\ up' \in Seq(Asked)
  <2>1. up \in Seq(Asked) /\ up # <<>> /\ up' = Tail(up) /\ down \in Seq(Envelopes)
    BY DEF Types, WireOK, Dispatch
  <2> QED
    BY <2>1, TailElems
<1>2. /\ down' \in Seq(Envelopes) /\ ledger' \subseteq Messages /\ greeted' \in BOOLEAN
      /\ arrivals' \in [Messages -> Nat] /\ echoed' \subseteq Messages
  <2>1. CASE r.t = "hello"
    BY <1>1, <2>1 DEF Dispatch, Types, DaemonOK, HereOK
  <2>2. CASE r.t = "list"
    <3>1. /\ down' = Append(down, Res("list", registry, r.txn))
          /\ UNCHANGED <<greeted, ledger, arrivals, echoed>>
      BY <2>2 DEF Dispatch
    <3>2. Res("list", registry, r.txn) \in Envelopes
      BY <1>1, AskedKinds, MadeEnvelopes DEF Types, DaemonOK
    <3> HIDE DEF r
    <3>3. Append(down, Res("list", registry, r.txn)) \in Seq(Envelopes)
      BY <1>1, <3>2, AppendElems
    <3> QED
      BY <3>1, <3>3 DEF Types, DaemonOK, HereOK
  <2>3. CASE r.t = "history"
    <3>1. /\ down' = Append(down, Res("history", History(r.x), r.txn))
          /\ UNCHANGED <<greeted, ledger, arrivals, echoed>>
      BY <2>3 DEF Dispatch
    <3>2. Res("history", History(r.x), r.txn) \in Envelopes
      <4>1. History(r.x) \in SUBSET Messages /\ r.txn \in Numbers
        BY <1>1, AskedKinds, HistoryIsLedger DEF Types, DaemonOK
      <4> HIDE DEF r
      <4> QED
        BY <4>1, MadeEnvelopes
    <3> HIDE DEF r
    <3>3. Append(down, Res("history", History(r.x), r.txn)) \in Seq(Envelopes)
      BY <1>1, <3>2, AppendElems
    <3> QED
      BY <3>1, <3>3 DEF Types, DaemonOK, HereOK
  <2>4. CASE r.t = "send"
    <3>1. Announce(r.x, down) /\ greeted' = greeted
      BY <2>4 DEF Dispatch
    <3>2. r.x \in Messages
      BY <1>1, <2>4, AskedKinds DEF Typed
    <3> HIDE DEF r
    <3> QED
      BY <3>1, <3>2, TypesOfAnnounce DEF Types, DaemonOK
  <2> HIDE DEF r
  <2> QED
    BY <1>1, <2>1, <2>2, <2>3, <2>4, AskedKinds
<1>3. /\ UNCHANGED <<state, socket, saved, client, registry, table>>
      /\ UNCHANGED <<whole, tracked, receipts, typed, acked, bounds>>
  BY DEF Dispatch
<1> HIDE DEF r
<1>4. ScreenOK' /\ LinesOK' /\ SocketOK'
  BY <1>3 DEF Types, ScreenOK, LinesOK, SocketOK, state, socket, bounds
<1>5. WireOK'
  BY <1>1, <1>2, <1>3 DEF Types, WireOK, client
<1>6. DaemonOK' /\ HereOK'
  BY <1>2, <1>3 DEF Types, DaemonOK, HereOK
<1> QED
  BY <1>4, <1>5, <1>6 DEF Types

(* The other steps of the daemon leave the page as it is.                  *)
LEMMA TypesOfMessages ==
  ASSUME Types, \E m \in Messages : Inbound(m) \/ InboundAck(m)
  PROVE  Types'
<1>1. ASSUME NEW m \in Messages, Inbound(m)
      PROVE  Types'
  <2>1. /\ ledger' \subseteq Messages /\ down' \in Seq(Envelopes)
        /\ arrivals' \in [Messages -> Nat] /\ echoed' \subseteq Messages
    BY <1>1, TypesOfAnnounce DEF Inbound, Types
  <2>2. ScreenOK' /\ LinesOK' /\ SocketOK'
    BY <1>1 DEF Inbound, Types, ScreenOK, LinesOK, SocketOK, state, socket, bounds
  <2>3. WireOK' /\ DaemonOK' /\ HereOK'
    BY <1>1, <2>1 DEF Inbound, Types, WireOK, DaemonOK, HereOK, client
  <2> QED
    BY <2>2, <2>3 DEF Types
<1>2. ASSUME NEW m \in Messages, InboundAck(m)
      PROVE  Types'
  <2>1. down' \in Seq(Envelopes) /\ m \in Typed
    <3>1. down' \in {down, Append(down, Ev("ack", m))} /\ m \in Typed
      BY <1>2, PushIs DEF InboundAck
    <3>2. Append(down, Ev("ack", m)) \in Seq(Envelopes)
      BY <3>1, MadeEnvelopes, AppendElems DEF Types, WireOK
    <3> QED
      BY <3>1, <3>2 DEF Types, WireOK
  <2>2. ScreenOK' /\ LinesOK' /\ SocketOK'
    BY <1>2 DEF InboundAck, Types, ScreenOK, LinesOK, SocketOK, state, socket, bounds
  <2>3. WireOK'
    BY <1>2, <2>1 DEF InboundAck, Types, WireOK, client
  <2>4. DaemonOK' /\ HereOK'
    BY <1>2, <2>1 DEF InboundAck, Types, DaemonOK, HereOK, daemon
  <2> QED
    BY <2>2, <2>3, <2>4 DEF Types
<1> QED
  BY <1>1, <1>2

LEMMA TypesOfPeers ==
  ASSUME Types, NEW p \in Peers, PeerFound(p) \/ PeerGone(p)
  PROVE  Types'
<1>1. down' \in Seq(Envelopes) /\ changes' \in 0..MaxChanges
  <2>1. down' \in {down, Append(down, Ev("discovery.peer_found", p))}
    BY PushIs DEF PeerFound, PeerGone
  <2>2. Append(down, Ev("discovery.peer_found", p)) \in Seq(Envelopes)
    BY MadeEnvelopes, AppendElems DEF Types, WireOK
  <2>3. changes' \in 0..MaxChanges
    BY ClientAssumption DEF PeerFound, PeerGone, Change, Types, SocketOK
  <2> QED
    BY <2>1, <2>2, <2>3 DEF Types, WireOK
<1>2. ScreenOK' /\ LinesOK' /\ SocketOK'
  BY <1>1 DEF PeerFound, PeerGone, Types, ScreenOK, LinesOK, SocketOK, state, socket
<1>3. WireOK'
  BY <1>1 DEF PeerFound, PeerGone, Types, WireOK, client
<1>4. DaemonOK' /\ HereOK'
  BY DEF PeerFound, PeerGone, Types, DaemonOK, HereOK, here, ledgerHistory
<1> QED
  BY <1>2, <1>3, <1>4 DEF Types

LEMMA TypesOfRoom ==
  ASSUME Types, \/ \E S \in SUBSET Ids : RoomSynced(S)
                \/ \E d \in Ids : MemberJoined(d)
                \/ Kicked
  PROVE  Types'
<1>1. PICK e \in Envelopes : down' = Push(down, e)
  BY MadeEnvelopes DEF RoomSynced, MemberJoined, Kicked, Ids
<1>2. down' \in Seq(Envelopes)
  <2>1. Append(down, e) \in Seq(Envelopes)
    BY AppendElems DEF Types, WireOK
  <2> QED
    BY <1>1, <2>1, PushIs DEF Types, WireOK
<1>3. changes' \in 0..MaxChanges
  BY ClientAssumption DEF RoomSynced, MemberJoined, Kicked, Change, Types, SocketOK
<1>4. ScreenOK' /\ LinesOK' /\ SocketOK'
  BY <1>3 DEF RoomSynced, MemberJoined, Kicked, Types, ScreenOK, LinesOK, SocketOK, state, socket
<1>5. WireOK'
  BY <1>2 DEF RoomSynced, MemberJoined, Kicked, Types, WireOK, client
<1>6. DaemonOK'
  BY DEF RoomSynced, MemberJoined, Kicked, Types, DaemonOK, ledgerHistory
<1>7. HereOK'
  BY DEF RoomSynced, MemberJoined, Kicked, Types, HereOK, here
<1> QED
  BY <1>4, <1>5, <1>6, <1>7 DEF Types

------------------------------------------------------------------------------
(***************************************************************************)
(* What the page does to its conversations: lines stay where they are, a   *)
(* mark "delivered" stays, and new lines come behind.                      *)
(***************************************************************************)
Keeps(k) ==
  \A n \in DOMAIN convs[k] :
    /\ n \in DOMAIN convs'[k]
    /\ convs'[k][n].m = convs[k][n].m
    /\ convs[k][n].status = "delivered" => convs'[k][n].status = "delivered"

Grown == LinesOK' /\ \A k \in Keys : Keeps(k)

(* Exactly the lines behind those of conversation k are new.               *)
OnlyBehind(k) ==
  /\ \A l \in Keys \ {k} : convs'[l] = convs[l]
  /\ \A n \in DOMAIN convs[k] : n \in DOMAIN convs'[k] /\ convs'[k][n] = convs[k][n]

LEMMA PushMessageAdds ==
  ASSUME LinesOK, NEW m \in Messages, PushMessage(m)
  PROVE  /\ LinesOK' /\ OnlyBehind(Filing(m))
         /\ \A n \in DOMAIN convs'[Filing(m)] :
               n \in DOMAIN convs[Filing(m)] \/ n = Len(convs[Filing(m)]) + 1
         /\ Len(convs[Filing(m)]) + 1 \in DOMAIN convs'[Filing(m)]
         /\ convs'[Filing(m)][Len(convs[Filing(m)]) + 1].m = m
<1> DEFINE f == Filing(m)
           l == [m |-> m, status |-> "sent"]
<1>1. f \in Keys /\ convs \in [Keys -> Seq(Line)] /\ l \in Line
  BY FilingIsKey DEF LinesOK, Line
<1>2. convs' = [convs EXCEPT ![f] = Append(@, l)]
  BY FilingIsKey DEF PushMessage
<1>3. l.m = m
  OBVIOUS
<1> HIDE DEF f, l
<1>4. convs[f] \in Seq(Line)
  BY <1>1
<1>5. /\ Append(convs[f], l) \in Seq(Line)
      /\ Len(convs[f]) + 1 \in DOMAIN Append(convs[f], l)
      /\ Append(convs[f], l)[Len(convs[f]) + 1] = l
      /\ \A i \in DOMAIN convs[f] : i \in DOMAIN Append(convs[f], l)
                                    /\ Append(convs[f], l)[i] = convs[f][i]
      /\ \A i \in DOMAIN Append(convs[f], l) : i \in DOMAIN convs[f] \/ i = Len(convs[f]) + 1
  BY <1>1, <1>4, AppendElems
<1>6. convs'[f] = Append(convs[f], l) /\ \A k \in Keys \ {f} : convs'[k] = convs[k]
  BY <1>1, <1>2
<1>7. LinesOK'
  BY <1>1, <1>2, <1>5 DEF LinesOK
<1> QED
  BY <1>3, <1>5, <1>6, <1>7 DEF OnlyBehind, f

(* The lines that loadHistory adds, numbered: each message once.           *)
Missing(k, items) == {m \in items \ Shown(convs[k]) : Key(m) = k}

Loads(k, items, c, added) ==
  /\ c \in Nat
  /\ added \in [1..c -> Missing(k, items)]
  /\ \A m \in Missing(k, items) : \E n \in 1..c : added[n] = m
  /\ \A i, j \in 1..c : added[i] = added[j] => i = j
  /\ Len(convs'[k]) = Len(convs[k]) + c
  /\ \A n \in 1..c : convs'[k][Len(convs[k]) + n].m = added[n]

LEMMA Numbered ==
  ASSUME NEW T, IsFiniteSet(T), NEW f \in [1..Cardinality(T) -> T],
         {f[n] : n \in DOMAIN f} = T
  PROVE  \A i, j \in 1..Cardinality(T) : f[i] = f[j] => i = j
<1> DEFINE c == Cardinality(T)
<1>1. c \in Nat
  BY FS_CardinalityType
<1>2. IsFiniteSet(1..c) /\ Cardinality(1..c) = c
  BY <1>1, FS_Interval
<1>3. f \in Surjection(1..c, T)
  BY DEF Surjection
<1>4. f \in Injection(1..c, T)
  BY <1>2, <1>3, FS_SurjSameCardinalityImpliesInj
<1> QED
  BY <1>4 DEF Injection, IsInjective

LEMMA Concatenated ==
  ASSUME NEW S, NEW q \in Seq(S), NEW r \in Seq(S)
  PROVE  /\ q \o r \in Seq(S)
         /\ Len(q \o r) = Len(q) + Len(r)
         /\ \A n \in DOMAIN q : n \in DOMAIN (q \o r) /\ (q \o r)[n] = q[n]
         /\ \A n \in 1..Len(r) : (q \o r)[Len(q) + n] = r[n]
OBVIOUS

LEMMA LoadHistoryAdds ==
  ASSUME LinesOK, NEW k \in Keys, NEW items \in SUBSET Messages, LoadHistory(k, items)
  PROVE  LinesOK' /\ OnlyBehind(k) /\ \E c, added : Loads(k, items, c, added)
<1> DEFINE T == Missing(k, items)
           c == Cardinality(T)
<1>1. PICK added \in [1..c -> T] :
        /\ {added[n] : n \in DOMAIN added} = T
        /\ convs' = [convs EXCEPT ![k] =
                       @ \o [n \in DOMAIN added |-> [m |-> added[n], status |-> "sent"]]]
  BY DEF LoadHistory, Missing
<1>2. T \subseteq Messages
  BY DEF Missing
<1>3. IsFiniteSet(T) /\ c \in Nat
  BY <1>2, ClientAssumption, FS_Subset, FS_CardinalityType
<1>4. \A i, j \in 1..c : added[i] = added[j] => i = j
  <2> HIDE DEF T
  <2> QED
    BY <1>1, <1>3, Numbered
<1> HIDE DEF c
<1> DEFINE s == [n \in 1..c |-> [m |-> added[n], status |-> "sent"]]
<1>5. s \in Seq(Line) /\ Len(s) = c /\ \A n \in 1..c : s[n].m = added[n]
  <2> HIDE DEF T
  <2>1. \A n \in 1..c : [m |-> added[n], status |-> "sent"] \in Line
    BY <1>2 DEF Line
  <2>2. s \in [1..c -> Line]
    BY <2>1
  <2> QED
    BY <1>3, <2>2
<1>6. convs' = [convs EXCEPT ![k] = @ \o s]
  <2> HIDE DEF T
  <2>1. DOMAIN added = 1..c
    BY <1>1
  <2> QED
    BY <1>1, <2>1
<1> HIDE DEF s
<1>7. convs \in [Keys -> Seq(Line)] /\ convs[k] \in Seq(Line)
  BY DEF LinesOK
<1>8. /\ convs[k] \o s \in Seq(Line)
      /\ Len(convs[k] \o s) = Len(convs[k]) + c
      /\ \A n \in DOMAIN convs[k] : n \in DOMAIN (convs[k] \o s) /\ (convs[k] \o s)[n] = convs[k][n]
      /\ \A n \in 1..c : (convs[k] \o s)[Len(convs[k]) + n] = s[n]
  BY <1>5, <1>7, Concatenated
<1>9. convs'[k] = convs[k] \o s /\ \A l \in Keys \ {k} : convs'[l] = convs[l]
  BY <1>6, <1>7
<1>10. LinesOK'
  BY <1>6, <1>7, <1>8 DEF LinesOK
<1>11. Loads(k, items, c, added)
  <2>1. \A m \in T : \E n \in 1..c : added[n] = m
    BY <1>1
  <2> QED
    BY <1>1, <1>3, <1>4, <1>5, <1>8, <1>9, <2>1 DEF Loads
<1> QED
  BY <1>8, <1>9, <1>10, <1>11 DEF OnlyBehind

(* A set of natural numbers has a least element.                           *)
LEMMA LeastElement ==
  ASSUME NEW T, T \subseteq Nat, T # {}
  PROVE  \E m \in T : \A n \in T : m <= n
<1>1. PICK m \in T : \A n \in T : ~ (<<n, m>> \in OpToRel(<, Nat))
  BY NatLessThanWellFounded, WFMin, Zenon
<1>2. ASSUME NEW n \in T PROVE ~(n < m)
  <2>1. n < m => <<n, m>> \in OpToRel(<, Nat)
    BY Zenon DEF OpToRel
  <2> QED
    BY <1>1, <2>1, Zenon
<1>3. \A n \in T : m <= n
  BY <1>2
<1> QED
  BY <1>3

(* The lines stay what they are, of the same messages.                     *)
SameLines ==
  /\ LinesOK'
  /\ \A k \in Keys : /\ DOMAIN convs'[k] = DOMAIN convs[k]
                     /\ Len(convs'[k]) = Len(convs[k])
                     /\ \A n \in DOMAIN convs[k] : convs'[k][n].m = convs[k][n].m
                     /\ Keeps(k)

LEMMA LineMarked ==
  ASSUME LinesOK, NEW k \in Keys, NEW n \in DOMAIN convs[k],
         convs' = [convs EXCEPT ![k][n].status = "delivered"]
  PROVE  /\ SameLines
         /\ convs'[k][n] = [m |-> convs[k][n].m, status |-> "delivered"]
<1> DEFINE q == convs[k]
           l == [q[n] EXCEPT !.status = "delivered"]
<1>1. convs \in [Keys -> Seq(Line)] /\ q \in Seq(Line) /\ n \in DOMAIN q /\ q[n] \in Line
  BY DEF LinesOK
<1>2. l \in Line /\ l.m = q[n].m /\ l = [m |-> q[n].m, status |-> "delivered"]
  BY <1>1 DEF Line
<1>3. convs' = [convs EXCEPT ![k] = [q EXCEPT ![n] = l]]
  OBVIOUS
<1> HIDE DEF q, l
<1>4. /\ [q EXCEPT ![n] = l] \in Seq(Line)
      /\ DOMAIN [q EXCEPT ![n] = l] = DOMAIN q
      /\ Len([q EXCEPT ![n] = l]) = Len(q)
      /\ [q EXCEPT ![n] = l][n] = l
      /\ \A i \in DOMAIN q : i # n => [q EXCEPT ![n] = l][i] = q[i]
  BY <1>1, <1>2
<1>5. convs'[k] = [q EXCEPT ![n] = l] /\ \A j \in Keys \ {k} : convs'[j] = convs[j]
  BY <1>1, <1>3
<1>6. LinesOK'
  BY <1>1, <1>3, <1>4 DEF LinesOK
<1>7. l.status = "delivered"
  BY <1>2
<1>8. ASSUME NEW j \in Keys
      PROVE  /\ DOMAIN convs'[j] = DOMAIN convs[j]
             /\ Len(convs'[j]) = Len(convs[j])
             /\ \A i \in DOMAIN convs[j] :
                  /\ convs'[j][i].m = convs[j][i].m
                  /\ convs[j][i].status = "delivered" => convs'[j][i].status = "delivered"
  <2>1. CASE j = k
    <3>1. convs[j] = q /\ convs'[j] = [q EXCEPT ![n] = l]
      BY <1>5, <2>1 DEF q
    <3>2. \A i \in DOMAIN q : [q EXCEPT ![n] = l][i] = IF i = n THEN l ELSE q[i]
      BY <1>4
    <3> QED
      BY <1>2, <1>4, <1>7, <3>1, <3>2
  <2>2. CASE j # k
    BY <1>5, <2>2
  <2> QED
    BY <2>1, <2>2
<1>9. SameLines
  BY <1>6, <1>8 DEF SameLines, Keeps
<1>10. convs'[k][n] = [m |-> convs[k][n].m, status |-> "delivered"]
  BY <1>2, <1>4, <1>5 DEF q
<1> QED
  BY <1>9, <1>10

(* The first line of a message that is shown becomes delivered.            *)
LEMMA DeliveredMarks ==
  ASSUME LinesOK, NEW k \in Keys, NEW m, m \in Shown(convs[k]), Delivered(k, m)
  PROVE  /\ SameLines
         /\ \E n \in DOMAIN convs'[k] : convs'[k][n] = [m |-> m, status |-> "delivered"]
<1> DEFINE T == {i \in DOMAIN convs[k] : convs[k][i].m = m}
           First(i) == convs[k][i].m = m /\ \A j \in 1..(i - 1) : convs[k][j].m # m
           n == CHOOSE i \in DOMAIN convs[k] : First(i)
<1>1. convs[k] \in Seq(Line)
  BY DEF LinesOK
<1>2. T # {} /\ T \subseteq Nat /\ DOMAIN convs[k] = 1..Len(convs[k])
  BY <1>1 DEF Shown
<1>3. PICK i \in T : \A j \in T : i <= j
  <2> HIDE DEF T
  <2> QED
    BY <1>2, LeastElement
<1>4. i \in DOMAIN convs[k] /\ First(i)
  BY <1>1, <1>2, <1>3
<1>5. n \in DOMAIN convs[k] /\ First(n)
  <2> HIDE DEF First
  <2> QED
    BY <1>4
<1>6. convs' = [convs EXCEPT ![k][n].status = "delivered"]
  BY DEF Delivered
<1>7. n \in DOMAIN convs[k] /\ convs[k][n].m = m
  BY <1>5
<1> HIDE DEF n, T, First
<1>8. SameLines /\ convs'[k][n] = [m |-> convs[k][n].m, status |-> "delivered"]
  BY <1>6, <1>7, LineMarked
<1>9. n \in DOMAIN convs'[k]
  BY <1>7, <1>8 DEF SameLines
<1> QED
  BY <1>7, <1>8, <1>9

LEMMA UnchangedLines ==
  ASSUME LinesOK, convs' = convs
  PROVE  SameLines
BY DEF LinesOK, SameLines, Keeps

LEMMA MarkDeliveredMarks ==
  ASSUME LinesOK, NEW m, MarkDelivered(m)
  PROVE  /\ SameLines
         /\ (\E k \in Keys : m \in Shown(convs[k])) =>
               \E k \in Keys : \E n \in DOMAIN convs'[k] :
                  convs'[k][n] = [m |-> m, status |-> "delivered"]
<1>1. CASE {k \in Keys : m \in Shown(convs[k])} = {} /\ UNCHANGED convs
  BY <1>1, UnchangedLines
<1>2. ASSUME NEW k \in Keys, m \in Shown(convs[k]), Delivered(k, m)
      PROVE  /\ SameLines
             /\ \E n \in DOMAIN convs'[k] : convs'[k][n] = [m |-> m, status |-> "delivered"]
  BY <1>2, DeliveredMarks
<1> QED
  BY <1>1, <1>2 DEF MarkDelivered

LEMMA SameLinesGrow ==
  ASSUME SameLines
  PROVE  Grown
BY DEF SameLines, Grown

LEMMA BehindGrows ==
  ASSUME LinesOK', NEW k \in Keys, OnlyBehind(k)
  PROVE  Grown
BY DEF Grown, OnlyBehind, Keeps

(* What is shown stays.                                                    *)
LEMMA ShownStays ==
  ASSUME Grown, NEW k \in Keys, NEW m, m \in Shown(convs[k])
  PROVE  m \in Shown(convs[k])'
<1>1. PICK n \in DOMAIN convs[k] : convs[k][n].m = m
  BY DEF Shown
<1>2. n \in DOMAIN convs'[k] /\ convs'[k][n].m = m
  BY <1>1 DEF Grown, Keeps
<1> QED
  BY <1>2 DEF Shown

------------------------------------------------------------------------------
(***************************************************************************)
(* What a message from the daemon does to the conversations: it shows one  *)
(* message, marks one, loads a history, or leaves them alone.              *)
(***************************************************************************)
ReadChat == /\ Head(down).t = "chat" /\ PushMessage(Head(down).x)
            /\ whole' = whole /\ pending' = pending

ReadAck == /\ Head(down).t = "ack" /\ MarkDelivered(Head(down).x)
           /\ whole' = whole /\ pending' = pending

ReadHistory(p) == /\ Head(down).t = "history" /\ p.txn = Head(down).txn
                  /\ LoadHistory(p.x, Head(down).x)
                  /\ whole' = whole \cup {p.x} /\ pending' \subseteq pending

ReadOther == /\ Head(down).t \notin {"chat", "ack"}
             /\ convs' = convs /\ whole' = whole /\ pending' \subseteq pending

LEMMA MessageKinds ==
  ASSUME Types, OnMessage
  PROVE  \/ ReadChat \/ ReadAck \/ ReadOther
         \/ \E p \in pending : ReadHistory(p)
<1> DEFINE e == Head(down)
<1>1. e \in Envelopes
  BY TailElems DEF Types, WireOK, OnMessage
<1>2. CASE e.txn = 0
  <2>1. OnEvent(e)
    BY <1>2 DEF OnMessage
  <2>2. whole' = whole /\ pending' = pending
    BY <2>1 DEF OnEvent
  <2> QED
    BY <2>1, <2>2 DEF OnEvent, ReadChat, ReadAck, ReadOther
<1>3. CASE e.txn # 0
  <2>1. OnResult(e) /\ e.t \in {"list", "history"}
    BY <1>1, <1>3, EnvelopeKinds DEF OnMessage
  <2>2. pending' \subseteq pending
    BY <2>1 DEF OnResult
  <2>3. CASE {p \in pending : p.txn = e.txn} = {} \/ e.t = "list"
    BY <2>1, <2>2, <2>3 DEF OnResult, ReadOther
  <2>4. CASE {p \in pending : p.txn = e.txn} # {} /\ e.t = "history"
    <3>1. PICK p \in {r \in pending : r.txn = e.txn} :
            LoadHistory(p.x, e.x) /\ whole' = whole \cup {p.x}
      BY <2>1, <2>4 DEF OnResult
    <3> QED
      BY <2>2, <2>4, <3>1 DEF ReadHistory
  <2> QED
    BY <2>1, <2>3, <2>4
<1> QED
  BY <1>2, <1>3

(* A history goes to the conversation it was asked for.                    *)
LEMMA AskedFor ==
  ASSUME Types, MatchInv, down # <<>>, NEW p \in pending, ReadHistory(p)
  PROVE  p.t = "history" /\ p.x \in Keys /\ Head(down).x \in SUBSET Messages
<1>1. 1 \in DOMAIN down /\ Head(down) = down[1] /\ Head(down) \in Envelopes
  BY TailElems DEF Types, WireOK
<1>2. p.t = "history"
  BY <1>1 DEF MatchInv, ReadHistory
<1>3. p \in Questions
  BY DEF Types, WireOK
<1> QED
  BY <1>1, <1>2, <1>3, QuestionKinds, EnvelopeKinds DEF ReadHistory

LEMMA TypesOfRooms ==
  ASSUME ScreenOK, NEW e \in Envelopes
  PROVE  OnRoomEvent(room, e) \in [known : {TRUE}, members : SUBSET Ids] \cup {NoRoom}
<1>0. NoRoom.known = FALSE /\ NoRoom.members = {}
  BY DEF NoRoom
<1>1. room \in [known : {TRUE}, members : SUBSET Ids] \/ room = NoRoom
  BY DEF ScreenOK
<1>2. CASE e.t = "sync"
  BY <1>2, EnvelopeKinds DEF OnRoomEvent, UpsertRoom
<1>3. CASE e.t \in {"member_joined", "member_left"}
  <2>1. e.x \in Ids
    BY <1>3, EnvelopeKinds
  <2>2. \A S \in SUBSET Ids :
           SetMembers(room, S) \in [known : {TRUE}, members : SUBSET Ids] \cup {NoRoom}
    <3>1. CASE room \in [known : {TRUE}, members : SUBSET Ids]
      BY <3>1 DEF SetMembers
    <3>2. CASE room = NoRoom
      <4>1. ~room.known
        BY <1>0, <3>2, Zenon
      <4> QED
        BY <3>2, <4>1 DEF SetMembers
    <3> QED
      BY <1>1, <3>1, <3>2
  <2>3. room.members \cup {e.x} \in SUBSET Ids /\ room.members \ {e.x} \in SUBSET Ids
    <3>1. room.members \in SUBSET Ids
      BY <1>0, <1>1
    <3> QED
      BY <2>1, <3>1
  <2> QED
    BY <1>3, <2>2, <2>3 DEF OnRoomEvent
<1>4. CASE e.t \notin {"sync", "member_joined", "member_left"}
  BY <1>4 DEF OnRoomEvent, ScreenOK
<1> QED
  BY <1>2, <1>3, <1>4

LEMMA TypesOfMessage ==
  ASSUME Types, MatchInv, OnMessage
  PROVE  Types'
<1>1. /\ down \in Seq(Envelopes) /\ down # <<>> /\ down' = Tail(down)
      /\ Head(down) \in Envelopes /\ down' \in Seq(Envelopes)
  BY TailElems DEF Types, WireOK, OnMessage
<1>2. LinesOK' /\ whole' \subseteq Keys /\ pending' \subseteq Questions
  <2>1. LinesOK /\ whole \subseteq Keys /\ pending \subseteq Questions
    BY DEF Types, HereOK, WireOK
  <2>2. CASE ReadChat
    BY <1>1, <2>1, <2>2, EnvelopeKinds, PushMessageAdds DEF ReadChat
  <2>3. CASE ReadAck
    BY <2>1, <2>3, MarkDeliveredMarks DEF ReadAck, SameLines
  <2>4. CASE ReadOther
    BY <2>1, <2>4 DEF ReadOther, LinesOK
  <2>5. ASSUME NEW p \in pending, ReadHistory(p)
        PROVE  LinesOK' /\ whole' \subseteq Keys /\ pending' \subseteq Questions
    <3>1. p.x \in Keys /\ Head(down).x \in SUBSET Messages
      BY <1>1, <2>5, AskedFor
    <3>2. LinesOK'
      BY <2>1, <2>5, <3>1, LoadHistoryAdds DEF ReadHistory
    <3> QED
      BY <2>1, <2>5, <3>1, <3>2 DEF ReadHistory
  <2> QED
    BY <2>2, <2>3, <2>4, <2>5, MessageKinds
<1>3. /\ peers' \subseteq Peers
      /\ room' \in [known : {TRUE}, members : SUBSET Ids] \cup {NoRoom}
  <2>1. CASE Head(down).txn = 0
    <3>1. OnEvent(Head(down))
      BY <2>1 DEF OnMessage
    <3>2. peers' = peers /\ room' \in {room, OnRoomEvent(room, Head(down))}
      BY <3>1 DEF OnEvent
    <3> QED
      BY <1>1, <3>2, TypesOfRooms DEF Types, ScreenOK
  <2>2. CASE Head(down).txn # 0
    <3>1. OnResult(Head(down))
      BY <2>2 DEF OnMessage
    <3>2. room' = room /\ (peers' = peers \/ (Head(down).t = "list" /\ peers' = Head(down).x))
      BY <3>1 DEF OnResult, LoadRoster
    <3> QED
      BY <1>1, <3>2, EnvelopeKinds DEF Types, ScreenOK
  <2> QED
    BY <2>1, <2>2
<1>4. ScreenOK' /\ SocketOK'
  BY <1>3 DEF OnMessage, Types, ScreenOK, SocketOK, socket, bounds
<1>5. WireOK'
  BY <1>1, <1>2 DEF OnMessage, Types, WireOK
<1>6. DaemonOK' /\ HereOK'
  BY <1>2 DEF OnMessage, Types, DaemonOK, HereOK, daemon, ledgerHistory
<1> QED
  BY <1>2, <1>4, <1>5, <1>6 DEF Types

LEMMA TypesOfTimeout ==
  ASSUME Types, NEW r \in pending, RequestTimesOut(r)
  PROVE  Types'
<1>1. ScreenOK' /\ LinesOK' /\ SocketOK'
  BY DEF RequestTimesOut, Types, ScreenOK, LinesOK, SocketOK, state, socket, bounds
<1>2. WireOK'
  BY DEF RequestTimesOut, Types, WireOK
<1>3. DaemonOK' /\ HereOK'
  BY DEF RequestTimesOut, Types, DaemonOK, HereOK, daemon, here, ledgerHistory
<1> QED
  BY <1>1, <1>2, <1>3 DEF Types

LEMMA TypesStutter ==
  ASSUME Types, UNCHANGED vars
  PROVE  Types'
<1>1. ScreenOK' /\ LinesOK' /\ SocketOK'
  BY DEF vars, Types, ScreenOK, LinesOK, SocketOK, state, socket, bounds
<1>2. WireOK' /\ DaemonOK' /\ HereOK'
  BY DEF vars, Types, WireOK, DaemonOK, HereOK, client, daemon, here, ledgerHistory
<1> QED
  BY <1>1, <1>2 DEF Types

LEMMA TypesStep ==
  ASSUME Types, MatchInv, [Next]_vars
  PROVE  Types'
<1>1. CASE OnOpen \/ OnClose \/ Connect \/ Reload
  BY <1>1, TypesOfSocket
<1>2. CASE \/ Login
           \/ \E k \in Keys : OpenConversation(k)
           \/ \E m \in Messages : SendText(m)
  BY <1>2, TypesOfUser
<1>3. CASE Dispatch \/ OnMessage
  BY <1>3, TypesOfDispatch, TypesOfMessage
<1>4. CASE \E m \in Messages : Inbound(m) \/ InboundAck(m)
  BY <1>4, TypesOfMessages
<1>5. CASE \E p \in Peers : PeerFound(p) \/ PeerGone(p)
  BY <1>5, TypesOfPeers
<1>6. CASE \/ \E S \in SUBSET Ids : RoomSynced(S)
           \/ \E d \in Ids : MemberJoined(d)
           \/ Kicked
  BY <1>6, TypesOfRoom
<1>7. CASE \E r \in pending : RequestTimesOut(r)
  BY <1>7, TypesOfTimeout
<1>8. CASE UNCHANGED vars
  BY <1>8, TypesStutter
<1> QED
  BY <1>1, <1>2, <1>3, <1>4, <1>5, <1>6, <1>7, <1>8 DEF Next

------------------------------------------------------------------------------
(***************************************************************************)
(* The numbers of requests.  Steps that ask nothing: what is on the way    *)
(* was there before, is an event, or answers a request that was.           *)
(***************************************************************************)
LEMMA NothingAsked ==
  ASSUME Types, MatchInv, txn' = txn, pending' \subseteq pending,
         \A i \in DOMAIN up' : \E j \in DOMAIN up : up'[i] = up[j],
         \A i \in DOMAIN down' :
            \/ \E j \in DOMAIN down : down'[i] = down[j]
            \/ down'[i].txn = 0
            \/ \E j \in DOMAIN up : down'[i].txn = up[j].txn /\ down'[i].t = up[j].t
  PROVE  MatchInv'
<1>0. txn \in Nat /\ \A p \in pending : p.txn # 0
  BY QuestionKinds DEF Types, WireOK, Numbers
<1>1. \A n \in DOMAIN up' : up'[n].txn <= txn'
  BY DEF MatchInv
<1>2. \A n \in DOMAIN down' : down'[n].txn <= txn'
  BY <1>0 DEF MatchInv
<1>3. ASSUME NEW p \in pending'
      PROVE  /\ p.txn <= txn'
             /\ \A n \in DOMAIN up' : up'[n].txn = p.txn => up'[n] = p
             /\ \A n \in DOMAIN down' : down'[n].txn = p.txn => down'[n].t = p.t
  <2>1. p \in pending /\ p.txn # 0
    BY <1>0, <1>3
  <2>2. /\ p.txn <= txn
        /\ \A n \in DOMAIN up : up[n].txn = p.txn => up[n] = p
        /\ \A n \in DOMAIN down : down[n].txn = p.txn => down[n].t = p.t
    BY <2>1 DEF MatchInv
  <2>3. \A n \in DOMAIN up' : up'[n].txn = p.txn => up'[n] = p
    BY <2>2
  <2>4. ASSUME NEW n \in DOMAIN down', down'[n].txn = p.txn
        PROVE  down'[n].t = p.t
    BY <2>1, <2>2, <2>4
  <2> QED
    BY <2>2, <2>3, <2>4
<1> QED
  BY <1>1, <1>2, <1>3 DEF MatchInv

(* Steps that ask: their requests have numbers of their own.               *)
LEMMA NewlyAsked ==
  ASSUME Types, MatchInv, txn' \in Nat, txn' >= txn, down' = down,
         \A i \in DOMAIN up' : \/ \E j \in DOMAIN up : up'[i] = up[j]
                               \/ up'[i].txn > txn /\ up'[i].txn <= txn',
         \A p \in pending' :
            \/ p \in pending
            \/ /\ p.txn > txn /\ p.txn <= txn'
               /\ \A i \in DOMAIN up' : up'[i].txn = p.txn => up'[i] = p
  PROVE  MatchInv'
<1>0. txn \in Nat
  BY DEF Types, WireOK
<1>1. /\ \A i \in DOMAIN up : up[i].txn \in Nat /\ up[i].txn <= txn
      /\ \A i \in DOMAIN down : down[i].txn \in Nat /\ down[i].txn <= txn
      /\ \A p \in pending : p.txn \in Nat /\ p.txn <= txn
  <2>1. /\ up \in Seq(Asked) /\ down \in Seq(Envelopes) /\ pending \subseteq Questions
    BY DEF Types, WireOK
  <2>2. /\ \A i \in DOMAIN up : up[i] \in Asked
        /\ \A i \in DOMAIN down : down[i] \in Envelopes
    BY <2>1
  <2> QED
    BY <2>1, <2>2, AskedKinds, EnvelopeKinds, QuestionKinds DEF MatchInv, Numbers
<1>2. \A n \in DOMAIN up' : up'[n].txn <= txn'
  BY <1>0, <1>1
<1>3. \A n \in DOMAIN down' : down'[n].txn <= txn'
  BY <1>0, <1>1
<1>4. ASSUME NEW p \in pending'
      PROVE  /\ p.txn <= txn'
             /\ \A n \in DOMAIN up' : up'[n].txn = p.txn => up'[n] = p
             /\ \A n \in DOMAIN down' : down'[n].txn = p.txn => down'[n].t = p.t
  <2>1. CASE p \in pending
    <3>1. /\ p.txn \in Nat /\ p.txn <= txn
          /\ \A n \in DOMAIN up : up[n].txn = p.txn => up[n] = p
          /\ \A n \in DOMAIN down : down[n].txn = p.txn => down[n].t = p.t
      BY <1>1, <2>1 DEF MatchInv
    <3>2. ASSUME NEW n \in DOMAIN up', up'[n].txn = p.txn
          PROVE  up'[n] = p
      <4>1. ~(up'[n].txn > txn)
        BY <1>0, <3>1, <3>2
      <4>2. PICK j \in DOMAIN up : up'[n] = up[j]
        BY <4>1
      <4> QED
        BY <3>1, <3>2, <4>2
    <3> QED
      BY <1>0, <3>1, <3>2
  <2>2. CASE /\ p.txn > txn /\ p.txn <= txn'
             /\ \A i \in DOMAIN up' : up'[i].txn = p.txn => up'[i] = p
    <3>1. \A n \in DOMAIN down : down[n].txn # p.txn
      BY <1>0, <1>1, <2>2
    <3> QED
      BY <2>2, <3>1
  <2> QED
    BY <2>1, <2>2
<1> QED
  BY <1>2, <1>3, <1>4 DEF MatchInv

LEMMA MatchOfSocket ==
  ASSUME Types, MatchInv, OnOpen \/ OnClose \/ Connect \/ Reload
  PROVE  MatchInv'
<1>1. CASE OnOpen
  <2>1. txn \in Nat
    BY DEF Types, WireOK
  <2>2. CASE up' = Introduction(txn) /\ txn' = txn + 1
    <3>1. \A i \in DOMAIN up' : up'[i].txn = txn + 1
      BY <2>2 DEF Introduction, Req
    <3>2. pending' = pending /\ down' = down
      BY <1>1 DEF OnOpen
    <3> QED
      BY <2>1, <2>2, <3>1, <3>2, NewlyAsked
  <2>3. CASE up' = up /\ txn' = txn
    BY <1>1, <2>3, NothingAsked DEF OnOpen
  <2> QED
    BY <1>1, <2>2, <2>3 DEF OnOpen
<1>2. CASE OnClose
  <2>1. up' = <<>> /\ down' = <<>> /\ pending' = pending /\ txn' = txn
    BY <1>2 DEF OnClose, ConnectionGone, client
  <2> QED
    BY <2>1, EmptyElems, NothingAsked
<1>3. CASE Connect
  <2>1. up' = up /\ down' = down /\ pending' = pending /\ txn' = txn
    BY <1>3 DEF Connect, client
  <2> QED
    BY <2>1, NothingAsked
<1>4. CASE Reload
  <2>1. up' = <<>> /\ down' = <<>> /\ pending' = {} /\ txn' = 0
    BY <1>4 DEF Reload, ConnectionGone
  <2> QED
    BY <2>1, EmptyElems DEF MatchInv
<1> QED
  BY <1>1, <1>2, <1>3, <1>4

(* A request more, or the two of login, on a queue that keeps the rest.    *)
LEMMA OneMoreAsked ==
  ASSUME NEW q \in Seq(Asked), NEW r \in Asked, NEW u, u \in {q, Append(q, r)}
  PROVE  \A i \in DOMAIN u : (\E j \in DOMAIN q : u[i] = q[j]) \/ u[i] = r
BY AppendElems

LEMMA MatchOfUser ==
  ASSUME Types, MatchInv, \/ Login
                          \/ \E k \in Keys : OpenConversation(k)
                          \/ \E m \in Messages : SendText(m)
  PROVE  MatchInv'
<1>0. txn \in Nat /\ txn + 1 \in Numbers /\ txn + 2 \in Numbers /\ up \in Seq(Asked)
  BY DEF Types, WireOK, Numbers
<1>01. \A i \in DOMAIN up : up[i].txn \in Nat /\ up[i].txn <= txn
  <2>1. \A i \in DOMAIN up : up[i] \in Asked
    BY <1>0
  <2> QED
    BY <2>1, AskedKinds DEF MatchInv, Numbers
<1>1. CASE Login
  <2> DEFINE h == Req("hello", Nobody, txn + 1)
             l == Req("list", Nobody, txn + 2)
  <2>1. h \in Asked /\ l \in Asked /\ h.txn = txn + 1 /\ l.txn = txn + 2
    BY <1>0, MadeRequests, QuestionKinds DEF Req
  <2>2. CASE ws = "connecting"
    <3>1. up' = up /\ down' = down /\ pending' = pending /\ txn' = txn
      BY <1>1, <2>2 DEF Login
    <3> QED
      BY <3>1, NothingAsked
  <2>3. CASE ws # "connecting"
    <3>1. /\ up' = up \/ up' = Append(Append(up, h), l)
          /\ txn' = txn + 2 /\ pending' = pending \cup {l} /\ down' = down
      BY <1>0, <1>1, <2>3, LoginSends DEF Login
    <3> HIDE DEF h, l
    <3>2. Append(up, h) \in Seq(Asked)
      BY <1>0, <2>1, AppendElems
    <3>3. \A i \in DOMAIN up' : (\E j \in DOMAIN up : up'[i] = up[j]) \/ up'[i] = h \/ up'[i] = l
      <4>1. \A i \in DOMAIN Append(up, h) : (\E j \in DOMAIN up : Append(up, h)[i] = up[j])
                                            \/ Append(up, h)[i] = h
        BY <1>0, <2>1, OneMoreAsked
      <4>2. \A i \in DOMAIN Append(Append(up, h), l) :
               \/ \E j \in DOMAIN Append(up, h) : Append(Append(up, h), l)[i] = Append(up, h)[j]
               \/ Append(Append(up, h), l)[i] = l
        BY <2>1, <3>2, OneMoreAsked
      <4> QED
        BY <3>1, <4>1, <4>2
    <3>4. \A i \in DOMAIN up' : up'[i].txn = l.txn => up'[i] = l
      BY <1>0, <1>01, <2>1, <3>3
    <3> QED
      BY <1>0, <2>1, <3>1, <3>3, <3>4, NewlyAsked
  <2> QED
    BY <2>2, <2>3
<1>2. ASSUME NEW k \in Keys, OpenConversation(k)
      PROVE  MatchInv'
  <2> DEFINE r == Req("history", k, txn + 1)
  <2>1. r \in Asked /\ r.txn = txn + 1
    BY <1>0, MadeRequests, QuestionKinds DEF Req
  <2>2. /\ up' \in {up, Append(up, r)} /\ down' = down
        /\ txn' = txn + 1 /\ pending' = pending \cup {r}
    BY <1>2, SentIs DEF OpenConversation
  <2> HIDE DEF r
  <2>3. \A i \in DOMAIN up' : (\E j \in DOMAIN up : up'[i] = up[j]) \/ up'[i] = r
    BY <1>0, <2>1, <2>2, OneMoreAsked
  <2>4. \A i \in DOMAIN up' : up'[i].txn = r.txn => up'[i] = r
    BY <1>0, <1>01, <2>1, <2>3
  <2> QED
    BY <1>0, <2>1, <2>2, <2>3, <2>4, NewlyAsked
<1>3. ASSUME NEW m \in Messages, SendText(m)
      PROVE  MatchInv'
  <2> DEFINE r == Req("send", m, txn + 1)
  <2>1. r \in Asked /\ r.txn = txn + 1
    BY <1>0, <1>3, MadeRequests DEF Req, SendText
  <2>2. /\ up' \in {up, Append(up, r)} /\ down' = down
        /\ txn' = txn + 1 /\ pending' = pending
    BY <1>3, SentIs DEF SendText
  <2> HIDE DEF r
  <2>3. \A i \in DOMAIN up' : (\E j \in DOMAIN up : up'[i] = up[j]) \/ up'[i] = r
    BY <1>0, <2>1, <2>2, OneMoreAsked
  <2> QED
    BY <1>0, <2>1, <2>2, <2>3, NewlyAsked
<1> QED
  BY <1>1, <1>2, <1>3

LEMMA OneMoreTold ==
  ASSUME NEW q \in Seq(Envelopes), NEW e \in Envelopes, NEW u, u \in {q, Append(q, e)}
  PROVE  \A i \in DOMAIN u : (\E j \in DOMAIN q : u[i] = q[j]) \/ u[i] = e
BY AppendElems

LEMMA EventsTold ==
  ASSUME Types, MatchInv, up' = up, txn' = txn, pending' \subseteq pending,
         NEW e \in Envelopes, e.txn = 0, down' \in {down, Append(down, e)}
  PROVE  MatchInv'
<1>1. down \in Seq(Envelopes)
  BY DEF Types, WireOK
<1>2. \A i \in DOMAIN down' : (\E j \in DOMAIN down : down'[i] = down[j]) \/ down'[i] = e
  BY <1>1, OneMoreTold
<1> QED
  BY <1>2, NothingAsked

LEMMA MadeEvents ==
  /\ \A m \in Messages : Ev("chat", m).txn = 0 /\ Ev("chat", m).t = "chat" /\ Ev("chat", m).x = m
  /\ \A m \in Typed : Ev("ack", m).txn = 0 /\ Ev("ack", m).t = "ack" /\ Ev("ack", m).x = m
  /\ \A p \in Peers : Ev("discovery.peer_found", p).txn = 0
                      /\ Ev("discovery.peer_found", p).t = "discovery.peer_found"
  /\ \A S \in SUBSET Ids : Ev("sync", S).txn = 0 /\ Ev("sync", S).t = "sync"
  /\ \A d \in Ids : /\ Ev("member_joined", d).txn = 0 /\ Ev("member_left", d).txn = 0
                    /\ Ev("member_joined", d).t = "member_joined"
                    /\ Ev("member_left", d).t = "member_left"
  /\ \A S, n : /\ Res("list", S, n).t = "list" /\ Res("list", S, n).txn = n
               /\ Res("history", S, n).t = "history" /\ Res("history", S, n).txn = n
               /\ Res("history", S, n).x = S
BY DEF Ev, Res

LEMMA MatchOfDaemon ==
  ASSUME Types, MatchInv,
         \/ \E m \in Messages : Inbound(m) \/ InboundAck(m)
         \/ \E p \in Peers : PeerFound(p) \/ PeerGone(p)
         \/ \E S \in SUBSET Ids : RoomSynced(S)
         \/ \E d \in Ids : MemberJoined(d)
         \/ Kicked
  PROVE  MatchInv'
<1>1. up' = up /\ txn' = txn /\ pending' = pending
  BY DEF Inbound, InboundAck, PeerFound, PeerGone, RoomSynced, MemberJoined, Kicked, client
<1>2. ASSUME NEW m \in Messages, Inbound(m)
      PROVE  MatchInv'
  <2>1. down' \in {down, Append(down, Ev("chat", m))}
    BY <1>2, PushIs DEF Inbound, Announce
  <2>2. Ev("chat", m) \in Envelopes /\ Ev("chat", m).txn = 0
    BY <2>1, MadeEnvelopes, MadeEvents
  <2> QED
    BY <1>1, <2>1, <2>2, EventsTold
<1>3. ASSUME NEW m \in Messages, InboundAck(m)
      PROVE  MatchInv'
  <2>1. down' \in {down, Append(down, Ev("ack", m))} /\ m \in Typed
    BY <1>3, PushIs DEF InboundAck
  <2>2. Ev("ack", m) \in Envelopes /\ Ev("ack", m).txn = 0
    BY <2>1, MadeEnvelopes, MadeEvents
  <2> QED
    BY <1>1, <2>1, <2>2, EventsTold
<1>4. ASSUME NEW p \in Peers, PeerFound(p) \/ PeerGone(p)
      PROVE  MatchInv'
  <2>1. down' \in {down, Append(down, Ev("discovery.peer_found", p))}
    BY <1>4, PushIs DEF PeerFound, PeerGone
  <2>2. Ev("discovery.peer_found", p) \in Envelopes /\ Ev("discovery.peer_found", p).txn = 0
    BY <2>1, MadeEnvelopes, MadeEvents
  <2> QED
    BY <1>1, <2>1, <2>2, EventsTold
<1>5. ASSUME NEW S \in SUBSET Ids, RoomSynced(S)
      PROVE  MatchInv'
  <2>1. down' \in {down, Append(down, Ev("sync", S))}
    BY <1>5, PushIs DEF RoomSynced
  <2>2. Ev("sync", S) \in Envelopes /\ Ev("sync", S).txn = 0
    BY <2>1, MadeEnvelopes, MadeEvents
  <2> QED
    BY <1>1, <2>1, <2>2, EventsTold
<1>6. ASSUME NEW d \in Ids, MemberJoined(d)
      PROVE  MatchInv'
  <2>1. down' \in {down, Append(down, Ev("member_joined", d))}
    BY <1>6, PushIs DEF MemberJoined
  <2>2. Ev("member_joined", d) \in Envelopes /\ Ev("member_joined", d).txn = 0
    BY <2>1, MadeEnvelopes, MadeEvents
  <2> QED
    BY <1>1, <2>1, <2>2, EventsTold
<1>7. CASE Kicked
  <2>1. down' \in {down, Append(down, Ev("member_left", Daemon))} /\ Daemon \in Ids
    BY <1>7, PushIs DEF Kicked, Ids
  <2>2. Ev("member_left", Daemon) \in Envelopes /\ Ev("member_left", Daemon).txn = 0
    BY <2>1, MadeEnvelopes, MadeEvents
  <2> QED
    BY <1>1, <2>1, <2>2, EventsTold
<1> QED
  BY <1>2, <1>3, <1>4, <1>5, <1>6, <1>7

(* The daemon answers the oldest request, or announces what was sent.      *)
LEMMA DispatchKinds ==
  ASSUME Types, Dispatch
  PROVE  /\ Head(up) \in Asked
         /\ \/ /\ Head(up).t = "hello"
               /\ UNCHANGED <<down, ledger, arrivals, echoed>>
            \/ /\ Head(up).t = "list"
               /\ down' = Append(down, Res("list", registry, Head(up).txn))
               /\ Res("list", registry, Head(up).txn) \in Envelopes
               /\ UNCHANGED <<ledger, arrivals, echoed>>
            \/ /\ Head(up).t = "history"
               /\ down' = Append(down, Res("history", History(Head(up).x), Head(up).txn))
               /\ Res("history", History(Head(up).x), Head(up).txn) \in Envelopes
               /\ UNCHANGED <<ledger, arrivals, echoed>>
            \/ /\ Head(up).t = "send" /\ Head(up).x \in Typed
               /\ Announce(Head(up).x, down)
<1>1. Head(up) \in Asked
  BY TailElems DEF Types, WireOK, Dispatch
<1>2. Res("list", registry, Head(up).txn) \in Envelopes
  BY <1>1, AskedKinds, MadeEnvelopes DEF Types, DaemonOK
<1>3. History(Head(up).x) \in SUBSET Messages
  BY HistoryIsLedger DEF Types, DaemonOK
<1>4. Res("history", History(Head(up).x), Head(up).txn) \in Envelopes
  BY <1>1, <1>3, AskedKinds, MadeEnvelopes
<1>5. Head(up).t = "send" => Head(up).x \in Typed
  BY <1>1, AskedKinds
<1> QED
  BY <1>1, <1>2, <1>4, <1>5 DEF Dispatch

LEMMA MatchOfDispatch ==
  ASSUME Types, MatchInv, Dispatch
  PROVE  MatchInv'
<1>1. /\ up \in Seq(Asked) /\ up # <<>> /\ up' = Tail(up)
      /\ down \in Seq(Envelopes)
      /\ txn' = txn /\ pending' = pending
  BY DEF Types, WireOK, Dispatch, client
<1>2. /\ 1 \in DOMAIN up /\ Head(up) = up[1]
      /\ \A i \in DOMAIN up' : \E j \in DOMAIN up : up'[i] = up[j]
  <2>1. /\ 1 \in DOMAIN up /\ Head(up) = up[1]
        /\ \A i \in DOMAIN Tail(up) : i + 1 \in DOMAIN up /\ Tail(up)[i] = up[i + 1]
    BY <1>1, TailElems
  <2> QED
    BY <1>1, <2>1
<1>3. \/ down' = down
      \/ \E e \in Envelopes : /\ down' \in {down, Append(down, e)}
                              /\ e.txn = 0 \/ (e.txn = Head(up).txn /\ e.t = Head(up).t)
  <2>1. CASE Head(up).t = "send"
    <3>1. PICK m \in Messages : Announce(m, down)
      BY <2>1, DispatchKinds DEF Typed
    <3>2. down' \in {down, Append(down, Ev("chat", m))}
      BY <3>1, PushIs DEF Announce
    <3> QED
      BY <3>2, MadeEnvelopes, MadeEvents
  <2>2. CASE Head(up).t # "send"
    BY <2>2, DispatchKinds, MadeEvents
  <2> QED
    BY <2>1, <2>2
<1>4. ASSUME NEW i \in DOMAIN down'
      PROVE  \/ \E j \in DOMAIN down : down'[i] = down[j]
             \/ down'[i].txn = 0
             \/ down'[i].txn = up[1].txn /\ down'[i].t = up[1].t
  <2>1. CASE down' = down
    BY <2>1
  <2>2. ASSUME NEW e \in Envelopes, down' \in {down, Append(down, e)},
               e.txn = 0 \/ (e.txn = Head(up).txn /\ e.t = Head(up).t)
        PROVE  \/ \E j \in DOMAIN down : down'[i] = down[j]
               \/ down'[i].txn = 0
               \/ down'[i].txn = up[1].txn /\ down'[i].t = up[1].t
    <3>1. (\E j \in DOMAIN down : down'[i] = down[j]) \/ down'[i] = e
      BY <1>1, <2>2, OneMoreTold
    <3> QED
      BY <1>2, <2>2, <3>1
  <2> QED
    BY <1>3, <2>1, <2>2
<1> QED
  BY <1>1, <1>2, <1>4, NothingAsked

LEMMA MatchOfMessage ==
  ASSUME Types, MatchInv, OnMessage
  PROVE  MatchInv'
<1>1. /\ down \in Seq(Envelopes) /\ down # <<>> /\ down' = Tail(down)
      /\ up' = up /\ txn' = txn
  BY DEF Types, WireOK, OnMessage
<1>2. pending' \subseteq pending
  BY MessageKinds DEF ReadChat, ReadAck, ReadHistory, ReadOther
<1>3. \A i \in DOMAIN down' : \E j \in DOMAIN down : down'[i] = down[j]
  <2>1. \A i \in DOMAIN Tail(down) : i + 1 \in DOMAIN down /\ Tail(down)[i] = down[i + 1]
    BY <1>1, TailElems
  <2> QED
    BY <1>1, <2>1
<1> QED
  BY <1>1, <1>2, <1>3, NothingAsked

LEMMA MatchStep ==
  ASSUME Types, MatchInv, [Next]_vars
  PROVE  MatchInv'
<1>1. CASE OnOpen \/ OnClose \/ Connect \/ Reload
  BY <1>1, MatchOfSocket
<1>2. CASE \/ Login
           \/ \E k \in Keys : OpenConversation(k)
           \/ \E m \in Messages : SendText(m)
  BY <1>2, MatchOfUser
<1>3. CASE Dispatch \/ OnMessage
  BY <1>3, MatchOfDispatch, MatchOfMessage
<1>4. CASE \/ \E m \in Messages : Inbound(m) \/ InboundAck(m)
           \/ \E p \in Peers : PeerFound(p) \/ PeerGone(p)
           \/ \E S \in SUBSET Ids : RoomSynced(S)
           \/ \E d \in Ids : MemberJoined(d)
           \/ Kicked
  BY <1>4, MatchOfDaemon
<1>5. ASSUME NEW r \in pending, RequestTimesOut(r)
      PROVE  MatchInv'
  <2>1. up' = up /\ down' = down /\ pending' \subseteq pending /\ txn' = txn
    BY <1>5 DEF RequestTimesOut
  <2> QED
    BY <2>1, NothingAsked
<1>6. CASE UNCHANGED vars
  BY <1>6 DEF vars, client, MatchInv
<1> QED
  BY <1>1, <1>2, <1>3, <1>4, <1>5, <1>6 DEF Next

LEMMA TypesHold == Spec => [](Types /\ MatchInv)
<1>1. Init => Types /\ MatchInv
  <2> SUFFICES ASSUME Init PROVE Types /\ MatchInv
    OBVIOUS
  <2>1. /\ up \in Seq(Asked) /\ down \in Seq(Envelopes)
        /\ DOMAIN up = {} /\ DOMAIN down = {} /\ pending = {} /\ txn = 0
    BY EmptyElems DEF Init
  <2>2. convs \in [Keys -> Seq(Line)]
    BY EmptyElems DEF Init, NoConversation
  <2>3. arrivals \in [Messages -> Nat] /\ 0 \in 0..MaxBreaks /\ 0 \in 0..MaxChanges
    BY ClientAssumption DEF Init
  <2>4. ScreenOK /\ SocketOK
    BY <2>3 DEF Init, ScreenOK, SocketOK
  <2>5. DaemonOK /\ HereOK
    BY <2>3 DEF Init, DaemonOK, HereOK
  <2>6. Types
    BY <2>1, <2>2, <2>4, <2>5 DEF Types, LinesOK, WireOK
  <2>7. MatchInv
    BY <2>1 DEF MatchInv
  <2> QED
    BY <2>6, <2>7
<1>2. Types /\ MatchInv /\ [Next]_vars => Types' /\ MatchInv'
  BY TypesStep, MatchStep
<1> QED
  BY <1>1, <1>2, PTL DEF Spec

(***************************************************************************)
(* The page and its daemon hold what their types say in every state.       *)
(***************************************************************************)
THEOREM TypeCorrect == Spec => []TypeOK
  BY TypesHold, TypesGiveTypeOK, PTL

------------------------------------------------------------------------------
(***************************************************************************)
(* The connection: without one nothing is on the way, and what was shown   *)
(* or received on the last one does not count.                             *)
(***************************************************************************)
QuietInv ==
  /\ timer => ws = "closed"
  /\ ws # "open" => /\ up = <<>> /\ down = <<>>
                    /\ whole = {} /\ echoed = {} /\ receipts = {}

HelloComing == \E n \in DOMAIN up : up[n].t = "hello"

LEMMA HelloStays ==
  ASSUME NEW q \in Seq(Asked), HelloComing, q = up, NEW r \in Asked, up' \in {q, Append(q, r)}
  PROVE  HelloComing'
<1>1. PICK n \in DOMAIN up : up[n].t = "hello"
  BY DEF HelloComing
<1>2. n \in DOMAIN up' /\ up'[n] = up[n]
  BY AppendElems
<1> QED
  BY <1>1, <1>2 DEF HelloComing

(* Steps on a socket that stays as it is: a request more, events more.     *)
LEMMA SameConnection ==
  ASSUME Types, QuietInv, OnlineMeansIntroduced,
         ws' = ws, timer' = timer, saved' = saved, greeted' = greeted,
         NEW r \in Asked, up' \in {up, Append(up, r)},
         ws # "open" => UNCHANGED <<up, down, whole, echoed, receipts>>
  PROVE  QuietInv' /\ OnlineMeansIntroduced'
<1>1. QuietInv'
  BY DEF QuietInv
<1>2. HelloComing => HelloComing'
  BY HelloStays DEF Types, WireOK
<1> QED
  BY <1>1, <1>2 DEF OnlineMeansIntroduced, HelloComing

LEMMA ConnectionOfSocket ==
  ASSUME Types, QuietInv, OnlineMeansIntroduced, OnOpen \/ OnClose \/ Connect \/ Reload
  PROVE  QuietInv' /\ OnlineMeansIntroduced'
<1>1. CASE OnOpen
  <2>1. QuietInv'
    BY <1>1 DEF OnOpen, QuietInv
  <2>2. CASE saved
    <3>1. up' = <<Req("hello", Nobody, txn + 1)>>
      BY <1>1, <2>2 DEF OnOpen, Introduction
    <3>2. 1 \in DOMAIN up' /\ up'[1].t = "hello"
      BY <3>1 DEF Req
    <3> QED
      BY <2>1, <3>2 DEF OnlineMeansIntroduced
  <2>3. CASE ~saved
    BY <1>1, <2>1, <2>3 DEF OnOpen, OnlineMeansIntroduced
  <2> QED
    BY <2>2, <2>3
<1>2. CASE OnClose \/ Reload
  <2>1. /\ ws' # "open" /\ ConnectionGone
        /\ timer' => ws' = "closed"
    BY <1>2 DEF OnClose, Reload
  <2> QED
    BY <2>1 DEF ConnectionGone, QuietInv, OnlineMeansIntroduced
<1>3. CASE Connect
  <2>1. /\ timer /\ ~timer' /\ ws' # "open"
        /\ UNCHANGED <<up, down, whole, echoed, receipts>>
    BY <1>3 DEF Connect, here
  <2> QED
    BY <2>1 DEF QuietInv, OnlineMeansIntroduced
<1> QED
  BY <1>1, <1>2, <1>3

LEMMA ConnectionOfUser ==
  ASSUME Types, QuietInv, OnlineMeansIntroduced,
         \/ Login
         \/ \E k \in Keys : OpenConversation(k)
         \/ \E m \in Messages : SendText(m)
  PROVE  QuietInv' /\ OnlineMeansIntroduced'
<1>0. txn + 1 \in Numbers /\ txn + 2 \in Numbers /\ up \in Seq(Asked)
  BY DEF Types, WireOK, Numbers
<1>1. CASE Login
  <2> DEFINE h == Req("hello", Nobody, txn + 1)
             l == Req("list", Nobody, txn + 2)
  <2>1. h \in Asked /\ l \in Asked /\ h.t = "hello"
    BY <1>0, MadeRequests, QuestionKinds DEF Req
  <2>2. ws' = ws /\ timer' = timer /\ UNCHANGED <<down, whole, echoed, receipts>>
    BY <1>1 DEF Login, socket, here
  <2>3. CASE ws # "open"
    <3>1. up' = up
      BY <1>1, <2>3 DEF Login
    <3> QED
      BY <2>2, <2>3, <3>1 DEF QuietInv, OnlineMeansIntroduced
  <2>4. CASE ws = "open"
    <3>0. up' = up \o Introduction(txn) \o <<l>>
      BY <1>1, <2>4 DEF Login
    <3>1. up' = Append(Append(up, h), l)
      BY <1>0, <3>0, LoginSends DEF Types, WireOK
    <3> HIDE DEF h, l
    <3>2. Append(up, h) \in Seq(Asked) /\ Len(up) + 1 \in DOMAIN Append(up, h)
          /\ Append(up, h)[Len(up) + 1] = h
      BY <1>0, <2>1, AppendElems
    <3>3. Len(up) + 1 \in DOMAIN up' /\ up'[Len(up) + 1] = h
      BY <2>1, <3>1, <3>2, AppendElems
    <3> QED
      BY <2>1, <2>2, <2>4, <3>3 DEF QuietInv, OnlineMeansIntroduced
  <2> QED
    BY <2>3, <2>4
<1>2. ASSUME NEW k \in Keys, OpenConversation(k)
      PROVE  QuietInv' /\ OnlineMeansIntroduced'
  <2> DEFINE r == Req("history", k, txn + 1)
  <2>1. r \in Asked
    BY <1>0, MadeRequests, QuestionKinds
  <2>2. /\ up' \in {up, Append(up, r)} /\ (ws # "open" => up' = up)
        /\ UNCHANGED <<ws, timer, saved, greeted, down, whole, echoed, receipts>>
    BY <1>2 DEF OpenConversation, Sent, socket, here
  <2> HIDE DEF r
  <2> QED
    BY <2>1, <2>2, SameConnection
<1>3. ASSUME NEW m \in Messages, SendText(m)
      PROVE  QuietInv' /\ OnlineMeansIntroduced'
  <2> DEFINE r == Req("send", m, txn + 1)
  <2>1. r \in Asked
    BY <1>0, <1>3, MadeRequests DEF SendText
  <2>2. /\ up' \in {up, Append(up, r)} /\ (ws # "open" => up' = up)
        /\ UNCHANGED <<ws, timer, saved, greeted, down, whole, echoed, receipts>>
    BY <1>3 DEF SendText, Sent, socket, here
  <2> HIDE DEF r
  <2> QED
    BY <2>1, <2>2, SameConnection
<1> QED
  BY <1>1, <1>2, <1>3

LEMMA ConnectionOfDispatch ==
  ASSUME Types, QuietInv, OnlineMeansIntroduced, Dispatch
  PROVE  QuietInv' /\ OnlineMeansIntroduced'
<1>1. /\ up \in Seq(Asked) /\ up # <<>> /\ up' = Tail(up)
      /\ UNCHANGED <<ws, timer, saved, whole, receipts>>
      /\ (Head(up).t = "hello" /\ greeted') \/ (Head(up).t # "hello" /\ greeted' = greeted)
  BY DEF Types, WireOK, Dispatch, socket
<1>2. ws = "open"
  BY <1>1 DEF QuietInv
<1>3. QuietInv'
  BY <1>1, <1>2 DEF QuietInv
<1>4. ASSUME HelloComing, Head(up).t # "hello"
      PROVE  HelloComing'
  <2>1. PICK n \in DOMAIN up : up[n].t = "hello"
    BY <1>4 DEF HelloComing
  <2>2. n # 1
    BY <1>1, <1>4, <2>1, TailElems
  <2>3. n - 1 \in DOMAIN up' /\ up'[n - 1] = up[n]
    <3>1. n - 1 \in DOMAIN Tail(up) /\ Tail(up)[n - 1] = up[n]
      BY <1>1, <2>2, TailElems
    <3> QED
      BY <1>1, <3>1
  <2> QED
    BY <2>1, <2>3 DEF HelloComing
<1> QED
  BY <1>1, <1>3, <1>4 DEF OnlineMeansIntroduced, HelloComing

LEMMA ConnectionStep ==
  ASSUME Types, QuietInv, OnlineMeansIntroduced, [Next]_vars
  PROVE  QuietInv' /\ OnlineMeansIntroduced'
<1>1. CASE OnOpen \/ OnClose \/ Connect \/ Reload
  BY <1>1, ConnectionOfSocket
<1>2. CASE \/ Login
           \/ \E k \in Keys : OpenConversation(k)
           \/ \E m \in Messages : SendText(m)
  BY <1>2, ConnectionOfUser
<1>3. CASE Dispatch
  BY <1>3, ConnectionOfDispatch
<1>0. ASSUME up' = up, ws' = ws, timer' = timer, saved' = saved, greeted' = greeted,
             ws # "open" => UNCHANGED <<down, whole, echoed, receipts>>
      PROVE  QuietInv' /\ OnlineMeansIntroduced'
  <2>1. Req("hello", Nobody, 1) \in Asked
    BY MadeRequests DEF Numbers
  <2> QED
    BY <1>0, <2>1, SameConnection
<1>4. CASE OnMessage
  <2>1. ws = "open"
    BY <1>4 DEF OnMessage, QuietInv
  <2> QED
    BY <1>0, <1>4, <2>1 DEF OnMessage, socket
<1>5. CASE \E m \in Messages : Inbound(m) \/ InboundAck(m)
  <2>1. /\ UNCHANGED <<up, ws, timer, saved, greeted>>
        /\ ws # "open" => UNCHANGED <<down, whole, echoed, receipts>>
    BY <1>5 DEF Inbound, InboundAck, Announce, Push, socket
  <2> QED
    BY <1>0, <2>1
<1>6. CASE \/ \E p \in Peers : PeerFound(p) \/ PeerGone(p)
           \/ \E S \in SUBSET Ids : RoomSynced(S)
           \/ \E d \in Ids : MemberJoined(d)
           \/ Kicked
  <2>1. /\ UNCHANGED <<up, ws, timer, saved, greeted>>
        /\ ws # "open" => UNCHANGED <<down, whole, echoed, receipts>>
    BY <1>6 DEF PeerFound, PeerGone, RoomSynced, MemberJoined, Kicked, Push, socket, here
  <2> QED
    BY <1>0, <2>1
<1>7. CASE UNCHANGED vars \/ \E r \in pending : RequestTimesOut(r)
  <2>1. UNCHANGED <<up, ws, timer, saved, greeted, down, whole, echoed, receipts>>
    BY <1>7 DEF vars, RequestTimesOut, socket, here
  <2> QED
    BY <1>0, <2>1
<1> QED
  BY <1>1, <1>2, <1>3, <1>4, <1>5, <1>6, <1>7 DEF Next

LEMMA ConnectionHolds == Spec => [](QuietInv /\ OnlineMeansIntroduced)
<1>1. Init => QuietInv /\ OnlineMeansIntroduced
  BY DEF Init, QuietInv, OnlineMeansIntroduced
<1>2. /\ Types /\ QuietInv /\ OnlineMeansIntroduced /\ [Next]_vars
      => QuietInv' /\ OnlineMeansIntroduced'
  BY ConnectionStep
<1> QED
  BY <1>1, <1>2, TypesHold, PTL DEF Spec

(***************************************************************************)
(* The daemon knows the user of every connection that is up.               *)
(***************************************************************************)
THEOREM Introduced == Spec => []OnlineMeansIntroduced
  BY ConnectionHolds, PTL

------------------------------------------------------------------------------
(***************************************************************************)
(* What a step is to the conversations and to what the daemon tells.       *)
(***************************************************************************)
Still == UNCHANGED <<convs, down, whole, echoed, receipts, ledger, arrivals>>

(* The connection ends, or the page is loaded again.                       *)
Ends ==
  /\ convs' \in {convs, NoConversation} /\ down' = <<>>
  /\ whole' = {} /\ echoed' = {} /\ receipts' = {}
  /\ UNCHANGED <<ledger, arrivals>>

(* The daemon tells e, which is no message: an answer, a receipt, a change *)
(* of its peers or of its room.                                            *)
Tells(e) ==
  /\ e.t # "chat"
  /\ down' = Append(down, e)
  /\ e.t = "history" => /\ up # <<>> /\ Head(up).t = "history"
                        /\ e.x = History(Head(up).x) /\ e.txn = Head(up).txn
  /\ IF e.t = "ack" THEN e.x \in ledger /\ receipts' = receipts \cup {e.x}
                    ELSE receipts' = receipts
  /\ UNCHANGED <<convs, whole, echoed, ledger, arrivals>>

Announces(m) == Announce(m, down) /\ UNCHANGED <<convs, whole, receipts>>

LEMMA EndOrStart ==
  ASSUME OnOpen \/ OnClose \/ Connect \/ Reload
  PROVE  Still \/ Ends
<1>1. CASE OnOpen \/ Connect
  BY <1>1 DEF OnOpen, Connect, Still, state, daemon, here, ledgerHistory
<1>2. CASE OnClose \/ Reload
  BY <1>2 DEF OnClose, Reload, Ends, ConnectionGone, daemon, ledgerHistory
<1> QED
  BY <1>1, <1>2

LEMMA UserIsStill ==
  ASSUME \/ Login
         \/ \E k \in Keys : OpenConversation(k)
         \/ \E m \in Messages : SendText(m)
         \/ \E r \in pending : RequestTimesOut(r)
         \/ UNCHANGED vars
  PROVE  Still
BY DEF Login, OpenConversation, SendText, RequestTimesOut, vars, Still, state, daemon, here,
       ledgerHistory

LEMMA DispatchTells ==
  ASSUME Types, Dispatch
  PROVE  Still \/ (\E e \in Envelopes : Tells(e)) \/ (\E m \in Messages : Announces(m))
<1>1. UNCHANGED <<convs, whole, receipts>>
  BY DEF Dispatch, state
<1>2. CASE Head(up).t = "hello"
  BY <1>1, <1>2, DispatchKinds DEF Still
<1>3. CASE Head(up).t = "list"
  <2> DEFINE e == Res("list", registry, Head(up).txn)
  <2>1. /\ e \in Envelopes /\ down' = Append(down, e)
        /\ UNCHANGED <<ledger, arrivals, echoed>>
    BY <1>3, DispatchKinds
  <2>2. e.t = "list"
    BY DEF Res
  <2> HIDE DEF e
  <2>3. Tells(e)
    BY <1>1, <2>1, <2>2 DEF Tells
  <2> QED
    BY <2>1, <2>3
<1>4. CASE Head(up).t = "history"
  <2> DEFINE e == Res("history", History(Head(up).x), Head(up).txn)
  <2>1. /\ e \in Envelopes /\ down' = Append(down, e)
        /\ UNCHANGED <<ledger, arrivals, echoed>>
    BY <1>4, DispatchKinds
  <2>2. e.t = "history" /\ e.x = History(Head(up).x) /\ e.txn = Head(up).txn
    BY DEF Res
  <2>3. up # <<>>
    BY DEF Dispatch
  <2> HIDE DEF e
  <2>4. Tells(e)
    BY <1>1, <1>4, <2>1, <2>2, <2>3 DEF Tells
  <2> QED
    BY <2>1, <2>4
<1>5. CASE Head(up).t = "send"
  <2>1. Head(up).x \in Messages /\ Announce(Head(up).x, down)
    BY <1>5, DispatchKinds DEF Typed
  <2> QED
    BY <1>1, <2>1 DEF Announces
<1> QED
  BY <1>2, <1>3, <1>4, <1>5, DispatchKinds

(* An event that is told to a page that is connected, and to no other.     *)
LEMMA PushTells ==
  ASSUME NEW e \in Envelopes, e.t \notin {"chat", "history"}, down' = Push(down, e),
         e.t = "ack" => /\ e.x \in ledger
                        /\ receipts' = IF ws = "open" THEN receipts \cup {e.x} ELSE receipts,
         e.t # "ack" => receipts' = receipts,
         UNCHANGED <<convs, whole, echoed, ledger, arrivals>>
  PROVE  Still \/ Tells(e)
BY PushIs DEF Still, Tells

LEMMA DaemonTells ==
  ASSUME Types, \/ \E m \in Messages : InboundAck(m)
                \/ \E p \in Peers : PeerFound(p) \/ PeerGone(p)
                \/ \E S \in SUBSET Ids : RoomSynced(S)
                \/ \E d \in Ids : MemberJoined(d)
                \/ Kicked
  PROVE  Still \/ \E e \in Envelopes : Tells(e)
<1>1. ASSUME NEW m \in Messages, InboundAck(m)
      PROVE  Still \/ \E e \in Envelopes : Tells(e)
  <2> DEFINE e == Ev("ack", m)
  <2>1. m \in Typed /\ m \in ledger
    BY <1>1 DEF InboundAck
  <2>2. e \in Envelopes /\ e.t = "ack" /\ e.x = m
    BY <2>1, MadeEnvelopes, MadeEvents
  <2>3. /\ down' = Push(down, e)
        /\ receipts' = IF ws = "open" THEN receipts \cup {m} ELSE receipts
        /\ UNCHANGED <<convs, whole, echoed, ledger, arrivals>>
    BY <1>1 DEF InboundAck, state, daemon
  <2> HIDE DEF e
  <2> QED
    BY <2>1, <2>2, <2>3, PushTells
<1>2. ASSUME NEW p \in Peers, PeerFound(p)
      PROVE  Still \/ \E e \in Envelopes : Tells(e)
  <2> DEFINE e == Ev("discovery.peer_found", p)
  <2>1. e \in Envelopes /\ e.t = "discovery.peer_found"
    BY MadeEnvelopes, MadeEvents
  <2>2. down' = Push(down, e) /\ UNCHANGED <<convs, whole, echoed, receipts, ledger, arrivals>>
    BY <1>2 DEF PeerFound, state, here, ledgerHistory
  <2> HIDE DEF e
  <2> QED
    BY <2>1, <2>2, PushTells
<1>3. ASSUME NEW p \in Peers, PeerGone(p)
      PROVE  Still
  BY <1>3 DEF PeerGone, Still, state, here, ledgerHistory
<1>4. ASSUME NEW S \in SUBSET Ids, RoomSynced(S)
      PROVE  Still \/ \E e \in Envelopes : Tells(e)
  <2> DEFINE e == Ev("sync", S)
  <2>1. e \in Envelopes /\ e.t = "sync"
    BY MadeEnvelopes, MadeEvents
  <2>2. down' = Push(down, e) /\ UNCHANGED <<convs, whole, echoed, receipts, ledger, arrivals>>
    BY <1>4 DEF RoomSynced, state, ledgerHistory
  <2> HIDE DEF e
  <2> QED
    BY <2>1, <2>2, PushTells
<1>5. ASSUME NEW d \in Ids, MemberJoined(d)
      PROVE  Still \/ \E e \in Envelopes : Tells(e)
  <2> DEFINE e == Ev("member_joined", d)
  <2>1. e \in Envelopes /\ e.t = "member_joined"
    BY MadeEnvelopes, MadeEvents
  <2>2. down' = Push(down, e) /\ UNCHANGED <<convs, whole, echoed, receipts, ledger, arrivals>>
    BY <1>5 DEF MemberJoined, state, here, ledgerHistory
  <2> HIDE DEF e
  <2> QED
    BY <2>1, <2>2, PushTells
<1>6. ASSUME Kicked
      PROVE  Still \/ \E e \in Envelopes : Tells(e)
  <2> DEFINE e == Ev("member_left", Daemon)
  <2>1. e \in Envelopes /\ e.t = "member_left"
    BY MadeEnvelopes, MadeEvents DEF Ids
  <2>2. down' = Push(down, e) /\ UNCHANGED <<convs, whole, echoed, receipts, ledger, arrivals>>
    BY <1>6 DEF Kicked, state, here, ledgerHistory
  <2> HIDE DEF e
  <2> QED
    BY <2>1, <2>2, PushTells
<1> QED
  BY <1>1, <1>2, <1>3, <1>4, <1>5, <1>6

LEMMA StepKinds ==
  ASSUME Types, [Next]_vars
  PROVE  \/ Still \/ Ends
         \/ \E e \in Envelopes : Tells(e)
         \/ \E m \in Messages : Announces(m)
         \/ OnMessage
<1>1. CASE OnOpen \/ OnClose \/ Connect \/ Reload
  BY <1>1, EndOrStart
<1>2. CASE \/ Login
           \/ \E k \in Keys : OpenConversation(k)
           \/ \E m \in Messages : SendText(m)
           \/ \E r \in pending : RequestTimesOut(r)
           \/ UNCHANGED vars
  BY <1>2, UserIsStill
<1>3. CASE Dispatch
  BY <1>3, DispatchTells
<1>4. ASSUME NEW m \in Messages, Inbound(m)
      PROVE  Announces(m)
  BY <1>4 DEF Inbound, Announces, state
<1>5. CASE \/ \E m \in Messages : InboundAck(m)
           \/ \E p \in Peers : PeerFound(p) \/ PeerGone(p)
           \/ \E S \in SUBSET Ids : RoomSynced(S)
           \/ \E d \in Ids : MemberJoined(d)
           \/ Kicked
  BY <1>5, DaemonTells
<1> QED
  BY <1>1, <1>2, <1>3, <1>4, <1>5 DEF Next

(* A message from the daemon: lines stay; where the new ones come from.    *)
Origin(k, n) ==
  \/ n \in DOMAIN convs[k] /\ convs'[k][n].m = convs[k][n].m
  \/ /\ n \notin DOMAIN convs[k]
     /\ convs'[k][n].m \in Messages /\ Filing(convs'[k][n].m) = k
     /\ \/ Head(down).t = "chat" /\ convs'[k][n].m = Head(down).x
        \/ Head(down).t = "history" /\ convs'[k][n].m \in Head(down).x \ Shown(convs[k])

LEMMA SameLinesOrigin ==
  ASSUME SameLines
  PROVE  /\ Grown
         /\ \A k \in Keys : \A n \in DOMAIN convs'[k] : n \in DOMAIN convs[k] /\ Origin(k, n)
BY SameLinesGrow DEF SameLines, Origin

LEMMA PageReads ==
  ASSUME Types, MatchInv, OnMessage
  PROVE  /\ Grown
         /\ \A k \in Keys : \A n \in DOMAIN convs'[k] : Origin(k, n)
         /\ \A k \in Keys : \A i, j \in DOMAIN convs'[k] \ DOMAIN convs[k] :
               convs'[k][i].m = convs'[k][j].m => i = j
<1>1. /\ down \in Seq(Envelopes) /\ down # <<>> /\ LinesOK
      /\ Head(down) \in Envelopes
  BY TailElems DEF Types, WireOK, OnMessage
<1>2. CASE ReadChat
  <2> DEFINE m == Head(down).x
             f == Filing(m)
  <2>1. m \in Messages /\ PushMessage(m)
    BY <1>1, <1>2, EnvelopeKinds DEF ReadChat
  <2>2. /\ LinesOK' /\ OnlyBehind(Filing(m))
        /\ \A n \in DOMAIN convs'[Filing(m)] :
              n \in DOMAIN convs[Filing(m)] \/ n = Len(convs[Filing(m)]) + 1
        /\ Len(convs[Filing(m)]) + 1 \in DOMAIN convs'[Filing(m)]
        /\ convs'[Filing(m)][Len(convs[Filing(m)]) + 1].m = m
    BY <1>1, <2>1, PushMessageAdds
  <2>3. f \in Keys
    BY <2>1, FilingIsKey
  <2>4. Grown
    BY <2>2, <2>3, BehindGrows
  <2>5. \A k \in Keys : \A n \in DOMAIN convs'[k] : Origin(k, n)
    BY <1>2, <2>1, <2>2 DEF ReadChat, Origin, OnlyBehind
  <2>6. \A k \in Keys : \A i, j \in DOMAIN convs'[k] \ DOMAIN convs[k] : i = j
    BY <2>2 DEF OnlyBehind
  <2> QED
    BY <2>4, <2>5, <2>6
<1>3. ASSUME NEW p \in pending, ReadHistory(p)
      PROVE  /\ Grown
             /\ \A k \in Keys : \A n \in DOMAIN convs'[k] : Origin(k, n)
             /\ \A k \in Keys : \A i, j \in DOMAIN convs'[k] \ DOMAIN convs[k] :
                   convs'[k][i].m = convs'[k][j].m => i = j
  <2> DEFINE f == p.x
             items == Head(down).x
             old == Len(convs[f])
  <2>1. f \in Keys /\ items \in SUBSET Messages
    BY <1>1, <1>3, AskedFor
  <2>2. LinesOK' /\ OnlyBehind(f) /\ \E c, added : Loads(f, items, c, added)
    BY <1>1, <1>3, <2>1, LoadHistoryAdds DEF ReadHistory
  <2>3. PICK c, added : Loads(f, items, c, added)
    BY <2>2
  <2>4. /\ convs[f] \in Seq(Line) /\ convs'[f] \in Seq(Line) /\ c \in Nat
        /\ Len(convs'[f]) = old + c
    BY <1>1, <2>1, <2>2, <2>3 DEF Loads, LinesOK
  <2>5. ASSUME NEW n \in DOMAIN convs'[f], n \notin DOMAIN convs[f]
        PROVE  /\ n - old \in 1..c /\ n - old \in Int
               /\ convs'[f][n].m = added[n - old]
               /\ convs'[f][n].m \in Missing(f, items)
    <3>1. old \in Nat /\ n \in 1..(old + c) /\ n \notin 1..old
      BY <2>4, <2>5
    <3>2. n - old \in 1..c /\ old + (n - old) = n
      <4> HIDE DEF old
      <4> QED
        BY <2>4, <3>1
    <3>3. convs'[f][old + (n - old)].m = added[n - old]
      BY <2>3, <3>2 DEF Loads
    <3>4. added[n - old] \in Missing(f, items)
      BY <2>3, <3>2 DEF Loads
    <3> QED
      BY <3>2, <3>3, <3>4
  <2>6. \A k \in Keys : \A n \in DOMAIN convs'[k] : Origin(k, n)
    <3>1. ASSUME NEW n \in DOMAIN convs'[f], n \notin DOMAIN convs[f]
          PROVE  Origin(f, n)
      <4>1. convs'[f][n].m \in Missing(f, items)
        BY <2>5, <3>1
      <4>2. /\ convs'[f][n].m \in Messages /\ Filing(convs'[f][n].m) = f
            /\ convs'[f][n].m \in items \ Shown(convs[f])
        BY <2>1, <4>1, FilingIsKey DEF Missing
      <4> QED
        BY <1>3, <3>1, <4>2 DEF ReadHistory, Origin
    <3>2. ASSUME NEW k \in Keys, NEW n \in DOMAIN convs'[k], k # f \/ n \in DOMAIN convs[k]
          PROVE  Origin(k, n)
      BY <2>2, <3>2 DEF OnlyBehind, Origin
    <3> QED
      BY <3>1, <3>2
  <2>7. ASSUME NEW k \in Keys, NEW i \in DOMAIN convs'[k] \ DOMAIN convs[k],
               NEW j \in DOMAIN convs'[k] \ DOMAIN convs[k], convs'[k][i].m = convs'[k][j].m
        PROVE  i = j
    <3>1. k = f
      BY <2>2, <2>7 DEF OnlyBehind
    <3>2. i - old \in 1..c /\ j - old \in 1..c /\ added[i - old] = added[j - old]
      BY <2>5, <2>7, <3>1
    <3>3. i - old = j - old
      BY <2>3, <3>2 DEF Loads
    <3>4. i \in Nat /\ j \in Nat /\ old \in Nat
      BY <2>4, <3>1
    <3> QED
      BY <3>3, <3>4
  <2>8. Grown
    BY <2>1, <2>2, BehindGrows
  <2> QED
    BY <2>6, <2>7, <2>8
<1>4. CASE ReadAck \/ ReadOther
  <2>1. SameLines
    BY <1>1, <1>4, MarkDeliveredMarks, UnchangedLines DEF ReadAck, ReadOther
  <2> QED
    BY <2>1, SameLinesOrigin
<1> QED
  BY <1>2, <1>3, <1>4, MessageKinds

(* What is left to read was there before, one place behind.                *)
LEMMA StillToRead ==
  ASSUME Types, OnMessage
  PROVE  /\ 1 \in DOMAIN down /\ Head(down) = down[1]
         /\ \A n \in DOMAIN down' : n \in Nat \ {0} /\ n + 1 \in DOMAIN down
                                    /\ down'[n] = down[n + 1]
         /\ \A n \in DOMAIN down : n \in Nat /\ (n = 1 \/ (n - 1 \in DOMAIN down'
                                                          /\ down'[n - 1] = down[n]))
BY TailElems DEF Types, WireOK, OnMessage

(* The queue to the page after an event, if it is told.                    *)
LEMMA ToldBehind ==
  ASSUME Types, NEW e \in Envelopes, down' \in {down, Append(down, e)}
  PROVE  /\ \A n \in DOMAIN down : n \in DOMAIN down' /\ down'[n] = down[n]
         /\ \A n \in DOMAIN down' : n \in DOMAIN down \/ (n = Len(down) + 1 /\ down'[n] = e)
         /\ \A n \in DOMAIN down : n \in Nat /\ n < Len(down) + 1
<1>1. down \in Seq(Envelopes)
  BY DEF Types, WireOK
<1>2. \A n \in DOMAIN down : n \in Nat /\ n < Len(down) + 1
  BY <1>1
<1> QED
  BY <1>1, <1>2, AppendElems

------------------------------------------------------------------------------
(***************************************************************************)
(* What the page shows, and what is on its way to it, is in the ledger.    *)
(***************************************************************************)
Backed(e) ==
  /\ e.t = "chat" => e.x \in ledger
  /\ e.t = "history" => e.x \subseteq ledger
  /\ e.t = "ack" => e.x \in receipts

LedgerInv ==
  /\ \A m \in ledger : arrivals[m] >= 1
  /\ receipts \subseteq ledger
  /\ \A k \in Keys : \A n \in DOMAIN convs[k] :
        convs[k][n].m \in ledger /\ Filing(convs[k][n].m) = k
  /\ \A n \in DOMAIN down : Backed(down[n])

LEMMA LedgerStep ==
  ASSUME Types, MatchInv, LedgerInv, [Next]_vars
  PROVE  LedgerInv'
<1>1. CASE Still
  BY <1>1 DEF Still, LedgerInv, Backed
<1>2. CASE Ends
  <2>1. \A k \in Keys : \A n \in DOMAIN convs'[k] :
           convs'[k][n].m \in ledger /\ Filing(convs'[k][n].m) = k
    BY <1>2 DEF Ends, LedgerInv, NoConversation
  <2> QED
    BY <1>2, <2>1 DEF Ends, LedgerInv
<1>3. ASSUME NEW e \in Envelopes, Tells(e)
      PROVE  LedgerInv'
  <2>1. /\ UNCHANGED <<convs, ledger, arrivals>> /\ down' = Append(down, e)
        /\ receipts \subseteq receipts' /\ receipts' \subseteq ledger
    BY <1>3 DEF Tells, LedgerInv
  <2>2. Backed(e)'
    BY <1>3, HistoryIsLedger DEF Tells, Backed
  <2>3. \A n \in DOMAIN down : Backed(down[n])'
    <3>1. \A n \in DOMAIN down : n \in DOMAIN down' /\ down'[n] = down[n]
      BY <2>1, ToldBehind
    <3> QED
      BY <2>1, <3>1 DEF Backed, LedgerInv
  <2>4. \A n \in DOMAIN down' : Backed(down[n])'
    <3>1. ASSUME NEW n \in DOMAIN down', n = Len(down) + 1, down'[n] = e
          PROVE  Backed(down[n])'
      BY <2>2, <3>1 DEF Backed
    <3> QED
      BY <2>1, <2>3, <3>1, ToldBehind
  <2> QED
    BY <2>1, <2>4 DEF LedgerInv
<1>4. ASSUME NEW m \in Messages, Announces(m)
      PROVE  LedgerInv'
  <2> DEFINE e == Ev("chat", m)
  <2>1. /\ UNCHANGED <<convs, receipts>> /\ ledger' = ledger \cup {m}
        /\ down' \in {down, Append(down, e)}
        /\ arrivals' = [arrivals EXCEPT ![m] = @ + 1]
    BY <1>4, PushIs DEF Announces, Announce
  <2>2. e \in Envelopes /\ e.t = "chat" /\ e.x = m
    BY MadeEnvelopes, MadeEvents
  <2> HIDE DEF e
  <2>3. \A n \in DOMAIN down' : Backed(down[n])'
    <3>1. ASSUME NEW n \in DOMAIN down
          PROVE  Backed(down[n])'
      <4>1. down'[n] = down[n]
        BY <2>1, <2>2, ToldBehind
      <4> QED
        BY <2>1, <4>1 DEF Backed, LedgerInv
    <3>2. ASSUME NEW n \in DOMAIN down', n = Len(down) + 1, down'[n] = e
          PROVE  Backed(down[n])'
      BY <2>1, <2>2, <3>2 DEF Backed
    <3> QED
      BY <2>1, <2>2, <3>1, <3>2, ToldBehind
  <2>4. \A n \in ledger' : arrivals'[n] >= 1
    <3>1. arrivals \in [Messages -> Nat] /\ ledger \subseteq Messages
      BY DEF Types, DaemonOK
    <3> QED
      BY <2>1, <3>1 DEF LedgerInv
  <2> QED
    BY <2>1, <2>3, <2>4 DEF LedgerInv
<1>5. CASE OnMessage
  <2>1. UNCHANGED <<ledger, arrivals, receipts>>
    BY <1>5 DEF OnMessage, daemon, ledgerHistory
  <2>2. Backed(Head(down))
    BY <1>5, StillToRead DEF LedgerInv
  <2>3. \A k \in Keys : \A n \in DOMAIN convs'[k] :
           convs'[k][n].m \in ledger /\ Filing(convs'[k][n].m) = k
    BY <1>5, <2>2, PageReads DEF Origin, Backed, LedgerInv
  <2>4. \A n \in DOMAIN down' : Backed(down[n])'
    BY <1>5, <2>1, StillToRead DEF Backed, LedgerInv
  <2> QED
    BY <2>1, <2>3, <2>4 DEF LedgerInv
<1> QED
  BY <1>1, <1>2, <1>3, <1>4, <1>5, StepKinds

LEMMA LedgerHolds == Spec => []LedgerInv
<1>1. Init => LedgerInv
  BY EmptyElems DEF Init, NoConversation, LedgerInv
<1>2. Types /\ MatchInv /\ LedgerInv /\ [Next]_vars => LedgerInv'
  BY LedgerStep
<1> QED
  BY <1>1, <1>2, TypesHold, PTL DEF Spec

------------------------------------------------------------------------------
(***************************************************************************)
(* A message that came once has one line, or its event is on the way and   *)
(* no history in front of the event has it.                                *)
(***************************************************************************)
OneLine(m) ==
  \A i, j \in DOMAIN convs[Filing(m)] :
    convs[Filing(m)][i].m = m /\ convs[Filing(m)][j].m = m => i = j

OneEvent(m) == \A i, j \in DOMAIN down : down[i] = Ev("chat", m) /\ down[j] = Ev("chat", m) => i = j

NotEarlier(m) ==
  \A i \in DOMAIN down : down[i] = Ev("chat", m) =>
    /\ m \notin Shown(convs[Filing(m)])
    /\ \A j \in DOMAIN down : j < i /\ down[j].t = "history" => m \notin down[j].x

Once(m) == arrivals[m] < 2 => OneLine(m) /\ OneEvent(m) /\ NotEarlier(m)

OnceInv == \A m \in Messages : Once(m)

(* Nothing of a message in an event that is told, nor in what was told.    *)
LEMMA OnceTold ==
  ASSUME Types, NEW m \in Messages, OneLine(m), OneEvent(m), NotEarlier(m), convs' = convs,
         NEW e \in Envelopes, e # Ev("chat", m), down' \in {down, Append(down, e)}
  PROVE  (OneLine(m) /\ OneEvent(m) /\ NotEarlier(m))'
<1>1. /\ \A n \in DOMAIN down : n \in DOMAIN down' /\ down'[n] = down[n] /\ n \in Nat
                                /\ n < Len(down) + 1
      /\ \A n \in DOMAIN down' : n \in DOMAIN down \/ (n = Len(down) + 1 /\ down'[n] = e)
  BY ToldBehind
<1>2. OneLine(m)'
  BY DEF OneLine
<1>3. OneEvent(m)'
  BY <1>1 DEF OneEvent
<1>4. NotEarlier(m)'
  <2>1. ASSUME NEW i \in DOMAIN down', down'[i] = Ev("chat", m)
        PROVE  /\ m \notin Shown(convs[Filing(m)])'
               /\ \A j \in DOMAIN down' : j < i /\ down'[j].t = "history" => m \notin down'[j].x
    <3>1. i \in DOMAIN down /\ down[i] = Ev("chat", m)
      BY <1>1, <2>1
    <3>2. /\ m \notin Shown(convs[Filing(m)])
          /\ \A j \in DOMAIN down : j < i /\ down[j].t = "history" => m \notin down[j].x
      BY <3>1 DEF NotEarlier
    <3>3. ASSUME NEW j \in DOMAIN down', j < i
          PROVE  j \in DOMAIN down
      <4>1. Len(down) \in Nat /\ i \in Nat /\ i < Len(down) + 1
        BY <1>1, <3>1 DEF Types, WireOK
      <4> QED
        BY <1>1, <3>3, <4>1
    <3> QED
      BY <1>1, <3>2, <3>3 DEF Shown
  <2> QED
    BY <2>1 DEF NotEarlier
<1> QED
  BY <1>2, <1>3, <1>4

(* A message that is new to the ledger is in nothing that is told.         *)
LEMMA OnceNew ==
  ASSUME Types, LedgerInv, NEW m \in Messages, m \notin ledger, convs' = convs,
         down' \in {down, Append(down, Ev("chat", m))}
  PROVE  (OneLine(m) /\ OneEvent(m) /\ NotEarlier(m))'
<1> DEFINE e == Ev("chat", m)
<1>1. e \in Envelopes /\ e.t = "chat" /\ e.x = m
  BY MadeEnvelopes, MadeEvents
<1>2. /\ \A n \in DOMAIN down : down[n] # e /\ (down[n].t = "history" => m \notin down[n].x)
      /\ \A n \in DOMAIN convs[Filing(m)] : convs[Filing(m)][n].m # m
  BY <1>1, FilingIsKey DEF LedgerInv, Backed
<1> HIDE DEF e
<1>3. down' \in {down, Append(down, e)}
  BY DEF e
<1>4. /\ \A n \in DOMAIN down : n \in DOMAIN down' /\ down'[n] = down[n] /\ n \in Nat
                                /\ n < Len(down) + 1
      /\ \A n \in DOMAIN down' : n \in DOMAIN down \/ (n = Len(down) + 1 /\ down'[n] = e)
  BY <1>1, <1>3, ToldBehind
<1>5. OneLine(m)'
  BY <1>2 DEF OneLine
<1>6. OneEvent(m)'
  BY <1>2, <1>4 DEF OneEvent, e
<1>7. NotEarlier(m)'
  <2>1. m \notin Shown(convs[Filing(m)])'
    BY <1>2 DEF Shown
  <2>2. \A j \in DOMAIN down' : down'[j].t = "history" => m \notin down'[j].x
    BY <1>1, <1>2, <1>4
  <2> QED
    BY <2>1, <2>2 DEF NotEarlier
<1> QED
  BY <1>5, <1>6, <1>7

LEMMA OnceRead ==
  ASSUME Types, MatchInv, OnMessage, NEW m \in Messages, OneLine(m), OneEvent(m), NotEarlier(m)
  PROVE  (OneLine(m) /\ OneEvent(m) /\ NotEarlier(m))'
<1> DEFINE f == Filing(m)
           chat == Ev("chat", m)
<1>1. f \in Keys /\ f = Filing(m)
  BY FilingIsKey
<1> HIDE DEF f
<1>2. /\ Grown
      /\ \A n \in DOMAIN convs'[f] : Origin(f, n)
      /\ \A i, j \in DOMAIN convs'[f] \ DOMAIN convs[f] : convs'[f][i].m = convs'[f][j].m => i = j
  BY <1>1, PageReads
<1>3. Head(down).t = "chat" => Head(down) = Ev("chat", Head(down).x)
  BY EnvelopeKinds, TailElems DEF Types, WireOK, OnMessage
<1>4. Head(down) = chat => m \notin Shown(convs[f])
  BY <1>1, StillToRead DEF NotEarlier
<1>5. ASSUME NEW n \in DOMAIN convs'[f], convs'[f][n].m = m, n \notin DOMAIN convs[f]
      PROVE  /\ m \notin Shown(convs[f])
             /\ Head(down) = chat \/ (Head(down).t = "history" /\ m \in Head(down).x)
  BY <1>2, <1>3, <1>4, <1>5 DEF Origin
<1>6. OneLine(m)'
  <2>1. ASSUME NEW i \in DOMAIN convs'[f], NEW j \in DOMAIN convs'[f],
               convs'[f][i].m = m, convs'[f][j].m = m
        PROVE  i = j
    <3>1. CASE i \in DOMAIN convs[f] /\ j \in DOMAIN convs[f]
      BY <1>1, <1>2, <2>1, <3>1 DEF OneLine, Grown, Keeps
    <3>2. CASE i \notin DOMAIN convs[f] /\ j \notin DOMAIN convs[f]
      BY <1>2, <2>1, <3>2
    <3>3. ASSUME NEW a \in DOMAIN convs'[f], NEW b \in DOMAIN convs[f],
                 convs'[f][a].m = m, convs'[f][b].m = m, a \notin DOMAIN convs[f]
          PROVE  FALSE
      <4>1. convs[f][b].m = m
        BY <1>1, <1>2, <3>3 DEF Grown, Keeps
      <4>2. m \in Shown(convs[f])
        BY <3>3, <4>1 DEF Shown
      <4> QED
        BY <1>5, <3>3, <4>2
    <3> QED
      BY <2>1, <3>1, <3>2, <3>3
  <2> QED
    BY <1>1, <2>1 DEF OneLine
<1>7. OneEvent(m)'
  <2>1. ASSUME NEW i \in DOMAIN down', NEW j \in DOMAIN down', down'[i] = chat, down'[j] = chat
        PROVE  i = j
    <3>1. /\ i \in Nat /\ j \in Nat /\ i + 1 \in DOMAIN down /\ j + 1 \in DOMAIN down
          /\ down[i + 1] = chat /\ down[j + 1] = chat
      BY <2>1, StillToRead
    <3>2. i + 1 = j + 1
      BY <3>1 DEF OneEvent
    <3> QED
      BY <3>1, <3>2
  <2> QED
    BY <2>1 DEF OneEvent
<1>8. NotEarlier(m)'
  <2>1. ASSUME NEW i \in DOMAIN down', down'[i] = chat
        PROVE  /\ m \notin Shown(convs[f])'
               /\ \A j \in DOMAIN down' : j < i /\ down'[j].t = "history" => m \notin down'[j].x
    <3>1. i \in Nat \ {0} /\ i + 1 \in DOMAIN down /\ down[i + 1] = chat
      BY <2>1, StillToRead
    <3>2. /\ m \notin Shown(convs[f])
          /\ \A j \in DOMAIN down : j < i + 1 /\ down[j].t = "history" => m \notin down[j].x
      BY <1>1, <3>1 DEF NotEarlier
    <3>3. Head(down) # chat
      <4>1. 1 \in DOMAIN down /\ Head(down) = down[1] /\ i + 1 # 1
        BY <3>1, StillToRead
      <4> QED
        BY <3>1, <4>1 DEF OneEvent
    <3>4. Head(down).t = "history" => m \notin Head(down).x
      BY <3>1, <3>2, StillToRead
    <3>5. \A n \in DOMAIN convs'[f] : convs'[f][n].m # m
      <4>1. ASSUME NEW n \in DOMAIN convs'[f], convs'[f][n].m = m
            PROVE  FALSE
        <5>1. n \in DOMAIN convs[f]
          BY <1>5, <3>3, <3>4, <4>1
        <5>2. convs[f][n].m = m
          BY <1>1, <1>2, <4>1, <5>1 DEF Grown, Keeps
        <5> QED
          BY <3>2, <5>1, <5>2 DEF Shown
      <4> QED
        BY <4>1
    <3>6. \A j \in DOMAIN down' : j < i /\ down'[j].t = "history" => m \notin down'[j].x
      <4>1. ASSUME NEW j \in DOMAIN down', j < i
            PROVE  j + 1 \in DOMAIN down /\ j + 1 < i + 1 /\ down'[j] = down[j + 1]
        BY <3>1, <4>1, StillToRead
      <4> QED
        BY <3>2, <4>1
    <3> QED
      BY <3>5, <3>6 DEF Shown
  <2> QED
    BY <1>1, <2>1 DEF NotEarlier
<1> QED
  BY <1>6, <1>7, <1>8

LEMMA OnceStep ==
  ASSUME Types, MatchInv, LedgerInv, OnceInv, [Next]_vars
  PROVE  OnceInv'
<1> SUFFICES ASSUME NEW m \in Messages, arrivals'[m] < 2
             PROVE  (OneLine(m) /\ OneEvent(m) /\ NotEarlier(m))'
  BY DEF OnceInv, Once
<1>1. CASE Still
  BY <1>1 DEF Still, OnceInv, Once, OneLine, OneEvent, NotEarlier, Shown
<1>2. CASE Ends
  <2>1. arrivals[m] < 2 /\ down' = <<>>
    BY <1>2 DEF Ends
  <2>2. OneLine(m)'
    BY <1>2, <2>1, FilingIsKey DEF Ends, NoConversation, OnceInv, Once, OneLine
  <2> QED
    BY <2>1, <2>2 DEF OneEvent, NotEarlier
<1>3. ASSUME NEW e \in Envelopes, Tells(e)
      PROVE  (OneLine(m) /\ OneEvent(m) /\ NotEarlier(m))'
  <2>1. /\ e # Ev("chat", m) /\ arrivals[m] < 2
        /\ convs' = convs /\ down' \in {down, Append(down, e)}
    BY <1>3, MadeEvents DEF Tells
  <2> QED
    BY <2>1, OnceTold DEF OnceInv, Once
<1>4. ASSUME NEW n \in Messages, Announces(n)
      PROVE  (OneLine(m) /\ OneEvent(m) /\ NotEarlier(m))'
  <2>1. /\ convs' = convs /\ down' \in {down, Append(down, Ev("chat", n))}
        /\ arrivals' = [arrivals EXCEPT ![n] = @ + 1]
        /\ arrivals \in [Messages -> Nat]
    BY <1>4, PushIs DEF Announces, Announce, Types, DaemonOK
  <2>2. CASE n = m
    <3>1. arrivals[m] < 1
      BY <2>1, <2>2
    <3>2. m \notin ledger
      BY <2>1, <3>1 DEF LedgerInv
    <3> QED
      BY <2>1, <2>2, <3>2, OnceNew
  <2>3. CASE n # m
    <3>1. /\ arrivals[m] < 2 /\ Ev("chat", n) # Ev("chat", m)
          /\ Ev("chat", n) \in Envelopes
      BY <2>1, <2>3, MadeEvents, MadeEnvelopes
    <3> QED
      BY <2>1, <3>1, OnceTold DEF OnceInv, Once
  <2> QED
    BY <2>2, <2>3
<1>5. CASE OnMessage
  <2>1. arrivals[m] < 2
    BY <1>5 DEF OnMessage, ledgerHistory
  <2> QED
    BY <1>5, <2>1, OnceRead DEF OnceInv, Once
<1> QED
  BY <1>1, <1>2, <1>3, <1>4, <1>5, StepKinds

LEMMA OnceHolds == Spec => []OnceInv
<1>1. Init => OnceInv
  BY EmptyElems, FilingIsKey
     DEF Init, NoConversation, OnceInv, Once, OneLine, OneEvent, NotEarlier
<1>2. Types /\ MatchInv /\ LedgerInv /\ OnceInv /\ [Next]_vars => OnceInv'
  BY OnceStep
<1> QED
  BY <1>1, <1>2, TypesHold, LedgerHolds, PTL DEF Spec

LEMMA OneLineShown ==
  ASSUME LedgerInv, OnceInv
  PROVE  ShownOnce
<1> SUFFICES ASSUME NEW m \in Messages, arrivals[m] < 2
             PROVE  Cardinality(Showings(m)) < 2
  BY DEF ShownOnce
<1>1. \A x, y \in Showings(m) : x = y
  <2>1. ASSUME NEW x \in Showings(m)
        PROVE  /\ x = <<x[1], x[2]>> /\ x[1] = Filing(m)
               /\ x[2] \in DOMAIN convs[Filing(m)] /\ convs[Filing(m)][x[2]].m = m
    BY <2>1 DEF Showings, LedgerInv
  <2> QED
    BY <2>1 DEF OnceInv, Once, OneLine
<1>2. CASE Showings(m) = {}
  BY <1>2, FS_EmptySet
<1>3. ASSUME NEW x \in Showings(m)
      PROVE  Cardinality(Showings(m)) < 2
  <2>1. Showings(m) = {x}
    BY <1>1
  <2>2. Cardinality({x}) = 1
    BY FS_Singleton, Zenon
  <2> QED
    BY <2>1, <2>2
<1> QED
  BY <1>2, <1>3

(***************************************************************************)
(* A message that came to the daemon once is shown once: on its way to the *)
(* page there is either its event, with no history in front of it that has *)
(* it, or it is shown, and then only a history comes, which is merged.     *)
(***************************************************************************)
THEOREM NothingShownTwice == Spec => []ShownOnce
  BY LedgerHolds, OnceHolds, OneLineShown, PTL

------------------------------------------------------------------------------
(***************************************************************************)
(* Nothing that the daemon has is lost on the way to the page: a message   *)
(* is shown, or its event is on the way.  What the user wrote to a single  *)
(* peer is left out.                                                       *)
(***************************************************************************)
Filed(m) == \/ m \in Typed /\ Dest[m] # Room
            \/ m \in Shown(convs[ConvKey(m)])
            \/ OnItsWay(Ev("chat", m))

(* The answer to a request for a history has all of it that is not filed.  *)
CoverInv ==
  \A p \in pending : p.t = "history" =>
    \A n \in DOMAIN down : down[n].txn = p.txn =>
      \A m \in History(p.x) : m \in down[n].x \/ Filed(m)

CompleteInv == \A k \in whole : \A m \in History(k) : Filed(m)

LEMMA FiledTold ==
  ASSUME Types, NEW m, Filed(m), convs' = convs, NEW e \in Envelopes, down' \in {down, Append(down, e)}
  PROVE  Filed(m)'
<1>1. OnItsWay(Ev("chat", m)) => OnItsWay(Ev("chat", m))'
  BY ToldBehind DEF OnItsWay
<1> QED
  BY <1>1 DEF Filed, Shown, ConvKey

LEMMA ChatShown ==
  ASSUME Types, OnMessage, NEW m \in Messages, Head(down) = Ev("chat", m)
  PROVE  m \in Shown(convs[Filing(m)])'
<1>1. Head(down).t = "chat" /\ Head(down).x = m /\ Head(down).txn = 0 /\ LinesOK
  BY MadeEvents DEF Types
<1>2. PushMessage(m)
  BY <1>1 DEF OnMessage, OnEvent
<1>3. /\ Len(convs[Filing(m)]) + 1 \in DOMAIN convs'[Filing(m)]
      /\ convs'[Filing(m)][Len(convs[Filing(m)]) + 1].m = m
  BY <1>1, <1>2, PushMessageAdds
<1> QED
  BY <1>3 DEF Shown

LEMMA HistoryShown ==
  ASSUME Types, MatchInv, OnMessage, NEW p \in pending, ReadHistory(p),
         NEW m \in Head(down).x, Filing(m) = p.x
  PROVE  m \in Shown(convs[p.x])'
<1>1. down # <<>> /\ LinesOK
  BY DEF OnMessage, Types
<1>2. p.x \in Keys /\ Head(down).x \in SUBSET Messages
  BY <1>1, AskedFor
<1>3. LoadHistory(p.x, Head(down).x)
  BY DEF ReadHistory
<1>4. LinesOK' /\ OnlyBehind(p.x) /\ \E c, added : Loads(p.x, Head(down).x, c, added)
  BY <1>1, <1>2, <1>3, LoadHistoryAdds
<1>5. CASE m \in Shown(convs[p.x])
  BY <1>2, <1>4, <1>5, BehindGrows, ShownStays
<1>6. CASE m \notin Shown(convs[p.x])
  <2>1. m \in Missing(p.x, Head(down).x)
    BY <1>2, <1>6, FilingIsKey DEF Missing
  <2>2. PICK c, added : Loads(p.x, Head(down).x, c, added)
    BY <1>4
  <2>3. PICK n \in 1..c : added[n] = m
    BY <2>1, <2>2 DEF Loads
  <2>4. convs'[p.x][Len(convs[p.x]) + n].m = m
    BY <2>2, <2>3 DEF Loads
  <2>5. Len(convs[p.x]) + n \in DOMAIN convs'[p.x]
    <3>1. /\ convs[p.x] \in Seq(Line) /\ convs'[p.x] \in Seq(Line) /\ c \in Nat
          /\ Len(convs'[p.x]) = Len(convs[p.x]) + c
      BY <1>1, <1>2, <1>4, <2>2 DEF LinesOK, Loads
    <3> QED
      BY <2>3, <3>1
  <2> QED
    BY <2>4, <2>5 DEF Shown
<1> QED
  BY <1>5, <1>6

LEMMA FiledRead ==
  ASSUME Types, MatchInv, OnMessage, NEW m \in Messages, Filed(m)
  PROVE  Filed(m)'
<1>1. CASE m \in Typed /\ Dest[m] # Room
  BY <1>1 DEF Filed
<1>2. CASE m \in Shown(convs[ConvKey(m)])
  <2>1. ConvKey(m) \in Keys /\ Grown
    BY FilingIsKey, PageReads
  <2>2. m \in Shown(convs[ConvKey(m)])'
    <3> DEFINE k == ConvKey(m)
    <3>1. k \in Keys /\ m \in Shown(convs[k])
      BY <1>2, <2>1
    <3> HIDE DEF k
    <3>2. m \in Shown(convs[k])'
      BY <2>1, <3>1, ShownStays
    <3> QED
      BY <3>2 DEF k, Shown, ConvKey
  <2> QED
    BY <2>2 DEF Filed
<1>3. ASSUME NEW n \in DOMAIN down, down[n] = Ev("chat", m)
      PROVE  Filed(m)'
  <2>1. CASE n = 1
    <3>1. m \in Shown(convs[Filing(m)])'
      BY <1>3, <2>1, StillToRead, ChatShown
    <3>2. CASE ConvKey(m) = Filing(m)
      BY <3>1, <3>2 DEF Filed, Shown, ConvKey, Filing
    <3>3. CASE ConvKey(m) # Filing(m)
      BY <3>3, FilingIsKey DEF Filed
    <3> QED
      BY <3>2, <3>3
  <2>2. CASE n # 1
    <3>1. n - 1 \in DOMAIN down' /\ down'[n - 1] = Ev("chat", m)
      BY <1>3, <2>2, StillToRead
    <3> QED
      BY <3>1 DEF Filed, OnItsWay
  <2> QED
    BY <2>1, <2>2
<1> QED
  BY <1>1, <1>2, <1>3 DEF Filed, OnItsWay

(* A request that a step makes is not answered in it.                      *)
LEMMA NotYetAnswered ==
  ASSUME Types, MatchInv, [Next]_vars, NEW p \in pending', p \notin pending,
         NEW n \in DOMAIN down'
  PROVE  down'[n].txn # p.txn
<1>0. /\ txn \in Nat /\ down \in Seq(Envelopes)
      /\ \A i \in DOMAIN down : down[i].txn \in Nat /\ down[i].txn <= txn
  <2>1. txn \in Nat /\ down \in Seq(Envelopes)
    BY DEF Types, WireOK
  <2>2. \A i \in DOMAIN down : down[i] \in Envelopes
    BY <2>1
  <2> QED
    BY <2>1, <2>2, EnvelopeKinds DEF MatchInv
<1>1. CASE Login
  <2>1. down' = down /\ p.txn = txn + 2
    BY <1>1 DEF Login, Req
  <2> QED
    BY <1>0, <2>1
<1>2. ASSUME NEW k \in Keys, OpenConversation(k)
      PROVE  down'[n].txn # p.txn
  <2>1. down' = down /\ p.txn = txn + 1
    BY <1>2 DEF OpenConversation, Req
  <2> QED
    BY <1>0, <2>1
<1>3. CASE OnMessage
  BY <1>3, MessageKinds DEF ReadChat, ReadAck, ReadHistory, ReadOther
<1>4. CASE OnOpen \/ OnClose \/ Connect \/ Reload
  BY <1>4 DEF OnOpen, OnClose, Connect, Reload, client
<1>5. CASE \/ Dispatch
           \/ \E m \in Messages : SendText(m) \/ Inbound(m) \/ InboundAck(m)
           \/ \E r \in pending : RequestTimesOut(r)
           \/ UNCHANGED vars
  BY <1>5 DEF Dispatch, SendText, Inbound, InboundAck, RequestTimesOut, vars, client
<1>6. CASE \/ \E q \in Peers : PeerFound(q) \/ PeerGone(q)
           \/ \E S \in SUBSET Ids : RoomSynced(S)
           \/ \E d \in Ids : MemberJoined(d)
           \/ Kicked
  BY <1>6 DEF PeerFound, PeerGone, RoomSynced, MemberJoined, Kicked, client
<1> QED
  BY <1>1, <1>2, <1>3, <1>4, <1>5, <1>6 DEF Next

LEMMA CoverStep ==
  ASSUME Types, MatchInv, QuietInv, CoverInv, Types', MatchInv', [Next]_vars
  PROVE  CoverInv'
<1> SUFFICES ASSUME NEW p \in pending', p.t = "history",
                    NEW n \in DOMAIN down', down'[n].txn = p.txn,
                    NEW m \in ledger', ConvKey(m) = p.x
             PROVE  m \in down'[n].x \/ Filed(m)'
  BY DEF CoverInv, History, ConvKey
<1>1. p \in pending /\ p.txn # 0 /\ m \in Messages
  <2>1. p \in pending
    BY NotYetAnswered
  <2> QED
    BY <2>1, QuestionKinds DEF Types, WireOK, DaemonOK, Numbers
<1>2. ASSUME NEW i \in DOMAIN down, down[i].txn = p.txn, m \in ledger
      PROVE  m \in down[i].x \/ Filed(m)
  BY <1>1, <1>2 DEF CoverInv, History
<1>3. CASE Still
  BY <1>2, <1>3 DEF Still, Filed, Shown, OnItsWay, ConvKey
<1>4. CASE Ends
  BY <1>4 DEF Ends
<1>5. ASSUME NEW e \in Envelopes, Tells(e)
      PROVE  m \in down'[n].x \/ Filed(m)'
  <2>1. convs' = convs /\ ledger' = ledger /\ down' \in {down, Append(down, e)}
    BY <1>5 DEF Tells
  <2>2. CASE n \in DOMAIN down
    <3>1. down'[n] = down[n]
      BY <2>1, <2>2, ToldBehind
    <3>2. Filed(m) => Filed(m)'
      BY <2>1, FiledTold
    <3> QED
      BY <1>2, <2>1, <2>2, <3>1, <3>2
  <2>3. CASE n \notin DOMAIN down
    <3>1. down'[n] = e
      BY <2>1, <2>3, ToldBehind
    <3>2. e.t = "history"
      BY <3>1 DEF MatchInv
    <3>3. /\ up # <<>> /\ e.x = History(Head(up).x) /\ e.txn = Head(up).txn
      BY <1>5, <3>2 DEF Tells
    <3>4. 1 \in DOMAIN up /\ Head(up) = up[1]
      BY <3>3, TailElems DEF Types, WireOK
    <3>5. Head(up) = p
      BY <1>1, <3>1, <3>3, <3>4 DEF MatchInv
    <3> QED
      BY <2>1, <3>1, <3>3, <3>5 DEF History
  <2> QED
    BY <2>2, <2>3
<1>6. ASSUME NEW l \in Messages, Announces(l)
      PROVE  m \in down'[n].x \/ Filed(m)'
  <2> DEFINE e == Ev("chat", l)
  <2>1. /\ convs' = convs /\ ledger' = ledger \cup {l} /\ down' \in {down, Append(down, e)}
        /\ ws = "open" => down' = Append(down, e)
        /\ ws # "open" => down' = down
    BY <1>6, PushIs DEF Announces, Announce
  <2>2. e \in Envelopes /\ e.txn = 0
    BY MadeEnvelopes, MadeEvents
  <2> HIDE DEF e
  <2>3. n \in DOMAIN down /\ down'[n] = down[n]
    BY <1>1, <2>1, <2>2, ToldBehind
  <2>4. down' = Append(down, e)
    BY <2>1, <2>3 DEF QuietInv
  <2>5. CASE m = l
    <3>1. Len(down) + 1 \in DOMAIN down' /\ down'[Len(down) + 1] = e
      BY <2>2, <2>4, AppendElems DEF Types, WireOK
    <3> QED
      BY <2>5, <3>1 DEF e, Filed, OnItsWay
  <2>6. CASE m # l
    <3>1. Filed(m) => Filed(m)'
      BY <2>1, <2>2, FiledTold
    <3> QED
      BY <1>2, <2>1, <2>3, <2>6, <3>1
  <2> QED
    BY <2>5, <2>6
<1>7. CASE OnMessage
  <2>1. n + 1 \in DOMAIN down /\ down'[n] = down[n + 1] /\ ledger' = ledger
    BY <1>7, StillToRead DEF OnMessage, daemon
  <2>2. Filed(m) => Filed(m)'
    BY <1>1, <1>7, FiledRead
  <2> QED
    BY <1>2, <2>1, <2>2
<1> QED
  BY <1>3, <1>4, <1>5, <1>6, <1>7, StepKinds

LEMMA CompleteStep ==
  ASSUME Types, MatchInv, QuietInv, CoverInv, CompleteInv, [Next]_vars
  PROVE  CompleteInv'
<1> SUFFICES ASSUME NEW k \in whole', NEW m \in ledger', ConvKey(m) = k
             PROVE  Filed(m)'
  BY DEF CompleteInv, History, ConvKey
<1>1. ASSUME k \in whole, m \in ledger
      PROVE  Filed(m)
  BY <1>1 DEF CompleteInv, History
<1>2. CASE Still
  BY <1>1, <1>2 DEF Still, Filed, Shown, OnItsWay, ConvKey
<1>3. CASE Ends
  BY <1>3 DEF Ends
<1>4. ASSUME NEW e \in Envelopes, Tells(e)
      PROVE  Filed(m)'
  <2>1. /\ UNCHANGED <<convs, ledger, whole>> /\ down' \in {down, Append(down, e)}
    BY <1>4 DEF Tells
  <2> QED
    BY <1>1, <2>1, FiledTold
<1>5. ASSUME NEW l \in Messages, Announces(l)
      PROVE  Filed(m)'
  <2> DEFINE e == Ev("chat", l)
  <2>1. /\ UNCHANGED <<convs, whole>> /\ ledger' = ledger \cup {l}
        /\ ws = "open" => down' = Append(down, e)
    BY <1>5, PushIs DEF Announces, Announce
  <2>2. e \in Envelopes
    BY MadeEnvelopes
  <2>3. down' = Append(down, e)
    BY <2>1 DEF QuietInv
  <2> HIDE DEF e
  <2>4. CASE m = l
    <3>1. Len(down) + 1 \in DOMAIN down' /\ down'[Len(down) + 1] = e
      BY <2>2, <2>3, AppendElems DEF Types, WireOK
    <3> QED
      BY <2>4, <3>1 DEF e, Filed, OnItsWay
  <2>5. CASE m # l
    BY <1>1, <2>1, <2>2, <2>3, <2>5, FiledTold
  <2> QED
    BY <2>4, <2>5
<1>6. CASE OnMessage
  <2>1. ledger' = ledger /\ m \in Messages /\ down # <<>>
    BY <1>6 DEF OnMessage, daemon, Types, DaemonOK
  <2>2. Filed(m) => Filed(m)'
    BY <1>6, <2>1, FiledRead
  <2>3. CASE k \in whole
    BY <1>1, <2>1, <2>2, <2>3
  <2>4. CASE k \notin whole
    <3>1. PICK p \in pending : ReadHistory(p)
      BY <1>6, <2>4, MessageKinds DEF ReadChat, ReadAck, ReadOther
    <3>2. k = p.x /\ p.t = "history"
      BY <2>1, <2>4, <3>1, AskedFor DEF ReadHistory
    <3>3. m \in Head(down).x \/ Filed(m)
      <4>1. 1 \in DOMAIN down /\ down[1] = Head(down) /\ Head(down).txn = p.txn
        BY <1>6, <3>1, StillToRead DEF ReadHistory
      <4>2. m \in History(p.x)
        BY <2>1, <3>2 DEF History
      <4> QED
        BY <3>2, <4>1, <4>2 DEF CoverInv
    <3>4. CASE m \in Head(down).x /\ Filing(m) = k
      <4>1. m \in Shown(convs[p.x])'
        BY <1>6, <3>1, <3>2, <3>4, HistoryShown
      <4> QED
        BY <3>2, <4>1 DEF Filed, Shown, ConvKey
    <3>5. CASE Filing(m) # k
      BY <2>1, <3>5, FilingIsKey DEF Filed
    <3> QED
      BY <2>2, <3>3, <3>4, <3>5
  <2> QED
    BY <2>3, <2>4
<1> QED
  BY <1>2, <1>3, <1>4, <1>5, <1>6, StepKinds

LEMMA CompleteHolds == Spec => [](CoverInv /\ CompleteInv)
<1>1. Init => CoverInv /\ CompleteInv
  BY DEF Init, CoverInv, CompleteInv
<1>2. /\ Types /\ MatchInv /\ QuietInv /\ CoverInv /\ CompleteInv /\ [Next]_vars
      /\ Types' /\ MatchInv'
      => CoverInv' /\ CompleteInv'
  BY CoverStep, CompleteStep
<1> QED
  BY <1>1, <1>2, TypesHold, ConnectionHolds, PTL DEF Spec

(***************************************************************************)
(* A conversation whose history was loaded on this connection has, or will *)
(* have from what is on its way, every message of the daemon's ledger.     *)
(***************************************************************************)
THEOREM NothingLost == Spec => []ConversationComplete
<1>1. Types /\ CompleteInv => ConversationComplete
  BY DEF CompleteInv, Filed, History, ConversationComplete, Types, DaemonOK
<1> QED
  BY <1>1, TypesHold, CompleteHolds, PTL

------------------------------------------------------------------------------
(***************************************************************************)
(* What the user typed comes to the daemon once: a text is sent when it is *)
(* typed, and never again.                                                 *)
(***************************************************************************)
SendInv ==
  /\ Typed \cap ledger \subseteq typed
  /\ \A n \in DOMAIN up : up[n].t = "send" => up[n].x \in typed \ ledger
  /\ \A i, j \in DOMAIN up :
        up[i].t = "send" /\ up[j].t = "send" /\ up[i].x = up[j].x => i = j

(* Steps that send no text.                                                *)
LEMMA NoTextSent ==
  ASSUME Types, SendInv, typed' = typed, Typed \cap ledger' = Typed \cap ledger,
         \A i \in DOMAIN up' : up'[i].t = "send" => i \in DOMAIN up /\ up'[i] = up[i]
  PROVE  SendInv'
<1>1. typed \subseteq Typed
  BY DEF Types, DaemonOK
<1>2. Typed \cap ledger' \subseteq typed'
  BY DEF SendInv
<1>3. \A n \in DOMAIN up' : up'[n].t = "send" => up'[n].x \in typed' \ ledger'
  BY <1>1 DEF SendInv
<1>4. \A i, j \in DOMAIN up' :
        up'[i].t = "send" /\ up'[j].t = "send" /\ up'[i].x = up'[j].x => i = j
  BY DEF SendInv
<1> QED
  BY <1>2, <1>3, <1>4 DEF SendInv

LEMMA SendOfUser ==
  ASSUME Types, SendInv, \/ Login
                         \/ \E k \in Keys : OpenConversation(k)
                         \/ \E m \in Messages : SendText(m)
  PROVE  SendInv'
<1>0. txn + 1 \in Numbers /\ txn + 2 \in Numbers /\ up \in Seq(Asked) /\ typed \subseteq Typed
  BY DEF Types, WireOK, DaemonOK, Numbers
<1>1. CASE Login
  <2> DEFINE h == Req("hello", Nobody, txn + 1)
             l == Req("list", Nobody, txn + 2)
  <2>1. h \in Asked /\ l \in Asked /\ h.t = "hello" /\ l.t = "list"
    BY <1>0, MadeRequests, QuestionKinds DEF Req
  <2>2. UNCHANGED <<typed, ledger>>
    BY <1>1 DEF Login, daemon, ledgerHistory
  <2>3. CASE up' = up
    BY <2>2, <2>3, NoTextSent
  <2>4. CASE ws = "open"
    <3>1. up' = up \o Introduction(txn) \o <<l>>
      BY <1>1, <2>4 DEF Login
    <3>2. up' = Append(Append(up, h), l)
      BY <1>0, <3>1, LoginSends DEF Types, WireOK
    <3> HIDE DEF h, l
    <3>3. /\ Append(up, h) \in Seq(Asked)
          /\ \A i \in DOMAIN up : Append(up, h)[i] = up[i]
          /\ Append(up, h)[Len(up) + 1] = h
          /\ \A i \in DOMAIN Append(up, h) : i \in DOMAIN up \/ i = Len(up) + 1
      BY <1>0, <2>1, AppendElems
    <3>4. /\ \A i \in DOMAIN Append(up, h) : up'[i] = Append(up, h)[i]
          /\ \A i \in DOMAIN up' : i \in DOMAIN Append(up, h) \/ up'[i] = l
      BY <2>1, <3>2, <3>3, AppendElems
    <3>5. \A i \in DOMAIN up' : up'[i].t = "send" => i \in DOMAIN up /\ up'[i] = up[i]
      BY <2>1, <3>3, <3>4
    <3> QED
      BY <2>2, <3>5, NoTextSent
  <2> QED
    BY <1>1, <2>3, <2>4 DEF Login
<1>2. ASSUME NEW k \in Keys, OpenConversation(k)
      PROVE  SendInv'
  <2> DEFINE r == Req("history", k, txn + 1)
  <2>1. r \in Asked /\ r.t = "history"
    BY <1>0, MadeRequests, QuestionKinds DEF Req
  <2>2. up' \in {up, Append(up, r)} /\ UNCHANGED <<typed, ledger>>
    BY <1>2, SentIs DEF OpenConversation, daemon, ledgerHistory
  <2> HIDE DEF r
  <2>3. \A i \in DOMAIN up' : up'[i].t = "send" => i \in DOMAIN up /\ up'[i] = up[i]
    BY <1>0, <2>1, <2>2, AppendElems
  <2> QED
    BY <2>2, <2>3, NoTextSent
<1>3. ASSUME NEW m \in Messages, SendText(m)
      PROVE  SendInv'
  <2> DEFINE r == Req("send", m, txn + 1)
  <2>1. r \in Asked /\ r.t = "send" /\ r.x = m
    BY <1>0, <1>3, MadeRequests DEF Req, SendText
  <2>2. /\ up' \in {up, Append(up, r)} /\ ledger' = ledger
        /\ m \notin typed /\ m \in Typed /\ typed' = typed \cup {m}
    BY <1>3, SentIs DEF SendText, daemon
  <2> HIDE DEF r
  <2>3. m \notin ledger
    BY <2>2 DEF SendInv
  <2>4. \A i \in DOMAIN up' : (i \in DOMAIN up /\ up'[i] = up[i]) \/ (i = Len(up) + 1 /\ up'[i] = r)
    BY <1>0, <2>1, <2>2, AppendElems
  <2>5. \A n \in DOMAIN up : up[n].t = "send" => up[n].x # m
    BY <2>2 DEF SendInv
  <2>6. \A n \in DOMAIN up' : up'[n].t = "send" => up'[n].x \in typed' \ ledger'
    BY <2>1, <2>2, <2>3, <2>4 DEF SendInv
  <2>7. \A i, j \in DOMAIN up' :
           up'[i].t = "send" /\ up'[j].t = "send" /\ up'[i].x = up'[j].x => i = j
    BY <2>1, <2>4, <2>5 DEF SendInv
  <2> QED
    BY <2>2, <2>6, <2>7 DEF SendInv
<1> QED
  BY <1>1, <1>2, <1>3

LEMMA SendOfDispatch ==
  ASSUME Types, SendInv, Dispatch
  PROVE  SendInv'
<1>1. up \in Seq(Asked) /\ up # <<>> /\ up' = Tail(up) /\ typed' = typed
  BY DEF Types, WireOK, Dispatch
<1>2. /\ 1 \in DOMAIN up /\ Head(up) = up[1]
      /\ \A i \in DOMAIN up' : i \in Nat \ {0} /\ i + 1 \in DOMAIN up /\ up'[i] = up[i + 1]
  <2>1. /\ 1 \in DOMAIN up /\ Head(up) = up[1]
        /\ \A i \in DOMAIN Tail(up) : i \in Nat \ {0} /\ i + 1 \in DOMAIN up
                                      /\ Tail(up)[i] = up[i + 1]
    BY <1>1, TailElems
  <2> QED
    BY <1>1, <2>1
<1>3. \/ ledger' = ledger
      \/ Head(up).t = "send" /\ ledger' = ledger \cup {Head(up).x}
  BY DispatchKinds DEF Announce
<1>4. \A i \in DOMAIN up' : up'[i].t = "send" => up'[i].x \in typed' \ ledger'
  <2>1. ASSUME NEW i \in DOMAIN up', up'[i].t = "send"
        PROVE  up'[i].x \in typed' \ ledger'
    <3>1. i + 1 \in DOMAIN up /\ up'[i] = up[i + 1] /\ i + 1 # 1
      BY <1>2
    <3>2. up[i + 1].x \in typed \ ledger
      BY <2>1, <3>1 DEF SendInv
    <3>3. Head(up).t = "send" => up[i + 1].x # Head(up).x
      BY <1>2, <2>1, <3>1 DEF SendInv
    <3> QED
      BY <1>1, <1>3, <3>1, <3>2, <3>3
  <2> QED
    BY <2>1
<1>5. ASSUME NEW i \in DOMAIN up', NEW j \in DOMAIN up',
             up'[i].t = "send", up'[j].t = "send", up'[i].x = up'[j].x
      PROVE  i = j
  <2>1. i + 1 = j + 1
    BY <1>2, <1>5 DEF SendInv
  <2> QED
    BY <1>2, <2>1
<1>6. Typed \cap ledger' \subseteq typed'
  BY <1>1, <1>2, <1>3 DEF SendInv
<1> QED
  BY <1>4, <1>5, <1>6 DEF SendInv

LEMMA SendStep ==
  ASSUME Types, SendInv, [Next]_vars
  PROVE  SendInv'
<1>1. CASE OnOpen
  <2>1. \A i \in DOMAIN up' : up'[i].t = "send" => i \in DOMAIN up /\ up'[i] = up[i]
    BY <1>1 DEF OnOpen, Introduction, Req
  <2> QED
    BY <1>1, <2>1, NoTextSent DEF OnOpen, daemon, ledgerHistory
<1>2. CASE OnClose \/ Reload
  <2>1. up' = <<>> /\ UNCHANGED <<typed, ledger>>
    BY <1>2 DEF OnClose, Reload, ConnectionGone, daemon, ledgerHistory
  <2> QED
    BY <2>1, NoTextSent
<1>3. CASE \/ Login
           \/ \E k \in Keys : OpenConversation(k)
           \/ \E m \in Messages : SendText(m)
  BY <1>3, SendOfUser
<1>4. CASE Dispatch
  BY <1>4, SendOfDispatch
<1>5. CASE \E m \in Messages : Inbound(m)
  <2>1. up' = up /\ typed' = typed /\ Typed \cap ledger' = Typed \cap ledger
    BY <1>5 DEF Inbound, Announce
  <2> QED
    BY <2>1, NoTextSent
<1>6. CASE \/ Connect \/ OnMessage \/ Kicked
           \/ \E m \in Messages : InboundAck(m)
           \/ \E p \in Peers : PeerFound(p) \/ PeerGone(p)
           \/ \E S \in SUBSET Ids : RoomSynced(S)
           \/ \E d \in Ids : MemberJoined(d)
           \/ \E r \in pending : RequestTimesOut(r)
           \/ UNCHANGED vars
  <2>1. UNCHANGED <<up, typed, ledger>>
    BY <1>6 DEF Connect, OnMessage, Kicked, InboundAck, PeerFound, PeerGone, RoomSynced,
                MemberJoined, RequestTimesOut, vars, daemon, ledgerHistory
  <2> QED
    BY <2>1, NoTextSent
<1> QED
  BY <1>1, <1>2, <1>3, <1>4, <1>5, <1>6 DEF Next

LEMMA SendHolds == Spec => []SendInv
<1>1. Init => SendInv
  BY DEF Init, SendInv
<1>2. Types /\ SendInv /\ [Next]_vars => SendInv'
  BY SendStep
<1> QED
  BY <1>1, <1>2, TypesHold, PTL DEF Spec

(* A message that is announced is a peer's, or new to the ledger.          *)
LEMMA AnnouncedIsNew ==
  ASSUME Types, SendInv, [Next]_vars, NEW m \in Messages, Announces(m)
  PROVE  m \notin Typed \/ m \notin ledger
<1>0. /\ arrivals \in [Messages -> Nat]
      /\ arrivals' = [arrivals EXCEPT ![m] = @ + 1]
  BY DEF Types, DaemonOK, Announces, Announce
<1>1. arrivals'[m] # arrivals[m]
  BY <1>0
<1>2. ASSUME NEW l \in Messages, Inbound(l)
      PROVE  m \notin Typed
  <2>1. arrivals' = [arrivals EXCEPT ![l] = @ + 1] /\ l \notin Typed
    BY <1>2 DEF Inbound, Announce
  <2>2. l = m
    BY <1>0, <1>1, <2>1
  <2> QED
    BY <2>1, <2>2
<1>3. CASE Dispatch
  <2>1. Head(up).t = "send" /\ Announce(Head(up).x, down)
    BY <1>1, <1>3, DispatchKinds
  <2>2. arrivals' = [arrivals EXCEPT ![Head(up).x] = @ + 1]
    BY <2>1 DEF Announce
  <2>3. Head(up).x = m
    BY <1>0, <1>1, <2>2
  <2>4. 1 \in DOMAIN up /\ Head(up) = up[1]
    BY <1>3, TailElems DEF Types, WireOK, Dispatch
  <2> QED
    BY <2>1, <2>3, <2>4 DEF SendInv
<1>4. CASE \/ OnOpen \/ OnClose \/ Connect \/ Reload \/ Login \/ OnMessage \/ Kicked
           \/ \E k \in Keys : OpenConversation(k)
           \/ \E l \in Messages : SendText(l) \/ InboundAck(l)
           \/ \E p \in Peers : PeerFound(p) \/ PeerGone(p)
           \/ \E S \in SUBSET Ids : RoomSynced(S)
           \/ \E d \in Ids : MemberJoined(d)
           \/ \E r \in pending : RequestTimesOut(r)
           \/ UNCHANGED vars
  <2>1. arrivals' = arrivals
    BY <1>4 DEF OnOpen, OnClose, Connect, Reload, Login, OnMessage, Kicked, OpenConversation,
                SendText, InboundAck, PeerFound, PeerGone, RoomSynced, MemberJoined,
                RequestTimesOut, vars, ledgerHistory
  <2> QED
    BY <1>1, <2>1
<1> QED
  BY <1>2, <1>3, <1>4 DEF Next

------------------------------------------------------------------------------
(***************************************************************************)
(* A receipt finds its message: the message is shown, or its event comes   *)
(* before the receipt.                                                     *)
(***************************************************************************)
Arriving(m) == OnItsWay(Ev("chat", m)) \/ m \in Shown(convs[Filing(m)])

Preceded(m) ==
  \A i \in DOMAIN down : down[i] = Ev("ack", m) =>
    \/ m \in Shown(convs[Filing(m)])
    \/ \E j \in DOMAIN down : j < i /\ down[j] = Ev("chat", m)

EchoInv == \A m \in echoed : Arriving(m) /\ Preceded(m)

LEMMA EchoTold ==
  ASSUME Types, NEW m \in Messages, Arriving(m), Preceded(m), convs' = convs,
         NEW e \in Envelopes, down' \in {down, Append(down, e)}
  PROVE  Arriving(m)' /\ Preceded(m)'
<1>1. /\ \A n \in DOMAIN down : n \in DOMAIN down' /\ down'[n] = down[n] /\ n < Len(down) + 1
      /\ \A n \in DOMAIN down' : n \in DOMAIN down \/ n = Len(down) + 1
  BY ToldBehind
<1>2. Arriving(m)'
  BY <1>1 DEF Arriving, OnItsWay, Shown
<1>3. Preceded(m)'
  <2>1. CASE m \in Shown(convs[Filing(m)])
    BY <2>1 DEF Preceded, Shown
  <2>2. ASSUME NEW i \in DOMAIN down', down'[i] = Ev("ack", m), m \notin Shown(convs[Filing(m)])
        PROVE  \E j \in DOMAIN down' : j < i /\ down'[j] = Ev("chat", m)
    <3>1. CASE i \in DOMAIN down
      BY <1>1, <2>2, <3>1 DEF Preceded
    <3>2. CASE i = Len(down) + 1
      BY <1>1, <2>2, <3>2 DEF Arriving, OnItsWay
    <3> QED
      BY <1>1, <3>1, <3>2
  <2> QED
    BY <2>1, <2>2 DEF Preceded, Shown
<1> QED
  BY <1>2, <1>3

LEMMA EchoRead ==
  ASSUME Types, MatchInv, OnMessage, NEW m \in Messages, Arriving(m), Preceded(m)
  PROVE  Arriving(m)' /\ Preceded(m)'
<1> DEFINE f == Filing(m)
           chat == Ev("chat", m)
<1>1. f \in Keys /\ Grown /\ f = Filing(m)
  BY FilingIsKey, PageReads
<1> HIDE DEF f
<1>2. m \in Shown(convs[f]) => m \in Shown(convs[f])'
  BY <1>1, ShownStays
<1>3. Head(down) = chat => m \in Shown(convs[f])'
  <2>1. Head(down) = chat => m \in Shown(convs[Filing(m)])'
    BY ChatShown
  <2> QED
    BY <1>1, <2>1 DEF Shown
<1>4. ASSUME NEW j \in DOMAIN down, down[j] = chat, m \notin Shown(convs[f])'
      PROVE  j - 1 \in DOMAIN down' /\ down'[j - 1] = chat /\ j \in Nat
  <2>1. j # 1
    BY <1>3, <1>4, StillToRead
  <2> QED
    BY <1>4, <2>1, StillToRead
<1>5. CASE m \in Shown(convs[f])'
  BY <1>1, <1>5 DEF Arriving, Preceded, Shown
<1>6. CASE m \notin Shown(convs[f])'
  <2>1. m \notin Shown(convs[f])
    BY <1>2, <1>6
  <2>2. Arriving(m)'
    <3>1. PICK j \in DOMAIN down : down[j] = chat
      BY <1>1, <2>1 DEF Arriving, OnItsWay
    <3>2. j - 1 \in DOMAIN down' /\ down'[j - 1] = chat
      BY <1>4, <1>6, <3>1
    <3> QED
      BY <3>2 DEF Arriving, OnItsWay
  <2>3. ASSUME NEW i \in DOMAIN down', down'[i] = Ev("ack", m)
        PROVE  \E j \in DOMAIN down' : j < i /\ down'[j] = chat
    <3>1. i \in Nat /\ i + 1 \in DOMAIN down /\ down[i + 1] = Ev("ack", m)
      BY <2>3, StillToRead
    <3>2. PICK j \in DOMAIN down : j < i + 1 /\ down[j] = chat
      BY <1>1, <2>1, <3>1 DEF Preceded
    <3>3. j - 1 \in DOMAIN down' /\ down'[j - 1] = chat /\ j \in Nat
      BY <1>4, <1>6, <3>2
    <3>4. j - 1 < i
      BY <3>1, <3>2, <3>3
    <3> QED
      BY <3>3, <3>4
  <2> QED
    BY <2>2, <2>3 DEF Preceded
<1> QED
  BY <1>5, <1>6

LEMMA EchoStep ==
  ASSUME Types, MatchInv, LedgerInv, SendInv, EchoInv, [Next]_vars
  PROVE  EchoInv'
<1> SUFFICES ASSUME NEW m \in echoed'
             PROVE  Arriving(m)' /\ Preceded(m)'
  BY DEF EchoInv
<1>1. CASE Still
  BY <1>1 DEF Still, EchoInv, Arriving, Preceded, OnItsWay, Shown
<1>2. CASE Ends
  BY <1>2 DEF Ends
<1>3. ASSUME NEW e \in Envelopes, Tells(e)
      PROVE  Arriving(m)' /\ Preceded(m)'
  <2>1. /\ m \in echoed /\ m \in Messages /\ convs' = convs
        /\ down' \in {down, Append(down, e)}
    BY <1>3 DEF Tells, Types, HereOK
  <2> QED
    BY <2>1, EchoTold DEF EchoInv
<1>4. ASSUME NEW l \in Messages, Announces(l)
      PROVE  Arriving(m)' /\ Preceded(m)'
  <2> DEFINE e == Ev("chat", l)
  <2>1. /\ convs' = convs
        /\ echoed' = IF ws = "open" THEN echoed \cup {l} ELSE echoed
        /\ ws = "open" => down' = Append(down, e)
        /\ down' \in {down, Append(down, e)}
    BY <1>4, PushIs DEF Announces, Announce
  <2>2. e \in Envelopes /\ e.t = "chat"
    BY MadeEnvelopes, MadeEvents
  <2> HIDE DEF e
  <2>3. CASE m \in echoed
    <3>1. m \in Messages
      BY <2>3 DEF Types, HereOK
    <3> QED
      BY <2>1, <2>2, <2>3, <3>1, EchoTold DEF EchoInv
  <2>4. CASE m \notin echoed
    <3>1. m = l /\ down' = Append(down, e)
      BY <2>1, <2>4
    <3>2. Len(down) + 1 \in DOMAIN down' /\ down'[Len(down) + 1] = e
      BY <2>2, <3>1, AppendElems DEF Types, WireOK
    <3>3. Arriving(m)'
      BY <3>1, <3>2 DEF e, Arriving, OnItsWay
    <3>4. m \notin receipts
      BY <1>4, <3>1, AnnouncedIsNew DEF LedgerInv, Types, HereOK
    <3>5. \A i \in DOMAIN down' : down'[i] # Ev("ack", m)
      <4>1. \A i \in DOMAIN down : down[i] # Ev("ack", m)
        BY <3>4 DEF LedgerInv, Backed, Ev
      <4>2. e # Ev("ack", m)
        BY <2>2 DEF Ev
      <4> QED
        BY <2>1, <2>2, <4>1, <4>2, ToldBehind
    <3> QED
      BY <3>3, <3>5 DEF Preceded
  <2> QED
    BY <2>3, <2>4
<1>5. CASE OnMessage
  <2>1. m \in echoed /\ m \in Messages
    BY <1>5 DEF OnMessage, Types, HereOK
  <2> QED
    BY <1>5, <2>1, EchoRead DEF EchoInv
<1> QED
  BY <1>1, <1>2, <1>3, <1>4, <1>5, StepKinds

(* A line with a mark keeps it.                                            *)
Marked(m) == \E k \in Keys : \E n \in DOMAIN convs[k] :
               convs[k][n] = [m |-> m, status |-> "delivered"]

LEMMA MarkStays ==
  ASSUME Types, Types', Grown, NEW m, Marked(m)
  PROVE  Marked(m)'
<1>0. PICK k \in Keys : \E n \in DOMAIN convs[k] :
        convs[k][n] = [m |-> m, status |-> "delivered"]
  BY DEF Marked
<1>1. PICK n \in DOMAIN convs[k] : convs[k][n] = [m |-> m, status |-> "delivered"]
  BY <1>0
<1>2. /\ n \in DOMAIN convs'[k] /\ convs'[k][n].m = m
      /\ convs'[k][n].status = "delivered"
  BY <1>1 DEF Grown, Keeps
<1>3. convs'[k][n] \in Line
  BY <1>2 DEF Types, LinesOK
<1>4. convs'[k][n] = [m |-> m, status |-> "delivered"]
  BY <1>2, <1>3 DEF Line
<1> QED
  BY <1>2, <1>4 DEF Marked

LEMMA ReceiptRead ==
  ASSUME Types, OnMessage, EchoInv, NEW m \in echoed, Head(down) = Ev("ack", m)
  PROVE  Marked(m)'
<1>1. /\ Head(down).t = "ack" /\ Head(down).x = m /\ Head(down).txn = 0 /\ LinesOK
      /\ m \in Messages
  BY DEF Ev, Types, HereOK
<1>2. MarkDelivered(m)
  BY <1>1 DEF OnMessage, OnEvent
<1>3. m \in Shown(convs[Filing(m)])
  <2>1. 1 \in DOMAIN down /\ down[1] = Ev("ack", m) /\ ~(\E j \in DOMAIN down : j < 1)
    BY StillToRead DEF Types, WireOK
  <2> QED
    BY <2>1 DEF EchoInv, Preceded
<1>4. \E k \in Keys : m \in Shown(convs[k])
  BY <1>1, <1>3, FilingIsKey
<1> QED
  BY <1>1, <1>2, <1>4, MarkDeliveredMarks DEF Marked

LEMMA MarkStep ==
  ASSUME Types, MatchInv, LedgerInv, SendInv, EchoInv, Types', DeliveredShown, [Next]_vars
  PROVE  DeliveredShown'
<1> SUFFICES ASSUME NEW m \in echoed', m \in receipts'
             PROVE  OnItsWay(Ev("ack", m))' \/ Marked(m)'
  BY DEF DeliveredShown, OnItsWay, Marked
<1>1. ASSUME m \in echoed, m \in receipts
      PROVE  OnItsWay(Ev("ack", m)) \/ Marked(m)
  BY <1>1 DEF DeliveredShown, Marked
<1>2. CASE Still
  BY <1>1, <1>2 DEF Still, OnItsWay, Marked
<1>3. CASE Ends
  BY <1>3 DEF Ends
<1>4. ASSUME NEW e \in Envelopes, Tells(e)
      PROVE  OnItsWay(Ev("ack", m))' \/ Marked(m)'
  <2>1. /\ UNCHANGED <<convs, echoed>>
        /\ \A n \in DOMAIN down : n \in DOMAIN down' /\ down'[n] = down[n]
        /\ Len(down) + 1 \in DOMAIN down' /\ down'[Len(down) + 1] = e
    <3>1. UNCHANGED <<convs, echoed>> /\ down' = Append(down, e)
      BY <1>4 DEF Tells
    <3> QED
      BY <3>1, AppendElems DEF Types, WireOK
  <2>2. CASE m \in receipts
    <3>1. OnItsWay(Ev("ack", m)) => OnItsWay(Ev("ack", m))'
      BY <2>1 DEF OnItsWay
    <3> QED
      BY <1>1, <2>1, <2>2, <3>1 DEF Marked
  <2>3. CASE m \notin receipts
    <3>1. e.t = "ack" /\ e.x = m
      BY <1>4, <2>3 DEF Tells
    <3>2. e = Ev("ack", m)
      BY <3>1, EnvelopeKinds
    <3> QED
      BY <2>1, <3>2 DEF OnItsWay
  <2> QED
    BY <2>2, <2>3
<1>5. ASSUME NEW l \in Messages, Announces(l)
      PROVE  OnItsWay(Ev("ack", m))' \/ Marked(m)'
  <2>1. /\ UNCHANGED <<convs, receipts>> /\ echoed' \subseteq echoed \cup {l}
        /\ down' \in {down, Append(down, Ev("chat", l))}
        /\ Ev("chat", l) \in Envelopes
    BY <1>5, PushIs, MadeEnvelopes DEF Announces, Announce
  <2>2. m \in echoed
    BY <1>5, <2>1, AnnouncedIsNew DEF LedgerInv, Types, HereOK
  <2>3. OnItsWay(Ev("ack", m)) => OnItsWay(Ev("ack", m))'
    BY <2>1, ToldBehind DEF OnItsWay
  <2> QED
    BY <1>1, <2>1, <2>2, <2>3 DEF Marked
<1>6. CASE OnMessage
  <2>1. m \in echoed /\ m \in receipts
    BY <1>6 DEF OnMessage
  <2>2. Marked(m) => Marked(m)'
    BY <1>6, PageReads, MarkStays
  <2>3. ASSUME NEW n \in DOMAIN down, down[n] = Ev("ack", m)
        PROVE  OnItsWay(Ev("ack", m))' \/ Marked(m)'
    <3>1. CASE n = 1
      BY <1>6, <2>1, <2>3, <3>1, StillToRead, ReceiptRead
    <3>2. CASE n # 1
      BY <1>6, <2>3, <3>2, StillToRead DEF OnItsWay
    <3> QED
      BY <3>1, <3>2
  <2> QED
    BY <1>1, <2>1, <2>2, <2>3 DEF OnItsWay
<1> QED
  BY <1>2, <1>3, <1>4, <1>5, <1>6, StepKinds

(***************************************************************************)
(* The receipt of a message reaches the line of the message, and the mark  *)
(* stays: the event of the message comes first, since the daemon announces *)
(* a text before it can be received, and only once.                        *)
(***************************************************************************)
THEOREM ReceiptsReachTheirLine == Spec => []DeliveredShown
<1>1. Init => EchoInv /\ DeliveredShown
  BY DEF Init, EchoInv, DeliveredShown
<1>2. /\ Types /\ MatchInv /\ LedgerInv /\ SendInv /\ EchoInv /\ DeliveredShown
      /\ [Next]_vars /\ Types'
      => EchoInv' /\ DeliveredShown'
  BY EchoStep, MarkStep
<1> QED
  BY <1>1, <1>2, TypesHold, LedgerHolds, SendHolds, PTL DEF Spec

------------------------------------------------------------------------------
(***************************************************************************)
(* The room.  A run is what the page's entry goes through, from r, as the  *)
(* envelopes of q are handled; there is one at every moment, and it ends   *)
(* at the daemon's table.                                                  *)
(***************************************************************************)
RoomRun(f, r, q) ==
  f = [n \in 0..Len(q) |-> IF n = 0 THEN r ELSE OnRoomEvent(f[n - 1], q[n])]

RoomInv ==
  /\ tracked => ws = "open"
  /\ \E f : /\ RoomRun(f, room, down)
            /\ tracked => f[Len(down)].known = TRUE /\ f[Len(down)].members = table

LEMMA RunIsOne ==
  ASSUME NEW q \in Seq(Envelopes), NEW r, NEW f, NEW g, RoomRun(f, r, q), RoomRun(g, r, q)
  PROVE  \A n \in 0..Len(q) : f[n] = g[n]
<1> DEFINE T == {n \in 0..Len(q) : f[n] # g[n]}
<1> SUFFICES ASSUME T # {} PROVE FALSE
  OBVIOUS
<1>0. Len(q) \in Nat
  OBVIOUS
<1>01. T \subseteq Nat
  BY <1>0
<1>1. PICK m \in T : \A n \in T : m <= n
  <2> HIDE DEF T
  <2> QED
    BY <1>01, LeastElement
<1>2. /\ m \in 0..Len(q) /\ f[m] # g[m]
      /\ \A n \in 0..Len(q) : f[n] # g[n] => m <= n
  BY <1>1
<1> HIDE DEF T
<1>3. m # 0
  BY <1>0, <1>2 DEF RoomRun
<1>4. m - 1 \in 0..Len(q) /\ ~(m <= m - 1)
  BY <1>0, <1>2, <1>3
<1>5. f[m - 1] = g[m - 1]
  BY <1>2, <1>4
<1>6. f[m] = OnRoomEvent(f[m - 1], q[m]) /\ g[m] = OnRoomEvent(g[m - 1], q[m])
  BY <1>2, <1>3 DEF RoomRun
<1> QED
  BY <1>2, <1>5, <1>6

LEMMA RunOfNone ==
  ASSUME NEW r
  PROVE  \E f : RoomRun(f, r, <<>>) /\ f[0] = r
<1> DEFINE f == [n \in 0..0 |-> r]
<1>1. f = [n \in 0..0 |-> IF n = 0 THEN r ELSE OnRoomEvent(f[n - 1], <<>>[n])]
  OBVIOUS
<1>2. Len(<<>>) = 0 /\ f[0] = r
  OBVIOUS
<1> HIDE DEF f
<1> QED
  BY <1>1, <1>2 DEF RoomRun

LEMMA RunExtends ==
  ASSUME NEW q \in Seq(Envelopes), NEW e \in Envelopes, NEW r, NEW f, RoomRun(f, r, q)
  PROVE  \E g : /\ RoomRun(g, r, Append(q, e))
                /\ g[Len(Append(q, e))] = OnRoomEvent(f[Len(q)], e)
<1> DEFINE l == Len(q)
           a == Append(q, e)
           g == [n \in 0..(l + 1) |-> IF n <= l THEN f[n] ELSE OnRoomEvent(f[l], e)]
<1>1. /\ l \in Nat /\ Len(a) = l + 1 /\ a[l + 1] = e
      /\ \A n \in 1..l : a[n] = q[n]
  BY AppendElems
<1>2. /\ f[0] = r
      /\ \A n \in 1..l : f[n] = OnRoomEvent(f[n - 1], q[n])
  <2>1. 0 \in 0..l /\ \A n \in 1..l : n \in 0..l /\ n # 0
    BY <1>1
  <2> QED
    BY <2>1 DEF RoomRun
<1> HIDE DEF l, a
<1>3. /\ g[0] = f[0] /\ g[l + 1] = OnRoomEvent(f[l], e)
      /\ \A n \in 0..l : g[n] = f[n]
  BY <1>1
<1>4. ASSUME NEW n \in 0..(l + 1), n # 0
      PROVE  g[n] = OnRoomEvent(g[n - 1], a[n])
  <2>1. n - 1 \in 0..l
    BY <1>1, <1>4
  <2>2. CASE n \in 1..l
    <3>1. g[n] = f[n] /\ g[n - 1] = f[n - 1]
      BY <1>3, <2>1, <2>2
    <3> QED
      BY <1>1, <1>2, <2>2, <3>1
  <2>3. CASE n = l + 1
    <3>1. n - 1 = l
      BY <1>1, <2>3
    <3> QED
      BY <1>1, <1>3, <2>1, <2>3, <3>1
  <2> QED
    BY <1>1, <1>4, <2>2, <2>3
<1>5. g = [n \in 0..(l + 1) |-> g[n]]
  OBVIOUS
<1> HIDE DEF g
<1>6. g = [n \in 0..Len(a) |-> IF n = 0 THEN r ELSE OnRoomEvent(g[n - 1], a[n])]
  BY <1>1, <1>2, <1>3, <1>4, <1>5
<1>7. RoomRun(g, r, a) /\ g[Len(a)] = OnRoomEvent(f[l], e)
  BY <1>1, <1>3, <1>6 DEF RoomRun
<1> QED
  BY <1>7 DEF a, l

LEMMA RunAdvances ==
  ASSUME NEW q \in Seq(Envelopes), q # <<>>, NEW r, NEW f, RoomRun(f, r, q)
  PROVE  \E g : /\ RoomRun(g, OnRoomEvent(r, Head(q)), Tail(q))
                /\ g[Len(Tail(q))] = f[Len(q)]
<1> DEFINE l == Len(q)
           b == Tail(q)
           g == [n \in 0..(l - 1) |-> f[n + 1]]
<1>1. /\ l \in Nat \ {0} /\ Len(b) = l - 1 /\ Head(q) = q[1]
      /\ \A n \in 1..(l - 1) : b[n] = q[n + 1]
  <2>1. l \in Nat \ {0}
    BY EmptySeq
  <2> QED
    BY <2>1
<1>2. /\ f[0] = r
      /\ \A n \in 1..l : f[n] = OnRoomEvent(f[n - 1], q[n])
  <2>1. 0 \in 0..l /\ \A n \in 1..l : n \in 0..l /\ n # 0
    BY <1>1
  <2> QED
    BY <2>1 DEF RoomRun
<1> HIDE DEF l, b
<1>3. \A n \in 0..(l - 1) : g[n] = f[n + 1]
  OBVIOUS
<1>4. g[0] = OnRoomEvent(r, Head(q)) /\ g[l - 1] = f[l]
  <2>1. 0 \in 0..(l - 1) /\ l - 1 \in 0..(l - 1) /\ (l - 1) + 1 = l /\ 0 + 1 = 1 /\ 1 \in 1..l
        /\ 1 - 1 = 0
    BY <1>1
  <2>2. g[0] = f[1] /\ g[l - 1] = f[l]
    BY <1>3, <2>1
  <2>3. f[1] = OnRoomEvent(f[0], q[1])
    BY <1>2, <2>1
  <2> QED
    BY <1>1, <1>2, <2>2, <2>3
<1>5. ASSUME NEW n \in 0..(l - 1), n # 0
      PROVE  g[n] = OnRoomEvent(g[n - 1], b[n])
  <2>1. /\ n - 1 \in 0..(l - 1) /\ (n - 1) + 1 = n /\ n + 1 \in 1..l
        /\ n \in 1..(l - 1) /\ (n + 1) - 1 = n
    BY <1>1, <1>5
  <2>2. g[n] = f[n + 1] /\ g[n - 1] = f[n] /\ b[n] = q[n + 1]
    BY <1>1, <1>3, <2>1
  <2>3. f[n + 1] = OnRoomEvent(f[n], q[n + 1])
    BY <1>2, <2>1
  <2> QED
    BY <2>2, <2>3
<1>6. g = [n \in 0..(l - 1) |-> g[n]]
  OBVIOUS
<1> HIDE DEF g
<1>7. g = [n \in 0..Len(b) |-> IF n = 0 THEN OnRoomEvent(r, Head(q)) ELSE OnRoomEvent(g[n - 1], b[n])]
  BY <1>1, <1>4, <1>5, <1>6
<1>8. RoomRun(g, OnRoomEvent(r, Head(q)), b) /\ g[Len(b)] = f[l]
  BY <1>1, <1>4, <1>7 DEF RoomRun
<1> QED
  BY <1>8 DEF b, l

(* Steps that leave the room of both, and tell of no room.                 *)
OtherEvent(e) == e.t \notin {"sync", "member_joined", "member_left"}

LEMMA RoomApart ==
  ASSUME Types, RoomInv, UNCHANGED <<ws, room, table, tracked>>,
         NEW e \in Envelopes, OtherEvent(e), down' \in {down, Append(down, e)}
  PROVE  RoomInv'
<1>1. PICK f : /\ RoomRun(f, room, down)
               /\ tracked => f[Len(down)].known = TRUE /\ f[Len(down)].members = table
  BY DEF RoomInv
<1>2. CASE down' = down
  BY <1>1, <1>2 DEF RoomInv
<1>3. CASE down' = Append(down, e)
  <2>1. PICK g : /\ RoomRun(g, room, Append(down, e))
                 /\ g[Len(Append(down, e))] = OnRoomEvent(f[Len(down)], e)
    BY <1>1, RunExtends DEF Types, WireOK
  <2>2. OnRoomEvent(f[Len(down)], e) = f[Len(down)]
    BY DEF OnRoomEvent, OtherEvent
  <2> QED
    BY <1>1, <1>3, <2>1, <2>2 DEF RoomInv
<1> QED
  BY <1>2, <1>3

(* An event of the room, which the daemon pushes as it changes its table.  *)
LEMMA RoomTold ==
  ASSUME Types, RoomInv, UNCHANGED <<ws, room>>, NEW e \in Envelopes, down' = Push(down, e),
         tracked' => ws = "open",
         \A r : (tracked' /\ (tracked => r.known = TRUE /\ r.members = table)) =>
            OnRoomEvent(r, e).known = TRUE /\ OnRoomEvent(r, e).members = table'
  PROVE  RoomInv'
<1>1. PICK f : /\ RoomRun(f, room, down)
               /\ tracked => f[Len(down)].known = TRUE /\ f[Len(down)].members = table
  BY DEF RoomInv
<1>2. CASE ws # "open"
  BY <1>1, <1>2, PushIs DEF RoomInv
<1>3. CASE ws = "open"
  <2>1. PICK g : /\ RoomRun(g, room, Append(down, e))
                 /\ g[Len(Append(down, e))] = OnRoomEvent(f[Len(down)], e)
    BY <1>1, RunExtends DEF Types, WireOK
  <2>2. tracked' => /\ OnRoomEvent(f[Len(down)], e).known = TRUE
                    /\ OnRoomEvent(f[Len(down)], e).members = table'
    BY <1>1
  <2>3. down' = Append(down, e)
    BY <1>3, PushIs
  <2> QED
    BY <2>1, <2>2, <2>3 DEF RoomInv
<1> QED
  BY <1>2, <1>3

LEMMA RoomOfTable ==
  ASSUME Types, RoomInv, \/ \E S \in SUBSET Ids : RoomSynced(S)
                         \/ \E d \in Ids : MemberJoined(d)
                         \/ Kicked
  PROVE  RoomInv'
<1>1. ASSUME NEW S \in SUBSET Ids, RoomSynced(S)
      PROVE  RoomInv'
  <2> DEFINE e == Ev("sync", S)
  <2>1. e \in Envelopes /\ e.t = "sync" /\ e.x = S
    BY MadeEnvelopes DEF Ev
  <2>2. /\ UNCHANGED <<ws, room>> /\ down' = Push(down, e) /\ table' = S
        /\ tracked' => ws = "open"
    BY <1>1 DEF RoomSynced, state, socket, RoomInv
  <2> HIDE DEF e
  <2>3. \A r : OnRoomEvent(r, e).known = TRUE /\ OnRoomEvent(r, e).members = S
    BY <2>1 DEF OnRoomEvent, UpsertRoom
  <2> QED
    BY <2>1, <2>2, <2>3, RoomTold
<1>2. ASSUME NEW d \in Ids, MemberJoined(d)
      PROVE  RoomInv'
  <2> DEFINE e == Ev("member_joined", d)
  <2>1. e \in Envelopes /\ e.t = "member_joined" /\ e.x = d
    BY MadeEnvelopes DEF Ev
  <2>2. /\ UNCHANGED <<ws, room, tracked>> /\ down' = Push(down, e) /\ table' = table \cup {d}
        /\ tracked' => ws = "open"
    BY <1>2 DEF MemberJoined, state, socket, here, RoomInv
  <2> HIDE DEF e
  <2>3. \A r : r.known = TRUE /\ r.members = table =>
           OnRoomEvent(r, e).known = TRUE /\ OnRoomEvent(r, e).members = table \cup {d}
    BY <2>1 DEF OnRoomEvent, SetMembers
  <2> QED
    BY <2>1, <2>2, <2>3, RoomTold
<1>3. ASSUME Kicked
      PROVE  RoomInv'
  <2> DEFINE e == Ev("member_left", Daemon)
  <2>1. e \in Envelopes /\ e.t = "member_left" /\ e.x = Daemon
    BY MadeEnvelopes DEF Ev, Ids
  <2>2. /\ UNCHANGED <<ws, room, tracked>> /\ down' = Push(down, e) /\ table' = table \ {Daemon}
        /\ tracked' => ws = "open"
    BY <1>3 DEF Kicked, state, socket, here, RoomInv
  <2> HIDE DEF e
  <2>3. \A r : r.known = TRUE /\ r.members = table =>
           OnRoomEvent(r, e).known = TRUE /\ OnRoomEvent(r, e).members = table \ {Daemon}
    BY <2>1, Distinct DEF OnRoomEvent, SetMembers
  <2> QED
    BY <2>1, <2>2, <2>3, RoomTold
<1> QED
  BY <1>1, <1>2, <1>3

(* What the page makes of its entry is what the run says.                  *)
LEMMA RoomRead ==
  ASSUME Types, RoomInv, OnMessage
  PROVE  RoomInv'
<1> DEFINE e == Head(down)
<1>1. /\ down \in Seq(Envelopes) /\ down # <<>> /\ e \in Envelopes
      /\ down' = Tail(down) /\ UNCHANGED <<ws, table, tracked>>
  BY TailElems DEF Types, WireOK, OnMessage, socket, daemon
<1>2. room' = OnRoomEvent(room, e)
  <2>1. CASE e.txn = 0
    <3>1. OnEvent(e)
      BY <2>1 DEF OnMessage
    <3> QED
      BY <3>1 DEF OnEvent, OnRoomEvent
  <2>2. CASE e.txn # 0
    <3>1. OnResult(e) /\ e.t \in {"list", "history"}
      BY <1>1, <2>2, EnvelopeKinds DEF OnMessage
    <3> QED
      BY <3>1 DEF OnResult, OnRoomEvent
  <2> QED
    BY <2>1, <2>2
<1>3. PICK f : /\ RoomRun(f, room, down)
               /\ tracked => f[Len(down)].known = TRUE /\ f[Len(down)].members = table
  BY DEF RoomInv
<1>4. PICK g : /\ RoomRun(g, OnRoomEvent(room, Head(down)), Tail(down))
               /\ g[Len(Tail(down))] = f[Len(down)]
  BY <1>1, <1>3, RunAdvances
<1> QED
  BY <1>1, <1>2, <1>3, <1>4 DEF RoomInv

LEMMA RoomStep ==
  ASSUME Types, QuietInv, RoomInv, [Next]_vars
  PROVE  RoomInv'
<1>0. ASSUME UNCHANGED <<room, table, tracked, down>>, ws' = ws \/ ~tracked
      PROVE  RoomInv'
  BY <1>0 DEF RoomInv
<1>1. CASE OnOpen \/ Connect
  <2>1. UNCHANGED <<room, down, table, tracked>> /\ (ws' = "open" \/ timer)
    BY <1>1 DEF OnOpen, Connect, state, daemon, here
  <2>2. CASE tracked
    <3>1. ws = "open" /\ ~timer
      BY <2>2 DEF RoomInv, QuietInv
    <3> QED
      BY <1>0, <2>1, <3>1
  <2>3. CASE ~tracked
    BY <1>0, <2>1, <2>3
  <2> QED
    BY <2>2, <2>3
<1>2. CASE OnClose \/ Reload
  <2>1. down' = <<>> /\ ~tracked'
    BY <1>2 DEF OnClose, Reload, ConnectionGone
  <2>2. PICK f : RoomRun(f, room', <<>>)
    BY RunOfNone
  <2> QED
    BY <2>1, <2>2 DEF RoomInv
<1>3. CASE \/ Login
           \/ \E k \in Keys : OpenConversation(k)
           \/ \E m \in Messages : SendText(m)
           \/ \E p \in Peers : PeerGone(p)
           \/ \E r \in pending : RequestTimesOut(r)
           \/ UNCHANGED vars
  <2>1. UNCHANGED <<ws, room, table, tracked, down>>
    BY <1>3 DEF Login, OpenConversation, SendText, PeerGone, RequestTimesOut, vars, state, socket,
                daemon, here
  <2> QED
    BY <1>0, <2>1
<1>4. CASE \/ Dispatch
           \/ \E m \in Messages : Inbound(m) \/ InboundAck(m)
           \/ \E p \in Peers : PeerFound(p)
  <2>1. UNCHANGED <<ws, room, table, tracked>>
    BY <1>4 DEF Dispatch, Inbound, InboundAck, PeerFound, state, socket, daemon, here
  <2>2. down' = down \/ \E e \in Envelopes : OtherEvent(e) /\ down' = Append(down, e)
    <3>1. ASSUME NEW m \in Messages, Announce(m, down)
          PROVE  down' = down \/ \E e \in Envelopes : OtherEvent(e) /\ down' = Append(down, e)
      <4>1. down' \in {down, Append(down, Ev("chat", m))}
        BY <3>1, PushIs DEF Announce
      <4> QED
        BY <4>1, MadeEnvelopes, MadeEvents DEF OtherEvent
    <3>2. ASSUME NEW m \in Messages, InboundAck(m)
          PROVE  down' = down \/ \E e \in Envelopes : OtherEvent(e) /\ down' = Append(down, e)
      <4>1. m \in Typed /\ down' \in {down, Append(down, Ev("ack", m))}
        BY <3>2, PushIs DEF InboundAck
      <4> QED
        BY <4>1, MadeEnvelopes, MadeEvents DEF OtherEvent
    <3>3. ASSUME NEW p \in Peers, PeerFound(p)
          PROVE  down' = down \/ \E e \in Envelopes : OtherEvent(e) /\ down' = Append(down, e)
      <4>1. down' \in {down, Append(down, Ev("discovery.peer_found", p))}
        BY <3>3, PushIs DEF PeerFound
      <4> QED
        BY <4>1, MadeEnvelopes, MadeEvents DEF OtherEvent
    <3>4. ASSUME Dispatch
          PROVE  down' = down \/ \E e \in Envelopes : OtherEvent(e) /\ down' = Append(down, e)
      <4>1. CASE Head(up).t = "send"
        <5>1. Head(up).x \in Messages /\ Announce(Head(up).x, down)
          BY <3>4, <4>1, DispatchKinds DEF Typed
        <5> QED
          BY <3>1, <5>1
      <4>2. CASE Head(up).t # "send"
        <5>1. \/ down' = down
              \/ /\ down' = Append(down, Res("list", registry, Head(up).txn))
                 /\ Res("list", registry, Head(up).txn) \in Envelopes
              \/ /\ down' = Append(down, Res("history", History(Head(up).x), Head(up).txn))
                 /\ Res("history", History(Head(up).x), Head(up).txn) \in Envelopes
          BY <3>4, <4>2, DispatchKinds
        <5> QED
          BY <5>1, MadeEvents DEF OtherEvent
      <4> QED
        BY <4>1, <4>2
    <3> QED
      BY <1>4, <3>1, <3>2, <3>3, <3>4 DEF Inbound
  <2> QED
    BY <1>0, <2>1, <2>2, RoomApart
<1>5. CASE \/ \E S \in SUBSET Ids : RoomSynced(S)
           \/ \E d \in Ids : MemberJoined(d)
           \/ Kicked
  BY <1>5, RoomOfTable
<1>6. CASE OnMessage
  BY <1>6, RoomRead
<1> QED
  BY <1>1, <1>2, <1>3, <1>4, <1>5, <1>6 DEF Next

LEMMA RunEndsAtTable ==
  ASSUME Types, RoomInv
  PROVE  RoomFollows
<1>1. PICK f : /\ RoomRun(f, room, down)
               /\ tracked => f[Len(down)].known = TRUE /\ f[Len(down)].members = table
  BY DEF RoomInv
<1>2. RoomRun(RoomAfter, room, down)
  BY <1>1 DEF RoomRun, RoomAfter
<1>3. down \in Seq(Envelopes) /\ Len(down) \in 0..Len(down)
  BY DEF Types, WireOK
<1>4. RoomAfter[Len(down)] = f[Len(down)]
  BY <1>1, <1>2, <1>3, RunIsOne
<1> QED
  BY <1>1, <1>4 DEF RoomFollows

(***************************************************************************)
(* When the page has handled what is on its way, its table of the room is  *)
(* the daemon's.                                                           *)
(***************************************************************************)
THEOREM RoomIsTheDaemons == Spec => []RoomFollows
<1>1. Init => RoomInv
  <2> SUFFICES ASSUME Init PROVE RoomInv
    OBVIOUS
  <2>1. down = <<>> /\ ~tracked
    BY DEF Init
  <2>2. PICK f : RoomRun(f, room, <<>>)
    BY RunOfNone
  <2> QED
    BY <2>1, <2>2 DEF RoomInv
<1>2. Types /\ QuietInv /\ RoomInv /\ [Next]_vars => RoomInv'
  BY RoomStep
<1> QED
  BY <1>1, <1>2, TypesHold, ConnectionHolds, RunEndsAtTable, PTL DEF Spec
=================================================================================
