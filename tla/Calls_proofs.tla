--------------------------- MODULE Calls_proofs ---------------------------
(***************************************************************************)
(* For any devices and any calls between them: no candidate is stranded, a *)
(* call is answered only when its user accepted it, and the answer carries *)
(* the media of the callee.                                                *)
(***************************************************************************)
EXTENDS Calls, FiniteSetTheorems, TLAPS

-----------------------------------------------------------------------------
(* The invariants *)

MediaTypes == media \in [Devices -> [call : Calls, ringing : BOOLEAN] \cup {NoMedia}]
SessTypes == sess \in [Devices -> [Calls -> {"none", "open", "closed"}]]
SlotTypes == slot \in [Devices -> Calls \cup {NoCall}]
SetTypes ==
  /\ pending \in CallSets /\ stream \in CallSets /\ armed \in CallSets
  /\ capturing \in CallSets /\ tracks \in CallSets
  /\ applying \in CallSets /\ remote \in CallSets
  /\ iceQueue \in CallSets /\ gathered \in CallSets
HistoryTypes ==
  /\ offered \subseteq Calls /\ accepted \subseteq Calls /\ answered \subseteq Calls
  /\ displaced \subseteq Calls /\ broken \subseteq Calls
Nets == [Devices -> [Devices -> Seq(Signals)]]
NetTypes == net \in Nets
FaultTypes == faults \in 0..MaxFaults

(* Only so many calls have a session.                                      *)
HasSession == {c \in Calls : \E d \in Devices : sess[d][c] # "none"}

TypeInv ==
  /\ MediaTypes /\ SessTypes /\ SlotTypes /\ SetTypes /\ HistoryTypes /\ NetTypes /\ FaultTypes
  /\ IsFiniteSet(HasSession)

(* Signals of call c on the way q.                                         *)
InviteAt(q, n, c) == q[n].t = "call_invite" /\ q[n].call = c
InviteIn(q, c) == \E n \in 1..Len(q) : InviteAt(q, n, c)
Names(q, c) == \E n \in 1..Len(q) : q[n].call = c
InviteFirst(q, c) ==
  \A m, n \in 1..Len(q) :
    InviteAt(q, m, c) /\ q[n].t \in {"call_invite", "offer"} /\ q[n].call = c => m <= n

(* A signal goes between the ends of its call, invitations and offers from *)
(* the caller, answers and acceptances from the callee.                    *)
Goes(e, d, s) ==
  \/ e = From[s.call] /\ d = To[s.call] /\ s.t \notin {"answer", "call_accept"}
  \/ e = To[s.call] /\ d = From[s.call] /\ s.t \notin {"call_invite", "offer"}
Routed(q, e, d) == \A n \in 1..Len(q) : Goes(e, d, q[n])

RouteInv ==
  /\ \A e, d \in Devices : Routed(net[e][d], e, d)
  /\ \A d \in Devices :
       /\ media[d].ringing => d = To[media[d].call]
       /\ \A c \in Calls : sess[d][c] # "none" => d \in {From[c], To[c]}

There(c) == net[From[c]][To[c]]
Back(c) == net[To[c]][From[c]]

(* The callee has not got to know of the call.                             *)
Idle(c) ==
  /\ c \notin applying[To[c]] /\ c \notin armed[To[c]] /\ c \notin stream[To[c]]
  /\ c \notin capturing[To[c]] /\ slot[To[c]] # c
  /\ c \notin accepted /\ c \notin answered
  /\ ~ (media[To[c]].ringing /\ media[To[c]].call = c)

FreshInv(c) ==
  c \notin Made =>
    /\ Idle(c) /\ sess[To[c]][c] = "none" /\ ~ Names(There(c), c) /\ ~ Names(Back(c), c)

InviteInv(c) ==
  /\ InviteFirst(There(c), c)
  /\ InviteIn(There(c), c) => Mode[c] # "file" /\ Idle(c)
  /\ c \in pending[To[c]] => Mode[c] # "file"

AcceptInv(c) ==
  /\ c \in capturing[To[c]] \/ c \in stream[To[c]] \/ c \in armed[To[c]] => c \in accepted
  /\ (c \in applying[To[c]] \/ c \in answered) /\ c \in pending[To[c]] => c \in accepted

MediaInv(c) ==
  /\ c \in Made /\ Mode[c] # "file" /\ c \notin broken =>
       c \in pending[To[c]] \/ InviteIn(There(c), c)
  /\ Mode[c] = "voice" =>
       /\ c \in armed[To[c]] => c \in tracks[To[c]]
       /\ c \notin broken /\ (c \in applying[To[c]] \/ c \in answered) => c \in tracks[To[c]]

Good(c) == FreshInv(c) /\ InviteInv(c) /\ AcceptInv(c) /\ MediaInv(c)
CallInv == \A c \in Calls : Good(c)

Inv == TypeInv /\ RouteInv /\ CallInv

-----------------------------------------------------------------------------
(* Sets of calls per device *)

LEMMA Constants ==
  /\ \A c \in Calls : From[c] \in Devices /\ To[c] \in Devices /\ From[c] # To[c]
  /\ \A c \in Calls : c # NoCall /\ Mode[c] \in {"voice", "share", "file"}
  /\ MaxFaults \in Nat
BY CallsAssumption

LEMMA AddFacts ==
  ASSUME NEW f \in CallSets, NEW d \in Devices, NEW c \in Calls
  PROVE  /\ Add(f, d, c) \in CallSets
         /\ \A a \in Devices : \A x : x \in Add(f, d, c)[a] <=> x \in f[a] \/ (a = d /\ x = c)
BY DEF Add, CallSets

LEMMA RemoveFacts ==
  ASSUME NEW f \in CallSets, NEW d \in Devices, NEW c
  PROVE  /\ Remove(f, d, c) \in CallSets
         /\ \A a \in Devices : \A x : x \in Remove(f, d, c)[a] <=> x \in f[a] /\ ~ (a = d /\ x = c)
BY DEF Remove, CallSets

LEMMA MinusFacts ==
  ASSUME NEW f \in CallSets, NEW d \in Devices, NEW cs
  PROVE  /\ [f EXCEPT ![d] = @ \ cs] \in CallSets
         /\ \A a \in Devices : \A x :
              x \in [f EXCEPT ![d] = @ \ cs][a] <=> x \in f[a] /\ ~ (a = d /\ x \in cs)
BY DEF CallSets

LEMMA PeerFacts ==
  ASSUME NEW c \in Calls
  PROVE  /\ Peer(From[c], c) = To[c] /\ Peer(To[c], c) = From[c]
         /\ \A d : Peer(d, c) \in Devices
BY Constants DEF Peer

-----------------------------------------------------------------------------
(* Ways *)

(* The way q goes on as r, with signals of the set S.                      *)
Onto(q, r, S) ==
  /\ r \in Seq(Signals) /\ Len(q) <= Len(r)
  /\ \A n \in 1..Len(q) : r[n] = q[n]
  /\ \A n \in (Len(q) + 1)..Len(r) : r[n] \in S

LEMMA OntoConcat ==
  ASSUME NEW q \in Seq(Signals), NEW S \in SUBSET Signals, NEW p \in Seq(S)
  PROVE  q \o p \in Seq(Signals) /\ Onto(q, q \o p, S)
<1> DEFINE r == q \o p
<1>1. p \in Seq(Signals) /\ \A n \in 1..Len(p) : p[n] \in S
  OBVIOUS
<1>2. /\ r \in Seq(Signals) /\ Len(r) = Len(q) + Len(p) /\ Len(q) \in Nat /\ Len(p) \in Nat
      /\ \A i \in 1..Len(q) : r[i] = q[i]
      /\ \A i \in 1..Len(p) : r[Len(q) + i] = p[i]
  BY <1>1
<1> HIDE DEF r
<1>3. ASSUME NEW n \in (Len(q) + 1)..Len(r) PROVE r[n] \in S
  <2>1. n - Len(q) \in 1..Len(p) /\ Len(q) + (n - Len(q)) = n
    BY <1>2
  <2>2. r[n] = p[n - Len(q)]
    BY <1>2, <2>1
  <2> QED
    BY <1>1, <2>1, <2>2
<1> QED
  BY <1>2, <1>3 DEF Onto, r

(* What a way that goes on says of a call.                                 *)
LEMMA OntoWay ==
  ASSUME NEW q \in Seq(Signals), NEW r, NEW S, Onto(q, r, S), NEW x
  PROVE  /\ (\A s \in S : s.call # x) => (Names(r, x) => Names(q, x))
         /\ InviteIn(q, x) => InviteIn(r, x)
         /\ (\A s \in S : s.call # x \/ s.t # "call_invite") =>
              /\ InviteIn(r, x) => InviteIn(q, x)
              /\ InviteFirst(q, x) => InviteFirst(r, x)
<1>1. /\ Len(q) \in Nat /\ Len(r) \in Nat /\ Len(q) <= Len(r)
      /\ \A n \in 1..Len(q) : r[n] = q[n] /\ n \in 1..Len(r)
      /\ \A n \in 1..Len(r) : n \in 1..Len(q) \/ (r[n] \in S /\ n > Len(q))
  BY DEF Onto
<1>2. (\A s \in S : s.call # x) => (Names(r, x) => Names(q, x))
  BY <1>1 DEF Names
<1>3. InviteIn(q, x) => InviteIn(r, x)
  BY <1>1 DEF InviteIn, InviteAt
<1>4. ASSUME \A s \in S : s.call # x \/ s.t # "call_invite"
      PROVE  \A n \in 1..Len(r) : InviteAt(r, n, x) => n \in 1..Len(q) /\ InviteAt(q, n, x)
  BY <1>1, <1>4 DEF InviteAt
<1>5. (\A s \in S : s.call # x \/ s.t # "call_invite") => (InviteIn(r, x) => InviteIn(q, x))
  BY <1>4 DEF InviteIn
<1>6. ASSUME \A s \in S : s.call # x \/ s.t # "call_invite", InviteFirst(q, x)
      PROVE  InviteFirst(r, x)
  <2>1. SUFFICES ASSUME NEW m \in 1..Len(r), NEW n \in 1..Len(r), InviteAt(r, m, x),
                        r[n].t \in {"call_invite", "offer"}, r[n].call = x
                 PROVE  m <= n
    BY DEF InviteFirst
  <2>2. m \in 1..Len(q) /\ InviteAt(q, m, x)
    BY <1>4, <1>6, <2>1
  <2>3. CASE n \in 1..Len(q)
    BY <1>1, <1>6, <2>1, <2>2, <2>3 DEF InviteFirst
  <2>4. CASE n \notin 1..Len(q)
    BY <1>1, <2>1, <2>2, <2>4
  <2> QED
    BY <2>3, <2>4
<1> QED
  BY <1>2, <1>3, <1>5, <1>6

LEMMA OntoRouted ==
  ASSUME NEW q \in Seq(Signals), NEW r, NEW S, Onto(q, r, S), NEW e, NEW d,
         Routed(q, e, d), \A s \in S : Goes(e, d, s)
  PROVE  Routed(r, e, d)
BY DEF Onto, Routed

(* The first signal is taken off a way.                                    *)
LEMMA TailWay ==
  ASSUME NEW q \in Seq(Signals), q # <<>>, NEW x
  PROVE  /\ Tail(q) \in Seq(Signals) /\ Head(q) \in Signals
         /\ Names(q, Head(q).call)
         /\ Names(Tail(q), x) => Names(q, x)
         /\ InviteIn(Tail(q), x) => InviteIn(q, x)
         /\ InviteIn(q, x) => InviteIn(Tail(q), x)
                               \/ (Head(q).t = "call_invite" /\ Head(q).call = x)
         /\ InviteFirst(q, x) => InviteFirst(Tail(q), x)
         /\ Head(q).t = "call_invite" => InviteIn(q, Head(q).call)
         /\ Head(q).t \in {"call_invite", "offer"} /\ Head(q).call = x /\ InviteFirst(q, x)
              => ~ InviteIn(Tail(q), x)
<1> DEFINE r == Tail(q)
<1>1. /\ Len(q) \in Nat \ {0} /\ Len(r) = Len(q) - 1 /\ Head(q) = q[1] /\ q[1] \in Signals
      /\ r \in Seq(Signals)
      /\ \A n \in 1..(Len(q) - 1) : r[n] = q[n + 1]
  OBVIOUS
<1> HIDE DEF r
<1>2. /\ \A n \in 1..Len(r) : n + 1 \in 1..Len(q) /\ r[n] = q[n + 1]
      /\ \A n \in 2..Len(q) : n - 1 \in 1..Len(r) /\ q[n] = r[n - 1]
      /\ 1 \in 1..Len(q) /\ \A n \in 1..Len(q) : n = 1 \/ n \in 2..Len(q)
  BY <1>1
<1>3. Names(q, Head(q).call) /\ (Names(r, x) => Names(q, x))
  BY <1>1, <1>2 DEF Names
<1>4. /\ InviteIn(r, x) => InviteIn(q, x)
      /\ InviteIn(q, x) => InviteIn(r, x) \/ (Head(q).t = "call_invite" /\ Head(q).call = x)
  <2>1. InviteIn(r, x) => InviteIn(q, x)
    BY <1>2 DEF InviteIn, InviteAt
  <2>2. InviteIn(q, x) => InviteIn(r, x) \/ (Head(q).t = "call_invite" /\ Head(q).call = x)
    BY <1>1, <1>2 DEF InviteIn, InviteAt
  <2> QED
    BY <2>1, <2>2
<1>5. ASSUME InviteFirst(q, x) PROVE InviteFirst(r, x)
  <2>1. SUFFICES ASSUME NEW m \in 1..Len(r), NEW n \in 1..Len(r), InviteAt(r, m, x),
                        r[n].t \in {"call_invite", "offer"}, r[n].call = x
                 PROVE  m <= n
    BY DEF InviteFirst
  <2>2. m + 1 <= n + 1
    BY <1>2, <1>5, <2>1 DEF InviteFirst, InviteAt
  <2> QED
    BY <2>2
<1>6. Head(q).t = "call_invite" => InviteIn(q, Head(q).call)
  BY <1>1, <1>2 DEF InviteIn, InviteAt
<1>7. ASSUME Head(q).t \in {"call_invite", "offer"}, Head(q).call = x, InviteFirst(q, x),
             NEW m \in 1..Len(r), InviteAt(r, m, x)
      PROVE  FALSE
  <2>1. m + 1 <= 1
    BY <1>1, <1>2, <1>7 DEF InviteFirst, InviteAt
  <2> QED
    BY <2>1
<1> QED
  BY <1>1, <1>3, <1>4, <1>5, <1>6, <1>7 DEF InviteIn, r

LEMMA TailRouted ==
  ASSUME NEW q \in Seq(Signals), q # <<>>, NEW e, NEW d, Routed(q, e, d)
  PROVE  Routed(Tail(q), e, d) /\ Goes(e, d, Head(q))
<1>1. /\ Len(q) \in Nat \ {0} /\ Len(Tail(q)) = Len(q) - 1 /\ Head(q) = q[1]
      /\ \A n \in 1..(Len(q) - 1) : Tail(q)[n] = q[n + 1] /\ n + 1 \in 1..Len(q)
      /\ 1 \in 1..Len(q)
  OBVIOUS
<1> QED
  BY <1>1 DEF Routed

(* Signals of the kinds K are sent from d to the other end of call c.      *)
Of(K, c) == [t : K, call : {c}]

LEMMA SentWays ==
  ASSUME NetTypes, NEW c \in Calls, NEW d \in {From[c], To[c]}, NEW K \in SUBSET Kinds,
         NEW kinds \in Seq(K)
  PROVE  /\ Sent(d, c, kinds) \in Nets
         /\ \A a, b \in Devices :
              /\ a = d /\ b = Peer(d, c) =>
                   Onto(net[a][b], Sent(d, c, kinds)[a][b], Of(K, c))
              /\ ~ (a = d /\ b = Peer(d, c)) => Sent(d, c, kinds)[a][b] = net[a][b]
<1> DEFINE e == Peer(d, c)
           p == [n \in 1..Len(kinds) |-> [t |-> kinds[n], call |-> c]]
           S == [t : K, call : {c}]
<1>1. d \in Devices /\ e \in Devices
  BY Constants, PeerFacts
<1>2. p \in Seq(S)
  <2>1. Len(kinds) \in Nat /\ \A n \in 1..Len(kinds) : kinds[n] \in K
    OBVIOUS
  <2>2. p \in [1..Len(kinds) -> S]
    BY <2>1
  <2> QED
    BY <2>1, <2>2
<1>3. S \in SUBSET Signals
  BY DEF Signals
<1>4. Sent(d, c, kinds) = [net EXCEPT ![d][e] = @ \o p]
  BY DEF Sent
<1> HIDE DEF p, S, e
<1>5. net[d] \in [Devices -> Seq(Signals)] /\ net[d][e] \in Seq(Signals)
  BY <1>1 DEF NetTypes, Nets
<1>6. net[d][e] \o p \in Seq(Signals) /\ Onto(net[d][e], net[d][e] \o p, S)
  BY <1>2, <1>3, <1>5, OntoConcat
<1>7. Sent(d, c, kinds) \in Nets
  BY <1>1, <1>4, <1>6 DEF NetTypes, Nets
<1>8. \A a, b \in Devices :
        Sent(d, c, kinds)[a][b] = IF a = d /\ b = e THEN net[d][e] \o p ELSE net[a][b]
  <2> DEFINE r == net[d][e] \o p
  <2>1. Sent(d, c, kinds) = [net EXCEPT ![d] = [net[d] EXCEPT ![e] = r]]
    BY <1>4
  <2> HIDE DEF r
  <2>2. Sent(d, c, kinds)[d] = [net[d] EXCEPT ![e] = r]
    BY <1>1, <2>1 DEF NetTypes, Nets
  <2>3. \A a \in Devices : a # d => Sent(d, c, kinds)[a] = net[a]
    BY <2>1 DEF NetTypes, Nets
  <2>4. \A b \in Devices : Sent(d, c, kinds)[d][b] = IF b = e THEN r ELSE net[d][b]
    BY <1>1, <1>5, <2>2
  <2> QED
    BY <1>1, <2>3, <2>4 DEF r
<1> QED
  BY <1>6, <1>7, <1>8 DEF S, e, Of

(* The hangups of the calls cs.                                            *)
LEMMA HangupsType ==
  ASSUME NEW cs, IsFiniteSet(cs)
  PROVE  Hangups(cs) \in Seq([t : {"call_hangup"}, call : cs])
<1> DEFINE N == Cardinality(cs)
           S == [t : {"call_hangup"}, call : cs]
<1>1. N \in Nat /\ ExistsBijection(1..N, cs)
  BY FS_CardinalityType
<1>2. PICK f \in Bijection(1..N, cs) : TRUE
  BY <1>1 DEF ExistsBijection
<1>3. f \in [1..N -> cs] /\ \A c \in cs : \E n \in 1..N : f[n] = c
  BY <1>2 DEF Bijection, Surjection
<1> DEFINE s == [n \in 1..N |-> [t |-> "call_hangup", call |-> f[n]]]
<1>4. s \in [1..N -> S] /\ \A c \in cs : \E n \in DOMAIN s : s[n].call = c
  BY <1>3
<1> DEFINE P(z) == \A c \in cs : \E n \in DOMAIN z : z[n].call = c
<1>5. Hangups(cs) = CHOOSE z \in [1..N -> S] : P(z)
  BY DEF Hangups
<1>6. \E z \in [1..N -> S] : P(z)
  BY <1>4
<1> HIDE DEF N, S, s, P
<1>7. Hangups(cs) \in [1..N -> S]
  BY <1>5, <1>6
<1>8. Hangups(cs) \in Seq(S)
  BY <1>1, <1>7
<1> QED
  BY <1>8 DEF S

-----------------------------------------------------------------------------
(* Types *)

LEMMA InitTypes == ASSUME Init PROVE TypeInv
<1> USE DEF Init
<1>1. MediaTypes /\ SessTypes /\ SlotTypes
  BY DEF MediaTypes, SessTypes, SlotTypes
<1>2. SetTypes
  BY DEF SetTypes, CallSets, NoneAnywhere
<1>3. HistoryTypes /\ FaultTypes
  BY Constants DEF HistoryTypes, FaultTypes
<1>4. NetTypes
  <2>1. <<>> \in Seq(Signals)
    OBVIOUS
  <2> QED
    BY <2>1 DEF NetTypes, Nets
<1>5. HasSession = {}
  BY DEF HasSession
<1>6. IsFiniteSet(HasSession)
  BY <1>5, FS_EmptySet
<1> QED
  BY <1>1, <1>2, <1>3, <1>4, <1>6 DEF TypeInv

(* One call more may have a session.                                       *)
LEMMA SessionsGrow ==
  ASSUME TypeInv, NEW c,
         \A d \in Devices, x \in Calls : sess'[d][x] # "none" => x = c \/ sess[d][x] # "none"
  PROVE  IsFiniteSet(HasSession')
<1>1. HasSession' \subseteq HasSession \cup {c}
  BY DEF HasSession
<1>2. IsFiniteSet(HasSession \cup {c})
  BY FS_AddElement DEF TypeInv
<1> QED
  BY <1>1, <1>2, FS_Subset

LEMMA SessSet ==
  ASSUME TypeInv, NEW d \in Devices, NEW c \in Calls, NEW s \in {"open", "closed"},
         sess' = [sess EXCEPT ![d][c] = s]
  PROVE  SessTypes' /\ IsFiniteSet(HasSession')
<1>1. SessTypes'
  BY DEF TypeInv, SessTypes
<1>2. \A a \in Devices, x \in Calls : sess'[a][x] # "none" => x = c \/ sess[a][x] # "none"
  BY DEF TypeInv, SessTypes
<1> QED
  BY <1>1, <1>2, SessionsGrow

LEMMA SessWith ==
  ASSUME TypeInv, NEW d \in Devices, NEW c \in Calls, sess' = WithSession(d, c)
  PROVE  /\ SessTypes' /\ IsFiniteSet(HasSession')
         /\ \A a \in Devices, x \in Calls :
              /\ ~ (a = d /\ x = c) => sess'[a][x] = sess[a][x]
              /\ sess'[a][x] # "none" <=> sess[a][x] # "none" \/ (a = d /\ x = c)
<1>1. SessTypes'
  BY DEF TypeInv, SessTypes, WithSession
<1>2. \A a \in Devices, x \in Calls :
        sess'[a][x] = IF a = d /\ x = c /\ sess[d][c] = "none" THEN "open" ELSE sess[a][x]
  BY DEF TypeInv, SessTypes, WithSession
<1>3. IsFiniteSet(HasSession')
  BY <1>2, SessionsGrow
<1> QED
  BY <1>1, <1>2, <1>3

LEMMA SameSess == ASSUME TypeInv, UNCHANGED sess PROVE SessTypes' /\ IsFiniteSet(HasSession')
BY DEF TypeInv, SessTypes, HasSession

LEMMA SameTypes ==
  ASSUME TypeInv
  PROVE  /\ UNCHANGED media => MediaTypes'
         /\ UNCHANGED slot => SlotTypes'
         /\ UNCHANGED <<pending, stream, armed, capturing, tracks, rtc>> => SetTypes'
         /\ UNCHANGED history => HistoryTypes'
         /\ UNCHANGED net => NetTypes'
         /\ UNCHANGED faults => FaultTypes'
BY DEF TypeInv, MediaTypes, SlotTypes, SetTypes, HistoryTypes, NetTypes, FaultTypes, history, rtc

LEMMA SendTypes ==
  ASSUME TypeInv, NEW c \in Calls, NEW d \in {From[c], To[c]}
  PROVE  /\ \A k \in Kinds : Sent(d, c, <<k>>) \in Nets
         /\ \A k \in Kinds : Sent(d, c, <<k, k>>) \in Nets
<1>1. \A k \in Kinds : <<k>> \in Seq(Kinds) /\ <<k, k>> \in Seq(Kinds)
  OBVIOUS
<1>2. Kinds \in SUBSET Kinds /\ NetTypes
  BY DEF TypeInv
<1> QED
  BY <1>1, <1>2, SentWays

LEMMA StartCallTypes == ASSUME TypeInv, NEW c \in Calls, StartCall(c) PROVE TypeInv'
<1> USE Constants
<1>1. MediaTypes'
  BY DEF StartCall, TypeInv, MediaTypes
<1>2. SessTypes' /\ IsFiniteSet(HasSession')
  BY SessSet DEF StartCall
<1>3. SetTypes'
  BY AddFacts DEF StartCall, TypeInv, SetTypes, rtc
<1>4. NetTypes'
  BY SendTypes DEF StartCall, NetTypes, Kinds
<1> QED
  BY <1>1, <1>2, <1>3, <1>4, SameTypes DEF StartCall, TypeInv

LEMMA CallerCapturedTypes == ASSUME TypeInv, NEW c \in Calls, CallerCaptured(c) PROVE TypeInv'
<1> USE Constants
<1>1. SetTypes'
  BY AddFacts, RemoveFacts DEF CallerCaptured, TypeInv, SetTypes, rtc
<1>2. NetTypes'
  BY SendTypes, SameTypes DEF CallerCaptured, SendOffer, NetTypes, Kinds
<1>3. HistoryTypes'
  BY DEF CallerCaptured, SendOffer, TypeInv, HistoryTypes
<1> QED
  BY <1>1, <1>2, <1>3, SameSess, SameTypes DEF CallerCaptured, TypeInv

LEMMA CaptureFailsTypes ==
  ASSUME TypeInv, NEW c \in Calls, CallerCaptureFails(c) \/ CalleeCaptureFails(c) PROVE TypeInv'
<1>1. PICK d \in Devices :
        /\ capturing' = Remove(capturing, d, c) /\ broken' = broken \cup {c}
        /\ UNCHANGED <<media, sess, pending, stream, slot, armed, tracks, rtc, offered, accepted,
                       answered, displaced, net, faults>>
  BY Constants DEF CallerCaptureFails, CalleeCaptureFails
<1>2. SetTypes'
  BY <1>1, RemoveFacts DEF TypeInv, SetTypes, rtc
<1>3. HistoryTypes'
  BY <1>1 DEF TypeInv, HistoryTypes
<1> QED
  BY <1>1, <1>2, <1>3, SameSess, SameTypes DEF TypeInv

LEMMA SendFileTypes == ASSUME TypeInv, NEW c \in Calls, SendFileTo(c) PROVE TypeInv'
<1> USE Constants
<1>1. SessTypes' /\ IsFiniteSet(HasSession')
  BY SessSet DEF SendFileTo
<1>2. NetTypes'
  BY SendTypes DEF SendFileTo, SendOffer, NetTypes, Kinds
<1>3. HistoryTypes'
  BY DEF SendFileTo, SendOffer, TypeInv, HistoryTypes
<1> QED
  BY <1>1, <1>2, <1>3, SameTypes DEF SendFileTo, TypeInv

LEMMA CloseTypes == ASSUME TypeInv, NEW d \in Devices, CloseOverlay(d) PROVE TypeInv'
<1>1. MediaTypes'
  BY DEF CloseOverlay, TypeInv, MediaTypes
<1> QED
  BY <1>1, SameSess, SameTypes DEF CloseOverlay, TypeInv

(* What rings is a call to this device.                                    *)
LEMMA Ringing ==
  ASSUME TypeInv, RouteInv, NEW d \in Devices, media[d].ringing
  PROVE  media[d].call \in Calls /\ d = To[media[d].call]
BY DEF TypeInv, MediaTypes, RouteInv, NoMedia

LEMMA AnswerTypes ==
  ASSUME TypeInv, NEW d \in Devices, NEW c \in Calls, AnswerOrArm(d, c)
  PROVE  SlotTypes' /\ armed' \in CallSets /\ applying' \in CallSets
<1>1. CASE slot[d] = c
  BY <1>1, AddFacts DEF AnswerOrArm, TypeInv, SlotTypes, SetTypes
<1>2. CASE slot[d] # c
  BY <1>2, AddFacts DEF AnswerOrArm, TypeInv, SlotTypes, SetTypes
<1> QED
  BY <1>1, <1>2

LEMMA AcceptTypes == ASSUME TypeInv, RouteInv, NEW d \in Devices, Accept(d) PROVE TypeInv'
<1> DEFINE c == media[d].call
<1>0. c \in Calls /\ d = To[c]
  BY Ringing DEF Accept, AcceptButton
<1>1. MediaTypes'
  <2>1. media[d] \in [call : Calls, ringing : BOOLEAN]
    BY DEF Accept, AcceptButton, TypeInv, MediaTypes, NoMedia
  <2> QED
    BY <2>1 DEF Accept, TypeInv, MediaTypes
<1>2. HistoryTypes'
  BY <1>0 DEF Accept, TypeInv, HistoryTypes
<1>3. CASE Mode[c] = "voice"
  <2>1. /\ capturing' = Add(capturing, d, c) /\ net' = Sent(d, c, <<"call_accept">>)
        /\ UNCHANGED <<sess, slot, armed, applying>>
        /\ UNCHANGED <<pending, stream, tracks, remote, iceQueue, gathered, faults>>
    BY <1>3 DEF Accept
  <2> HIDE DEF c
  <2>2. SetTypes'
    BY <1>0, <2>1, AddFacts DEF TypeInv, SetTypes
  <2>3. NetTypes'
    BY <1>0, <2>1, SendTypes DEF NetTypes, Kinds
  <2> QED
    BY <1>1, <1>2, <2>1, <2>2, <2>3, SameSess, SameTypes DEF TypeInv
<1>4. CASE Mode[c] # "voice"
  <2>1. /\ sess' = WithSession(d, c) /\ AnswerOrArm(d, c)
        /\ net' = Sent(d, c, <<"call_accept", "call_accept">>) /\ UNCHANGED capturing
        /\ UNCHANGED <<pending, stream, tracks, remote, iceQueue, gathered, faults>>
    BY <1>4 DEF Accept
  <2> HIDE DEF c
  <2>2. SlotTypes' /\ SetTypes'
    BY <1>0, <2>1, AnswerTypes DEF TypeInv, SetTypes
  <2>3. NetTypes'
    BY <1>0, <2>1, SendTypes DEF NetTypes, Kinds
  <2> QED
    BY <1>0, <1>1, <1>2, <2>1, <2>2, <2>3, SessWith, SameTypes DEF TypeInv
<1> QED
  BY <1>3, <1>4

LEMMA CalleeCapturedTypes == ASSUME TypeInv, NEW c \in Calls, CalleeCaptured(c) PROVE TypeInv'
<1> DEFINE d == To[c]
<1>0. d \in Devices
  BY Constants
<1>1. /\ capturing' = Remove(capturing, d, c)
      /\ stream' = IF c \in pending[d] THEN Add(stream, d, c) ELSE stream
      /\ media' = [media EXCEPT ![d] = [call |-> c, ringing |-> FALSE]]
      /\ sess' = WithSession(d, c) /\ tracks' = Add(tracks, d, c)
      /\ AnswerOrArm(d, c) /\ net' = Sent(d, c, <<"call_accept">>)
      /\ UNCHANGED <<pending, remote, iceQueue, gathered, history, faults>>
  BY DEF CalleeCaptured
<1>2. MediaTypes'
  BY <1>0, <1>1 DEF TypeInv, MediaTypes
<1>3. NetTypes'
  BY <1>1, SendTypes DEF NetTypes, Kinds
<1> HIDE DEF d
<1>4. stream' \in CallSets /\ tracks' \in CallSets /\ capturing' \in CallSets
  BY <1>0, <1>1, AddFacts, RemoveFacts DEF TypeInv, SetTypes
<1>5. SlotTypes' /\ SetTypes'
  BY <1>0, <1>1, <1>4, AnswerTypes DEF TypeInv, SetTypes
<1> QED
  BY <1>0, <1>1, <1>2, <1>3, <1>5, SessWith, SameTypes DEF TypeInv

LEMMA DropTypes ==
  ASSUME TypeInv, NEW d \in Devices, NEW cs \in SUBSET Calls, DropSessions(d, cs),
         UNCHANGED <<capturing, gathered, offered, accepted, answered, displaced>>
  PROVE  SessTypes' /\ IsFiniteSet(HasSession') /\ SetTypes' /\ HistoryTypes'
<1>1. SessTypes' /\ \A a \in Devices, x \in Calls : sess'[a][x] # "none" => sess[a][x] # "none"
  BY DEF DropSessions, TypeInv, SessTypes
<1>2. IsFiniteSet(HasSession')
  BY <1>1, SessionsGrow
<1>3. SetTypes'
  BY MinusFacts DEF DropSessions, TypeInv, SetTypes
<1>4. HistoryTypes'
  BY DEF DropSessions, TypeInv, HistoryTypes
<1> QED
  BY <1>1, <1>2, <1>3, <1>4

LEMMA ReceivesTypes ==
  ASSUME TypeInv, NEW d \in Devices, NEW e \in Devices, Receive(e, d) PROVE TypeInv'
<1> DEFINE c == Head(net[e][d]).call
           t == Head(net[e][d]).t
<1>0. c \in Calls /\ net[e][d] # <<>> /\ net[e][d] \in Seq(Signals) /\ UNCHANGED faults
  <2>1. net[e][d] \in Seq(Signals) /\ net[e][d] # <<>>
    BY DEF Receive, TypeInv, NetTypes, Nets
  <2>2. Head(net[e][d]) \in Signals
    BY <2>1
  <2> QED
    BY <2>1, <2>2 DEF Signals, Receive
<1>1. NetTypes'
  <2>1. Tail(net[e][d]) \in Seq(Signals)
    BY <1>0
  <2> QED
    BY <2>1 DEF Receive, TypeInv, NetTypes, Nets
<1>2. FaultTypes'
  BY <1>0, SameTypes
<1> HIDE DEF c
<1>3. ASSUME OnInvite(d, c) PROVE TypeInv'
  <2>1. MediaTypes' /\ SetTypes'
    BY <1>0, <1>3, AddFacts DEF OnInvite, TypeInv, MediaTypes, SetTypes, rtc
  <2> QED
    BY <1>1, <1>2, <1>3, <2>1, SameSess, SameTypes DEF OnInvite, TypeInv
<1>4. ASSUME OnOffer(d, c) PROVE TypeInv'
  <2>1. /\ SessTypes' /\ IsFiniteSet(HasSession')
    BY <1>0, <1>4, SessWith DEF OnOffer
  <2>2. SlotTypes'
    BY <1>0, <1>4 DEF OnOffer, TypeInv, SlotTypes
  <2>3. HistoryTypes'
    BY <1>4 DEF OnOffer, Displace, TypeInv, HistoryTypes, SlotTypes
  <2>4. armed' \in CallSets /\ tracks' \in CallSets /\ applying' \in CallSets
    <3>1. armed' \in CallSets
      BY <1>4, RemoveFacts DEF OnOffer, TypeInv, SetTypes
    <3>2. \/ UNCHANGED <<tracks, applying>>
          \/ tracks' = Add(tracks, d, c) /\ applying' = Add(applying, d, c)
          \/ UNCHANGED tracks /\ applying' = Add(applying, d, c)
      BY <1>4 DEF OnOffer, ApplyWithStream, ApplyOffer
    <3>3. tracks \in CallSets /\ applying \in CallSets
      BY DEF TypeInv, SetTypes
    <3> QED
      BY <1>0, <3>1, <3>2, <3>3, AddFacts
  <2>5. SetTypes'
    BY <1>4, <2>4 DEF OnOffer, TypeInv, SetTypes
  <2> QED
    BY <1>1, <1>2, <1>4, <2>1, <2>2, <2>3, <2>5, SameTypes DEF OnOffer, TypeInv
<1>5. ASSUME OnAnswer(d, c) PROVE TypeInv'
  <2>1. SessTypes' /\ IsFiniteSet(HasSession')
    BY <1>0, <1>5, SessWith DEF OnAnswer
  <2>2. SetTypes'
    BY <1>0, <1>5, AddFacts DEF OnAnswer, TypeInv, SetTypes
  <2> QED
    BY <1>1, <1>2, <1>5, <2>1, <2>2, SameTypes DEF OnAnswer, TypeInv
<1>6. ASSUME OnIce(d, c) PROVE TypeInv'
  <2>1. SessTypes' /\ IsFiniteSet(HasSession')
    BY <1>0, <1>6, SessWith DEF OnIce
  <2>2. SetTypes'
    BY <1>0, <1>6, AddFacts DEF OnIce, TypeInv, SetTypes
  <2> QED
    BY <1>1, <1>2, <1>6, <2>1, <2>2, SameTypes DEF OnIce, TypeInv
<1>7. ASSUME OnCallAccept(d) PROVE TypeInv'
  <2>1. MediaTypes'
    <3>1. media[d] \in [call : Calls, ringing : BOOLEAN] \cup {NoMedia}
      BY DEF TypeInv, MediaTypes
    <3>2. media' = [media EXCEPT ![d] = [media[d] EXCEPT !.ringing = FALSE]]
      BY <1>7 DEF OnCallAccept
    <3>3. [media[d] EXCEPT !.ringing = FALSE] \in [call : Calls, ringing : BOOLEAN] \cup {NoMedia}
      <4>1. CASE media[d] \in [call : Calls, ringing : BOOLEAN]
        BY <4>1
      <4>2. CASE media[d] = NoMedia
        <5> DEFINE R == [call : {NoCall}, ringing : {FALSE}]
        <5>0. NoMedia \in R /\ [NoMedia EXCEPT !.ringing = FALSE] \in R
          BY DEF NoMedia
        <5>1. [NoMedia EXCEPT !.ringing = FALSE] = NoMedia
          BY <5>0 DEF NoMedia
        <5> QED
          BY <4>2, <5>1
      <4> QED
        BY <3>1, <4>1, <4>2
    <3> QED
      BY <3>2, <3>3 DEF TypeInv, MediaTypes
  <2> QED
    BY <1>1, <1>2, <1>7, <2>1, SameSess, SameTypes DEF OnCallAccept, TypeInv
<1>8. ASSUME OnHangup(d, c) PROVE TypeInv'
  <2>1. DropSessions(d, {c})
    BY <1>8 DEF OnHangup
  <2>2. SessTypes' /\ IsFiniteSet(HasSession') /\ SetTypes' /\ HistoryTypes'
    BY <1>0, <1>8, <2>1, DropTypes DEF OnHangup
  <2>3. MediaTypes' /\ SlotTypes'
    BY <1>8 DEF OnHangup, TypeInv, MediaTypes, SlotTypes
  <2> QED
    BY <1>1, <1>2, <2>2, <2>3 DEF TypeInv
<1> QED
  BY <1>3, <1>4, <1>5, <1>6, <1>7, <1>8 DEF Receive, c

LEMMA DescriptionTypes ==
  ASSUME TypeInv, NEW d \in Devices, NEW c \in Calls, RemoteDescriptionSet(d, c) PROVE TypeInv'
<1>1. applying' \in CallSets /\ remote' \in CallSets /\ iceQueue' \in CallSets
  BY AddFacts, RemoveFacts DEF RemoteDescriptionSet, TypeInv, SetTypes
<1>2. SetTypes'
  BY <1>1 DEF RemoteDescriptionSet, TypeInv, SetTypes, page
<1>3. NetTypes'
  <2>1. \/ UNCHANGED net
        \/ d = To[c] /\ net' = Sent(d, c, <<"answer">>)
    BY DEF RemoteDescriptionSet
  <2> QED
    BY <2>1, SendTypes, SameTypes DEF NetTypes, Kinds
<1>4. HistoryTypes'
  BY DEF RemoteDescriptionSet, TypeInv, HistoryTypes
<1> QED
  BY <1>2, <1>3, <1>4, SameSess, SameTypes DEF RemoteDescriptionSet, TypeInv, page

LEMMA GatherTypes ==
  ASSUME TypeInv, RouteInv, NEW d \in Devices, NEW c \in Calls, Gather(d, c) PROVE TypeInv'
<1>1. SetTypes'
  BY AddFacts DEF Gather, TypeInv, SetTypes, page
<1>2. d \in {From[c], To[c]}
  BY DEF Gather, RouteInv
<1>3. NetTypes'
  BY <1>2, SendTypes DEF Gather, NetTypes, Kinds
<1> QED
  BY <1>1, <1>3, SameSess, SameTypes DEF Gather, TypeInv, page

LEMMA HangupFileTypes == ASSUME TypeInv, NEW c \in Calls, HangupFile(c) PROVE TypeInv'
<1> USE Constants
<1>1. SessTypes' /\ IsFiniteSet(HasSession')
  BY SessSet DEF HangupFile
<1>2. NetTypes'
  BY SendTypes DEF HangupFile, NetTypes, Kinds
<1>3. HistoryTypes' /\ FaultTypes'
  BY DEF HangupFile, TypeInv, HistoryTypes, FaultTypes
<1> QED
  BY <1>1, <1>2, <1>3, SameTypes DEF HangupFile, TypeInv

(* The hangups that d sends to e.                                          *)
LEMMA HangupsSent ==
  ASSUME TypeInv, NEW d \in Devices, HangupAll(d)
  PROVE  /\ NetTypes'
         /\ \A a, b \in Devices :
              /\ a = d => Onto(net[a][b], net'[a][b],
                              [t : {"call_hangup"}, call : {c \in Calls : sess[d][c] # "none" /\ Peer(d, c) = b}])
              /\ a # d => net'[a][b] = net[a][b]
<1> DEFINE cs == {c \in Calls : sess[d][c] # "none"}
           S(b) == [t : {"call_hangup"}, call : {c \in cs : Peer(d, c) = b}]
           row == [b \in Devices |-> net[d][b] \o Hangups({c \in cs : Peer(d, c) = b})]
<1>1. IsFiniteSet(cs)
  <2>1. cs \subseteq HasSession
    BY DEF HasSession
  <2> QED
    BY <2>1, FS_Subset DEF TypeInv
<1>2. ASSUME NEW b \in Devices
      PROVE  row[b] \in Seq(Signals) /\ Onto(net[d][b], row[b], S(b))
  <2> DEFINE told == {c \in cs : Peer(d, c) = b}
  <2>1. IsFiniteSet(told)
    BY <1>1, FS_Subset
  <2>2. S(b) \in SUBSET Signals
    BY DEF Signals, Kinds
  <2>3. Hangups(told) \in Seq(S(b))
    BY <2>1, HangupsType
  <2>4. net[d][b] \in Seq(Signals)
    BY DEF TypeInv, NetTypes, Nets
  <2>5. row[b] = net[d][b] \o Hangups(told)
    OBVIOUS
  <2> HIDE DEF told, S, row
  <2> QED
    BY <2>2, <2>3, <2>4, <2>5, OntoConcat
<1>3. net' = [net EXCEPT ![d] = row]
  BY DEF HangupAll
<1>4. row \in [Devices -> Seq(Signals)]
  BY <1>2
<1> HIDE DEF row
<1>5. NetTypes' /\ \A a, b \in Devices : net'[a][b] = IF a = d THEN row[b] ELSE net[a][b]
  BY <1>3, <1>4 DEF TypeInv, NetTypes, Nets
<1>6. \A b \in Devices : S(b) = [t : {"call_hangup"}, call : {c \in Calls : sess[d][c] # "none" /\ Peer(d, c) = b}]
  <2>1. \A b : {c \in cs : Peer(d, c) = b} = {c \in Calls : sess[d][c] # "none" /\ Peer(d, c) = b}
    OBVIOUS
  <2> QED
    BY <2>1
<1> HIDE DEF S
<1> QED
  BY <1>2, <1>5, <1>6

LEMMA HangupAllTypes == ASSUME TypeInv, NEW d \in Devices, HangupAll(d) PROVE TypeInv'
<1> DEFINE cs == {c \in Calls : sess[d][c] # "none"}
<1>1. DropSessions(d, cs) /\ UNCHANGED <<capturing, gathered, offered, accepted, answered, displaced>>
  BY DEF HangupAll
<1>2. cs \subseteq Calls
  OBVIOUS
<1> HIDE DEF cs
<1>3. SessTypes' /\ IsFiniteSet(HasSession') /\ SetTypes' /\ HistoryTypes'
  BY <1>1, <1>2, DropTypes
<1>4. MediaTypes' /\ SlotTypes' /\ FaultTypes'
  BY Constants DEF HangupAll, TypeInv, MediaTypes, SlotTypes, FaultTypes
<1> QED
  BY <1>3, <1>4, HangupsSent DEF TypeInv

LEMMA LoseTypes ==
  ASSUME TypeInv, NEW d \in Devices, NEW e \in Devices, Lose(e, d) PROVE TypeInv'
<1>1. net[e][d] \in Seq(Signals) /\ net[e][d] # <<>>
  BY DEF Lose, TypeInv, NetTypes, Nets
<1>2. Tail(net[e][d]) \in Seq(Signals) /\ Head(net[e][d]).call \in Calls
  <2>1. Tail(net[e][d]) \in Seq(Signals) /\ Head(net[e][d]) \in Signals
    BY <1>1
  <2> QED
    BY <2>1 DEF Signals
<1>3. NetTypes'
  BY <1>2 DEF Lose, TypeInv, NetTypes, Nets
<1>4. HistoryTypes' /\ FaultTypes'
  BY <1>2, Constants DEF Lose, TypeInv, HistoryTypes, FaultTypes
<1>5. SetTypes'
  BY DEF Lose, page, rtc, TypeInv, SetTypes
<1> QED
  BY <1>3, <1>4, <1>5, SameSess, SameTypes DEF Lose, TypeInv, page

LEMMA TypeStep == ASSUME TypeInv, RouteInv, [Next]_vars PROVE TypeInv'
<1>1. CASE UNCHANGED vars
  BY <1>1, SameSess, SameTypes DEF vars, page, TypeInv
<1>2. CASE Next
  BY <1>2, StartCallTypes, CallerCapturedTypes, CaptureFailsTypes, SendFileTypes, CloseTypes,
     AcceptTypes, CalleeCapturedTypes, ReceivesTypes, DescriptionTypes, GatherTypes,
     HangupFileTypes, HangupAllTypes, LoseTypes
  DEF Next
<1> QED
  BY <1>1, <1>2

-----------------------------------------------------------------------------
(* Routes *)

LEMMA MediaShape ==
  ASSUME TypeInv, NEW d \in Devices
  PROVE  media[d] \in [call : Calls \cup {NoCall}, ringing : BOOLEAN]
<1>1. media[d] \in [call : Calls, ringing : BOOLEAN] \cup {NoMedia}
  BY DEF TypeInv, MediaTypes
<1>2. NoMedia \in [call : Calls \cup {NoCall}, ringing : BOOLEAN]
  BY DEF NoMedia
<1>3. CASE media[d] \in [call : Calls, ringing : BOOLEAN]
  BY <1>3
<1> QED
  BY <1>1, <1>2, <1>3

LEMMA RoutesKept ==
  ASSUME TypeInv, RouteInv,
         \A a, b \in Devices : Routed(net'[a][b], a, b),
         \A d \in Devices : media'[d].ringing => media'[d] = media[d] \/ d = To[media'[d].call],
         \A d \in Devices, x \in Calls :
           sess'[d][x] # "none" => sess[d][x] # "none" \/ d \in {From[x], To[x]}
  PROVE  RouteInv'
BY DEF RouteInv

LEMMA SentRoutes ==
  ASSUME TypeInv, RouteInv, NEW c \in Calls, NEW d \in {From[c], To[c]}, NEW K \in SUBSET Kinds,
         NEW kinds \in Seq(K),
         d = From[c] => K \cap {"answer", "call_accept"} = {},
         d = To[c] => K \cap {"call_invite", "offer"} = {}
  PROVE  \A a, b \in Devices : Routed(Sent(d, c, kinds)[a][b], a, b)
<1> DEFINE new == Sent(d, c, kinds)
           S == Of(K, c)
<1>0. /\ new \in Nets
      /\ \A a, b \in Devices :
              /\ a = d /\ b = Peer(d, c) => Onto(net[a][b], new[a][b], S)
              /\ ~ (a = d /\ b = Peer(d, c)) => new[a][b] = net[a][b]
  <2>1. NetTypes
    BY DEF TypeInv
  <2> QED
    BY <2>1, SentWays
<1> HIDE DEF new
<1> SUFFICES ASSUME NEW a \in Devices, NEW b \in Devices
             PROVE  Routed(new[a][b], a, b)
  BY DEF new
<1>1. Routed(net[a][b], a, b) /\ net[a][b] \in Seq(Signals) /\ NetTypes
  BY DEF RouteInv, TypeInv, NetTypes, Nets
<1>2. CASE a = d /\ b = Peer(d, c)
  <2>1. Onto(net[a][b], new[a][b], S)
    BY <1>0, <1>2
  <2>2. \A s \in S : Goes(a, b, s)
    <3>1. SUFFICES ASSUME NEW s \in S PROVE Goes(a, b, s)
      OBVIOUS
    <3>2. s.call = c /\ s.t \in K
      BY DEF Of
    <3> QED
      BY <1>2, <3>2, PeerFacts, Constants DEF Goes
  <2> QED
    BY <1>1, <2>1, <2>2, OntoRouted
<1>3. CASE ~ (a = d /\ b = Peer(d, c))
  <2>1. new[a][b] = net[a][b]
    BY <1>0, <1>3
  <2> QED
    BY <1>1, <2>1
<1> QED
  BY <1>2, <1>3

(* One or two signals of a kind, of either end.                            *)
LEMMA CallerSends ==
  ASSUME TypeInv, RouteInv, NEW c \in Calls, NEW k \in {"call_invite", "offer", "ice", "call_hangup"}
  PROVE  \A a, b \in Devices : Routed(Sent(From[c], c, <<k>>)[a][b], a, b)
<1>1. <<k>> \in Seq({k}) /\ {k} \in SUBSET Kinds
  BY DEF Kinds
<1>2. {k} \cap {"answer", "call_accept"} = {} /\ From[c] # To[c]
  BY Constants
<1> QED
  BY <1>1, <1>2, SentRoutes

LEMMA CalleeSends ==
  ASSUME TypeInv, RouteInv, NEW c \in Calls, NEW k \in {"answer", "call_accept", "ice"}
  PROVE  /\ \A a, b \in Devices : Routed(Sent(To[c], c, <<k>>)[a][b], a, b)
         /\ \A a, b \in Devices : Routed(Sent(To[c], c, <<k, k>>)[a][b], a, b)
<1>1. <<k>> \in Seq({k}) /\ <<k, k>> \in Seq({k}) /\ {k} \in SUBSET Kinds
  BY DEF Kinds
<1>2. {k} \cap {"call_invite", "offer"} = {} /\ From[c] # To[c]
  BY Constants
<1> QED
  BY <1>1, <1>2, SentRoutes

(* The first signal between e and d was for d.                             *)
LEMMA TakenRoutes ==
  ASSUME TypeInv, RouteInv, NEW d \in Devices, NEW e \in Devices, net[e][d] # <<>>,
         net' = [net EXCEPT ![e][d] = Tail(@)]
  PROVE  /\ \A a, b \in Devices : Routed(net'[a][b], a, b)
         /\ Goes(e, d, Head(net[e][d]))
         /\ Head(net[e][d]) \in Signals
         /\ \A a, b \in Devices :
              net'[a][b] = IF a = e /\ b = d THEN Tail(net[e][d]) ELSE net[a][b]
<1>1. net[e][d] \in Seq(Signals) /\ Routed(net[e][d], e, d)
  BY DEF TypeInv, NetTypes, Nets, RouteInv
<1>2. \A a, b \in Devices :
        net'[a][b] = IF a = e /\ b = d THEN Tail(net[e][d]) ELSE net[a][b]
  BY DEF TypeInv, NetTypes, Nets
<1>3. Routed(Tail(net[e][d]), e, d) /\ Goes(e, d, Head(net[e][d])) /\ Head(net[e][d]) \in Signals
  BY <1>1, TailRouted
<1> QED
  BY <1>2, <1>3 DEF RouteInv

LEMMA TakenHere ==
  ASSUME TypeInv, NEW d \in Devices, NEW e \in Devices, net' = [net EXCEPT ![e][d] = Tail(@)]
  PROVE  net'[e][d] = Tail(net[e][d])
<1>1. net[e] \in [Devices -> Seq(Signals)] /\ e \in DOMAIN net /\ d \in DOMAIN net[e]
  BY DEF TypeInv, NetTypes, Nets
<1> QED
  BY <1>1

LEMMA InitRoutes == ASSUME Init PROVE RouteInv
BY DEF Init, RouteInv, Routed, NoMedia

LEMMA HangupRoutes ==
  ASSUME TypeInv, RouteInv, NEW d \in Devices, HangupAll(d)
  PROVE  \A a, b \in Devices : Routed(net'[a][b], a, b)
<1> SUFFICES ASSUME NEW a \in Devices, NEW b \in Devices PROVE Routed(net'[a][b], a, b)
  OBVIOUS
<1> DEFINE S == [t : {"call_hangup"}, call : {c \in Calls : sess[d][c] # "none" /\ Peer(d, c) = b}]
<1>1. Routed(net[a][b], a, b) /\ net[a][b] \in Seq(Signals)
  BY DEF RouteInv, TypeInv, NetTypes, Nets
<1>2. CASE a = d
  <2>1. Onto(net[a][b], net'[a][b], S)
    BY <1>2, HangupsSent
  <2>2. ASSUME NEW s \in S PROVE Goes(a, b, s)
    <3>1. s.t = "call_hangup" /\ s.call \in Calls /\ sess[d][s.call] # "none" /\ Peer(d, s.call) = b
      OBVIOUS
    <3>2. d \in {From[s.call], To[s.call]}
      BY <3>1 DEF RouteInv
    <3> QED
      BY <1>2, <3>1, <3>2, PeerFacts DEF Goes
  <2> HIDE DEF S
  <2> QED
    BY <1>1, <2>1, <2>2, OntoRouted
<1>3. CASE a # d
  BY <1>1, <1>3, HangupsSent
<1> QED
  BY <1>2, <1>3

LEMMA ReceivesRoutes ==
  ASSUME TypeInv, RouteInv, NEW d \in Devices, NEW e \in Devices, Receive(e, d) PROVE RouteInv'
<1> DEFINE c == Head(net[e][d]).call
           t == Head(net[e][d]).t
<1>1. /\ \A a, b \in Devices : Routed(net'[a][b], a, b)
      /\ Goes(e, d, Head(net[e][d])) /\ Head(net[e][d]) \in Signals
  BY TakenRoutes DEF Receive
<1>2. c \in Calls /\ d \in {From[c], To[c]} /\ (t = "call_invite" => d = To[c])
  BY <1>1 DEF Goes, Signals
<1>3. /\ \/ t = "call_invite" /\ OnInvite(d, c)
         \/ OnOffer(d, c) \/ OnAnswer(d, c) \/ OnIce(d, c) \/ OnCallAccept(d) \/ OnHangup(d, c)
  BY DEF Receive
<1> HIDE DEF c, t
<1>4. \A a \in Devices, x \in Calls :
        sess'[a][x] # "none" => sess[a][x] # "none" \/ a \in {From[x], To[x]}
  <2>1. CASE UNCHANGED sess
    BY <2>1
  <2>2. CASE sess' = WithSession(d, c)
    BY <1>2, <2>2, SessWith
  <2>3. CASE DropSessions(d, {c})
    BY <2>3 DEF DropSessions, TypeInv, SessTypes
  <2> QED
    BY <1>3, <2>1, <2>2, <2>3 DEF OnInvite, OnOffer, OnAnswer, OnIce, OnCallAccept, OnHangup
<1>5. \A a \in Devices : media'[a].ringing => media'[a] = media[a] \/ a = To[media'[a].call]
  <2>1. CASE UNCHANGED media
    BY <2>1
  <2>2. CASE t = "call_invite" /\ OnInvite(d, c)
    <3>1. media' = [media EXCEPT ![d] = [call |-> c, ringing |-> TRUE]] /\ d = To[c]
      BY <1>2, <2>2 DEF OnInvite
    <3> QED
      BY <3>1 DEF TypeInv, MediaTypes
  <2>3. CASE OnCallAccept(d)
    <3>1. \A a \in Devices : a # d => media'[a] = media[a]
      BY <2>3 DEF OnCallAccept, TypeInv, MediaTypes
    <3>2. ~ media'[d].ringing
      <4>1. media' = [media EXCEPT ![d] = [media[d] EXCEPT !.ringing = FALSE]]
        BY <2>3 DEF OnCallAccept
      <4>2. media'[d] = [media[d] EXCEPT !.ringing = FALSE]
        BY <4>1 DEF TypeInv, MediaTypes
      <4>3. media[d] \in [call : Calls \cup {NoCall}, ringing : BOOLEAN]
        BY MediaShape
      <4> QED
        BY <4>2, <4>3
    <3> QED
      BY <3>1, <3>2
  <2>4. CASE OnHangup(d, c)
    BY <2>4 DEF OnHangup, TypeInv, MediaTypes, NoMedia
  <2> QED
    BY <1>3, <2>1, <2>2, <2>3, <2>4 DEF OnOffer, OnAnswer, OnIce
<1> QED
  BY <1>1, <1>4, <1>5, RoutesKept

LEMMA CallerRoutes ==
  ASSUME TypeInv, RouteInv, NEW c \in Calls,
         StartCall(c) \/ CallerCaptured(c) \/ SendFileTo(c) \/ HangupFile(c)
  PROVE  RouteInv'
<1>1. \A a, b \in Devices : Routed(net'[a][b], a, b)
  <2>1. \/ UNCHANGED net
        \/ \E k \in {"call_invite", "offer", "ice", "call_hangup"} : net' = Sent(From[c], c, <<k>>)
    BY DEF StartCall, CallerCaptured, SendFileTo, HangupFile, SendOffer
  <2> QED
    BY <2>1, CallerSends DEF RouteInv
<1>2. \A a \in Devices : media'[a].ringing => media'[a] = media[a]
  BY Constants DEF StartCall, CallerCaptured, SendFileTo, HangupFile, TypeInv, MediaTypes
<1>3. \A a \in Devices, x \in Calls :
        sess'[a][x] # "none" => sess[a][x] # "none" \/ a \in {From[x], To[x]}
  <2>1. \/ UNCHANGED sess
        \/ \E s \in {"open", "closed"} : sess' = [sess EXCEPT ![From[c]][c] = s]
    BY DEF StartCall, CallerCaptured, SendFileTo, HangupFile
  <2> QED
    BY <2>1, Constants DEF TypeInv, SessTypes
<1> QED
  BY <1>1, <1>2, <1>3, RoutesKept

LEMMA AcceptRoutes ==
  ASSUME TypeInv, RouteInv, NEW d \in Devices, Accept(d) PROVE RouteInv'
<1> DEFINE c == media[d].call
<1>0. c \in Calls /\ d = To[c]
  BY Ringing DEF Accept, AcceptButton
<1>1. \A a, b \in Devices : Routed(net'[a][b], a, b)
  BY <1>0, CalleeSends DEF Accept
<1>2. \A a \in Devices : media'[a].ringing => media'[a] = media[a]
  <2>1. media[d] \in [call : Calls \cup {NoCall}, ringing : BOOLEAN]
    BY MediaShape
  <2>2. media'[d] = [media[d] EXCEPT !.ringing = FALSE]
        /\ \A a \in Devices : a # d => media'[a] = media[a]
    BY DEF Accept, TypeInv, MediaTypes
  <2>3. ~ media'[d].ringing
    BY <2>1, <2>2
  <2> QED
    BY <2>2, <2>3
<1> HIDE DEF c
<1>3. \A a \in Devices, x \in Calls :
        sess'[a][x] # "none" => sess[a][x] # "none" \/ a \in {From[x], To[x]}
  <2>1. UNCHANGED sess \/ sess' = WithSession(d, c)
    BY DEF Accept, c
  <2> QED
    BY <1>0, <2>1, SessWith
<1> QED
  BY <1>1, <1>2, <1>3, RoutesKept

LEMMA CalleeRoutes ==
  ASSUME TypeInv, RouteInv, NEW c \in Calls, CalleeCaptured(c) PROVE RouteInv'
<1>1. \A a, b \in Devices : Routed(net'[a][b], a, b)
  BY CalleeSends DEF CalleeCaptured
<1>2. \A a \in Devices : media'[a].ringing => media'[a] = media[a]
  BY DEF CalleeCaptured, TypeInv, MediaTypes
<1>3. \A a \in Devices, x \in Calls :
        sess'[a][x] # "none" => sess[a][x] # "none" \/ a \in {From[x], To[x]}
  <2>1. To[c] \in Devices /\ sess' = WithSession(To[c], c)
    BY Constants DEF CalleeCaptured
  <2> QED
    BY <2>1, SessWith
<1> QED
  BY <1>1, <1>2, <1>3, RoutesKept

LEMMA SessionRoutes ==
  ASSUME TypeInv, RouteInv, NEW d \in Devices, NEW c \in Calls,
         RemoteDescriptionSet(d, c) \/ Gather(d, c)
  PROVE  RouteInv'
<1>1. \A a, b \in Devices : Routed(net'[a][b], a, b)
  <2>1. \/ UNCHANGED net
        \/ d = To[c] /\ net' = Sent(d, c, <<"answer">>)
        \/ d \in {From[c], To[c]} /\ net' = Sent(d, c, <<"ice">>)
    BY DEF RemoteDescriptionSet, Gather, RouteInv
  <2> QED
    BY <2>1, CallerSends, CalleeSends DEF RouteInv
<1> QED
  BY <1>1, RoutesKept DEF RemoteDescriptionSet, Gather, page

LEMMA HangupAllRoutes ==
  ASSUME TypeInv, RouteInv, NEW d \in Devices, HangupAll(d) PROVE RouteInv'
<1>1. \A a \in Devices : media'[a].ringing => media'[a] = media[a]
  BY DEF HangupAll, TypeInv, MediaTypes, NoMedia
<1>2. \A a \in Devices, x \in Calls : sess'[a][x] # "none" => sess[a][x] # "none"
  BY DEF HangupAll, DropSessions, TypeInv, SessTypes
<1> QED
  BY <1>1, <1>2, HangupRoutes, RoutesKept

LEMMA RouteStep == ASSUME TypeInv, RouteInv, [Next]_vars PROVE RouteInv'
<1>1. CASE UNCHANGED vars
  BY <1>1 DEF vars, page, RouteInv
<1>2. ASSUME NEW c \in Calls, CallerCaptureFails(c) \/ CalleeCaptureFails(c) PROVE RouteInv'
  BY <1>2 DEF CallerCaptureFails, CalleeCaptureFails, RouteInv
<1>3. ASSUME NEW d \in Devices, CloseOverlay(d) PROVE RouteInv'
  <2>1. \A a \in Devices : media'[a].ringing => media'[a] = media[a]
    BY <1>3 DEF CloseOverlay, TypeInv, MediaTypes, NoMedia
  <2> QED
    BY <1>3, <2>1, RoutesKept DEF CloseOverlay, RouteInv
<1>4. ASSUME NEW d \in Devices, NEW e \in Devices, Lose(e, d) PROVE RouteInv'
  <2>1. \A a, b \in Devices : Routed(net'[a][b], a, b)
    BY <1>4, TakenRoutes DEF Lose
  <2> QED
    BY <1>4, <2>1, RoutesKept DEF Lose, page
<1>5. CASE Next
  BY <1>2, <1>3, <1>4, <1>5, CallerRoutes, AcceptRoutes, CalleeRoutes, SessionRoutes,
     HangupAllRoutes, ReceivesRoutes
  DEF Next
<1> QED
  BY <1>1, <1>5

-----------------------------------------------------------------------------
(* What a step leaves of a call *)

InviteKept(q, r, x) ==
  /\ InviteIn(r, x) <=> InviteIn(q, x)
  /\ InviteFirst(q, x) => InviteFirst(r, x)
NoNews(q, r, x) == Names(r, x) => Names(q, x)

(* The net says no more of call x than before, and of its invitation no    *)
(* less.                                                                   *)
ThereKept(x) == InviteKept(net[From[x]][To[x]], net'[From[x]][To[x]], x)
NothingNew(x) ==
  /\ NoNews(net[From[x]][To[x]], net'[From[x]][To[x]], x)
  /\ NoNews(net[To[x]][From[x]], net'[To[x]][From[x]], x)

MadeKept(x) ==
  /\ x \in Made => x \in Made'
  /\ x \in Made' => x \in Made \/ x \in broken'
  /\ x \in broken => x \in broken'
  /\ x \notin Made' => NothingNew(x) /\ (sess[To[x]][x] = "none" => sess'[To[x]][x] = "none")

(* The callee does nothing more for call x.                                *)
CalleeKept(x) ==
  LET d == To[x] IN
  /\ x \in pending'[d] => x \in pending[d]
  /\ x \in pending[d] => x \in pending'[d] \/ x \in broken'
  /\ x \in stream'[d] => x \in stream[d]
  /\ x \in armed'[d] => x \in armed[d]
  /\ x \in capturing'[d] => x \in capturing[d]
  /\ x \in applying'[d] => x \in applying[d]
  /\ x \in tracks[d] => x \in tracks'[d] \/ (x \in broken' /\ x \notin armed'[d])
  /\ slot'[d] = x => slot[d] = x
  /\ media'[d].ringing /\ media'[d].call = x => media[d].ringing /\ media[d].call = x
  /\ x \in accepted' <=> x \in accepted
  /\ x \in answered' => x \in answered

LEMMA Carries ==
  ASSUME NEW x \in Calls, Good(x), MadeKept(x), CalleeKept(x), ThereKept(x)
  PROVE  Good(x)'
<1>1. Idle(x) => Idle(x)'
  BY DEF CalleeKept, Idle
<1>2. FreshInv(x)'
  BY <1>1 DEF Good, FreshInv, MadeKept, NothingNew, NoNews, There, Back
<1>3. InviteInv(x)'
  BY <1>1 DEF Good, InviteInv, ThereKept, InviteKept, There, CalleeKept
<1>4. AcceptInv(x)'
  BY DEF Good, AcceptInv, CalleeKept
<1>5. MediaInv(x)'
  BY DEF Good, MediaInv, MadeKept, CalleeKept, ThereKept, InviteKept, There
<1> QED
  BY <1>2, <1>3, <1>4, <1>5 DEF Good

LEMMA SameNet == ASSUME UNCHANGED net, NEW x PROVE ThereKept(x) /\ NothingNew(x)
BY DEF ThereKept, NothingNew, InviteKept, NoNews

LEMMA SentNet ==
  ASSUME TypeInv, NEW c \in Calls, NEW d \in {From[c], To[c]}, NEW K \in SUBSET Kinds,
         NEW kinds \in Seq(K), net' = Sent(d, c, kinds), NEW x \in Calls,
         x # c \/ "call_invite" \notin K \/ d = To[c]
  PROVE  ThereKept(x) /\ (x # c => NothingNew(x))
<1> DEFINE S == Of(K, c)
<1>1. \A a, b \in Devices :
        /\ a = d /\ b = Peer(d, c) => Onto(net[a][b], net'[a][b], S)
        /\ ~ (a = d /\ b = Peer(d, c)) => net'[a][b] = net[a][b]
  <2>1. NetTypes
    BY DEF TypeInv
  <2> QED
    BY <2>1, SentWays
<1>2. /\ From[x] \in Devices /\ To[x] \in Devices
      /\ \A a, b \in Devices : net[a][b] \in Seq(Signals)
  BY Constants DEF TypeInv, NetTypes, Nets
<1>3. \A s \in S : s.call = c /\ s.t \in K
  BY DEF Of
<1> HIDE DEF S
<1>4. \A a, b \in Devices : x # c => NoNews(net[a][b], net'[a][b], x)
  <2>1. SUFFICES ASSUME NEW a \in Devices, NEW b \in Devices, x # c
                 PROVE  NoNews(net[a][b], net'[a][b], x)
    OBVIOUS
  <2>2. CASE Onto(net[a][b], net'[a][b], S)
    <3>1. (\A s \in S : s.call # x) => (Names(net'[a][b], x) => Names(net[a][b], x))
      BY <1>2, <2>2, OntoWay
    <3> QED
      BY <1>3, <2>1, <3>1 DEF NoNews
  <2> QED
    BY <1>1, <2>2 DEF NoNews
<1>5. ThereKept(x)
  <2> DEFINE q == net[From[x]][To[x]]
             r == net'[From[x]][To[x]]
  <2>1. CASE Onto(q, r, S) /\ d = From[x]
    <3>1. \A s \in S : s.call # x \/ s.t # "call_invite"
      BY <1>3, <2>1, Constants
    <3>2. /\ InviteIn(q, x) => InviteIn(r, x)
          /\ (\A s \in S : s.call # x \/ s.t # "call_invite") =>
               /\ InviteIn(r, x) => InviteIn(q, x)
               /\ InviteFirst(q, x) => InviteFirst(r, x)
      BY <1>2, <2>1, OntoWay
    <3> QED
      BY <3>1, <3>2 DEF ThereKept, InviteKept
  <2>2. CASE r = q
    BY <2>2 DEF ThereKept, InviteKept
  <2> QED
    BY <1>1, <1>2, <2>1, <2>2
<1> QED
  BY <1>2, <1>4, <1>5 DEF NothingNew

(* One or two signals of a kind.                                           *)
LEMMA SentOne ==
  ASSUME TypeInv, NEW c \in Calls, NEW d \in {From[c], To[c]}, NEW k \in Kinds,
         net' = Sent(d, c, <<k>>) \/ net' = Sent(d, c, <<k, k>>), NEW x \in Calls,
         x # c \/ k # "call_invite" \/ d = To[c]
  PROVE  ThereKept(x) /\ (x # c => NothingNew(x))
<1>1. {k} \in SUBSET Kinds /\ <<k>> \in Seq({k}) /\ <<k, k>> \in Seq({k})
  OBVIOUS
<1>2. x # c \/ "call_invite" \notin {k} \/ d = To[c]
  OBVIOUS
<1>3. CASE net' = Sent(d, c, <<k>>)
  BY <1>1, <1>2, <1>3, SentNet
<1>4. CASE net' = Sent(d, c, <<k, k>>)
  BY <1>1, <1>2, <1>4, SentNet
<1> QED
  BY <1>3, <1>4

LEMMA TakenNet ==
  ASSUME TypeInv, RouteInv, NEW d \in Devices, NEW e \in Devices, net[e][d] # <<>>,
         net' = [net EXCEPT ![e][d] = Tail(@)], NEW x \in Calls
  PROVE  /\ NothingNew(x)
         /\ InviteFirst(net[From[x]][To[x]], x) => InviteFirst(net'[From[x]][To[x]], x)
         /\ InviteIn(net'[From[x]][To[x]], x) => InviteIn(net[From[x]][To[x]], x)
         /\ Head(net[e][d]).call # x \/ Head(net[e][d]).t # "call_invite" => ThereKept(x)
<1>1. \A a, b \in Devices :
        net'[a][b] = IF a = e /\ b = d THEN Tail(net[e][d]) ELSE net[a][b]
  BY TakenRoutes
<1>2. From[x] \in Devices /\ To[x] \in Devices /\ net[e][d] \in Seq(Signals)
  BY Constants DEF TypeInv, NetTypes, Nets
<1> DEFINE q == net[e][d]
<1>3. /\ Names(Tail(q), x) => Names(q, x)
      /\ InviteIn(Tail(q), x) => InviteIn(q, x)
      /\ InviteIn(q, x) => InviteIn(Tail(q), x)
                            \/ (Head(q).t = "call_invite" /\ Head(q).call = x)
      /\ InviteFirst(q, x) => InviteFirst(Tail(q), x)
  BY <1>2, TailWay
<1>4. \A a, b \in Devices :
        \/ net'[a][b] = net[a][b]
        \/ net[a][b] = q /\ net'[a][b] = Tail(q)
  BY <1>1
<1> HIDE DEF q
<1>5. NothingNew(x)
  BY <1>2, <1>3, <1>4 DEF NothingNew, NoNews
<1>6. /\ InviteFirst(net[From[x]][To[x]], x) => InviteFirst(net'[From[x]][To[x]], x)
      /\ InviteIn(net'[From[x]][To[x]], x) => InviteIn(net[From[x]][To[x]], x)
      /\ Head(q).call # x \/ Head(q).t # "call_invite" => ThereKept(x)
  BY <1>2, <1>3, <1>4 DEF ThereKept, InviteKept
<1> QED
  BY <1>5, <1>6 DEF q

(* A signal of call c is on its way: the call was made.                    *)
LEMMA HeadIsMade ==
  ASSUME TypeInv, RouteInv, CallInv, NEW d \in Devices, NEW e \in Devices, net[e][d] # <<>>
  PROVE  Head(net[e][d]).call \in Calls /\ Head(net[e][d]).call \in Made
<1> DEFINE q == net[e][d]
           c == Head(q).call
<1>1. q \in Seq(Signals) /\ q # <<>> /\ Routed(q, e, d)
  BY DEF TypeInv, NetTypes, Nets, RouteInv
<1>2. Head(q) \in Signals /\ Names(q, c) /\ Goes(e, d, Head(q))
  BY <1>1, TailWay, TailRouted
<1>3. c \in Calls
  BY <1>2 DEF Signals
<1>4. q = There(c) \/ q = Back(c)
  BY <1>2 DEF Goes, There, Back
<1> HIDE DEF q, c
<1>5. c \notin Made => ~ Names(There(c), c) /\ ~ Names(Back(c), c)
  BY <1>3 DEF CallInv, Good, FreshInv
<1>6. c \in Calls /\ c \in Made
  BY <1>2, <1>3, <1>4, <1>5
<1> QED
  BY <1>6 DEF c, q

-----------------------------------------------------------------------------
(* Steps that keep what they leave of every call *)

LEMMA SameCallee ==
  ASSUME NEW x \in Calls,
         UNCHANGED <<pending, stream, armed, capturing, applying, tracks, slot, media, accepted,
                     answered>>
  PROVE  CalleeKept(x)
BY DEF CalleeKept

LEMMA CallerCapturedCalls ==
  ASSUME TypeInv, RouteInv, CallInv, NEW c \in Calls, CallerCaptured(c) PROVE CallInv'
<1> SUFFICES ASSUME NEW x \in Calls PROVE Good(x)'
  BY DEF CallInv
<1>0. Good(x) /\ From[c] \in Devices /\ To[x] \in Devices /\ From[c] \in {From[c], To[c]}
  BY Constants DEF CallInv
<1>1. \/ UNCHANGED <<tracks, net, offered>>
      \/ /\ sess[From[c]][c] = "open" /\ tracks' = Add(tracks, From[c], c)
         /\ net' = Sent(From[c], c, <<"offer">>) /\ offered' = offered \cup {c}
  BY DEF CallerCaptured, SendOffer
<1>2. ThereKept(x) /\ (x # c => NothingNew(x)) /\ (UNCHANGED net => NothingNew(x))
  BY <1>0, <1>1, SameNet, SentOne DEF Kinds
<1>3. MadeKept(x)
  BY <1>1, <1>2 DEF MadeKept, Made, CallerCaptured
<1>4. \A a \in Devices : \A z : z \in tracks[a] => z \in tracks'[a]
  BY <1>0, <1>1, AddFacts DEF TypeInv, SetTypes
<1>5. \A a \in Devices : \A z : z \in capturing'[a] => z \in capturing[a]
  BY <1>0, RemoveFacts DEF CallerCaptured, TypeInv, SetTypes
<1>6. CalleeKept(x)
  BY <1>0, <1>4, <1>5 DEF CalleeKept, CallerCaptured, rtc
<1> QED
  BY <1>0, <1>2, <1>3, <1>6, Carries

LEMMA CaptureFailsCalls ==
  ASSUME TypeInv, CallInv, NEW c \in Calls, CallerCaptureFails(c) \/ CalleeCaptureFails(c)
  PROVE  CallInv'
<1> SUFFICES ASSUME NEW x \in Calls PROVE Good(x)'
  BY DEF CallInv
<1>0. Good(x) /\ To[x] \in Devices
  BY Constants DEF CallInv
<1>1. PICK d \in Devices :
        /\ capturing' = Remove(capturing, d, c) /\ broken' = broken \cup {c}
        /\ UNCHANGED <<media, sess, pending, stream, slot, armed, tracks, rtc, offered, accepted,
                       answered, displaced, net, faults>>
  BY Constants DEF CallerCaptureFails, CalleeCaptureFails
<1>2. ThereKept(x) /\ NothingNew(x)
  BY <1>1, SameNet
<1>3. MadeKept(x)
  BY <1>1, <1>2 DEF MadeKept, Made
<1>4. \A a \in Devices : \A z : z \in capturing'[a] => z \in capturing[a]
  BY <1>1, RemoveFacts DEF TypeInv, SetTypes
<1>5. CalleeKept(x)
  BY <1>0, <1>1, <1>4 DEF CalleeKept, rtc
<1> QED
  BY <1>0, <1>2, <1>3, <1>5, Carries

LEMMA CloseCalls ==
  ASSUME TypeInv, CallInv, NEW d \in Devices, CloseOverlay(d) PROVE CallInv'
<1> SUFFICES ASSUME NEW x \in Calls PROVE Good(x)'
  BY DEF CallInv
<1>0. Good(x) /\ To[x] \in Devices
  BY Constants DEF CallInv
<1>1. ThereKept(x) /\ NothingNew(x)
  BY SameNet DEF CloseOverlay
<1>2. MadeKept(x)
  BY <1>1 DEF MadeKept, Made, CloseOverlay, history
<1>3. \A a \in Devices : media'[a].ringing => media'[a] = media[a]
  BY DEF CloseOverlay, TypeInv, MediaTypes, NoMedia
<1>4. CalleeKept(x)
  BY <1>0, <1>3 DEF CalleeKept, CloseOverlay, rtc, history
<1> QED
  BY <1>0, <1>1, <1>2, <1>4, Carries

LEMMA GatherCalls ==
  ASSUME TypeInv, RouteInv, CallInv, NEW d \in Devices, NEW c \in Calls, Gather(d, c)
  PROVE  CallInv'
<1> SUFFICES ASSUME NEW x \in Calls PROVE Good(x)'
  BY DEF CallInv
<1>0. Good(x) /\ Good(c) /\ d \in {From[c], To[c]} /\ sess[d][c] # "none"
  BY DEF CallInv, Gather, RouteInv
<1>1. c \in Made
  BY <1>0 DEF Good, FreshInv, Made
<1>2. ThereKept(x) /\ (x # c => NothingNew(x))
  BY <1>0, SentOne DEF Gather, Kinds
<1>3. MadeKept(x)
  BY <1>1, <1>2 DEF MadeKept, Made, Gather, page, history
<1>4. CalleeKept(x)
  BY SameCallee DEF Gather, page, history
<1> QED
  BY <1>0, <1>2, <1>3, <1>4, Carries

LEMMA HangupFileCalls ==
  ASSUME TypeInv, RouteInv, CallInv, NEW c \in Calls, HangupFile(c) PROVE CallInv'
<1> SUFFICES ASSUME NEW x \in Calls PROVE Good(x)'
  BY DEF CallInv
<1>0. Good(x) /\ From[c] \in {From[c], To[c]} /\ From[c] \in Devices /\ From[c] # To[c]
  BY Constants DEF CallInv
<1>1. ThereKept(x) /\ (x # c => NothingNew(x))
  BY <1>0, SentOne DEF HangupFile, Kinds
<1>2. \A a \in Devices, z \in Calls : ~ (a = From[c] /\ z = c) => sess'[a][z] = sess[a][z]
  BY DEF HangupFile, TypeInv, SessTypes
<1>3. MadeKept(x)
  BY <1>0, <1>1, <1>2, Constants DEF MadeKept, Made, HangupFile
<1>4. CalleeKept(x)
  BY SameCallee DEF HangupFile, rtc
<1> QED
  BY <1>0, <1>1, <1>3, <1>4, Carries

LEMMA LoseCalls ==
  ASSUME TypeInv, RouteInv, CallInv, NEW d \in Devices, NEW e \in Devices, Lose(e, d)
  PROVE  CallInv'
<1> SUFFICES ASSUME NEW x \in Calls PROVE Good(x)'
  BY DEF CallInv
<1>0. Good(x)
  BY DEF CallInv
<1> DEFINE c == Head(net[e][d]).call
<1>1. broken' = broken \cup {c} /\ UNCHANGED <<page, rtc, offered, accepted, answered, displaced>>
  BY DEF Lose
<1>2. /\ NothingNew(x)
      /\ InviteFirst(net[From[x]][To[x]], x) => InviteFirst(net'[From[x]][To[x]], x)
      /\ InviteIn(net'[From[x]][To[x]], x) => InviteIn(net[From[x]][To[x]], x)
      /\ c # x => ThereKept(x)
  BY TakenNet DEF Lose
<1> HIDE DEF c
<1>3. MadeKept(x)
  BY <1>1, <1>2 DEF MadeKept, Made, page
<1>4. CalleeKept(x)
  BY <1>1, SameCallee DEF page, rtc
<1>5. CASE x # c
  BY <1>0, <1>2, <1>3, <1>4, <1>5, Carries
<1>6. CASE x = c
  <2>1. x \in broken' /\ x \in Made'
    BY <1>1, <1>6 DEF Made
  <2>2. Idle(x) => Idle(x)'
    BY <1>4 DEF CalleeKept, Idle
  <2>3. FreshInv(x)'
    BY <2>1 DEF FreshInv
  <2>4. InviteInv(x)'
    BY <1>0, <1>2, <1>4, <2>2 DEF Good, InviteInv, There, CalleeKept
  <2>5. AcceptInv(x)'
    BY <1>0, <1>4 DEF Good, AcceptInv, CalleeKept
  <2>6. MediaInv(x)'
    BY <1>0, <1>4, <2>1 DEF Good, MediaInv, CalleeKept
  <2> QED
    BY <2>3, <2>4, <2>5, <2>6 DEF Good
<1> QED
  BY <1>5, <1>6

-----------------------------------------------------------------------------
(* Steps that make a call, accept it or answer it *)

LEMMA SeqOf ==
  ASSUME NEW S, NEW n \in Nat, NEW p \in [1..n -> S] PROVE p \in Seq(S) /\ Len(p) = n
OBVIOUS

LEMMA ConcatFacts ==
  ASSUME NEW S, NEW q \in Seq(S), NEW p \in Seq(S)
  PROVE  /\ Len(q) \in Nat /\ Len(p) \in Nat /\ Len(q \o p) = Len(q) + Len(p)
         /\ \A i \in 1..Len(q) : (q \o p)[i] = q[i]
         /\ \A i \in 1..Len(p) : (q \o p)[Len(q) + i] = p[i]
OBVIOUS

(* The first signal of a call is its invitation.                           *)
LEMMA Invited ==
  ASSUME NEW q \in Seq(Signals), NEW c, ~ Names(q, c), NEW p \in Seq(Signals),
         Len(p) = 1, p[1].t = "call_invite", p[1].call = c
  PROVE  InviteIn(q \o p, c) /\ InviteFirst(q \o p, c)
<1> DEFINE r == q \o p
<1>1. /\ Len(q) \in Nat /\ Len(r) = Len(q) + 1
      /\ \A i \in 1..Len(q) : r[i] = q[i]
      /\ r[Len(q) + 1] = p[1]
  <2>1. /\ Len(q) \in Nat /\ Len(p) \in Nat /\ Len(r) = Len(q) + Len(p)
        /\ \A i \in 1..Len(q) : r[i] = q[i]
        /\ \A i \in 1..Len(p) : r[Len(q) + i] = p[i]
    BY ConcatFacts
  <2> HIDE DEF r
  <2>2. 1 \in 1..Len(p)
    BY <2>1
  <2> QED
    BY <2>1, <2>2
<1> HIDE DEF r
<1>2. \A i \in 1..Len(r) : i = Len(q) + 1 \/ (i \in 1..Len(q) /\ r[i].call # c)
  BY <1>1 DEF Names
<1>3. Len(q) + 1 \in 1..Len(r)
  BY <1>1
<1>4. InviteIn(r, c)
  BY <1>1, <1>3 DEF InviteIn, InviteAt
<1>5. InviteFirst(r, c)
  BY <1>1, <1>2 DEF InviteFirst, InviteAt
<1> QED
  BY <1>4, <1>5 DEF r

LEMMA StartCallCalls ==
  ASSUME TypeInv, RouteInv, CallInv, NEW c \in Calls, StartCall(c) PROVE CallInv'
<1> SUFFICES ASSUME NEW x \in Calls PROVE Good(x)'
  BY DEF CallInv
<1> DEFINE d == From[c]
<1>0. Good(x) /\ d \in Devices /\ To[x] \in Devices /\ To[c] \in Devices /\ d # To[c]
  BY Constants DEF CallInv
<1>1. \A a \in Devices, z \in Calls : sess'[a][z] # "none" <=> sess[a][z] # "none" \/ (a = d /\ z = c)
  BY DEF StartCall, TypeInv, SessTypes
<1>2. \A a \in Devices : a # d => media'[a] = media[a]
  BY DEF StartCall, TypeInv, MediaTypes
<1>3. media'[d].ringing = FALSE
  BY <1>0 DEF StartCall, TypeInv, MediaTypes
<1>4. /\ \A a \in Devices : \A z : a # d \/ z # c => (z \in capturing'[a] <=> z \in capturing[a])
      /\ UNCHANGED <<pending, stream, slot, armed, tracks, rtc, history>>
  <2>1. capturing' = Add(capturing, d, c) /\ UNCHANGED <<pending, stream, slot, armed, tracks, rtc, history>>
    BY DEF StartCall
  <2>2. capturing \in CallSets
    BY DEF TypeInv, SetTypes
  <2> HIDE DEF d
  <2> QED
    BY <1>0, <2>1, <2>2, AddFacts
<1>5. CalleeKept(x)
  <2>1. x \in capturing'[To[x]] => x \in capturing[To[x]]
    BY <1>0, <1>4
  <2>2. media'[To[x]].ringing /\ media'[To[x]].call = x => media[To[x]].ringing /\ media[To[x]].call = x
    BY <1>0, <1>2, <1>3
  <2> QED
    BY <1>4, <2>1, <2>2 DEF CalleeKept, rtc, history
<1>6. CASE x # c
  <2>1. ThereKept(x) /\ NothingNew(x)
    BY <1>6, SentOne DEF StartCall, Kinds
  <2>2. MadeKept(x)
    BY <1>0, <1>1, <1>4, <1>6, <2>1, Constants DEF MadeKept, Made, history
  <2> QED
    BY <1>0, <1>5, <2>1, <2>2, Carries
<1>7. CASE x = c
  <2> DEFINE q == net[From[x]][To[x]]
             p == [n \in 1..Len(<<"call_invite">>) |-> [t |-> <<"call_invite">>[n], call |-> c]]
  <2>1. Idle(x) /\ ~ Names(q, x) /\ Mode[x] # "file"
    BY <1>0, <1>7 DEF StartCall, CallButton, Good, FreshInv, There
  <2>2. /\ p \in Seq(Signals) /\ Len(p) = 1 /\ p[1].t = "call_invite" /\ p[1].call = c
    <3>1. Len(<<"call_invite">>) = 1 /\ <<"call_invite">>[1] = "call_invite"
      OBVIOUS
    <3>2. p = [n \in 1..1 |-> [t |-> <<"call_invite">>[n], call |-> c]]
      BY <3>1
    <3>3. \A n \in 1..1 : p[n] = [t |-> "call_invite", call |-> c]
      BY <3>1, <3>2
    <3>4. [t |-> "call_invite", call |-> c] \in Signals
      BY DEF Signals, Kinds
    <3>5. p \in [1..1 -> Signals]
      BY <3>2, <3>3, <3>4
    <3> HIDE DEF p
    <3>6. 1 \in Nat
      OBVIOUS
    <3>7. p \in Seq(Signals) /\ Len(p) = 1
      BY <3>5, <3>6, SeqOf
    <3>8. p[1] = [t |-> "call_invite", call |-> c]
      BY <3>3
    <3>9. p[1].t = "call_invite" /\ p[1].call = c
      BY <3>8
    <3> QED
      BY <3>7, <3>9
  <2>3. net'[From[x]][To[x]] = q \o p
    BY <1>0, <1>7, PeerFacts DEF StartCall, Sent, TypeInv, NetTypes, Nets
  <2>4. q \in Seq(Signals)
    BY <1>0, <1>7 DEF TypeInv, NetTypes, Nets
  <2> HIDE DEF q, p
  <2>5. InviteIn(net'[From[x]][To[x]], x) /\ InviteFirst(net'[From[x]][To[x]], x)
    BY <1>7, <2>1, <2>2, <2>3, <2>4, Invited
  <2>6. x \in Made'
    BY <1>0, <1>1, <1>7 DEF Made
  <2>7. Idle(x)'
    BY <1>5, <2>1 DEF CalleeKept, Idle
  <2>8. FreshInv(x)' /\ InviteInv(x)'
    BY <2>1, <2>5, <2>6, <2>7 DEF FreshInv, InviteInv, There
  <2>9. AcceptInv(x)' /\ MediaInv(x)'
    BY <2>5, <2>7 DEF Idle, AcceptInv, MediaInv, There
  <2> QED
    BY <2>8, <2>9 DEF Good
<1> QED
  BY <1>6, <1>7

LEMMA SendFileCalls ==
  ASSUME TypeInv, RouteInv, CallInv, NEW c \in Calls, SendFileTo(c) PROVE CallInv'
<1> SUFFICES ASSUME NEW x \in Calls PROVE Good(x)'
  BY DEF CallInv
<1>0. Good(x) /\ From[c] \in Devices /\ To[x] \in Devices /\ From[c] \in {From[c], To[c]}
  BY Constants DEF CallInv
<1>1. \A a \in Devices, z \in Calls :
        sess'[a][z] # "none" <=> sess[a][z] # "none" \/ (a = From[c] /\ z = c)
  BY DEF SendFileTo, TypeInv, SessTypes
<1>2. /\ net' = Sent(From[c], c, <<"offer">>) /\ offered' = offered \cup {c}
      /\ UNCHANGED <<media, pending, stream, slot, armed, capturing, tracks, rtc, accepted, answered,
                     displaced, broken, faults>>
  BY DEF SendFileTo, SendOffer
<1>3. CalleeKept(x)
  BY <1>2, SameCallee DEF rtc
<1>4. ThereKept(x) /\ (x # c => NothingNew(x))
  BY <1>0, <1>2, SentOne DEF Kinds
<1>5. CASE x # c
  <2>1. MadeKept(x)
    BY <1>0, <1>1, <1>2, <1>4, <1>5, Constants DEF MadeKept, Made
  <2> QED
    BY <1>0, <1>3, <1>4, <2>1, Carries
<1>6. CASE x = c
  <2>1. Mode[x] = "file" /\ Idle(x) /\ Idle(x)'
    BY <1>0, <1>3, <1>6 DEF SendFileTo, Good, FreshInv, CalleeKept, Idle
  <2>2. x \in Made'
    BY <1>2, <1>6 DEF Made
  <2>3. FreshInv(x)' /\ InviteInv(x)'
    BY <1>0, <1>3, <1>4, <2>1, <2>2
    DEF Good, FreshInv, InviteInv, There, ThereKept, InviteKept, CalleeKept
  <2>4. AcceptInv(x)' /\ MediaInv(x)'
    BY <2>1 DEF Idle, AcceptInv, MediaInv
  <2> QED
    BY <2>3, <2>4 DEF Good
<1> QED
  BY <1>5, <1>6

LEMMA AnswerFacts ==
  ASSUME TypeInv, NEW d \in Devices, NEW c \in Calls, AnswerOrArm(d, c)
  PROVE  /\ \A a \in Devices : \A z :
              /\ z \in armed'[a] => z \in armed[a] \/ (a = d /\ z = c)
              /\ z \in applying'[a] => z \in applying[a] \/ (a = d /\ z = c)
         /\ \A a \in Devices, z \in Calls : slot'[a] = z => slot[a] = z
<1>0. armed \in CallSets /\ applying \in CallSets /\ slot \in [Devices -> Calls \cup {NoCall}]
  BY DEF TypeInv, SetTypes, SlotTypes
<1>1. CASE slot[d] = c
  <2>1. slot' = [slot EXCEPT ![d] = NoCall] /\ applying' = Add(applying, d, c) /\ UNCHANGED armed
    BY <1>1 DEF AnswerOrArm
  <2> QED
    BY <1>0, <2>1, AddFacts, Constants
<1>2. CASE slot[d] # c
  <2>1. armed' = Add(armed, d, c) /\ UNCHANGED <<slot, applying>>
    BY <1>2 DEF AnswerOrArm
  <2> QED
    BY <1>0, <2>1, AddFacts
<1> QED
  BY <1>1, <1>2

(* What the callee has begun was invited.                                  *)
LEMMA Begun ==
  ASSUME NEW c \in Calls, Good(c), ~ Idle(c)
  PROVE  c \in Made /\ ~ InviteIn(There(c), c)
BY DEF Good, FreshInv, InviteInv

LEMMA AcceptCalls ==
  ASSUME TypeInv, RouteInv, CallInv, NEW d \in Devices, Accept(d) PROVE CallInv'
<1> SUFFICES ASSUME NEW x \in Calls PROVE Good(x)'
  BY DEF CallInv
<1> DEFINE c == media[d].call
<1>0. c \in Calls /\ d = To[c] /\ media[d].ringing
  BY Ringing DEF Accept, AcceptButton
<1>1. /\ accepted' = accepted \cup {c}
      /\ net' = Sent(d, c, <<"call_accept">>) \/ net' = Sent(d, c, <<"call_accept", "call_accept">>)
      /\ UNCHANGED <<pending, stream, tracks, remote, iceQueue, gathered, offered, answered, displaced,
                     broken, faults>>
  BY DEF Accept
<1>2. Good(x) /\ Good(c) /\ ~ Idle(c)
  BY <1>0 DEF CallInv, Idle
<1>3. /\ \A a \in Devices : a # d => media'[a] = media[a]
      /\ ~ media'[d].ringing
  <2>1. media[d] \in [call : Calls \cup {NoCall}, ringing : BOOLEAN]
    BY MediaShape
  <2>2. media'[d] = [media[d] EXCEPT !.ringing = FALSE]
        /\ \A a \in Devices : a # d => media'[a] = media[a]
    BY DEF Accept, TypeInv, MediaTypes
  <2> QED
    BY <2>1, <2>2
<1>4. \/ Mode[c] = "voice" /\ capturing' = Add(capturing, d, c) /\ UNCHANGED <<sess, slot, armed, applying>>
      \/ Mode[c] # "voice" /\ sess' = WithSession(d, c) /\ AnswerOrArm(d, c) /\ UNCHANGED capturing
  BY DEF Accept
<1> HIDE DEF c
<1>5. c \in Made /\ ~ InviteIn(There(c), c)
  BY <1>0, <1>2, Begun
<1>6. ThereKept(x) /\ (x # c => NothingNew(x))
  BY <1>0, <1>1, SentOne DEF Kinds
<1>7. \A a \in Devices, z \in Calls :
        /\ z \in capturing'[a] => z \in capturing[a] \/ (a = d /\ z = c)
        /\ z \in armed'[a] => z \in armed[a] \/ (a = d /\ z = c)
        /\ z \in applying'[a] => z \in applying[a] \/ (a = d /\ z = c)
        /\ slot'[a] = z => slot[a] = z
        /\ sess[a][z] # "none" => sess'[a][z] # "none"
        /\ sess'[a][z] # "none" => sess[a][z] # "none" \/ (a = d /\ z = c)
  <2>1. CASE capturing' = Add(capturing, d, c) /\ UNCHANGED <<sess, slot, armed, applying>>
    <3>1. capturing \in CallSets
      BY DEF TypeInv, SetTypes
    <3> QED
      BY <1>0, <2>1, <3>1, AddFacts
  <2>2. CASE sess' = WithSession(d, c) /\ AnswerOrArm(d, c) /\ UNCHANGED capturing
    <3>1. \A a \in Devices, z \in Calls :
            sess'[a][z] # "none" <=> sess[a][z] # "none" \/ (a = d /\ z = c)
      BY <1>0, <2>2, SessWith
    <3> QED
      BY <1>0, <2>2, <3>1, AnswerFacts
  <2> QED
    BY <1>4, <2>1, <2>2
<1>8. To[x] \in Devices /\ From[x] \in Devices /\ d # From[c]
  BY <1>0, Constants
<1>9. x \in Made' <=> x \in Made
  BY <1>0, <1>1, <1>5, <1>7, <1>8 DEF Made
<1>10. CASE x # c
  <2>1. MadeKept(x)
    BY <1>1, <1>6, <1>7, <1>8, <1>9, <1>10 DEF MadeKept
  <2>2. CalleeKept(x)
    <3>1. media'[To[x]].ringing => media'[To[x]] = media[To[x]]
      BY <1>3, <1>8
    <3> QED
      BY <1>1, <1>7, <1>8, <1>10, <3>1 DEF CalleeKept
  <2> QED
    BY <1>2, <1>6, <1>10, <2>1, <2>2, Carries
<1>11. CASE x = c
  <2>1. FreshInv(x)'
    BY <1>5, <1>9, <1>11 DEF FreshInv
  <2>2. InviteInv(x)'
    BY <1>1, <1>2, <1>5, <1>6, <1>11 DEF Good, InviteInv, ThereKept, InviteKept, There
  <2>3. AcceptInv(x)'
    BY <1>1, <1>11 DEF AcceptInv
  <2>4. MediaInv(x)'
    <3>1. x \in Made' /\ Mode[x] # "file" /\ x \notin broken' =>
            x \in pending'[To[x]] \/ InviteIn(There(x)', x)
      BY <1>1, <1>2, <1>6, <1>9 DEF Good, MediaInv, ThereKept, InviteKept, There
    <3>2. Mode[x] = "voice" => UNCHANGED <<armed, applying>>
      BY <1>4, <1>11
    <3> QED
      BY <1>1, <1>2, <3>1, <3>2 DEF Good, MediaInv, There
  <2> QED
    BY <2>1, <2>2, <2>3, <2>4 DEF Good
<1> QED
  BY <1>10, <1>11

LEMMA CalleeCapturedCalls ==
  ASSUME TypeInv, RouteInv, CallInv, NEW c \in Calls, CalleeCaptured(c) PROVE CallInv'
<1> SUFFICES ASSUME NEW x \in Calls PROVE Good(x)'
  BY DEF CallInv
<1> DEFINE d == To[c]
<1>0. d \in Devices /\ To[x] \in Devices /\ From[x] \in Devices /\ d # From[c] /\ c \in capturing[d]
  BY Constants DEF CalleeCaptured
<1>1. /\ capturing' = Remove(capturing, d, c)
      /\ stream' = IF c \in pending[d] THEN Add(stream, d, c) ELSE stream
      /\ media' = [media EXCEPT ![d] = [call |-> c, ringing |-> FALSE]]
      /\ sess' = WithSession(d, c) /\ tracks' = Add(tracks, d, c)
      /\ AnswerOrArm(d, c) /\ net' = Sent(d, c, <<"call_accept">>)
      /\ UNCHANGED <<pending, history>>
  BY DEF CalleeCaptured
<1>2. Good(x) /\ Good(c) /\ ~ Idle(c)
  BY <1>0 DEF CallInv, Idle
<1>3. c \in accepted /\ c \in Made /\ ~ InviteIn(There(c), c)
  BY <1>0, <1>2, Begun DEF Good, AcceptInv
<1>4. ThereKept(x) /\ (x # c => NothingNew(x))
  BY <1>1, SentOne DEF Kinds
<1>5. \A a \in Devices : media'[a].ringing => media'[a] = media[a]
  BY <1>1 DEF TypeInv, MediaTypes
<1> HIDE DEF d
<1>6. \A a \in Devices : \A z :
        /\ z \in capturing'[a] => z \in capturing[a]
        /\ z \in stream'[a] => z \in stream[a] \/ (a = d /\ z = c)
        /\ z \in tracks[a] => z \in tracks'[a]
        /\ c \in tracks'[d]
  <2>1. capturing \in CallSets /\ stream \in CallSets /\ tracks \in CallSets
    BY DEF TypeInv, SetTypes
  <2> QED
    BY <1>0, <1>1, <2>1, AddFacts, RemoveFacts
<1>7. \A a \in Devices, z \in Calls :
        /\ z \in armed'[a] => z \in armed[a] \/ (a = d /\ z = c)
        /\ z \in applying'[a] => z \in applying[a] \/ (a = d /\ z = c)
        /\ slot'[a] = z => slot[a] = z
  BY <1>0, <1>1, AnswerFacts
<1>8. \A a \in Devices, z \in Calls :
        sess'[a][z] # "none" <=> sess[a][z] # "none" \/ (a = d /\ z = c)
  BY <1>0, <1>1, SessWith
<1>9. x \in Made' <=> x \in Made
  BY <1>0, <1>1, <1>3, <1>8 DEF Made, history
<1>10. CASE x # c
  <2>1. MadeKept(x)
    BY <1>0, <1>1, <1>4, <1>8, <1>9, <1>10 DEF MadeKept, history
  <2>2. CalleeKept(x)
    BY <1>0, <1>1, <1>5, <1>6, <1>7, <1>10 DEF CalleeKept, history
  <2> QED
    BY <1>2, <1>4, <1>10, <2>1, <2>2, Carries
<1>11. CASE x = c
  <2>1. FreshInv(x)'
    BY <1>3, <1>9, <1>11 DEF FreshInv
  <2>2. InviteInv(x)'
    BY <1>1, <1>2, <1>3, <1>4, <1>11 DEF Good, InviteInv, ThereKept, InviteKept, There
  <2>3. AcceptInv(x)'
    BY <1>1, <1>3, <1>11 DEF AcceptInv, history
  <2>4. MediaInv(x)'
    <3>1. x \in Made' /\ Mode[x] # "file" /\ x \notin broken' =>
            x \in pending'[To[x]] \/ InviteIn(There(x)', x)
      BY <1>1, <1>2, <1>4, <1>9 DEF Good, MediaInv, ThereKept, InviteKept, There, history
    <3>2. x \in tracks'[To[x]]
      BY <1>0, <1>6, <1>11 DEF d
    <3> QED
      BY <3>1, <3>2 DEF MediaInv, There
  <2> QED
    BY <2>1, <2>2, <2>3, <2>4 DEF Good
<1> QED
  BY <1>10, <1>11

LEMMA DescriptionCalls ==
  ASSUME TypeInv, RouteInv, CallInv, NEW d \in Devices, NEW c \in Calls, RemoteDescriptionSet(d, c)
  PROVE  CallInv'
<1> SUFFICES ASSUME NEW x \in Calls PROVE Good(x)'
  BY DEF CallInv
<1>0. Good(x) /\ To[x] \in Devices /\ c \in applying[d]
  BY Constants DEF CallInv, RemoteDescriptionSet
<1>1. \/ UNCHANGED <<net, answered>>
      \/ d = To[c] /\ net' = Sent(d, c, <<"answer">>) /\ answered' = answered \cup {c}
  BY DEF RemoteDescriptionSet
<1>2. UNCHANGED <<page, offered, accepted, displaced, broken>>
  BY DEF RemoteDescriptionSet
<1>3. ThereKept(x) /\ (x # c \/ UNCHANGED net => NothingNew(x))
  BY <1>1, SameNet, SentOne DEF Kinds
<1>4. \A a \in Devices : \A z : z \in applying'[a] => z \in applying[a]
  BY RemoveFacts DEF RemoteDescriptionSet, TypeInv, SetTypes
<1>5. x \in Made' <=> x \in Made
  BY <1>2 DEF Made, page
<1>6. CASE x # c \/ UNCHANGED <<net, answered>>
  <2>1. MadeKept(x)
    BY <1>2, <1>3, <1>5, <1>6 DEF MadeKept, page
  <2>2. x \in answered' => x \in answered
    BY <1>1, <1>6
  <2>3. CalleeKept(x)
    BY <1>0, <1>2, <1>4, <2>2 DEF CalleeKept, page
  <2> QED
    BY <1>0, <1>3, <2>1, <2>3, Carries
<1>7. CASE x = c /\ d = To[c]
  <2>1. ~ Idle(x) /\ x \in applying[To[x]]
    BY <1>0, <1>7 DEF Idle
  <2>2. x \in Made /\ ~ InviteIn(There(x), x)
    BY <1>0, <2>1, Begun
  <2>3. \A a \in Devices : \A z : z \in answered' => z \in answered \/ z = x
    BY <1>1, <1>7
  <2>4. FreshInv(x)'
    BY <1>5, <2>2 DEF FreshInv
  <2>5. InviteInv(x)'
    BY <1>0, <1>2, <1>3, <2>2 DEF Good, InviteInv, ThereKept, InviteKept, There, page
  <2>6. AcceptInv(x)'
    BY <1>0, <1>2, <1>4, <2>1 DEF Good, AcceptInv, page
  <2>7. MediaInv(x)'
    BY <1>0, <1>2, <1>3, <1>4, <1>5, <2>1
    DEF Good, MediaInv, ThereKept, InviteKept, There, page
  <2> QED
    BY <2>4, <2>5, <2>6, <2>7 DEF Good
<1> QED
  BY <1>1, <1>6, <1>7

-----------------------------------------------------------------------------
(* Steps that end calls *)

LEMMA DropKeeps ==
  ASSUME TypeInv, NEW d \in Devices, NEW cs \in SUBSET Calls, DropSessions(d, cs),
         UNCHANGED <<capturing, offered, accepted, answered>>,
         slot' = slot \/ slot' = [slot EXCEPT ![d] = NoCall],
         media' = [media EXCEPT ![d] = NoMedia],
         NEW x \in Calls
  PROVE  /\ CalleeKept(x)
         /\ x \in Made => x \in Made'
         /\ x \in Made' => x \in Made \/ x \in broken'
         /\ x \in broken => x \in broken'
         /\ x \in cs => x \in Made'
         /\ sess[To[x]][x] = "none" => sess'[To[x]][x] = "none"
<1>0. To[x] \in Devices /\ From[x] \in Devices
  BY Constants
<1>1. \A a \in Devices : \A z :
        /\ z \in pending'[a] <=> z \in pending[a] /\ ~ (a = d /\ z \in cs)
        /\ z \in stream'[a] => z \in stream[a]
        /\ z \in armed'[a] <=> z \in armed[a] /\ ~ (a = d /\ z \in cs)
        /\ z \in tracks'[a] <=> z \in tracks[a] /\ ~ (a = d /\ z \in cs)
        /\ z \in applying'[a] => z \in applying[a]
  <2>1. /\ pending \in CallSets /\ stream \in CallSets /\ armed \in CallSets
        /\ tracks \in CallSets /\ applying \in CallSets
    BY DEF TypeInv, SetTypes
  <2>2. /\ pending' = [pending EXCEPT ![d] = @ \ cs] /\ stream' = [stream EXCEPT ![d] = @ \ cs]
        /\ armed' = [armed EXCEPT ![d] = @ \ cs] /\ tracks' = [tracks EXCEPT ![d] = @ \ cs]
        /\ applying' = [applying EXCEPT ![d] = @ \ cs]
    BY DEF DropSessions
  <2>3. \A a \in Devices : \A z : z \in pending'[a] <=> z \in pending[a] /\ ~ (a = d /\ z \in cs)
    BY <2>1, <2>2 DEF CallSets
  <2>4. \A a \in Devices : \A z : z \in stream'[a] <=> z \in stream[a] /\ ~ (a = d /\ z \in cs)
    BY <2>1, <2>2 DEF CallSets
  <2>5. \A a \in Devices : \A z : z \in armed'[a] <=> z \in armed[a] /\ ~ (a = d /\ z \in cs)
    BY <2>1, <2>2 DEF CallSets
  <2>6. \A a \in Devices : \A z : z \in tracks'[a] <=> z \in tracks[a] /\ ~ (a = d /\ z \in cs)
    BY <2>1, <2>2 DEF CallSets
  <2>7. \A a \in Devices : \A z : z \in applying'[a] <=> z \in applying[a] /\ ~ (a = d /\ z \in cs)
    BY <2>1, <2>2 DEF CallSets
  <2> QED
    BY <2>3, <2>4, <2>5, <2>6, <2>7
<1>2. \A a \in Devices, z \in Calls :
        sess'[a][z] # "none" <=> sess[a][z] # "none" /\ ~ (a = d /\ z \in cs)
  BY DEF DropSessions, TypeInv, SessTypes
<1>3. broken' = broken \cup cs
  BY DEF DropSessions
<1>4. \A a \in Devices : media'[a].ringing => media'[a] = media[a]
  BY DEF TypeInv, MediaTypes, NoMedia
<1>5. \A a \in Devices : slot'[a] = x => slot[a] = x
  BY Constants DEF TypeInv, SlotTypes
<1>6. CalleeKept(x)
  BY <1>0, <1>1, <1>3, <1>4, <1>5 DEF CalleeKept
<1>7. /\ x \in Made => x \in Made'
      /\ x \in Made' => x \in Made \/ x \in broken'
      /\ x \in cs => x \in Made'
  BY <1>0, <1>2, <1>3 DEF Made
<1> QED
  BY <1>0, <1>2, <1>3, <1>6, <1>7

LEMMA HangupAllCalls ==
  ASSUME TypeInv, RouteInv, CallInv, NEW d \in Devices, HangupAll(d) PROVE CallInv'
<1> SUFFICES ASSUME NEW x \in Calls PROVE Good(x)'
  BY DEF CallInv
<1>0. Good(x) /\ From[x] \in Devices /\ To[x] \in Devices
  BY Constants DEF CallInv
<1> DEFINE cs == {c \in Calls : sess[d][c] # "none"}
           S(b) == [t : {"call_hangup"}, call : {c \in Calls : sess[d][c] # "none" /\ Peer(d, c) = b}]
<1>1. /\ DropSessions(d, cs) /\ cs \in SUBSET Calls
      /\ UNCHANGED <<capturing, offered, accepted, answered>>
      /\ slot' = [slot EXCEPT ![d] = NoCall] /\ media' = [media EXCEPT ![d] = NoMedia]
  BY DEF HangupAll
<1>2. \A b : \A s \in S(b) : s.t = "call_hangup" /\ s.call \in cs
  OBVIOUS
<1>3. \A a, b \in Devices :
        /\ net[a][b] \in Seq(Signals)
        /\ net'[a][b] = net[a][b] \/ Onto(net[a][b], net'[a][b], S(b))
  <2>1. \A a, b \in Devices : net[a][b] \in Seq(Signals)
    BY DEF TypeInv, NetTypes, Nets
  <2>2. \A a, b \in Devices :
          /\ a = d => Onto(net[a][b], net'[a][b], S(b))
          /\ a # d => net'[a][b] = net[a][b]
    BY HangupsSent
  <2> QED
    BY <2>1, <2>2
<1> HIDE DEF cs, S
<1>4. /\ CalleeKept(x)
      /\ x \in Made => x \in Made'
      /\ x \in Made' => x \in Made \/ x \in broken'
      /\ x \in broken => x \in broken'
      /\ x \in cs => x \in Made'
      /\ sess[To[x]][x] = "none" => sess'[To[x]][x] = "none"
  BY <1>1, DropKeeps
<1>5. ASSUME NEW a \in Devices, NEW b \in Devices
      PROVE  /\ InviteKept(net[a][b], net'[a][b], x)
             /\ x \notin cs => NoNews(net[a][b], net'[a][b], x)
  <2>1. CASE net'[a][b] = net[a][b]
    BY <2>1 DEF InviteKept, NoNews
  <2>2. CASE Onto(net[a][b], net'[a][b], S(b))
    <3> DEFINE q == net[a][b]
               r == net'[a][b]
    <3>1. \A s \in S(b) : s.call # x \/ s.t # "call_invite"
      BY <1>2
    <3>2. x \notin cs => \A s \in S(b) : s.call # x
      BY <1>2
    <3>3. /\ (\A s \in S(b) : s.call # x) => (Names(r, x) => Names(q, x))
          /\ InviteIn(q, x) => InviteIn(r, x)
          /\ (\A s \in S(b) : s.call # x \/ s.t # "call_invite") =>
               /\ InviteIn(r, x) => InviteIn(q, x)
               /\ InviteFirst(q, x) => InviteFirst(r, x)
      BY <1>3, <2>2, OntoWay
    <3> QED
      BY <3>1, <3>2, <3>3 DEF InviteKept, NoNews
  <2> QED
    BY <1>3, <2>1, <2>2
<1>6. ThereKept(x) /\ (x \notin cs => NothingNew(x))
  BY <1>0, <1>5 DEF ThereKept, NothingNew
<1>7. MadeKept(x)
  BY <1>4, <1>6 DEF MadeKept
<1> QED
  BY <1>0, <1>4, <1>6, <1>7, Carries

-----------------------------------------------------------------------------
(* Signals that arrive *)

LEMMA InviteCalls ==
  ASSUME TypeInv, RouteInv, CallInv, NEW d \in Devices, NEW e \in Devices, net[e][d] # <<>>,
         net' = [net EXCEPT ![e][d] = Tail(@)], Head(net[e][d]).t = "call_invite",
         OnInvite(d, Head(net[e][d]).call)
  PROVE  CallInv'
<1> SUFFICES ASSUME NEW x \in Calls PROVE Good(x)'
  BY DEF CallInv
<1> DEFINE q == net[e][d]
           c == Head(q).call
<1>0. Good(x) /\ To[x] \in Devices /\ From[x] \in Devices /\ q \in Seq(Signals)
  BY Constants DEF CallInv, TypeInv, NetTypes, Nets
<1>1. c \in Calls /\ c \in Made /\ Good(c)
  BY HeadIsMade DEF CallInv
<1>2. e = From[c] /\ d = To[c]
  BY TakenRoutes DEF Goes
<1>3. InviteIn(q, c) /\ (InviteFirst(q, c) => ~ InviteIn(Tail(q), c))
  BY <1>0, TailWay
<1>4. /\ NothingNew(x)
      /\ InviteFirst(net[From[x]][To[x]], x) => InviteFirst(net'[From[x]][To[x]], x)
      /\ c # x => ThereKept(x)
  <2>1. Head(net[e][d]).call # x \/ Head(net[e][d]).t # "call_invite" => ThereKept(x)
    BY TakenNet
  <2>2. /\ NothingNew(x)
        /\ InviteFirst(net[From[x]][To[x]], x) => InviteFirst(net'[From[x]][To[x]], x)
    BY TakenNet
  <2> QED
    BY <2>1, <2>2
<1>5. net'[e][d] = Tail(q)
  BY TakenHere
<1>6. /\ pending' = Add(pending, d, c) /\ media' = [media EXCEPT ![d] = [call |-> c, ringing |-> TRUE]]
      /\ UNCHANGED <<sess, stream, slot, armed, capturing, tracks, rtc, history>>
  BY DEF OnInvite
<1> HIDE DEF c, q
<1>7. \A a \in Devices : \A z : z \in pending'[a] <=> z \in pending[a] \/ (a = d /\ z = c)
  BY <1>1, <1>6, AddFacts DEF TypeInv, SetTypes
<1>8. /\ \A a \in Devices : a # d => media'[a] = media[a]
      /\ media'[d].call = c
  BY <1>6 DEF TypeInv, MediaTypes
<1>9. x \in Made' <=> x \in Made
  BY <1>6 DEF Made, history
<1>10. CASE x # c
  <2>1. MadeKept(x)
    BY <1>4, <1>6, <1>9 DEF MadeKept, history
  <2>2. CalleeKept(x)
    BY <1>0, <1>6, <1>7, <1>8, <1>10 DEF CalleeKept, rtc, history
  <2> QED
    BY <1>0, <1>4, <1>10, <2>1, <2>2, Carries
<1>11. CASE x = c
  <2>1. q = There(x) /\ net'[From[x]][To[x]] = Tail(q)
    BY <1>2, <1>5, <1>11 DEF There, q
  <2>2. InviteFirst(q, x) /\ Mode[x] # "file" /\ Idle(x)
    BY <1>0, <1>3, <1>11, <2>1 DEF Good, InviteInv
  <2>3. ~ InviteIn(net'[From[x]][To[x]], x) /\ InviteFirst(net'[From[x]][To[x]], x)
    BY <1>3, <1>4, <1>11, <2>1, <2>2 DEF There
  <2>4. x \in pending'[To[x]]
    BY <1>2, <1>7, <1>11, Constants
  <2>5. FreshInv(x)'
    BY <1>1, <1>9, <1>11 DEF FreshInv
  <2>6. InviteInv(x)'
    BY <2>2, <2>3 DEF InviteInv, There
  <2>7. AcceptInv(x)' /\ MediaInv(x)'
    BY <1>6, <2>2, <2>4 DEF Idle, AcceptInv, MediaInv, rtc, history
  <2> QED
    BY <2>5, <2>6, <2>7 DEF Good
<1> QED
  BY <1>10, <1>11

LEMMA OfferCalls ==
  ASSUME TypeInv, RouteInv, CallInv, NEW d \in Devices, NEW e \in Devices, net[e][d] # <<>>,
         net' = [net EXCEPT ![e][d] = Tail(@)], Head(net[e][d]).t = "offer",
         OnOffer(d, Head(net[e][d]).call)
  PROVE  CallInv'
<1> SUFFICES ASSUME NEW x \in Calls PROVE Good(x)'
  BY DEF CallInv
<1> DEFINE q == net[e][d]
           c == Head(q).call
<1>0. Good(x) /\ To[x] \in Devices /\ From[x] \in Devices /\ q \in Seq(Signals)
  BY Constants DEF CallInv, TypeInv, NetTypes, Nets
<1>1. c \in Calls /\ c \in Made /\ Good(c)
  BY HeadIsMade DEF CallInv
<1>2. e = From[c] /\ d = To[c] /\ d # From[c]
  BY <1>1, TakenRoutes, Constants DEF Goes
<1>3. InviteFirst(q, c) => ~ InviteIn(Tail(q), c)
  BY <1>0, TailWay
<1>4. NothingNew(x) /\ ThereKept(x)
  <2>1. Head(net[e][d]).call # x \/ Head(net[e][d]).t # "call_invite" => ThereKept(x)
    BY TakenNet
  <2>2. NothingNew(x)
    BY TakenNet
  <2> QED
    BY <2>1, <2>2
<1>5. net'[e][d] = Tail(q)
  BY TakenHere
<1>6. OnOffer(d, c)
  OBVIOUS
<1> HIDE DEF c, q
<1>7. \A a \in Devices, z \in Calls :
        sess'[a][z] # "none" <=> sess[a][z] # "none" \/ (a = d /\ z = c)
  <2>1. sess' = WithSession(d, c)
    BY <1>6 DEF OnOffer
  <2> QED
    BY <1>1, <2>1, SessWith
<1>8. \A a \in Devices, z \in Calls :
        /\ z \in armed'[a] <=> z \in armed[a] /\ ~ (a = d /\ z = c)
        /\ slot'[a] = z => slot[a] = z \/ (a = d /\ z = c)
  <2>1. \A a \in Devices : \A z : z \in armed'[a] <=> z \in armed[a] /\ ~ (a = d /\ z = c)
    BY <1>6, RemoveFacts DEF OnOffer, TypeInv, SetTypes
  <2>2. slot' = [slot EXCEPT ![d] = NoCall] \/ slot' = [slot EXCEPT ![d] = c]
    BY <1>6 DEF OnOffer
  <2>3. slot \in [Devices -> Calls \cup {NoCall}]
    BY DEF TypeInv, SlotTypes
  <2> QED
    BY <2>1, <2>2, <2>3, Constants
<1> DEFINE ready == c \in armed[d] \/ Mode[c] = "file" \/ c \notin pending[d] \/ c \in stream[d]
<1>9. /\ \A a \in Devices : \A z :
           /\ z \in tracks[a] => z \in tracks'[a]
           /\ z \in applying'[a] => z \in applying[a] \/ (a = d /\ z = c)
      /\ c \in applying'[d] => c \in applying[d] \/ ready
      /\ c \in stream[d] => UNCHANGED <<tracks, applying>> \/ c \in tracks'[d]
  <2>1. \/ UNCHANGED <<tracks, applying>>
        \/ c \in stream[d] /\ tracks' = Add(tracks, d, c) /\ applying' = Add(applying, d, c)
        \/ ready /\ c \notin stream[d] /\ UNCHANGED tracks /\ applying' = Add(applying, d, c)
    BY <1>6 DEF OnOffer, ApplyWithStream, ApplyOffer
  <2>2. tracks \in CallSets /\ applying \in CallSets
    BY DEF TypeInv, SetTypes
  <2> QED
    BY <1>1, <2>1, <2>2, AddFacts
<1>10. UNCHANGED <<media, pending, stream, capturing, offered, accepted, answered, broken>>
  BY <1>6 DEF OnOffer
<1>11. x \in Made' <=> x \in Made
  BY <1>0, <1>1, <1>2, <1>7, <1>10 DEF Made
<1>12. CASE x # c
  <2>1. MadeKept(x)
    BY <1>0, <1>4, <1>7, <1>10, <1>11, <1>12 DEF MadeKept
  <2>2. CalleeKept(x)
    BY <1>0, <1>8, <1>9, <1>10, <1>12 DEF CalleeKept
  <2> QED
    BY <1>0, <1>4, <2>1, <2>2, Carries
<1>13. CASE x = c
  <2>1. q = There(x) /\ net'[From[x]][To[x]] = Tail(q) /\ d = To[x]
    BY <1>2, <1>5, <1>13 DEF There, q
  <2>2. InviteFirst(q, x) /\ ~ InviteIn(Tail(q), x) /\ ~ InviteIn(There(x), x)
    BY <1>0, <1>3, <1>4, <1>13, <2>1 DEF Good, InviteInv, ThereKept, InviteKept, There
  <2>3. x \in Made /\ FreshInv(x)'
    BY <1>1, <1>11, <1>13 DEF FreshInv
  <2>4. InviteInv(x)'
    BY <1>0, <1>4, <1>10, <2>1, <2>2 DEF Good, InviteInv, There, ThereKept, InviteKept
  <2>5. AcceptInv(x)'
    <3>1. x \in capturing[d] \/ x \in stream[d] \/ x \in armed[d] => x \in accepted
      BY <1>0, <2>1 DEF Good, AcceptInv
    <3>2. (x \in applying[d] \/ x \in answered) /\ x \in pending[d] => x \in accepted
      BY <1>0, <2>1 DEF Good, AcceptInv
    <3>3. x \in pending[d] => Mode[x] # "file"
      BY <1>0, <2>1 DEF Good, InviteInv
    <3>4. x \in armed'[d] => x \in armed[d]
      BY <1>1, <1>8, <1>13, <2>1
    <3>5. x \in applying'[d] /\ x \in pending[d] => x \in accepted
      BY <1>9, <1>13, <3>1, <3>2, <3>3
    <3> QED
      BY <1>10, <2>1, <3>1, <3>2, <3>4, <3>5 DEF AcceptInv
  <2>6. MediaInv(x)'
    <3>1. Mode[x] # "file" /\ x \notin broken => x \in pending[d]
      BY <1>0, <2>1, <2>2, <2>3 DEF Good, MediaInv
    <3>2. ASSUME Mode[x] = "voice", x \notin broken, x \in applying'[d] \/ x \in answered
          PROVE  x \in tracks'[d]
      <4>1. (x \in armed[d] \/ x \in applying[d] \/ x \in answered) => x \in tracks[d]
        BY <1>0, <2>1, <3>2 DEF Good, MediaInv
      <4>2. x \in tracks[d] => x \in tracks'[d]
        BY <1>9, <2>1, Constants
      <4>3. CASE x \in armed[d] \/ x \in applying[d] \/ x \in answered
        BY <4>1, <4>2, <4>3
      <4>4. CASE ~ (x \in armed[d] \/ x \in applying[d] \/ x \in answered)
        <5>1. x \in stream[d]
          BY <1>9, <1>13, <3>1, <3>2, <4>4
        <5>2. ~ UNCHANGED <<tracks, applying>>
          BY <3>2, <4>4
        <5> QED
          BY <1>9, <1>13, <5>1, <5>2
      <4> QED
        BY <4>3, <4>4
    <3>3. x \notin armed'[d]
      BY <1>1, <1>8, <1>13
    <3> QED
      BY <1>10, <2>1, <3>1, <3>2, <3>3 DEF MediaInv
  <2> QED
    BY <2>3, <2>4, <2>5, <2>6 DEF Good
<1> QED
  BY <1>12, <1>13

LEMMA ReceivesCalls ==
  ASSUME TypeInv, RouteInv, CallInv, NEW d \in Devices, NEW e \in Devices, Receive(e, d)
  PROVE  CallInv'
<1> DEFINE c == Head(net[e][d]).call
           t == Head(net[e][d]).t
<1>0. net[e][d] # <<>> /\ net' = [net EXCEPT ![e][d] = Tail(@)]
  BY DEF Receive
<1>1. CASE t = "call_invite" /\ OnInvite(d, c)
  BY <1>0, <1>1, InviteCalls
<1>2. CASE t = "offer" /\ OnOffer(d, c)
  BY <1>0, <1>2, OfferCalls
<1>3. CASE /\ \/ t = "answer" /\ OnAnswer(d, c)
              \/ t = "ice" /\ OnIce(d, c)
              \/ t = "call_accept" /\ OnCallAccept(d)
              \/ t = "call_hangup" /\ OnHangup(d, c)
  <2> SUFFICES ASSUME NEW x \in Calls PROVE Good(x)'
    BY DEF CallInv
  <2>0. Good(x) /\ To[x] \in Devices /\ From[x] \in Devices
    BY Constants DEF CallInv
  <2>1. c \in Calls /\ c \in Made
    BY <1>0, HeadIsMade
  <2>2. t = "answer" => d = From[c]
    BY <1>0, TakenRoutes DEF Goes
  <2>3. NothingNew(x) /\ ThereKept(x)
    <3>1. Head(net[e][d]).call # x \/ Head(net[e][d]).t # "call_invite" => ThereKept(x)
      BY <1>0, TakenNet
    <3>2. NothingNew(x)
      BY <1>0, TakenNet
    <3> QED
      BY <1>3, <3>1, <3>2
  <2> HIDE DEF c, t
  <2>4. ASSUME OnAnswer(d, c), d = From[c] PROVE MadeKept(x) /\ CalleeKept(x)
    <3>1. \A a \in Devices, z \in Calls :
            sess'[a][z] # "none" <=> sess[a][z] # "none" \/ (a = d /\ z = c)
      BY <2>1, <2>4, SessWith DEF OnAnswer
    <3>2. \A a \in Devices : \A z : z \in applying'[a] => z \in applying[a] \/ (a = d /\ z = c)
      BY <2>1, <2>4, AddFacts DEF OnAnswer, TypeInv, SetTypes
    <3>3. x \in Made' <=> x \in Made
      BY <2>0, <2>1, <2>4, <3>1 DEF OnAnswer, Made, history
    <3>4. d # To[c]
      BY <2>1, <2>4, Constants
    <3> QED
      BY <2>0, <2>3, <2>4, <3>1, <3>2, <3>3, <3>4 DEF OnAnswer, MadeKept, CalleeKept, history
  <2>5. ASSUME OnIce(d, c) PROVE MadeKept(x) /\ CalleeKept(x)
    <3>1. \A a \in Devices, z \in Calls :
            sess'[a][z] # "none" <=> sess[a][z] # "none" \/ (a = d /\ z = c)
      BY <2>1, <2>5, SessWith DEF OnIce
    <3>2. x \in Made' <=> x \in Made
      BY <2>0, <2>1, <2>5, <3>1 DEF OnIce, Made, history
    <3>3. x # c /\ sess'[To[x]][x] # "none" => sess[To[x]][x] # "none"
      BY <2>0, <3>1
    <3>4. CalleeKept(x)
      BY <2>5, SameCallee DEF OnIce, history
    <3> QED
      BY <2>1, <2>3, <2>5, <3>2, <3>3, <3>4 DEF OnIce, MadeKept, history
  <2>6. ASSUME OnCallAccept(d) PROVE MadeKept(x) /\ CalleeKept(x)
    <3>1. media[d] \in [call : Calls \cup {NoCall}, ringing : BOOLEAN]
      BY MediaShape
    <3>2. /\ media'[d] = [media[d] EXCEPT !.ringing = FALSE]
          /\ \A a \in Devices : a # d => media'[a] = media[a]
      BY <2>6 DEF OnCallAccept, TypeInv, MediaTypes
    <3>3. \A a \in Devices : media'[a].ringing => media'[a] = media[a]
      BY <3>1, <3>2
    <3>4. CalleeKept(x)
      BY <2>0, <2>6, <3>3 DEF OnCallAccept, CalleeKept, rtc, history
    <3>5. MadeKept(x)
      BY <2>3, <2>6 DEF OnCallAccept, MadeKept, Made, history
    <3> QED
      BY <3>4, <3>5
  <2>7. ASSUME OnHangup(d, c) PROVE MadeKept(x) /\ CalleeKept(x)
    <3>1. /\ DropSessions(d, {c}) /\ {c} \in SUBSET Calls
          /\ media' = [media EXCEPT ![d] = NoMedia]
          /\ UNCHANGED <<slot, capturing, offered, accepted, answered>>
      BY <2>1, <2>7 DEF OnHangup
    <3>2. /\ CalleeKept(x)
          /\ x \in Made => x \in Made'
          /\ x \in Made' => x \in Made \/ x \in broken'
          /\ x \in broken => x \in broken'
          /\ sess[To[x]][x] = "none" => sess'[To[x]][x] = "none"
      BY <3>1, DropKeeps
    <3> QED
      BY <2>3, <3>2 DEF MadeKept
  <2>8. MadeKept(x) /\ CalleeKept(x)
    BY <1>3, <2>2, <2>4, <2>5, <2>6, <2>7
  <2> QED
    BY <2>0, <2>3, <2>8, Carries
<1> QED
  BY <1>1, <1>2, <1>3 DEF Receive

LEMMA CallStep == ASSUME TypeInv, RouteInv, CallInv, [Next]_vars PROVE CallInv'
<1>1. CASE UNCHANGED vars
  <2> SUFFICES ASSUME NEW x \in Calls PROVE Good(x)'
    BY DEF CallInv
  <2>1. Good(x) /\ ThereKept(x) /\ NothingNew(x)
    BY <1>1, SameNet DEF CallInv, vars
  <2>2. MadeKept(x) /\ CalleeKept(x)
    BY <1>1, <2>1, SameCallee DEF MadeKept, Made, vars, page, rtc, history
  <2> QED
    BY <2>1, <2>2, Carries
<1>2. CASE Next
  BY <1>2, StartCallCalls, CallerCapturedCalls, CaptureFailsCalls, SendFileCalls, CloseCalls,
     AcceptCalls, CalleeCapturedCalls, ReceivesCalls, DescriptionCalls, GatherCalls,
     HangupFileCalls, HangupAllCalls, LoseCalls
  DEF Next
<1> QED
  BY <1>1, <1>2

LEMMA InitCalls == ASSUME Init PROVE CallInv
<1> SUFFICES ASSUME NEW x \in Calls PROVE Good(x)
  BY DEF CallInv
<1>1. To[x] \in Devices /\ From[x] \in Devices
  BY Constants
<1>2. There(x) = <<>> /\ Back(x) = <<>>
  BY <1>1 DEF Init, There, Back
<1>3. ~ Names(There(x), x) /\ ~ Names(Back(x), x) /\ ~ InviteIn(There(x), x) /\ InviteFirst(There(x), x)
  BY <1>2 DEF Names, InviteIn, InviteFirst
<1>4. Idle(x) /\ x \notin pending[To[x]] /\ sess[To[x]][x] = "none"
  BY <1>1, Constants DEF Init, Idle, NoneAnywhere, NoMedia
<1>5. x \notin Made
  BY <1>1 DEF Init, Made
<1> QED
  BY <1>3, <1>4, <1>5 DEF Good, FreshInv, InviteInv, AcceptInv, MediaInv, Idle

-----------------------------------------------------------------------------
(* The theorems *)

LEMMA Stranding ==
  ASSUME TypeInv, RouteInv, NoCandidateStranded, [Next]_vars PROVE NoCandidateStranded'
<1>1. ASSUME iceQueue' = iceQueue, remote' = remote PROVE NoCandidateStranded'
  BY <1>1 DEF NoCandidateStranded
<1>2. ASSUME NEW d \in Devices, NEW cs, iceQueue' = [iceQueue EXCEPT ![d] = @ \ cs],
             remote' = [remote EXCEPT ![d] = @ \ cs]
      PROVE  NoCandidateStranded'
  BY <1>2 DEF NoCandidateStranded, TypeInv, SetTypes, CallSets
<1>3. ASSUME NEW d \in Devices, NEW c \in Calls, c \notin remote[d], remote' = remote,
             iceQueue' = Add(iceQueue, d, c)
      PROVE  NoCandidateStranded'
  BY <1>3 DEF NoCandidateStranded, TypeInv, SetTypes, CallSets, Add
<1>4. ASSUME NEW d \in Devices, NEW c \in Calls, remote' = Add(remote, d, c),
             iceQueue' = Remove(iceQueue, d, c)
      PROVE  NoCandidateStranded'
  BY <1>4 DEF NoCandidateStranded, TypeInv, SetTypes, CallSets, Add, Remove
<1>5. ASSUME NEW d \in Devices, NEW e \in Devices, Receive(e, d) PROVE NoCandidateStranded'
  <2>1. Head(net[e][d]).call \in Calls
    BY <1>5, TakenRoutes DEF Receive, Signals
  <2> QED
    BY <1>1, <1>2, <1>3, <1>5, <2>1
    DEF Receive, OnInvite, OnOffer, OnAnswer, OnIce, OnCallAccept, OnHangup, DropSessions, rtc
<1>6. ASSUME NEW d \in Devices, HangupAll(d) PROVE NoCandidateStranded'
  BY <1>2, <1>6 DEF HangupAll, DropSessions
<1>7. ASSUME NEW d \in Devices, NEW c \in Calls, RemoteDescriptionSet(d, c) PROVE NoCandidateStranded'
  BY <1>1, <1>4, <1>7 DEF RemoteDescriptionSet
<1>8. CASE Next
  BY <1>1, <1>5, <1>6, <1>7, <1>8
  DEF Next, StartCall, CallerCaptured, CallerCaptureFails, SendFileTo, CalleeCaptured,
      CalleeCaptureFails, HangupFile, CloseOverlay, Accept, Gather, Lose, rtc
<1>9. CASE UNCHANGED vars
  BY <1>1, <1>9 DEF vars, rtc
<1> QED
  BY <1>8, <1>9

LEMMA Inductive ==
  /\ Init => Inv /\ NoCandidateStranded
  /\ Inv /\ NoCandidateStranded /\ [Next]_vars => (Inv /\ NoCandidateStranded)'
<1>1. Init => Inv
  BY InitTypes, InitRoutes, InitCalls DEF Inv
<1>2. Init => NoCandidateStranded
  BY DEF Init, NoCandidateStranded, NoneAnywhere
<1>3. ASSUME Inv, NoCandidateStranded, [Next]_vars PROVE (Inv /\ NoCandidateStranded)'
  BY <1>3, TypeStep, RouteStep, CallStep, Stranding DEF Inv
<1> QED
  BY <1>1, <1>2, <1>3

(* The inductive invariant: what has its type, the way every signal goes,  *)
(* and how far a call has got at its callee, given what is still on its    *)
(* way to it.                                                              *)
THEOREM Invariance == Spec => [](Inv /\ NoCandidateStranded)
<1> QED
  BY Inductive, PTL DEF Spec

(* Every variable of the page, of its connections and of the net has its   *)
(* type; each list of call sets names calls there are.                     *)
THEOREM TypeCorrect == Spec => []TypeOK
<1>1. Inv => TypeOK
  BY DEF Inv, TypeInv, MediaTypes, SessTypes, SlotTypes, SetTypes, HistoryTypes, NetTypes, Nets,
         FaultTypes, TypeOK
<1> QED
  BY <1>1, Invariance, PTL

(* The queue of early candidates never strands one, however candidates,    *)
(* descriptions and hangups interleave (webrtc.ts:54).                     *)
THEOREM CandidatesNotStranded == Spec => []NoCandidateStranded
<1> QED
  BY Invariance, PTL

(* No order of invitation, offer, acceptance and hangup makes a device     *)
(* answer a call that rang and that its user did not accept.               *)
THEOREM AnsweredWithConsent == Spec => []AnsweredOnlyIfAccepted
<1>1. Inv => AnsweredOnlyIfAccepted
  BY DEF Inv, CallInv, Good, AcceptInv, AnsweredOnlyIfAccepted
<1> QED
  BY <1>1, Invariance, PTL

(* The answer of a voice call goes out after the callee's media is on the  *)
(* connection, in whatever order capture and offer come.                   *)
THEOREM AnswerHasMedia == Spec => []AnswerCarriesMedia
<1>1. Inv => AnswerCarriesMedia
  BY DEF Inv, CallInv, Good, MediaInv, AnswerCarriesMedia
<1> QED
  BY <1>1, Invariance, PTL

=============================================================================
