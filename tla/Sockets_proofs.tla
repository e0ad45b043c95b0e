--------------------------- MODULE Sockets_proofs ---------------------------
(***************************************************************************)
(* The two WebSocket parsers, for any clients and any bounds.  The hub of  *)
(* the native daemon: its tables and those of the daemon agree, an accept  *)
(* fills the last slot, and the hub with its connections implements        *)
(* FrameLink.  The development daemon: between callbacks exactly the       *)
(* requests that have come whole are handled.                              *)
(***************************************************************************)
EXTENDS WsHub, DevDaemon, SequenceTheorems, TLAPS

-----------------------------------------------------------------------------
(* Sequences *)

LEMMA Suffix ==
  ASSUME NEW S, NEW q \in Seq(S), NEW k \in 0..Len(q)
  PROVE  /\ SubSeq(q, k + 1, Len(q)) \in Seq(S)
         /\ Len(SubSeq(q, k + 1, Len(q))) = Len(q) - k
         /\ \A i \in 1..(Len(q) - k) : SubSeq(q, k + 1, Len(q))[i] = q[k + i]
OBVIOUS

LEMMA Prefix ==
  ASSUME NEW S, NEW q \in Seq(S), NEW k \in 0..Len(q)
  PROVE  /\ SubSeq(q, 1, k) \in Seq(S)
         /\ Len(SubSeq(q, 1, k)) = k
         /\ \A i \in 1..k : SubSeq(q, 1, k)[i] = q[i]
OBVIOUS

LEMMA Joined ==
  ASSUME NEW S, NEW q \in Seq(S), NEW w \in Seq(S)
  PROVE  /\ q \o w \in Seq(S)
         /\ Len(q \o w) = Len(q) + Len(w)
         /\ \A i \in 1..Len(q) : (q \o w)[i] = q[i]
         /\ \A i \in 1..Len(w) : (q \o w)[Len(q) + i] = w[i]
OBVIOUS

LEMMA Removed ==
  ASSUME NEW S, NEW q \in Seq(S), NEW k \in 1..Len(q)
  PROVE  /\ RemoveAt(q, k) \in Seq(S)
         /\ Len(RemoveAt(q, k)) = Len(q) - 1
         /\ \A i \in 1..(Len(q) - 1) : RemoveAt(q, k)[i] = IF i < k THEN q[i] ELSE q[i + 1]
<1> DEFINE f == SubSeq(q, 1, k - 1)
           r == SubSeq(q, k + 1, Len(q))
<1>1. f \in Seq(S) /\ Len(f) = k - 1 /\ \A i \in 1..(k - 1) : f[i] = q[i]
  BY k - 1 \in 0..Len(q), Prefix
<1>2. r \in Seq(S) /\ Len(r) = Len(q) - k /\ \A i \in 1..(Len(q) - k) : r[i] = q[k + i]
  BY k \in 0..Len(q), Suffix
<1>3. RemoveAt(q, k) = f \o r
  BY DEF RemoveAt
<1> HIDE DEF f, r
<1>4. /\ f \o r \in Seq(S) /\ Len(f \o r) = Len(f) + Len(r)
      /\ \A i \in 1..(Len(f) + Len(r)) :
           (f \o r)[i] = IF i <= Len(f) THEN f[i] ELSE r[i - Len(f)]
  BY <1>1, <1>2, ConcatProperties
<1>5. ASSUME NEW i \in 1..(Len(q) - 1)
      PROVE  (f \o r)[i] = IF i < k THEN q[i] ELSE q[i + 1]
  <2>1. (f \o r)[i] = IF i <= k - 1 THEN f[i] ELSE r[i - (k - 1)]
    BY <1>1, <1>2, <1>4
  <2>2. CASE i < k
    BY <2>1, <2>2, <1>1
  <2>3. CASE ~(i < k)
    <3>1. i - (k - 1) \in 1..(Len(q) - k) /\ k + (i - (k - 1)) = i + 1
      BY <2>3
    <3> QED
      BY <2>1, <2>3, <3>1, <1>2, r[i - (k - 1)] = q[k + (i - (k - 1))]
  <2> QED
    BY <2>2, <2>3
<1> QED
  BY <1>1, <1>2, <1>3, <1>4, <1>5

(* A sequence is the two parts it is cut into. *)
LEMMA InTwo ==
  ASSUME NEW S, NEW w \in Seq(S), NEW k \in 0..Len(w)
  PROVE  SubSeq(w, 1, k) \o SubSeq(w, k + 1, Len(w)) = w
<1> DEFINE n == Len(w)
           one == 1
<1>1. one \in 1..(n + 1) /\ k \in (one - 1)..n /\ n \in k..n
  OBVIOUS
<1>2. SubSeq(w, one, k) \o SubSeq(w, k + 1, n) = SubSeq(w, one, n)
  <2> HIDE DEF n, one
  <2> QED
    BY <1>1, ConcatAdjacentSubSeq, n = Len(w) DEF n
<1>3. SubSeq(w, 1, Len(w)) = w
  BY SubSeqFull
<1> QED
  BY <1>2, <1>3

(* A sequence that is read in two parts is the same behind the first.      *)
LEMMA Moved ==
  ASSUME NEW S, NEW q \in Seq(S), NEW w \in Seq(S), NEW k \in 0..Len(w)
  PROVE  (q \o SubSeq(w, 1, k)) \o SubSeq(w, k + 1, Len(w)) = q \o w
<1> DEFINE f == SubSeq(w, 1, k)
           r == SubSeq(w, k + 1, Len(w))
<1>1. f \in Seq(S) /\ r \in Seq(S)
  BY Prefix, Suffix
<1>2. f \o r = w
  BY InTwo
<1> HIDE DEF f, r
<1>3. (q \o f) \o r = q \o (f \o r)
  BY <1>1, ConcatAssociative, SMTT(30)
<1> QED
  BY <1>2, <1>3 DEF f, r

(* Without its first part a sequence is the second one.                    *)
LEMMA Behind ==
  ASSUME NEW S, NEW f \in Seq(S), NEW r \in Seq(S)
  PROVE  SubSeq(f \o r, Len(f) + 1, Len(f \o r)) = r
<1> DEFINE s == f \o r
           t == SubSeq(s, Len(f) + 1, Len(s))
<1>1. /\ s \in Seq(S) /\ Len(s) = Len(f) + Len(r)
      /\ \A i \in 1..Len(r) : s[Len(f) + i] = r[i]
  BY Joined
<1> HIDE DEF s
<1>2. /\ t \in Seq(S) /\ Len(t) = Len(s) - Len(f)
      /\ \A i \in 1..(Len(s) - Len(f)) : t[i] = s[Len(f) + i]
  BY <1>1, Len(f) \in 0..Len(s), Suffix
<1> HIDE DEF t
<1>3. t = r
  BY <1>1, <1>2, SeqEqual
<1> QED
  BY <1>3 DEF s, t

(* What is taken from the front of the first part is taken from the whole. *)
LEMMA Taken ==
  ASSUME NEW S, NEW q \in Seq(S), NEW w \in Seq(S), NEW k \in 0..Len(q)
  PROVE  SubSeq(q, k + 1, Len(q)) \o w = SubSeq(q \o w, k + 1, Len(q \o w))
<1> DEFINE f == SubSeq(q, 1, k)
           r == SubSeq(q, k + 1, Len(q))
<1>1. f \in Seq(S) /\ Len(f) = k /\ r \in Seq(S)
  BY Prefix, Suffix
<1>2. f \o r = q
  BY InTwo
<1> HIDE DEF f, r
<1>3. (f \o r) \o w = f \o (r \o w)
  BY <1>1, ConcatAssociative, SMTT(30)
<1>4. r \o w \in Seq(S)
  BY <1>1, ConcatProperties
<1>5. SubSeq(f \o (r \o w), Len(f) + 1, Len(f \o (r \o w))) = r \o w
  BY <1>1, <1>4, Behind
<1> QED
  BY <1>1, <1>2, <1>3, <1>5 DEF r

-----------------------------------------------------------------------------
(* What holds whether or not writes are cut off.                           *)

AnyUnit == RequestUnit \cup FrameUnit

BaseType ==
  /\ sent \in [Conns -> Seq(Frames)] /\ outq \in [Conns -> Seq(Nat)]
  /\ wire \in [Conns -> Seq(AnyUnit)] /\ ended \in [Conns -> BOOLEAN]
  /\ torn \subseteq Conns
  /\ stage \in [Conns ->
       {"none", "backlog", "reading", "writing", "open", "dead", "gone"}]
  /\ pending \in Seq(Conns \cup {None})
  /\ buf \in [Conns -> Seq(AnyUnit)]
  /\ parsing \in Conns \cup {None}
  /\ clients \subseteq Conns /\ ports \subseteq Conns
  /\ got \in [Conns -> Seq(FrameUnit)] /\ answered \in [Conns -> Nat]

(* What was written and not parsed, and the number of the last frame that  *)
(* left the write queue, -1 before the request has.                        *)
Stream(c) == buf[c] \o wire[c]
Written(c) == Len(sent[c]) - Len(outq[c])

(* The write queue holds the frames behind the one written last, and a     *)
(* close frame is the last that is sent.                                   *)
QueueInv(c) ==
  /\ \A n \in 1..Len(sent[c]) : sent[c][n] = "close" => n = Len(sent[c])
  /\ ended[c] => outq[c] = <<>>
  /\ stage[c] = "none" => /\ sent[c] = <<>> /\ outq[c] = <<>> /\ ~ended[c]
                          /\ buf[c] = <<>> /\ wire[c] = <<>> /\ got[c] = <<>>
  /\ \A i \in 1..Len(outq[c]) : outq[c][i] = Written(c) + i

(* The request comes before all frames, and the hub reads it first.        *)
Early == {"backlog", "reading", "gone"}
RequestInv(c) ==
  /\ \A i \in 1..Len(Stream(c)) :
       /\ Stream(c)[i].part = "request" => i = 1 /\ stage[c] \in Early
       /\ Stream(c)[i].part = "blank" => i = 2 /\ stage[c] \in Early
       /\ Stream(c)[i].of <= Len(sent[c])
  /\ \A j \in 1..Len(outq[c]) :
       outq[c][j] = 0 => Stream(c) = <<>> /\ stage[c] \in {"backlog", "reading"}

(* A callback is that of an open connection or of one that is being set up; *)
(* the daemon may know of its client before the hub does.                  *)
TablesInv ==
  /\ clients = {c \in Conns : stage[c] \in {"open", "dead"}}
  /\ Idle => ports = clients
  /\ ~Idle => /\ stage[parsing] \in {"writing", "open"}
              /\ clients \subseteq ports /\ ports \subseteq clients \cup {parsing}

(* While no write is cut off, units come one behind the other.             *)
After(c, u) ==
  CASE u.part = "request" -> Unit(0, "blank")
    [] u.part = "b0" -> Unit(u.of, "b1")
    [] u.part = "b1" -> Unit(u.of, IF sent[c][u.of] = "long" THEN "len" ELSE "mask")
    [] u.part = "len" -> Unit(u.of, "mask")
    [] u.part = "mask" -> Unit(u.of, "payload")
    [] u.part \in {"blank", "payload"} -> Unit(u.of + 1, "b0")

Opening == {"backlog", "reading"}
Live == Opening \cup {"writing", "open"}
LastOf(n) == Unit(n, IF n = 0 THEN "blank" ELSE "payload")

(* The stream begins with the request or with the frame that is handed on next ... *)
Begins(c) ==
  Stream(c) # <<>> =>
    Stream(c)[1] = IF stage[c] \in Opening THEN Unit(0, "request") ELSE Unit(Len(got[c]) + 1, "b0")
(* ... goes on without a gap ... *)
GoesOn(c) == \A i \in 1..(Len(Stream(c)) - 1) : Stream(c)[i + 1] = After(c, Stream(c)[i])
(* ... and ends with the one written last; *)
Ends(c) ==
  ~ended[c] =>
    IF Stream(c) # <<>> THEN Stream(c)[Len(Stream(c))] = LastOf(Written(c))
    ELSE IF stage[c] \in Opening THEN Written(c) = -1
    ELSE \/ Written(c) = Len(got[c])
         \/ Written(c) = Len(got[c]) + 1 /\ sent[c][Written(c)] = "close"
(* so every message that is written and not handed on is in it. *)
Holds(c) ==
  ~ended[c] =>
    \A n \in (Len(got[c]) + 1)..Written(c) :
      sent[c][n] \in Text => \E i \in 1..Len(Stream(c)) : Stream(c)[i] = Unit(n, "payload")

FramesInv(c) ==
  /\ \A i \in 1..Len(got[c]) : got[c][i] = Unit(i, "payload")
  /\ Len(got[c]) <= Len(sent[c])
  /\ stage[c] \in Opening => got[c] = <<>>
  /\ stage[c] \in Live => Begins(c) /\ GoesOn(c) /\ Ends(c) /\ Holds(c)
  /\ parsing # c /\ stage[c] = "open" => PayloadAt(c) = 0

WholeInv == \A c \in Conns \ torn : FramesInv(c)

StreamsInv == \A c \in Conns : QueueInv(c) /\ RequestInv(c)

Inv == BaseType /\ TablesInv /\ AcceptFillsLast /\ StreamsInv

(* All steps. *)
Steps(c) ==
  \/ Dial(c)
  \/ \E f \in Frames : SendText(c, f)
  \/ \E k \in 1..5 : OnWrite(c, k)
  \/ \E w \in {wire[c], <<>>} : ClientEnds(c, w)
  \/ OnAccept(c)
  \/ \E n \in 1..Len(wire[c]) : OnHandshakeRead(c, n)
  \/ HandshakeFails(c)
  \/ OnHandshakeWritten(c)
  \/ ParseFrame(c)
  \/ Entered(c)
  \/ \E n \in 1..Len(wire[c]) : OnRead(c, n)
  \/ Waits(c)
  \/ OnClientClosed(c)

LEMMA NextSteps == Next => \E c \in Conns : Steps(c)
BY DEF Next, Client, Hub, Steps

(* A step of one client leaves the others as they are. *)
Kept(d) ==
  /\ sent'[d] = sent[d] /\ outq'[d] = outq[d] /\ wire'[d] = wire[d]
  /\ ended'[d] = ended[d] /\ stage'[d] = stage[d] /\ buf'[d] = buf[d]
  /\ got'[d] = got[d] /\ answered'[d] = answered[d]

LEMMA OthersKept ==
  ASSUME BaseType, NEW c \in Conns, Steps(c), NEW d \in Conns, d # c
  PROVE  Kept(d)
<1>1. CASE Dial(c)
  BY <1>1 DEF Dial, Kept, BaseType, tables
<1>2. CASE \E f \in Frames : SendText(c, f)
  BY <1>2 DEF SendText, Kept, BaseType, tables
<1>3. CASE \E k \in 1..5 : OnWrite(c, k)
  BY <1>3 DEF OnWrite, Kept, BaseType, tables
<1>4. CASE \E w \in {wire[c], <<>>} : ClientEnds(c, w)
  BY <1>4 DEF ClientEnds, Kept, BaseType, tables
<1>5. CASE OnAccept(c)
  BY <1>5 DEF OnAccept, Kept, BaseType, tables, client
<1>6. CASE \E n \in 1..Len(wire[c]) : OnHandshakeRead(c, n)
  BY <1>6 DEF OnHandshakeRead, Reads, Kept, BaseType, tables
<1>7. CASE HandshakeFails(c)
  BY <1>7 DEF HandshakeFails, Kept, BaseType, tables, client
<1>8. CASE OnHandshakeWritten(c)
  BY <1>8 DEF OnHandshakeWritten, Kept, BaseType, tables, client
<1>9. CASE ParseFrame(c)
  BY <1>9 DEF ParseFrame, Emit, Kept, BaseType, client
<1>10. CASE Entered(c)
  BY <1>10 DEF Entered, Kept, BaseType, client
<1>11. CASE \E n \in 1..Len(wire[c]) : OnRead(c, n)
  BY <1>11 DEF OnRead, Reads, Kept, BaseType, tables
<1>12. CASE Waits(c)
  BY <1>12 DEF Waits, Kept, BaseType, tables, client
<1>13. CASE OnClientClosed(c)
  BY <1>13 DEF OnClientClosed, Kept, BaseType, client
<1> QED
  BY <1>1, <1>2, <1>3, <1>4, <1>5, <1>6, <1>7, <1>8, <1>9, <1>10, <1>11, <1>12, <1>13 DEF Steps

LEMMA PartTypes ==
  /\ \A p \in {"b0", "b1", "len", "mask", "payload"} :
       \A n \in Nat \ {0} : Unit(n, p) \in AnyUnit
  /\ Unit(0, "request") \in AnyUnit /\ Unit(0, "blank") \in AnyUnit
  /\ \A u \in AnyUnit : /\ u.of \in Nat
                        /\ u.part \notin {"request", "blank"} => u \in FrameUnit /\ u.of # 0
                        /\ u.part \in {"request", "blank"} => u.of = 0
BY DEF AnyUnit, RequestUnit, FrameUnit, Unit

LEMMA Pair ==
  ASSUME NEW S, NEW a \in S, NEW b \in S
  PROVE  <<a, b>> \in Seq(S) /\ Len(<<a, b>>) = 2 /\ <<a, b>>[1] = a /\ <<a, b>>[2] = b
OBVIOUS

(* The units of a frame, one by one. *)
LEMMA UnitsOfRequest ==
  ASSUME NEW c \in Conns
  PROVE  /\ Units(c, 0) \in Seq(AnyUnit) /\ Len(Units(c, 0)) = 2
         /\ Units(c, 0)[1] = Unit(0, "request") /\ Units(c, 0)[2] = Unit(0, "blank")
<1>1. PartsOf(c, 0) = <<"request", "blank">>
  BY DEF PartsOf
<1>2. Units(c, 0) = [i \in 1..2 |-> Unit(0, <<"request", "blank">>[i])]
  BY <1>1 DEF Units
<1>3. Units(c, 0) = <<Unit(0, "request"), Unit(0, "blank")>>
  BY <1>2
<1>4. Unit(0, "request") \in AnyUnit /\ Unit(0, "blank") \in AnyUnit
  BY PartTypes
<1>5. /\ <<Unit(0, "request"), Unit(0, "blank")>> \in Seq(AnyUnit)
      /\ Len(<<Unit(0, "request"), Unit(0, "blank")>>) = 2
      /\ <<Unit(0, "request"), Unit(0, "blank")>>[1] = Unit(0, "request")
      /\ <<Unit(0, "request"), Unit(0, "blank")>>[2] = Unit(0, "blank")
  BY <1>4, Pair
<1> QED
  BY <1>3, <1>5

LEMMA UnitsOfLong ==
  ASSUME NEW c \in Conns, NEW n \in Nat \ {0}, sent[c][n] = "long"
  PROVE  /\ Units(c, n) \in Seq(AnyUnit) /\ Len(Units(c, n)) = 5
         /\ Units(c, n)[1] = Unit(n, "b0") /\ Units(c, n)[2] = Unit(n, "b1")
         /\ Units(c, n)[3] = Unit(n, "len") /\ Units(c, n)[4] = Unit(n, "mask")
         /\ Units(c, n)[5] = Unit(n, "payload")
<1>1. PartsOf(c, n) = <<"b0", "b1", "len", "mask", "payload">>
  BY DEF PartsOf, Parts
<1>2. Units(c, n) = [i \in 1..5 |-> Unit(n, <<"b0", "b1", "len", "mask", "payload">>[i])]
  BY <1>1 DEF Units
<1> QED
  BY <1>2, PartTypes

LEMMA UnitsOfShort ==
  ASSUME NEW c \in Conns, NEW n \in Nat \ {0}, sent[c][n] # "long"
  PROVE  /\ Units(c, n) \in Seq(AnyUnit) /\ Len(Units(c, n)) = 4
         /\ Units(c, n)[1] = Unit(n, "b0") /\ Units(c, n)[2] = Unit(n, "b1")
         /\ Units(c, n)[3] = Unit(n, "mask") /\ Units(c, n)[4] = Unit(n, "payload")
<1>1. PartsOf(c, n) = <<"b0", "b1", "mask", "payload">>
  BY DEF PartsOf, Parts
<1>2. Units(c, n) = [i \in 1..4 |-> Unit(n, <<"b0", "b1", "mask", "payload">>[i])]
  BY <1>1 DEF Units
<1> QED
  BY <1>2, PartTypes

LEMMA UnitsType ==
  ASSUME NEW c \in Conns, NEW n \in Nat
  PROVE  /\ Units(c, n) \in Seq(AnyUnit)
         /\ Len(Units(c, n)) = IF n = 0 THEN 2 ELSE IF sent[c][n] = "long" THEN 5 ELSE 4
         /\ \A i \in 1..Len(Units(c, n)) :
              /\ Units(c, n)[i].of = n
              /\ n # 0 => Units(c, n)[i].part \notin {"request", "blank"}
<1>1. CASE n = 0
  <2>1. \A i \in 1..2 : Units(c, 0)[i].of = 0
    BY UnitsOfRequest DEF Unit
  <2> QED
    BY <1>1, <2>1, UnitsOfRequest
<1>2. CASE n # 0 /\ sent[c][n] = "long"
  <2>1. \A i \in 1..5 : /\ Units(c, n)[i].of = n
                        /\ Units(c, n)[i].part \notin {"request", "blank"}
    <3> SUFFICES ASSUME NEW i \in 1..5
                 PROVE  /\ Units(c, n)[i].of = n
                        /\ Units(c, n)[i].part \notin {"request", "blank"}
      OBVIOUS
    <3>1. \E p \in {"b0", "b1", "len", "mask", "payload"} : Units(c, n)[i] = Unit(n, p)
      BY <1>2, UnitsOfLong
    <3> QED
      BY <3>1 DEF Unit
  <2> QED
    BY <1>2, <2>1, UnitsOfLong
<1>3. CASE n # 0 /\ sent[c][n] # "long"
  <2>1. \A i \in 1..4 : /\ Units(c, n)[i].of = n
                        /\ Units(c, n)[i].part \notin {"request", "blank"}
    <3> SUFFICES ASSUME NEW i \in 1..4
                 PROVE  /\ Units(c, n)[i].of = n
                        /\ Units(c, n)[i].part \notin {"request", "blank"}
      OBVIOUS
    <3>1. \E p \in {"b0", "b1", "len", "mask", "payload"} : Units(c, n)[i] = Unit(n, p)
      BY <1>3, UnitsOfShort
    <3> QED
      BY <3>1 DEF Unit
  <2> QED
    BY <1>3, <2>1, UnitsOfShort
<1> QED
  BY <1>1, <1>2, <1>3

(* The frame in front of the read queue: its payload is the unit at the    *)
(* place, and it is no more than is there.                                 *)
LEMMA PayloadPlace ==
  ASSUME BaseType, NEW c \in Conns
  PROVE  /\ PayloadAt(c) \in Nat /\ PayloadAt(c) <= Len(buf[c])
         /\ PayloadAt(c) # 0 => Len(buf[c]) >= 2 /\ PayloadAt(c) \in {4, 5}
         /\ PayloadAt(c) # 0 => PayloadAt(c) = IF sent[c][buf[c][2].of] = "long" THEN 5 ELSE 4
         /\ Len(buf[c]) >= 5 => PayloadAt(c) # 0
         /\ Len(buf[c]) >= 4 /\ sent[c][buf[c][2].of] # "long" => PayloadAt(c) # 0
<1> DEFINE n == Len(Parts(sent[c][buf[c][2].of]))
<1>1. n = IF sent[c][buf[c][2].of] = "long" THEN 5 ELSE 4
  BY DEF Parts
<1>2. Len(buf[c]) \in Nat
  BY DEF BaseType
<1>3. PayloadAt(c) = IF Len(buf[c]) < 2 THEN 0 ELSE IF Len(buf[c]) < n THEN 0 ELSE n
  BY DEF PayloadAt
<1> HIDE DEF n
<1> QED
  BY <1>1, <1>2, <1>3

-----------------------------------------------------------------------------
(* Types *)

LEMMA StreamType ==
  ASSUME BaseType, NEW c \in Conns
  PROVE  /\ buf[c] \in Seq(AnyUnit) /\ wire[c] \in Seq(AnyUnit)
         /\ Stream(c) \in Seq(AnyUnit)
         /\ Len(Stream(c)) = Len(buf[c]) + Len(wire[c])
         /\ \A i \in 1..Len(buf[c]) : Stream(c)[i] = buf[c][i]
         /\ \A i \in 1..Len(wire[c]) : Stream(c)[Len(buf[c]) + i] = wire[c][i]
<1>1. buf[c] \in Seq(AnyUnit) /\ wire[c] \in Seq(AnyUnit)
  BY DEF BaseType
<1> DEFINE q == buf[c]
           w == wire[c]
<1>2. q \in Seq(AnyUnit) /\ w \in Seq(AnyUnit) /\ Stream(c) = q \o w
  BY <1>1 DEF Stream
<1> HIDE DEF q, w
<1>3. /\ q \o w \in Seq(AnyUnit) /\ Len(q \o w) = Len(q) + Len(w)
      /\ \A i \in 1..Len(q) : (q \o w)[i] = q[i]
      /\ \A i \in 1..Len(w) : (q \o w)[Len(q) + i] = w[i]
  BY <1>2, Joined
<1> QED
  BY <1>2, <1>3 DEF q, w

LEMMA FrontOfStream ==
  ASSUME BaseType, NEW c \in Conns
  PROVE  Len(buf[c]) \in 0..Len(Stream(c)) /\ Len(Stream(c)) \in Nat
<1> DEFINE a == Len(buf[c])
           b == Len(wire[c])
<1>1. a \in Nat /\ b \in Nat
  BY DEF BaseType
<1>2. Len(Stream(c)) = a + b
  BY StreamType
<1> HIDE DEF a, b
<1>3. a \in 0..(a + b) /\ a + b \in Nat
  BY <1>1
<1> QED
  BY <1>2, <1>3 DEF a

(* What is read goes from the wire to what is behind it. *)
LEMMA ReadsMove ==
  ASSUME BaseType, NEW c \in Conns, NEW n \in 1..Len(wire[c]), Reads(c, n)
  PROVE  /\ wire' \in [Conns -> Seq(AnyUnit)]
         /\ buf[c] \o SubSeq(wire[c], 1, n) \in Seq(AnyUnit)
         /\ (buf[c] \o SubSeq(wire[c], 1, n)) \o wire'[c] = Stream(c)
         /\ sent' = sent /\ outq' = outq /\ ended' = ended /\ torn' = torn
<1>1. buf[c] \in Seq(AnyUnit) /\ wire[c] \in Seq(AnyUnit) /\ n \in 0..Len(wire[c])
  BY DEF BaseType
<1>2. SubSeq(wire[c], n + 1, Len(wire[c])) \in Seq(AnyUnit) /\ SubSeq(wire[c], 1, n) \in Seq(AnyUnit)
  BY <1>1, Suffix, Prefix
<1>3. wire' = [wire EXCEPT ![c] = SubSeq(wire[c], n + 1, Len(wire[c]))]
  BY DEF Reads
<1>4. wire \in [Conns -> Seq(AnyUnit)]
  BY DEF BaseType
<1>5. wire' \in [Conns -> Seq(AnyUnit)] /\ wire'[c] = SubSeq(wire[c], n + 1, Len(wire[c]))
  BY <1>2, <1>3, <1>4
<1>6. (buf[c] \o SubSeq(wire[c], 1, n)) \o SubSeq(wire[c], n + 1, Len(wire[c])) = buf[c] \o wire[c]
  BY <1>1, Moved
<1>7. buf[c] \o SubSeq(wire[c], 1, n) \in Seq(AnyUnit)
  BY <1>1, <1>2, Joined
<1> QED
  BY <1>5, <1>6, <1>7 DEF Reads, Stream

(* What is taken out of the buffer is the front of the stream.             *)
LEMMA BufferTaken ==
  ASSUME BaseType, NEW c \in Conns, NEW q \in Seq(AnyUnit), NEW k \in 0..Len(q)
  PROVE  SubSeq(q, k + 1, Len(q)) \in Seq(AnyUnit)
BY Suffix

LEMMA DropType ==
  ASSUME BaseType, NEW c \in Conns, DropPending(c)
  PROVE  pending' \in Seq(Conns \cup {None})
<1>1. PICK i \in DOMAIN pending : pending' = RemoveAt(pending, i)
  BY DEF DropPending
<1>2. pending \in Seq(Conns \cup {None}) /\ i \in 1..Len(pending)
  BY <1>1 DEF BaseType
<1> QED
  BY <1>1, <1>2, Removed

(* The unit that is emitted belongs to a frame. *)
LEMMA TypesKept ==
  ASSUME BaseType, StreamsInv, TablesInv, AcceptFillsLast, NEW c \in Conns, Steps(c)
  PROVE  BaseType'
<1> USE DEF BaseType
<1>1. CASE Dial(c)
  BY <1>1 DEF Dial, tables
<1>2. ASSUME NEW f \in Frames, SendText(c, f)
      PROVE  BaseType'
  <2>1. Append(sent[c], f) \in Seq(Frames) /\ Append(outq[c], Len(sent[c]) + 1) \in Seq(Nat)
    OBVIOUS
  <2> QED
    BY <1>2, <2>1 DEF SendText, tables
<1>3. ASSUME NEW k \in 1..5, OnWrite(c, k)
      PROVE  BaseType'
  <2> DEFINE u == Units(c, Head(outq[c]))
  <2>1. /\ outq[c] # <<>> /\ k \in 1..Len(u) /\ wire' = [wire EXCEPT ![c] = wire[c] \o SubSeq(u, 1, k)]
        /\ outq' = [outq EXCEPT ![c] = Tail(outq[c])]
        /\ torn' \subseteq Conns
        /\ UNCHANGED <<sent, ended, stage, pending, buf, parsing, tables, got, answered>>
    BY <1>3 DEF OnWrite
  <2>2. Head(outq[c]) \in Nat /\ Tail(outq[c]) \in Seq(Nat)
    BY <2>1
  <2>3. u \in Seq(AnyUnit)
    BY <2>2, UnitsType
  <2> HIDE DEF u
  <2>4. SubSeq(u, 1, k) \in Seq(AnyUnit)
    BY <2>1, <2>3, Prefix
  <2>5. wire[c] \o SubSeq(u, 1, k) \in Seq(AnyUnit)
    BY <2>4, Joined
  <2> QED
    BY <2>1, <2>2, <2>5 DEF tables
<1>4. ASSUME NEW w \in {wire[c], <<>>}, ClientEnds(c, w)
      PROVE  BaseType'
  <2>1. w \in Seq(AnyUnit) /\ <<>> \in Seq(Nat)
    BY EmptySeq
  <2>2. wire' \in [Conns -> Seq(AnyUnit)] /\ outq' \in [Conns -> Seq(Nat)] /\ ended' \in [Conns -> BOOLEAN]
    BY <1>4, <2>1 DEF ClientEnds
  <2> QED
    BY <1>4, <2>2 DEF ClientEnds, tables
<1>5. CASE OnAccept(c)
  <2>1. pending' = Append([pending EXCEPT ![Len(pending)] = c], None)
    BY <1>5 DEF OnAccept
  <2>2. [pending EXCEPT ![Len(pending)] = c] \in Seq(Conns \cup {None})
    <3>1. Len(pending) \in 1..Len(pending)
      BY DEF AcceptFillsLast
    <3> QED
      BY <3>1, ExceptSeq
  <2>3. pending' \in Seq(Conns \cup {None})
    BY <2>1, <2>2
  <2> QED
    BY <1>5, <2>3 DEF OnAccept, tables, client
<1>6. ASSUME NEW n \in 1..Len(wire[c]), OnHandshakeRead(c, n)
      PROVE  BaseType'
  <2> DEFINE q == buf[c] \o SubSeq(wire[c], 1, n)
  <2>1. Reads(c, n) /\ UNCHANGED <<pending, parsing, tables, got, answered>>
    BY <1>6 DEF OnHandshakeRead
  <2>2. wire' \in [Conns -> Seq(AnyUnit)] /\ q \in Seq(AnyUnit) /\ sent' = sent /\ outq' = outq
        /\ ended' = ended /\ torn' = torn
    BY <2>1, ReadsMove
  <2>3. CASE Blank(q) = {}
    BY <1>6, <2>1, <2>2, <2>3 DEF OnHandshakeRead, tables
  <2>4. CASE Blank(q) # {}
    <3>1. PICK i \in Blank(q) : buf' = [buf EXCEPT ![c] = SubSeq(q, i + 1, Len(q))]
      BY <1>6, <2>4 DEF OnHandshakeRead
    <3>2. stage' = [stage EXCEPT ![c] = "writing"]
      BY <1>6, <2>4 DEF OnHandshakeRead
    <3> HIDE DEF q
    <3>3. i \in 0..Len(q)
      BY <2>2 DEF Blank
    <3>4. SubSeq(q, i + 1, Len(q)) \in Seq(AnyUnit)
      BY <2>2, <3>3, BufferTaken
    <3> QED
      BY <2>1, <2>2, <3>1, <3>2, <3>4 DEF tables
  <2> QED
    BY <2>3, <2>4
<1>7. CASE HandshakeFails(c)
  BY <1>7, DropType DEF HandshakeFails, tables, client
<1>8. CASE OnHandshakeWritten(c)
  BY <1>8 DEF OnHandshakeWritten, tables, client
<1>9. CASE ParseFrame(c)
  <2>1. parsing = c /\ parsing' = parsing /\ UNCHANGED <<client, stage, pending, clients>>
    BY <1>9 DEF ParseFrame
  <2>2. ASSUME NEW k \in 0..Len(buf[c])
        PROVE  SubSeq(buf[c], k + 1, Len(buf[c])) \in Seq(AnyUnit)
    BY BufferTaken
  <2>3. CASE /\ InStep(buf[c]) /\ PayloadAt(c) # 0
             /\ buf' = [buf EXCEPT ![c] = SubSeq(buf[c], PayloadAt(c) + 1, Len(buf[c]))]
             /\ Emit(c, buf[c][PayloadAt(c)])
    <3>1. PayloadAt(c) \in 4..Len(buf[c])
      <4>1. Len(buf[c]) \in Nat
        OBVIOUS
      <4>2. PayloadAt(c) <= Len(buf[c]) /\ PayloadAt(c) \in {4, 5}
        BY <2>3, PayloadPlace
      <4> HIDE DEF BaseType
      <4> QED
        BY <4>1, <4>2
    <3>2. buf[c][PayloadAt(c)] \in FrameUnit
      <4>1. buf[c][PayloadAt(c)] \in AnyUnit
        BY <3>1
      <4>2. RequestInv(c)
        BY DEF StreamsInv
      <4>3. PayloadAt(c) \in 1..Len(Stream(c)) /\ Stream(c)[PayloadAt(c)] = buf[c][PayloadAt(c)]
        <5>1. Len(buf[c]) \in Nat /\ Len(wire[c]) \in Nat
          OBVIOUS
        <5>2. PayloadAt(c) \in 1..Len(buf[c])
          BY <3>1, <5>1
        <5>3. Len(Stream(c)) = Len(buf[c]) + Len(wire[c]) /\ Stream(c)[PayloadAt(c)] = buf[c][PayloadAt(c)]
          BY <5>2, StreamType
        <5> QED
          BY <5>1, <5>2, <5>3
      <4>4. stage[c] \in {"writing", "open"}
        BY <2>1, HubAssumption DEF TablesInv, Idle
      <4>5. buf[c][PayloadAt(c)].part \notin {"request", "blank"}
        BY <4>2, <4>3, <4>4 DEF RequestInv, Early
      <4> QED
        BY <4>1, <4>5, PartTypes
    <3>3. SubSeq(buf[c], PayloadAt(c) + 1, Len(buf[c])) \in Seq(AnyUnit)
      BY <3>1, <2>2
    <3>4. buf' \in [Conns -> Seq(AnyUnit)]
      BY <2>3, <3>3
    <3>5. got' \in [Conns -> Seq(FrameUnit)] /\ answered' \in [Conns -> Nat] /\ ports' \subseteq Conns
      <4> DEFINE u == buf[c][PayloadAt(c)]
      <4>1. /\ got' = [got EXCEPT ![c] = Append(got[c], u)] /\ ports' = ports \cup {c}
            /\ answered' = answered \/ answered' = [answered EXCEPT ![c] = answered[c] + 1]
        BY <2>3 DEF Emit
      <4>2. Append(got[c], u) \in Seq(FrameUnit)
        BY <3>2
      <4> HIDE DEF u
      <4>3. got' \in [Conns -> Seq(FrameUnit)]
        BY <4>1, <4>2
      <4>4. answered[c] + 1 \in Nat /\ answered \in [Conns -> Nat]
        OBVIOUS
      <4>6. answered' \in [Conns -> Nat]
        BY <4>1, <4>4
      <4>5. ports' \subseteq Conns
        BY <4>1
      <4> QED
        BY <4>3, <4>5, <4>6
    <3> QED
      BY <2>1, <3>4, <3>5 DEF client
  <2>4. CASE /\ InStep(buf[c]) /\ PayloadAt(c) # 0
             /\ buf' = [buf EXCEPT ![c] = SubSeq(buf[c], PayloadAt(c) + 1, Len(buf[c]))]
             /\ UNCHANGED <<got, ports, answered>>
    <3>1. PayloadAt(c) \in 0..Len(buf[c])
      BY PayloadPlace
    <3>2. SubSeq(buf[c], PayloadAt(c) + 1, Len(buf[c])) \in Seq(AnyUnit)
      BY <3>1, <2>2
    <3> QED
      BY <2>1, <2>4, <3>2 DEF client
  <2>5. CASE /\ \E n \in 1..Len(buf[c]) : buf' = [buf EXCEPT ![c] = SubSeq(buf[c], n + 1, Len(buf[c]))]
             /\ UNCHANGED <<got, ports, answered>>
    <3>1. PICK n \in 1..Len(buf[c]) : buf' = [buf EXCEPT ![c] = SubSeq(buf[c], n + 1, Len(buf[c]))]
      BY <2>5
    <3>2. SubSeq(buf[c], n + 1, Len(buf[c])) \in Seq(AnyUnit)
      BY n \in 0..Len(buf[c]), <2>2
    <3> QED
      BY <2>1, <2>5, <3>1, <3>2 DEF client
  <2> QED
    BY <1>9, <2>3, <2>4, <2>5 DEF ParseFrame
<1>10. CASE Entered(c)
  BY <1>10, DropType DEF Entered, client
<1>11. ASSUME NEW n \in 1..Len(wire[c]), OnRead(c, n)
       PROVE  BaseType'
  BY <1>11, ReadsMove DEF OnRead, tables
<1>12. CASE Waits(c)
  BY <1>12 DEF Waits, tables, client
<1>13. CASE OnClientClosed(c)
  BY <1>13 DEF OnClientClosed, client
<1> QED
  BY <1>1, <1>2, <1>3, <1>4, <1>5, <1>6, <1>7, <1>8, <1>9, <1>10, <1>11, <1>12, <1>13 DEF Steps

(* What a step does to the stream of its client.                           *)
LEMMA HandshakeStream ==
  ASSUME BaseType, NEW c \in Conns, NEW n \in 1..Len(wire[c]), OnHandshakeRead(c, n)
  PROVE  \/ Stream(c)' = Stream(c) /\ UNCHANGED stage
         \/ /\ stage' = [stage EXCEPT ![c] = "writing"]
            /\ \E i \in 1..Len(Stream(c)) :
                 /\ Stream(c)[i].part = "blank"
                 /\ Stream(c)' = SubSeq(Stream(c), i + 1, Len(Stream(c)))
<1> DEFINE q == buf[c] \o SubSeq(wire[c], 1, n)
           w == wire'[c]
<1>1. Reads(c, n)
  BY DEF OnHandshakeRead
<1>2. q \in Seq(AnyUnit) /\ q \o w = Stream(c)
  BY <1>1, ReadsMove
<1>3. w \in Seq(AnyUnit)
  BY <1>1, ReadsMove
<1>4. \A b : buf' = [buf EXCEPT ![c] = b] => Stream(c)' = b \o w
  BY DEF Stream, BaseType
<1>5. CASE Blank(q) = {}
  <2>1. buf' = [buf EXCEPT ![c] = q] /\ UNCHANGED stage
    BY <1>5 DEF OnHandshakeRead
  <2> HIDE DEF q, w
  <2> QED
    BY <2>1, <1>2, <1>4
<1>6. CASE Blank(q) # {}
  <2>1. PICK i \in Blank(q) : buf' = [buf EXCEPT ![c] = SubSeq(q, i + 1, Len(q))]
    BY <1>6 DEF OnHandshakeRead
  <2>2. stage' = [stage EXCEPT ![c] = "writing"]
    BY <1>6 DEF OnHandshakeRead
  <2> HIDE DEF q, w
  <2>3. i \in 1..Len(q) /\ q[i].part = "blank"
    BY <1>2 DEF Blank
  <2>4. Len(q \o w) = Len(q) + Len(w) /\ (q \o w)[i] = q[i]
    BY <1>2, <1>3, <2>3, Joined
  <2>5. Len(q) \in Nat /\ Len(w) \in Nat
    BY <1>2, <1>3
  <2>6. SubSeq(q, i + 1, Len(q)) \o w = SubSeq(q \o w, i + 1, Len(q \o w))
    BY <1>2, <1>3, <2>3, i \in 0..Len(q), Taken
  <2>7. i \in 1..Len(Stream(c)) /\ Stream(c)[i].part = "blank"
    BY <1>2, <2>3, <2>4, <2>5
  <2>8. Stream(c)' = SubSeq(Stream(c), i + 1, Len(Stream(c)))
    BY <2>1, <2>6, <1>2, <1>4
  <2> QED
    BY <2>2, <2>7, <2>8
<1> QED
  BY <1>5, <1>6

LEMMA ReadStream ==
  ASSUME BaseType, NEW c \in Conns, NEW n \in 1..Len(wire[c]), OnRead(c, n)
  PROVE  Stream(c)' = Stream(c)
<1>1. Reads(c, n) /\ buf' = [buf EXCEPT ![c] = buf[c] \o SubSeq(wire[c], 1, n)]
  BY DEF OnRead
<1>2. (buf[c] \o SubSeq(wire[c], 1, n)) \o wire'[c] = Stream(c)
  BY <1>1, ReadsMove
<1>3. buf'[c] = buf[c] \o SubSeq(wire[c], 1, n)
  BY <1>1 DEF BaseType
<1> QED
  BY <1>2, <1>3 DEF Stream

LEMMA ParseStream ==
  ASSUME BaseType, NEW c \in Conns, ParseFrame(c)
  PROVE  \E k \in 1..Len(buf[c]) :
           /\ Stream(c)' = SubSeq(Stream(c), k + 1, Len(Stream(c)))
           /\ buf'[c] = SubSeq(buf[c], k + 1, Len(buf[c]))
           /\ InStep(buf[c]) => k = PayloadAt(c)
           /\ ~InStep(buf[c]) => UNCHANGED got
<1>1. /\ PayloadAt(c) \in Nat /\ PayloadAt(c) <= Len(buf[c]) /\ Len(buf[c]) \in Nat
      /\ wire' = wire
  BY PayloadPlace DEF ParseFrame, client, BaseType
<1>2. PICK k \in 1..Len(buf[c]) :
        /\ buf' = [buf EXCEPT ![c] = SubSeq(buf[c], k + 1, Len(buf[c]))]
        /\ InStep(buf[c]) => k = PayloadAt(c)
        /\ ~InStep(buf[c]) => UNCHANGED got
  <2>1. CASE InStep(buf[c])
    <3>1. PayloadAt(c) # 0 /\ buf' = [buf EXCEPT ![c] = SubSeq(buf[c], PayloadAt(c) + 1, Len(buf[c]))]
      BY <2>1 DEF ParseFrame
    <3>2. PayloadAt(c) \in 1..Len(buf[c])
      BY <3>1, <1>1
    <3> QED
      BY <2>1, <3>1, <3>2
  <2>2. CASE ~InStep(buf[c])
    BY <2>2 DEF ParseFrame
  <2> QED
    BY <2>1, <2>2
<1>3. buf[c] \in Seq(AnyUnit) /\ wire[c] \in Seq(AnyUnit) /\ k \in 0..Len(buf[c])
  BY DEF BaseType
<1>4. buf'[c] = SubSeq(buf[c], k + 1, Len(buf[c]))
  BY <1>2 DEF BaseType
<1>5. SubSeq(buf[c], k + 1, Len(buf[c])) \o wire[c]
        = SubSeq(buf[c] \o wire[c], k + 1, Len(buf[c] \o wire[c]))
  BY <1>3, Taken
<1>6. Stream(c)' = SubSeq(Stream(c), k + 1, Len(Stream(c)))
  BY <1>1, <1>4, <1>5 DEF Stream
<1> QED
  BY <1>2, <1>4, <1>6

LEMMA WriteStream ==
  ASSUME BaseType, NEW c \in Conns, NEW k \in 1..5, OnWrite(c, k)
  PROVE  /\ outq[c] # <<>> /\ Head(outq[c]) \in Nat /\ k \in 1..Len(Units(c, Head(outq[c])))
         /\ SubSeq(Units(c, Head(outq[c])), 1, k) \in Seq(AnyUnit)
         /\ Len(SubSeq(Units(c, Head(outq[c])), 1, k)) = k
         /\ \A i \in 1..k : SubSeq(Units(c, Head(outq[c])), 1, k)[i] = Units(c, Head(outq[c]))[i]
         /\ Stream(c)' = Stream(c) \o SubSeq(Units(c, Head(outq[c])), 1, k)
         /\ outq'[c] = Tail(outq[c])
<1> DEFINE u == Units(c, Head(outq[c]))
           v == SubSeq(u, 1, k)
<1>1. /\ outq[c] # <<>> /\ k \in 1..Len(u) /\ wire' = [wire EXCEPT ![c] = wire[c] \o v]
      /\ outq' = [outq EXCEPT ![c] = Tail(outq[c])] /\ buf' = buf
  BY DEF OnWrite
<1>2. Head(outq[c]) \in Nat
  BY <1>1 DEF BaseType
<1>3. u \in Seq(AnyUnit)
  BY <1>2, UnitsType
<1> HIDE DEF u
<1>4. v \in Seq(AnyUnit) /\ Len(v) = k /\ \A i \in 1..k : v[i] = u[i]
  BY <1>1, <1>3, k \in 0..Len(u), Prefix
<1> HIDE DEF v
<1>5. buf[c] \in Seq(AnyUnit) /\ wire[c] \in Seq(AnyUnit)
  BY DEF BaseType
<1>6. buf[c] \o (wire[c] \o v) = (buf[c] \o wire[c]) \o v
  <2> DEFINE q == buf[c]
             w == wire[c]
  <2>1. q \in Seq(AnyUnit) /\ w \in Seq(AnyUnit)
    BY <1>5
  <2> HIDE DEF q, w
  <2>2. q \o (w \o v) = (q \o w) \o v
    BY <1>4, <2>1, ConcatAssociative, SMTT(30)
  <2> QED
    BY <2>2 DEF q, w
<1>7. wire'[c] = wire[c] \o v /\ outq'[c] = Tail(outq[c])
  BY <1>1 DEF BaseType
<1>8. Stream(c)' = Stream(c) \o v
  BY <1>1, <1>6, <1>7 DEF Stream
<1> QED
  BY <1>1, <1>2, <1>4, <1>7, <1>8 DEF u, v

LEMMA EndsStream ==
  ASSUME BaseType, NEW c \in Conns, NEW w \in {wire[c], <<>>}, ClientEnds(c, w)
  PROVE  \/ Stream(c)' = Stream(c)
         \/ Stream(c)' = SubSeq(Stream(c), 1, Len(buf[c]))
<1>1. buf' = buf /\ wire'[c] = w
  BY DEF ClientEnds, BaseType
<1>2. CASE w = wire[c]
  BY <1>1, <1>2 DEF Stream
<1>3. CASE w = <<>>
  <2>1. buf[c] \in Seq(AnyUnit) /\ wire[c] \in Seq(AnyUnit)
    BY DEF BaseType
  <2>2. Stream(c)' = buf[c] \o <<>>
    BY <1>1, <1>3 DEF Stream
  <2>3. buf[c] \o <<>> = buf[c]
    BY <2>1, ConcatEmptySeq
  <2>4. /\ Stream(c) \in Seq(AnyUnit) /\ Len(Stream(c)) = Len(buf[c]) + Len(wire[c])
        /\ \A i \in 1..Len(buf[c]) : Stream(c)[i] = buf[c][i]
    BY StreamType
  <2>5. Len(buf[c]) \in 0..Len(Stream(c))
    BY FrontOfStream
  <2> DEFINE s == Stream(c)
             k == Len(buf[c])
             t == SubSeq(s, 1, k)
  <2>6. t \in Seq(AnyUnit) /\ Len(t) = k /\ \A i \in 1..k : t[i] = s[i]
    <3> HIDE DEF s, k
    <3> QED
      BY <2>4, <2>5, Prefix DEF s, k
  <2> HIDE DEF t
  <2>7. t = buf[c]
    BY <2>1, <2>4, <2>6, SeqEqual
  <2> QED
    BY <2>2, <2>3, <2>7 DEF t
<1> QED
  BY <1>2, <1>3

LEMMA StreamKept ==
  ASSUME UNCHANGED <<buf, wire>>, NEW c \in Conns
  PROVE  Stream(c)' = Stream(c)
BY DEF Stream

-----------------------------------------------------------------------------
(* The slots of the listener *)

(* Dropping a handshake takes out its slot and no other, never the last.   *)
LEMMA DropSlots ==
  ASSUME BaseType, AcceptFillsLast, NEW c \in Conns, DropPending(c)
  PROVE  /\ pending' # <<>> /\ pending'[Len(pending')] = None
         /\ \A i, j \in DOMAIN pending' : pending'[i] = pending'[j] => i = j
         /\ \A d \in Conns : (\E i \in DOMAIN pending' : pending'[i] = d)
                               <=> d # c /\ \E i \in DOMAIN pending : pending[i] = d
<1> DEFINE p == pending
           q == pending'
           S == Conns \cup {None}
<1>1. PICK k \in DOMAIN p : p[k] = c /\ q = RemoveAt(p, k)
  BY DEF DropPending
<1>2. p \in Seq(S) /\ k \in 1..Len(p) /\ None # c
  BY <1>1, HubAssumption DEF BaseType
<1>3. p[Len(p)] = None /\ \A i, j \in 1..Len(p) : p[i] = p[j] => i = j
  BY <1>2 DEF AcceptFillsLast
<1> HIDE DEF p, q, S
<1>4. /\ q \in Seq(S) /\ Len(q) = Len(p) - 1
      /\ \A i \in 1..(Len(p) - 1) : q[i] = IF i < k THEN p[i] ELSE p[i + 1]
  BY <1>1, <1>2, Removed
<1>5. Len(p) \in Nat /\ Len(q) \in Nat /\ k # Len(p) /\ k < Len(p)
  BY <1>1, <1>2, <1>3, <1>4
<1>6. q # <<>> /\ q[Len(q)] = None
  <2>1. Len(q) \in 1..(Len(p) - 1) /\ ~(Len(q) < k) /\ Len(q) + 1 = Len(p)
    BY <1>2, <1>4, <1>5
  <2>2. q[Len(q)] = p[Len(q) + 1]
    BY <1>4, <2>1
  <2> QED
    BY <1>3, <1>4, <2>1, <2>2
<1>7. ASSUME NEW i \in DOMAIN q, NEW j \in DOMAIN q, q[i] = q[j]
      PROVE  i = j
  <2>1. i \in 1..(Len(p) - 1) /\ j \in 1..(Len(p) - 1)
    BY <1>4, <1>5
  <2> DEFINE a == IF i < k THEN i ELSE i + 1
             b == IF j < k THEN j ELSE j + 1
  <2>2. a \in 1..Len(p) /\ b \in 1..Len(p) /\ q[i] = p[a] /\ q[j] = p[b]
    BY <1>2, <1>4, <1>5, <2>1
  <2>3. a = b
    BY <1>3, <1>7, <2>2
  <2> QED
    BY <1>2, <1>5, <2>1, <2>3
<1>8. ASSUME NEW d \in Conns
      PROVE  (\E i \in DOMAIN q : q[i] = d) <=> d # c /\ \E i \in DOMAIN p : p[i] = d
  <2>1. ASSUME NEW i \in DOMAIN q, q[i] = d
        PROVE  d # c /\ \E j \in DOMAIN p : p[j] = d
    <3>1. i \in 1..(Len(p) - 1)
      BY <1>4, <1>5
    <3> DEFINE a == IF i < k THEN i ELSE i + 1
    <3>2. a \in 1..Len(p) /\ a # k /\ q[i] = p[a]
      BY <1>2, <1>4, <1>5, <3>1
    <3>3. p[a] # p[k]
      BY <1>2, <1>3, <3>2
    <3>4. a \in DOMAIN p
      BY <1>2, <3>2
    <3> QED
      BY <1>1, <2>1, <3>2, <3>3, <3>4
  <2>2. ASSUME NEW j \in DOMAIN p, p[j] = d, d # c
        PROVE  \E i \in DOMAIN q : q[i] = d
    <3>1. j \in 1..Len(p) /\ j # k
      BY <1>1, <1>2, <2>2
    <3> DEFINE i == IF j < k THEN j ELSE j - 1
    <3>2. i \in 1..(Len(p) - 1) /\ q[i] = p[j]
      BY <1>2, <1>4, <1>5, <3>1
    <3>3. i \in DOMAIN q
      BY <1>4, <3>2
    <3> QED
      BY <2>2, <3>2, <3>3
  <2> QED
    BY <2>1, <2>2
<1> QED
  BY <1>6, <1>7, <1>8 DEF p, q

(* An accept gives the last slot to the client and adds one behind it.     *)
LEMMA AcceptSlots ==
  ASSUME BaseType, AcceptFillsLast, NEW c \in Conns, OnAccept(c)
  PROVE  /\ pending' # <<>> /\ pending'[Len(pending')] = None
         /\ \A i, j \in DOMAIN pending' : pending'[i] = pending'[j] => i = j
         /\ \A d \in Conns : (\E i \in DOMAIN pending' : pending'[i] = d)
                               <=> d = c \/ \E i \in DOMAIN pending : pending[i] = d
<1> DEFINE p == pending
           q == pending'
           S == Conns \cup {None}
           r == [p EXCEPT ![Len(p)] = c]
<1>1. q = Append(r, None) /\ c \in S /\ None \in S /\ None # c /\ p \in Seq(S)
  BY HubAssumption DEF OnAccept, BaseType
<1>2. /\ p # <<>> /\ p[Len(p)] = None /\ \A i, j \in 1..Len(p) : p[i] = p[j] => i = j
      /\ \A i \in 1..Len(p) : p[i] # c
  BY <1>1 DEF AcceptFillsLast, OnAccept
<1> HIDE DEF p, q, S
<1>3. Len(p) \in 1..Len(p) /\ Len(p) \in Nat
  BY <1>1, <1>2
<1>4. /\ r \in Seq(S) /\ Len(r) = Len(p)
      /\ \A i \in 1..Len(p) : r[i] = IF i = Len(p) THEN c ELSE p[i]
  BY <1>1, <1>3, ExceptSeq
<1> HIDE DEF r
<1>5. /\ q \in Seq(S) /\ Len(q) = Len(p) + 1 /\ q[Len(p) + 1] = None
      /\ \A i \in 1..Len(p) : q[i] = IF i = Len(p) THEN c ELSE p[i]
  BY <1>1, <1>3, <1>4
<1>6. q # <<>> /\ q[Len(q)] = None
  BY <1>3, <1>5
<1>7. ASSUME NEW i \in DOMAIN q, NEW j \in DOMAIN q, q[i] = q[j]
      PROVE  i = j
  <2>1. \A m \in 1..Len(p) : q[m] # None
    BY <1>1, <1>2, <1>3, <1>5
  <2>2. i \in 1..(Len(p) + 1) /\ j \in 1..(Len(p) + 1)
    BY <1>3, <1>5
  <2>3. CASE i = Len(p) + 1 \/ j = Len(p) + 1
    BY <1>3, <1>5, <1>7, <2>1, <2>2, <2>3
  <2>4. CASE i # Len(p) + 1 /\ j # Len(p) + 1
    <3>1. i \in 1..Len(p) /\ j \in 1..Len(p)
      BY <1>3, <2>2, <2>4
    <3> QED
      BY <1>2, <1>3, <1>5, <1>7, <3>1
  <2> QED
    BY <2>3, <2>4
<1>8. ASSUME NEW d \in Conns
      PROVE  (\E i \in DOMAIN q : q[i] = d) <=> d = c \/ \E i \in DOMAIN p : p[i] = d
  <2>1. d # None /\ DOMAIN q = 1..(Len(p) + 1) /\ DOMAIN p = 1..Len(p)
    BY <1>1, <1>3, <1>5, HubAssumption
  <2> DEFINE n == Len(p)
  <2>2. /\ n \in Nat /\ n >= 1 /\ q[n + 1] = None /\ q[n] = c
        /\ \A i \in 1..n : i # n => q[i] = p[i]
    BY <1>3, <1>5
  <2>3. DOMAIN q = 1..(n + 1) /\ DOMAIN p = 1..n /\ p[n] = None
    BY <1>2, <2>1
  <2> HIDE DEF n
  <2>4. ASSUME NEW i \in DOMAIN q, q[i] = d
        PROVE  d = c \/ \E j \in DOMAIN p : p[j] = d
    <3>1. i \in 1..(n + 1) /\ i # n + 1
      BY <2>1, <2>2, <2>3, <2>4
    <3>2. i \in 1..n
      BY <2>2, <3>1
    <3> QED
      BY <2>2, <2>3, <2>4, <3>2
  <2>5. CASE d = c
    <3>1. n \in DOMAIN q
      BY <2>2, <2>3
    <3> QED
      BY <2>2, <2>5, <3>1
  <2>6. ASSUME NEW j \in DOMAIN p, p[j] = d
        PROVE  \E i \in DOMAIN q : q[i] = d
    <3>1. j # n /\ j \in 1..n
      BY <2>1, <2>3, <2>6
    <3>2. j \in DOMAIN q
      BY <2>2, <2>3, <3>1
    <3> QED
      BY <2>2, <2>6, <3>1, <3>2
  <2> QED
    BY <2>4, <2>5, <2>6
<1> QED
  BY <1>6, <1>7, <1>8 DEF p, q

LEMMA SlotsKept ==
  ASSUME BaseType, BaseType', TablesInv, AcceptFillsLast, NEW c \in Conns, Steps(c)
  PROVE  AcceptFillsLast'
<1> DEFINE Handshake == {"reading", "writing"}
<1>1. \A d \in Conns : d # c => stage'[d] = stage[d]
  BY OthersKept DEF Kept
<1>2. CASE pending' = pending /\ (stage'[c] \in Handshake <=> stage[c] \in Handshake)
  <2>1. \A d \in Conns : stage'[d] \in Handshake <=> stage[d] \in Handshake
    BY <1>1, <1>2
  <2> QED
    BY <1>2, <2>1 DEF AcceptFillsLast
<1>3. CASE OnAccept(c)
  <2>1. stage'[c] = "reading"
    BY <1>3 DEF OnAccept, BaseType
  <2>2. \A d \in Conns : (\E i \in DOMAIN pending' : pending'[i] = d) <=> stage'[d] \in Handshake
    BY <1>1, <1>3, <2>1, AcceptSlots DEF AcceptFillsLast
  <2> QED
    BY <1>3, <2>2, AcceptSlots DEF AcceptFillsLast
<1>4. CASE DropPending(c) /\ stage'[c] \notin Handshake
  <2>1. \A d \in Conns : (\E i \in DOMAIN pending' : pending'[i] = d) <=> stage'[d] \in Handshake
    BY <1>1, <1>4, DropSlots DEF AcceptFillsLast
  <2> QED
    BY <1>4, <2>1, DropSlots DEF AcceptFillsLast
<1>5. CASE Dial(c)
  BY <1>2, <1>5 DEF Dial, BaseType
<1>6. CASE \E f \in Frames : SendText(c, f)
  BY <1>2, <1>6 DEF SendText
<1>7. CASE \E k \in 1..5 : OnWrite(c, k)
  BY <1>2, <1>7 DEF OnWrite
<1>8. CASE \E w \in {wire[c], <<>>} : ClientEnds(c, w)
  BY <1>2, <1>8 DEF ClientEnds
<1>9. CASE \E n \in 1..Len(wire[c]) : OnHandshakeRead(c, n)
  <2>1. pending' = pending /\ stage[c] = "reading"
    BY <1>9 DEF OnHandshakeRead
  <2>2. stage' = stage \/ stage' = [stage EXCEPT ![c] = "writing"]
    BY <1>9 DEF OnHandshakeRead
  <2>3. stage'[c] \in Handshake
    BY <2>1, <2>2 DEF BaseType
  <2> QED
    BY <1>2, <2>1, <2>3
<1>10. CASE HandshakeFails(c)
  BY <1>4, <1>10 DEF HandshakeFails, BaseType
<1>11. CASE OnHandshakeWritten(c)
  BY <1>2, <1>11 DEF OnHandshakeWritten
<1>12. CASE ParseFrame(c)
  BY <1>2, <1>12 DEF ParseFrame
<1>13. CASE Entered(c)
  BY <1>4, <1>13 DEF Entered, BaseType
<1>14. CASE \E n \in 1..Len(wire[c]) : OnRead(c, n)
  BY <1>2, <1>14 DEF OnRead
<1>15. CASE Waits(c)
  BY <1>2, <1>15 DEF Waits
<1>16. CASE OnClientClosed(c)
  BY <1>2, <1>16 DEF OnClientClosed, BaseType
<1> QED
  BY <1>3, <1>5, <1>6, <1>7, <1>8, <1>9, <1>10, <1>11, <1>12, <1>13, <1>14, <1>15, <1>16 DEF Steps

(* The tables: three callbacks of the daemon and two of the hub write them. *)
LEMMA TablesKept ==
  ASSUME BaseType, BaseType', TablesInv, AcceptFillsLast, NEW c \in Conns, Steps(c)
  PROVE  TablesInv'
<1> DEFINE Held == {"open", "dead"}
<1>1. /\ \A d \in Conns : d # c => stage'[d] = stage[d]
      /\ c # None /\ parsing \in Conns \cup {None}
  BY OthersKept, HubAssumption DEF Kept, BaseType
<1>2. CASE /\ clients' = clients /\ ports' = ports /\ parsing' = parsing
           /\ stage'[c] \in Held <=> stage[c] \in Held
           /\ parsing = c => stage'[c] \in {"writing", "open"}
  <2>1. \A d \in Conns : stage'[d] \in Held <=> stage[d] \in Held
    BY <1>1, <1>2
  <2>2. clients' = {d \in Conns : stage'[d] \in Held}
    BY <1>2, <2>1 DEF TablesInv
  <2>3. Idle' => ports' = clients'
    BY <1>2 DEF TablesInv, Idle
  <2>4. ~Idle' => /\ stage'[parsing'] \in {"writing", "open"}
                  /\ clients' \subseteq ports' /\ ports' \subseteq clients' \cup {parsing'}
    BY <1>1, <1>2 DEF TablesInv, Idle
  <2> QED
    BY <2>2, <2>3, <2>4 DEF TablesInv
<1>3. CASE /\ clients' = clients /\ ports' = ports /\ stage' = stage /\ Idle
           /\ parsing' = c /\ stage[c] \in {"writing", "open"}
  BY <1>1, <1>3 DEF TablesInv, Idle
<1>5. CASE Dial(c)
  <2>1. stage[c] = "none" /\ stage'[c] = "backlog"
    BY <1>5 DEF Dial, BaseType
  <2>2. parsing # c
    BY <1>1, <2>1 DEF TablesInv, Idle
  <2> QED
    BY <1>2, <1>5, <2>1, <2>2 DEF Dial, tables
<1>6. CASE \/ \E f \in Frames : SendText(c, f)
           \/ \E k \in 1..5 : OnWrite(c, k)
           \/ \E w \in {wire[c], <<>>} : ClientEnds(c, w)
  <2>1. clients' = clients /\ ports' = ports /\ parsing' = parsing /\ stage' = stage
    BY <1>6 DEF SendText, OnWrite, ClientEnds, tables
  <2> QED
    BY <1>1, <1>2, <2>1 DEF TablesInv, Idle
<1>7. CASE OnAccept(c)
  <2>1. stage[c] = "backlog" /\ stage'[c] = "reading" /\ parsing = None
    BY <1>7 DEF OnAccept, BaseType, Idle
  <2> QED
    BY <1>1, <1>2, <1>7, <2>1 DEF OnAccept, tables
<1>9. CASE \E n \in 1..Len(wire[c]) : OnHandshakeRead(c, n)
  <2>1. stage[c] = "reading" /\ parsing = None /\ UNCHANGED <<parsing, clients, ports>>
    BY <1>9 DEF OnHandshakeRead, Idle, tables
  <2>2. stage' = stage \/ stage' = [stage EXCEPT ![c] = "writing"]
    BY <1>9 DEF OnHandshakeRead
  <2>3. stage'[c] \notin Held
    BY <2>1, <2>2 DEF BaseType
  <2> QED
    BY <1>1, <1>2, <2>1, <2>3
<1>10. CASE HandshakeFails(c)
  <2>1. stage[c] \in {"reading", "writing"} /\ stage'[c] = "gone" /\ parsing = None
    BY <1>10 DEF HandshakeFails, BaseType, Idle
  <2> QED
    BY <1>1, <1>2, <1>10, <2>1 DEF HandshakeFails, tables
<1>11. CASE OnHandshakeWritten(c)
  BY <1>3, <1>11 DEF OnHandshakeWritten, tables
<1>12. CASE ParseFrame(c)
  <2>1. parsing = c /\ UNCHANGED <<parsing, clients, stage>> /\ (ports' = ports \/ ports' = ports \cup {c})
    BY <1>12 DEF ParseFrame, Emit, client
  <2> QED
    BY <1>1, <2>1 DEF TablesInv, Idle
<1>13. CASE Entered(c)
  <2>1. /\ parsing = c /\ parsing' = None /\ clients' = clients \cup {c} /\ ports' = ports \cup {c}
        /\ stage'[c] \in Held
    BY <1>13 DEF Entered, Parsed, BaseType
  <2>2. clients' = {d \in Conns : stage'[d] \in Held}
    BY <1>1, <2>1 DEF TablesInv
  <2>3. ports' = clients'
    BY <1>1, <2>1 DEF TablesInv, Idle
  <2> QED
    BY <2>1, <2>2, <2>3 DEF TablesInv, Idle
<1>14. CASE \E n \in 1..Len(wire[c]) : OnRead(c, n)
  <2>1. /\ (Idle /\ stage[c] = "open") \/ (parsing = c /\ stage[c] = "writing")
        /\ parsing' = c /\ UNCHANGED <<stage, clients, ports>>
    BY <1>14 DEF OnRead, Parsed, tables
  <2> QED
    BY <1>2, <1>3, <2>1
<1>15. CASE Waits(c)
  <2>1. parsing = c /\ stage[c] = "open" /\ parsing' = None /\ UNCHANGED <<stage, clients, ports>>
    BY <1>15 DEF Waits, Parsed, tables
  <2> QED
    BY <1>1, <2>1 DEF TablesInv, Idle
<1>16. CASE OnClientClosed(c)
  <2>1. /\ Idle /\ parsing' = parsing /\ clients' = clients \ {c} /\ ports' = ports \ {c}
        /\ stage'[c] = "gone"
    BY <1>16 DEF OnClientClosed, BaseType
  <2>2. clients' = {d \in Conns : stage'[d] \in Held}
    BY <1>1, <2>1 DEF TablesInv
  <2> QED
    BY <2>1, <2>2 DEF TablesInv, Idle
<1> QED
  BY <1>5, <1>6, <1>7, <1>9, <1>10, <1>11, <1>12, <1>13, <1>14, <1>15, <1>16 DEF Steps

-----------------------------------------------------------------------------
(* The queue and the request of one client *)

(* Handing on a frame puts it behind the others. *)
LEMMA SendQueue ==
  ASSUME BaseType, NEW c \in Conns, NEW f \in Frames, SendText(c, f)
  PROVE  /\ sent'[c] = Append(sent[c], f) /\ Len(sent'[c]) = Len(sent[c]) + 1
         /\ sent'[c][Len(sent[c]) + 1] = f
         /\ \A n \in 1..Len(sent[c]) : sent'[c][n] = sent[c][n]
         /\ Len(outq'[c]) = Len(outq[c]) + 1
         /\ outq'[c][Len(outq[c]) + 1] = Len(sent[c]) + 1
         /\ \A i \in 1..Len(outq[c]) : outq'[c][i] = outq[c][i]
         /\ Written(c)' = Written(c)
<1>1. sent'[c] = Append(sent[c], f) /\ outq'[c] = Append(outq[c], Len(sent[c]) + 1)
  BY DEF SendText, BaseType
<1>2. sent[c] \in Seq(Frames) /\ outq[c] \in Seq(Nat) /\ Len(sent[c]) \in Nat /\ Len(outq[c]) \in Nat
  BY DEF BaseType
<1>3. /\ Len(Append(sent[c], f)) = Len(sent[c]) + 1
      /\ \A n \in 1..Len(sent[c]) : Append(sent[c], f)[n] = sent[c][n]
      /\ Append(sent[c], f)[Len(sent[c]) + 1] = f
  BY <1>2
<1>4. /\ Len(Append(outq[c], Len(sent[c]) + 1)) = Len(outq[c]) + 1
      /\ \A n \in 1..Len(outq[c]) : Append(outq[c], Len(sent[c]) + 1)[n] = outq[c][n]
      /\ Append(outq[c], Len(sent[c]) + 1)[Len(outq[c]) + 1] = Len(sent[c]) + 1
  BY <1>2
<1>5. Written(c)' = Written(c)
  <2>1. \A a, b \in Nat : (a + 1) - (b + 1) = a - b
    OBVIOUS
  <2>2. Len(sent'[c]) = Len(sent[c]) + 1 /\ Len(outq'[c]) = Len(outq[c]) + 1
    BY <1>1, <1>3, <1>4
  <2>3. (Len(sent[c]) + 1) - (Len(outq[c]) + 1) = Len(sent[c]) - Len(outq[c])
    BY <1>2, <2>1
  <2> QED
    BY <2>2, <2>3 DEF Written
<1> QED
  BY <1>1, <1>3, <1>4, <1>5

(* A write takes the frame behind the one written last. *)
LEMMA WriteQueue ==
  ASSUME BaseType, NEW c \in Conns, QueueInv(c), NEW k \in 1..5, OnWrite(c, k)
  PROVE  /\ Head(outq[c]) = Written(c) + 1 /\ Head(outq[c]) \in 0..Len(sent[c])
         /\ Head(outq[c]) = outq[c][1] /\ Len(outq[c]) >= 1
         /\ Len(outq'[c]) = Len(outq[c]) - 1
         /\ \A i \in 1..Len(outq'[c]) : outq'[c][i] = outq[c][i + 1]
         /\ Written(c)' = Written(c) + 1 /\ ~ended[c] /\ stage[c] # "none"
         /\ UNCHANGED <<sent, ended, stage, got, parsing, buf>>
<1>1. outq[c] # <<>> /\ outq'[c] = Tail(outq[c]) /\ UNCHANGED <<sent, ended, stage, got, parsing, buf>>
  BY DEF OnWrite, BaseType
<1>2. outq[c] \in Seq(Nat) /\ Len(sent[c]) \in Nat
  BY DEF BaseType
<1> DEFINE q == outq[c]
<1>3. q \in Seq(Nat) /\ q # <<>>
  BY <1>1, <1>2
<1> HIDE DEF q
<1>4. /\ Len(q) \in Nat \ {0} /\ Head(q) = q[1] /\ q[1] \in Nat
      /\ Len(Tail(q)) = Len(q) - 1 /\ \A i \in 1..Len(Tail(q)) : Tail(q)[i] = q[i + 1]
  BY <1>3
<1>5. 1 \in 1..Len(q)
  BY <1>4
<1>6. q[1] = Written(c) + 1 /\ Written(c) = Len(sent[c]) - Len(q)
  BY <1>5 DEF QueueInv, q, Written
<1>7. Written(c)' = Len(sent[c]) - Len(Tail(q))
  BY <1>1 DEF Written, q
<1>8. Written(c)' = Written(c) + 1 /\ q[1] \in 0..Len(sent[c])
  BY <1>2, <1>4, <1>6, <1>7
<1>9. ~ended[c] /\ stage[c] # "none"
  BY <1>1 DEF QueueInv
<1>10. Len(q) >= 1 /\ outq'[c] = Tail(q)
  BY <1>1, <1>4 DEF q
<1> QED
  BY <1>1, <1>4, <1>6, <1>8, <1>9, <1>10 DEF q

LEMMA QueueKept ==
  ASSUME BaseType, NEW c \in Conns, QueueInv(c), Steps(c)
  PROVE  QueueInv(c)'
<1>1. CASE UNCHANGED <<sent, outq, ended>> /\ stage[c] # "none" /\ stage'[c] # "none"
  BY <1>1 DEF QueueInv, Written
<1>2. CASE Dial(c)
  <2>1. stage'[c] = "backlog" /\ outq'[c] = <<0>> /\ UNCHANGED <<sent, ended>>
    BY <1>2 DEF Dial, BaseType
  <2>2. sent[c] = <<>> /\ ~ended[c]
    BY <1>2 DEF Dial, QueueInv
  <2>3. Len(outq'[c]) = 1 /\ outq'[c][1] = 0 /\ Len(sent'[c]) = 0
    BY <2>1, <2>2
  <2>4. Written(c)' = -1
    BY <2>3 DEF Written
  <2>5. \A i \in 1..Len(outq'[c]) : outq'[c][i] = Written(c)' + i
    BY <2>3, <2>4
  <2> QED
    BY <2>1, <2>2, <2>3, <2>5 DEF QueueInv
<1>3. ASSUME NEW f \in Frames, SendText(c, f)
      PROVE  QueueInv(c)'
  <2>1. /\ UNCHANGED <<ended, stage, buf, wire, got>> /\ ~ended[c] /\ stage[c] # "none"
        /\ \A n \in DOMAIN sent[c] : sent[c][n] # "close"
    BY <1>3 DEF SendText, MaySend
  <2>2. Len(sent[c]) \in Nat /\ Len(outq[c]) \in Nat /\ DOMAIN sent[c] = 1..Len(sent[c])
    BY DEF BaseType
  <2>3. ASSUME NEW n \in 1..Len(sent'[c]), sent'[c][n] = "close"
        PROVE  n = Len(sent'[c])
    <3>1. n \in 1..(Len(sent[c]) + 1) /\ Len(sent'[c]) = Len(sent[c]) + 1
      BY <1>3, SendQueue
    <3>2. n \notin 1..Len(sent[c])
      BY <1>3, <2>1, <2>2, <2>3, SendQueue
    <3> QED
      BY <2>2, <3>1, <3>2
  <2>4. ASSUME NEW i \in 1..Len(outq'[c])
        PROVE  outq'[c][i] = Written(c)' + i
    <3>1. i \in 1..Len(outq[c]) \/ i = Len(outq[c]) + 1
      BY <1>3, <2>2, SendQueue
    <3>2. CASE i \in 1..Len(outq[c])
      BY <1>3, <3>2, SendQueue DEF QueueInv
    <3>3. CASE i = Len(outq[c]) + 1
      <4>1. \A a, b \in Nat : a + 1 = (a - b) + (b + 1)
        OBVIOUS
      <4>2. Len(sent[c]) + 1 = (Len(sent[c]) - Len(outq[c])) + (Len(outq[c]) + 1)
        BY <2>2, <4>1
      <4>3. outq'[c][i] = Len(sent[c]) + 1 /\ Written(c)' = Written(c)
        BY <1>3, <3>3, SendQueue
      <4> QED
        BY <3>3, <4>2, <4>3 DEF Written
    <3> QED
      BY <3>1, <3>2, <3>3
  <2> QED
    BY <2>1, <2>3, <2>4 DEF QueueInv
<1>4. ASSUME NEW k \in 1..5, OnWrite(c, k)
      PROVE  QueueInv(c)'
  <2>1. Len(outq[c]) \in Nat /\ Written(c) \in Int
    BY DEF BaseType, Written
  <2>2. ASSUME NEW i \in 1..Len(outq'[c])
        PROVE  outq'[c][i] = Written(c)' + i
    <3>1. i + 1 \in 1..Len(outq[c]) /\ outq'[c][i] = outq[c][i + 1]
      <4>1. i \in 1..(Len(outq[c]) - 1) /\ outq'[c][i] = outq[c][i + 1]
        BY <1>4, WriteQueue
      <4> QED
        BY <2>1, <4>1
    <3>2. outq[c][i + 1] = Written(c) + (i + 1)
      BY <3>1 DEF QueueInv
    <3>3. Written(c)' = Written(c) + 1
      BY <1>4, WriteQueue
    <3>4. Written(c) + (i + 1) = (Written(c) + 1) + i
      BY <2>1, i \in Int
    <3> QED
      BY <3>1, <3>2, <3>3, <3>4
  <2> QED
    BY <1>4, <2>2, WriteQueue DEF QueueInv
<1>5. ASSUME NEW w \in {wire[c], <<>>}, ClientEnds(c, w)
      PROVE  QueueInv(c)'
  <2>1. outq'[c] = <<>> /\ UNCHANGED <<sent, stage>> /\ stage[c] # "none"
    BY <1>5 DEF ClientEnds, BaseType
  <2> QED
    BY <2>1 DEF QueueInv
<1>6. CASE OnAccept(c)
  BY <1>1, <1>6 DEF OnAccept, client, BaseType
<1>7. ASSUME NEW n \in 1..Len(wire[c]), OnHandshakeRead(c, n)
      PROVE  QueueInv(c)'
  <2>1. stage[c] = "reading" /\ UNCHANGED <<sent, outq, ended>>
    BY <1>7 DEF OnHandshakeRead, Reads
  <2>2. stage' = stage \/ stage' = [stage EXCEPT ![c] = "writing"]
    BY <1>7 DEF OnHandshakeRead
  <2>3. stage'[c] # "none"
    BY <2>1, <2>2 DEF BaseType
  <2> QED
    BY <1>1, <2>1, <2>3
<1>8. CASE HandshakeFails(c)
  BY <1>1, <1>8 DEF HandshakeFails, client, BaseType
<1>9. CASE OnHandshakeWritten(c)
  BY <1>1, <1>9 DEF OnHandshakeWritten, client
<1>10. CASE ParseFrame(c)
  <2>1. stage[c] # "none"
    <3>1. CASE buf[c] = <<>>
      <4>1. PayloadAt(c) = 0 /\ InStep(buf[c])
        BY <3>1 DEF PayloadAt, InStep
      <4> QED
        BY <1>10, <4>1 DEF ParseFrame
    <3> QED
      BY <3>1 DEF QueueInv
  <2> QED
    BY <1>1, <1>10, <2>1 DEF ParseFrame, client
<1>11. CASE Entered(c)
  BY <1>1, <1>11 DEF Entered, client, BaseType
<1>12. CASE \E n \in 1..Len(wire[c]) : OnRead(c, n)
  BY <1>1, <1>12 DEF OnRead, Reads, Parsed
<1>13. CASE Waits(c)
  BY <1>1, <1>13 DEF Waits, client
<1>14. CASE OnClientClosed(c)
  BY <1>1, <1>14 DEF OnClientClosed, client, BaseType
<1> QED
  BY <1>2, <1>3, <1>4, <1>5, <1>6, <1>7, <1>8, <1>9, <1>10, <1>11, <1>12, <1>13, <1>14 DEF Steps

LEMMA RequestKept ==
  ASSUME BaseType, TablesInv, NEW c \in Conns, QueueInv(c), RequestInv(c), Steps(c)
  PROVE  RequestInv(c)'
<1> DEFINE s == Stream(c)
           t == Stream(c)'
<1>1. /\ s \in Seq(AnyUnit) /\ Len(s) \in Nat /\ Len(sent[c]) \in Nat
      /\ \A i \in 1..Len(s) : s[i].of \in Nat
  <2>1. s \in Seq(AnyUnit) /\ Len(sent[c]) \in Nat
    BY StreamType DEF BaseType
  <2> HIDE DEF s
  <2> QED
    BY <2>1, PartTypes
<1>2. /\ \A i \in 1..Len(s) :
           /\ s[i].part = "request" => i = 1 /\ stage[c] \in Early
           /\ s[i].part = "blank" => i = 2 /\ stage[c] \in Early
           /\ s[i].of <= Len(sent[c])
      /\ \A j \in 1..Len(outq[c]) : outq[c][j] = 0 => s = <<>> /\ stage[c] \in Opening
  BY DEF RequestInv, Opening
<1>3. RequestInv(c)' <=>
        /\ \A i \in 1..Len(t) :
             /\ t[i].part = "request" => i = 1 /\ stage'[c] \in Early
             /\ t[i].part = "blank" => i = 2 /\ stage'[c] \in Early
             /\ t[i].of <= Len(sent'[c])
        /\ \A j \in 1..Len(outq'[c]) : outq'[c][j] = 0 => t = <<>> /\ stage'[c] \in Opening
  BY DEF RequestInv, Opening
<1> HIDE DEF s, t
<1>4. CASE t = s /\ UNCHANGED <<sent, outq, stage>>
  BY <1>2, <1>3, <1>4
<1>5. CASE /\ t = s /\ UNCHANGED <<sent, outq>>
           /\ stage[c] \in Early => stage'[c] \in Early
           /\ stage'[c] \in Opening \/ stage[c] \notin Opening \/ outq[c] = <<>>
  BY <1>2, <1>3, <1>5
<1>6. CASE Dial(c)
  <2>1. stage'[c] = "backlog" /\ UNCHANGED <<sent, buf, wire>>
    BY <1>6 DEF Dial, BaseType
  <2>2. buf[c] = <<>> /\ wire[c] = <<>>
    BY <1>6 DEF Dial, QueueInv
  <2>3. t = <<>>
    BY <2>1, <2>2 DEF t, Stream
  <2> QED
    BY <1>3, <2>1, <2>3 DEF Opening
<1>7. ASSUME NEW f \in Frames, SendText(c, f)
      PROVE  RequestInv(c)'
  <2>1. UNCHANGED <<stage, buf, wire>>
    BY <1>7 DEF SendText
  <2>2. t = s
    BY <2>1, StreamKept DEF s, t
  <2>3. \A i \in 1..Len(s) : s[i].of <= Len(sent'[c])
    <3>1. Len(sent'[c]) = Len(sent[c]) + 1
      BY <1>7, SendQueue
    <3> QED
      BY <1>1, <1>2, <3>1
  <2>4. ASSUME NEW j \in 1..Len(outq'[c]), outq'[c][j] = 0
        PROVE  s = <<>> /\ stage[c] \in Opening
    <3>1. Len(outq'[c]) = Len(outq[c]) + 1 /\ Len(outq[c]) \in Nat
          /\ outq'[c][Len(outq[c]) + 1] = Len(sent[c]) + 1
      BY <1>7, SendQueue DEF BaseType
    <3>2. j \in 1..Len(outq[c])
      BY <1>1, <2>4, <3>1
    <3>3. outq[c][j] = 0
      BY <1>7, <2>4, <3>2, SendQueue
    <3> QED
      BY <1>2, <3>2, <3>3
  <2> QED
    BY <1>2, <1>3, <2>1, <2>2, <2>3, <2>4
<1>8. ASSUME NEW k \in 1..5, OnWrite(c, k)
      PROVE  RequestInv(c)'
  <2> DEFINE n == Head(outq[c])
             u == Units(c, n)
             v == SubSeq(u, 1, k)
  <2>1. /\ n \in Nat /\ k \in 1..Len(u) /\ v \in Seq(AnyUnit) /\ Len(v) = k
        /\ \A i \in 1..k : v[i] = u[i]
        /\ t = s \o v
    BY <1>8, WriteStream DEF s, t
  <2>2. /\ n \in 0..Len(sent[c]) /\ n = outq[c][1] /\ 1 \in 1..Len(outq[c])
        /\ UNCHANGED <<sent, stage>> /\ n = Written(c) + 1
    <3>1. Len(outq[c]) \in Nat
      BY DEF BaseType
    <3> QED
      BY <1>8, <3>1, WriteQueue
  <2>3. /\ \A i \in 1..Len(u) : u[i].of = n /\ (n # 0 => u[i].part \notin {"request", "blank"})
        /\ n = 0 => u[1].part = "request" /\ u[2].part = "blank" /\ Len(u) = 2
    <3>1. \A i \in 1..Len(u) : u[i].of = n /\ (n # 0 => u[i].part \notin {"request", "blank"})
      BY <2>1, UnitsType
    <3>2. ASSUME n = 0
          PROVE  u[1].part = "request" /\ u[2].part = "blank" /\ Len(u) = 2
      BY <3>2, UnitsOfRequest DEF Unit
    <3> QED
      BY <3>1, <3>2
  <2>4. ASSUME NEW j \in 1..Len(outq'[c])
        PROVE  outq'[c][j] # 0
    <3>1. j \in 1..(Len(outq[c]) - 1) /\ outq'[c][j] = outq[c][j + 1]
      BY <1>8, WriteQueue
    <3>4. Len(outq[c]) \in Nat /\ j + 1 \in 1..Len(outq[c])
      <4>1. Len(outq[c]) \in Nat
        BY DEF BaseType
      <4> QED
        BY <3>1, <4>1
    <3>2. outq[c][j + 1] = Written(c) + (j + 1)
      BY <3>4 DEF QueueInv
    <3>3. Written(c) + 1 >= 0 /\ Written(c) \in Int
      BY <2>2 DEF Written, BaseType
    <3>5. j \in Nat /\ j >= 1
      BY <3>1, <3>4
    <3>6. Written(c) + (j + 1) # 0
      BY <3>3, <3>5
    <3> QED
      BY <3>1, <3>2, <3>6
  <2> HIDE DEF v, u, n
  <2>5. /\ Len(t) = Len(s) + k
        /\ \A i \in 1..Len(s) : t[i] = s[i]
        /\ \A i \in 1..k : t[Len(s) + i] = v[i]
    BY <1>1, <2>1, Joined
  <2>6. n = 0 => s = <<>> /\ stage[c] \in Opening
    BY <1>2, <2>2
  <2>7. ASSUME NEW i \in 1..Len(t)
        PROVE  /\ t[i].part = "request" => i = 1 /\ stage[c] \in Early
               /\ t[i].part = "blank" => i = 2 /\ stage[c] \in Early
               /\ t[i].of <= Len(sent[c])
    <3>1. CASE i \in 1..Len(s)
      BY <1>2, <2>5, <3>1
    <3>2. CASE i \notin 1..Len(s)
      <4> DEFINE j == i - Len(s)
      <4>1. j \in 1..k /\ i = Len(s) + j
        BY <1>1, <2>5, <3>2
      <4>2. t[i] = u[j] /\ j \in 1..Len(u)
        BY <2>1, <2>5, <4>1
      <4>3. t[i].of = n /\ (n # 0 => t[i].part \notin {"request", "blank"})
        BY <2>3, <4>2
      <4>4. CASE n = 0
        <5>1. i = j /\ stage[c] \in Early
          BY <2>6, <4>1, <4>4 DEF Opening, Early
        <5>2. j \in 1..2
          BY <2>3, <4>2, <4>4
        <5> QED
          BY <2>2, <2>3, <4>2, <4>3, <4>4, <5>1, <5>2
      <4>5. CASE n # 0
        BY <2>2, <4>3, <4>5
      <4> QED
        BY <4>4, <4>5
    <3> QED
      BY <3>1, <3>2
  <2> QED
    BY <1>3, <2>2, <2>4, <2>7
<1>9. ASSUME NEW w \in {wire[c], <<>>}, ClientEnds(c, w)
      PROVE  RequestInv(c)'
  <2>1. outq'[c] = <<>> /\ UNCHANGED <<sent, stage>>
    BY <1>9 DEF ClientEnds, BaseType
  <2>2. t = s \/ t = SubSeq(s, 1, Len(buf[c]))
    BY <1>9, EndsStream DEF s, t
  <2>3. Len(t) <= Len(s) /\ \A i \in 1..Len(t) : t[i] = s[i]
    <3>2. Len(buf[c]) \in 0..Len(s)
      BY FrontOfStream DEF s
    <3>3. CASE t = SubSeq(s, 1, Len(buf[c]))
      <4>1. Len(t) = Len(buf[c]) /\ \A i \in 1..Len(buf[c]) : t[i] = s[i]
        BY <1>1, <3>2, <3>3, Prefix
      <4> QED
        BY <3>2, <4>1
    <3> QED
      BY <1>1, <2>2, <3>3
  <2>4. Len(t) \in Nat
    BY <1>9, <1>1, <2>2, <2>3, Prefix DEF BaseType
  <2>5. \A i \in 1..Len(t) : i \in 1..Len(s)
    BY <1>1, <2>3, <2>4
  <2> QED
    BY <1>2, <1>3, <2>1, <2>3, <2>5
<1>10. CASE OnAccept(c)
  <2>1. stage'[c] = "reading" /\ UNCHANGED <<sent, outq, buf, wire>>
    BY <1>10 DEF OnAccept, client, BaseType
  <2> QED
    BY <1>5, <2>1, StreamKept DEF s, t, Opening, Early
<1>11. ASSUME NEW n \in 1..Len(wire[c]), OnHandshakeRead(c, n)
       PROVE  RequestInv(c)'
  <2>1. UNCHANGED <<sent, outq>>
    BY <1>11 DEF OnHandshakeRead, Reads
  <2>2. CASE t = s /\ UNCHANGED stage
    BY <1>4, <2>1, <2>2
  <2>3. ASSUME NEW i \in 1..Len(s), s[i].part = "blank", t = SubSeq(s, i + 1, Len(s))
        PROVE  RequestInv(c)'
    <3>1. i = 2 /\ Len(s) # 0
      BY <1>2, <2>3
    <3>2. Len(t) = Len(s) - 2 /\ \A j \in 1..(Len(s) - 2) : t[j] = s[2 + j]
      <4>1. 2 \in 0..Len(s)
        BY <1>1, <3>1
      <4> QED
        BY <1>1, <2>3, <3>1, <4>1, Suffix
    <3>3. \A j \in 1..Len(t) : j + 2 \in 1..Len(s) /\ t[j] = s[j + 2]
      BY <1>1, <3>2
    <3>4. \A j \in 1..Len(t) : t[j].part \notin {"request", "blank"} /\ t[j].of <= Len(sent[c])
      BY <1>2, <3>3
    <3>5. \A j \in 1..Len(outq[c]) : outq[c][j] # 0
      BY <1>2, <3>1
    <3> QED
      BY <1>3, <2>1, <3>4, <3>5
  <2> QED
    BY <1>11, <2>2, <2>3, HandshakeStream DEF s, t
<1>12. CASE HandshakeFails(c)
  <2>1. stage'[c] = "gone" /\ UNCHANGED <<sent, outq, buf, wire>> /\ ended[c]
    BY <1>12 DEF HandshakeFails, Ended, client, BaseType
  <2>2. outq[c] = <<>>
    BY <2>1 DEF QueueInv
  <2> QED
    BY <1>5, <2>1, <2>2, StreamKept DEF s, t, Early
<1>13. CASE OnHandshakeWritten(c) \/ Waits(c)
  <2>1. UNCHANGED <<sent, outq, stage, buf, wire>>
    BY <1>13 DEF OnHandshakeWritten, Waits, client
  <2> QED
    BY <1>4, <2>1, StreamKept DEF s, t
<1>14. CASE ParseFrame(c)
  <2>1. UNCHANGED <<sent, outq, stage>> /\ stage[c] \in {"writing", "open"}
    BY <1>14, HubAssumption DEF ParseFrame, client, TablesInv, Idle
  <2>2. PICK k \in 1..Len(buf[c]) : t = SubSeq(s, k + 1, Len(s))
    BY <1>14, ParseStream DEF s, t
  <2>3. k \in 0..Len(s)
    <3>1. Len(buf[c]) \in 0..Len(s)
      BY FrontOfStream DEF s
    <3> QED
      BY <1>1, <3>1
  <2>4. Len(t) = Len(s) - k /\ \A j \in 1..(Len(s) - k) : t[j] = s[k + j]
    BY <1>1, <2>2, <2>3, Suffix
  <2>5. \A j \in 1..Len(t) : k + j \in 1..Len(s) /\ t[j] = s[k + j]
    BY <1>1, <2>3, <2>4
  <2>6. \A j \in 1..Len(t) : t[j].part \notin {"request", "blank"} /\ t[j].of <= Len(sent[c])
    BY <1>2, <2>1, <2>5 DEF Early
  <2>7. \A j \in 1..Len(outq[c]) : outq[c][j] # 0
    BY <1>2, <2>1 DEF Opening
  <2> QED
    BY <1>3, <2>1, <2>6, <2>7
<1>15. CASE Entered(c)
  <2>1. stage[c] = "writing" /\ UNCHANGED <<sent, outq, buf, wire>>
    BY <1>15 DEF Entered, client
  <2> QED
    BY <1>5, <2>1, StreamKept DEF s, t, Opening, Early
<1>16. ASSUME NEW n \in 1..Len(wire[c]), OnRead(c, n)
       PROVE  RequestInv(c)'
  <2>1. UNCHANGED <<sent, outq, stage>>
    BY <1>16 DEF OnRead, Reads
  <2> QED
    BY <1>4, <1>16, <2>1, ReadStream DEF s, t
<1>17. CASE OnClientClosed(c)
  <2>1. stage[c] = "open" /\ stage'[c] = "gone" /\ UNCHANGED <<sent, outq, buf, wire>>
    BY <1>17 DEF OnClientClosed, client, BaseType
  <2> QED
    BY <1>5, <2>1, StreamKept DEF s, t, Opening, Early
<1> QED
  BY <1>6, <1>7, <1>8, <1>9, <1>10, <1>11, <1>12, <1>13, <1>14, <1>15, <1>16, <1>17 DEF Steps

(* The streams of the other clients are not touched. *)
LEMMA StreamsKept ==
  ASSUME Inv, NEW c \in Conns, Steps(c)
  PROVE  StreamsInv'
<1>1. QueueInv(c)' /\ RequestInv(c)'
  BY QueueKept, RequestKept DEF Inv, StreamsInv
<1>2. ASSUME NEW d \in Conns, d # c
      PROVE  QueueInv(d)' /\ RequestInv(d)'
  <2>1. Kept(d)
    BY <1>2, OthersKept DEF Inv
  <2>2. QueueInv(d) /\ RequestInv(d)
    BY DEF Inv, StreamsInv
  <2>3. Stream(d)' = Stream(d) /\ Written(d)' = Written(d)
    BY <2>1 DEF Kept, Stream, Written
  <2>4. QueueInv(d)'
    BY <2>1, <2>2, <2>3 DEF Kept, QueueInv
  <2>5. RequestInv(d)'
    BY <2>1, <2>2, <2>3 DEF Kept, RequestInv
  <2> QED
    BY <2>4, <2>5
<1> QED
  BY <1>1, <1>2 DEF StreamsInv

LEMMA InitInv == Init => Inv
<1> SUFFICES ASSUME Init
             PROVE  Inv
  OBVIOUS
<1> USE DEF Init
<1>1. BaseType
  <2>1. <<None>> \in Seq(Conns \cup {None})
    OBVIOUS
  <2>2. /\ sent \in [Conns -> Seq(Frames)] /\ outq \in [Conns -> Seq(Nat)]
        /\ wire \in [Conns -> Seq(AnyUnit)] /\ buf \in [Conns -> Seq(AnyUnit)]
        /\ got \in [Conns -> Seq(FrameUnit)]
    BY EmptySeq
  <2> QED
    BY <2>1, <2>2 DEF BaseType
<1>2. TablesInv
  BY DEF TablesInv, Idle
<1>3. AcceptFillsLast
  <2>1. Len(pending) = 1 /\ pending[1] = None /\ DOMAIN pending = 1..1 /\ pending # <<>>
    OBVIOUS
  <2>2. \A i \in DOMAIN pending : pending[i] = None
    BY <2>1
  <2>3. \A i, j \in DOMAIN pending : i = j
    BY <2>1
  <2>4. \A c \in Conns : stage[c] \notin {"reading", "writing"} /\ c # None
    BY HubAssumption
  <2> HIDE DEF Init
  <2> QED
    BY <2>1, <2>2, <2>3, <2>4 DEF AcceptFillsLast
<1>4. ASSUME NEW c \in Conns
      PROVE  QueueInv(c) /\ RequestInv(c)
  <2>1. /\ sent[c] = <<>> /\ outq[c] = <<>> /\ buf[c] = <<>> /\ wire[c] = <<>> /\ got[c] = <<>>
        /\ ~ended[c]
    OBVIOUS
  <2>2. Stream(c) = <<>>
    BY <2>1 DEF Stream
  <2> HIDE DEF Init
  <2> QED
    BY <2>1, <2>2 DEF QueueInv, RequestInv
<1> QED
  BY <1>1, <1>2, <1>3, <1>4 DEF Inv, StreamsInv

LEMMA NextInv == Inv /\ [Next]_vars => Inv'
<1> SUFFICES ASSUME Inv, [Next]_vars
             PROVE  Inv'
  OBVIOUS
<1>1. CASE Next
  <2>1. PICK c \in Conns : Steps(c)
    BY <1>1, NextSteps
  <2>2. BaseType'
    BY <2>1, TypesKept DEF Inv
  <2>3. TablesInv' /\ AcceptFillsLast'
    BY <2>1, <2>2, TablesKept, SlotsKept DEF Inv
  <2> QED
    BY <2>1, <2>2, <2>3, StreamsKept DEF Inv
<1>2. CASE UNCHANGED vars
  <2>1. /\ UNCHANGED <<sent, outq, wire, ended, torn, stage, pending, buf, parsing>>
        /\ UNCHANGED <<clients, ports, got, answered>>
    BY <1>2 DEF vars, client, tables
  <2>2. BaseType'
    BY <2>1 DEF Inv, BaseType
  <2>3. TablesInv' /\ AcceptFillsLast'
    BY <2>1 DEF Inv, TablesInv, AcceptFillsLast, Idle
  <2>4. ASSUME NEW c \in Conns
        PROVE  QueueInv(c)' /\ RequestInv(c)'
    <3>1. Stream(c)' = Stream(c) /\ Written(c)' = Written(c)
      BY <2>1 DEF Stream, Written
    <3>2. QueueInv(c) /\ RequestInv(c)
      BY DEF Inv, StreamsInv
    <3> QED
      BY <2>1, <3>1, <3>2 DEF QueueInv, RequestInv
  <2> QED
    BY <2>2, <2>3, <2>4 DEF Inv, StreamsInv
<1> QED
  BY <1>1, <1>2

LEMMA Invariance == Spec => []Inv
BY InitInv, NextInv, PTL DEF Spec

(* A connection holds nothing but bytes of frames: the handshake ends with *)
(* the blank line of the request, whatever came behind it in the same read *)
(* (ws_hub.cc:126).                                                        *)
THEOREM TypeCorrect == Spec => []TypeOK
<1>1. Inv => TypeOK
  <2> SUFFICES ASSUME Inv
               PROVE  TypeOK
    OBVIOUS
  <2>1. BaseType
    BY DEF Inv
  <2>2. ASSUME NEW c \in Conns, stage[c] \in {"writing", "open", "dead"}
        PROVE  buf[c] \in Seq(FrameUnit)
    <3>1. buf[c] \in Seq(AnyUnit)
      BY <2>1 DEF BaseType
    <3>2. Len(buf[c]) \in Nat /\ Len(buf[c]) \in 0..Len(Stream(c)) /\ Len(Stream(c)) \in Nat
      BY <2>1, <3>1, FrontOfStream
    <3>3. \A i \in 1..Len(buf[c]) : i \in 1..Len(Stream(c)) /\ Stream(c)[i] = buf[c][i]
      <4>1. \A i \in 1..Len(buf[c]) : Stream(c)[i] = buf[c][i]
        BY <2>1, StreamType
      <4>2. \A i \in 1..Len(buf[c]) : i \in 1..Len(Stream(c))
        BY <3>2
      <4> QED
        BY <4>1, <4>2
    <3>4. \A i \in 1..Len(buf[c]) : buf[c][i].part \notin {"request", "blank"}
      BY <2>2, <3>3 DEF Inv, StreamsInv, RequestInv, Early
    <3>5. \A i \in 1..Len(buf[c]) : buf[c][i] \in AnyUnit
      BY <3>1
    <3>6. \A i \in 1..Len(buf[c]) : buf[c][i] \in FrameUnit
      BY <3>4, <3>5, PartTypes
    <3> QED
      BY <3>1, <3>6
  <2> QED
    BY <2>1, <2>2 DEF TypeOK, BaseType, AnyUnit
<1> QED
  BY <1>1, Invariance, PTL

(* Any number of handshakes may run: the next accept fills the last slot,  *)
(* and each handshake has a slot of its own.                               *)
THEOREM SlotIsLast == Spec => []AcceptFillsLast
<1>1. Inv => AcceptFillsLast
  BY DEF Inv
<1> QED
  BY <1>1, Invariance, PTL

(* The table of the hub and that of the daemon agree between callbacks.    *)
THEOREM TablesAlike == Spec => []TablesAgree
<1>1. Inv => TablesAgree
  BY DEF Inv, TablesInv, TablesAgree
<1> QED
  BY <1>1, Invariance, PTL

-----------------------------------------------------------------------------
(* Whole frames: what holds while writes are not cut off                   *)

(* The first units of a stream that begins with frame m. *)
StartsWith(c, s, m) ==
  /\ Len(s) >= 1 => s[1] = Unit(m, "b0")
  /\ Len(s) >= 2 => s[2] = Unit(m, "b1")
  /\ Len(s) >= 3 => s[3] = Unit(m, IF sent[c][m] = "long" THEN "len" ELSE "mask")
  /\ Len(s) >= 4 => s[4] = Unit(m, IF sent[c][m] = "long" THEN "mask" ELSE "payload")
  /\ sent[c][m] = "long" /\ Len(s) >= 5 => s[5] = Unit(m, "payload")

LEMMA FrontUnits ==
  ASSUME BaseType, NEW c \in Conns, Begins(c), GoesOn(c), stage[c] \notin Opening
  PROVE  StartsWith(c, Stream(c), Len(got[c]) + 1)
<1> DEFINE s == Stream(c)
           m == Len(got[c]) + 1
<1>1. Len(s) \in Nat /\ s \in Seq(AnyUnit)
  BY FrontOfStream, StreamType
<1>2. \A i \in Nat : i >= 1 /\ i + 1 <= Len(s) => s[i + 1] = After(c, s[i])
  <2>1. \A i \in 1..(Len(s) - 1) : s[i + 1] = After(c, s[i])
    BY DEF GoesOn
  <2> HIDE DEF s
  <2> QED
    BY <1>1, <2>1
<1>3. s # <<>> => s[1] = Unit(m, "b0")
  BY DEF Begins
<1> HIDE DEF s, m
<1>4. Len(s) >= 1 => s[1] = Unit(m, "b0")
  BY <1>1, <1>3
<1>5. /\ After(c, Unit(m, "b0")) = Unit(m, "b1")
      /\ After(c, Unit(m, "b1")) = Unit(m, IF sent[c][m] = "long" THEN "len" ELSE "mask")
      /\ After(c, Unit(m, "len")) = Unit(m, "mask")
      /\ After(c, Unit(m, "mask")) = Unit(m, "payload")
  BY DEF After, Unit
<1>6. Len(s) >= 2 => s[2] = Unit(m, "b1")
  BY <1>1, <1>2, <1>4, <1>5, 1 + 1 = 2
<1>7. Len(s) >= 3 => s[3] = Unit(m, IF sent[c][m] = "long" THEN "len" ELSE "mask")
  BY <1>1, <1>2, <1>5, <1>6, 2 + 1 = 3
<1>8. Len(s) >= 4 => s[4] = Unit(m, IF sent[c][m] = "long" THEN "mask" ELSE "payload")
  BY <1>1, <1>2, <1>5, <1>7, 3 + 1 = 4
<1>9. sent[c][m] = "long" /\ Len(s) >= 5 => s[5] = Unit(m, "payload")
  BY <1>1, <1>2, <1>5, <1>8, 4 + 1 = 5
<1>10. StartsWith(c, s, m)
  BY <1>4, <1>6, <1>7, <1>8, <1>9 DEF StartsWith
<1> QED
  BY <1>10 DEF s, m

(* The parser is in step, and its frame is the one that is handed on next. *)
LEMMA FrontOfBuffer ==
  ASSUME BaseType, NEW c \in Conns, Begins(c), GoesOn(c), stage[c] \notin Opening
  PROVE  /\ InStep(buf[c])
         /\ Len(buf[c]) >= 2 => buf[c][2] = Unit(Len(got[c]) + 1, "b1")
         /\ PayloadAt(c) # 0 =>
              /\ PayloadAt(c) \in 1..Len(buf[c])
              /\ buf[c][PayloadAt(c)] = Unit(Len(got[c]) + 1, "payload")
              /\ \A i \in 1..PayloadAt(c) : Stream(c)[i].of = Len(got[c]) + 1
<1> DEFINE s == Stream(c)
           q == buf[c]
           m == Len(got[c]) + 1
           at == PayloadAt(c)
<1>1. Len(q) \in 0..Len(s) /\ Len(s) \in Nat
  BY FrontOfStream
<1>2. \A i \in 1..Len(q) : s[i] = q[i]
  BY StreamType
<1>3. StartsWith(c, s, m)
  BY FrontUnits
<1>4. /\ at \in Nat /\ at <= Len(q)
      /\ at # 0 => Len(q) >= 2 /\ at = IF sent[c][q[2].of] = "long" THEN 5 ELSE 4
  BY PayloadPlace
<1> HIDE DEF s, q, m, at
<1>5. /\ Len(q) >= 1 => q[1] = Unit(m, "b0")
      /\ Len(q) >= 2 => q[2] = Unit(m, "b1")
  BY <1>1, <1>2, <1>3 DEF StartsWith
<1>6. InStep(q)
  BY <1>5 DEF InStep, Unit
<1>7. ASSUME at # 0
      PROVE  /\ at \in 1..Len(q) /\ q[at] = Unit(m, "payload")
             /\ \A i \in 1..at : s[i].of = m
  <2>1. q[2].of = m /\ at = IF sent[c][m] = "long" THEN 5 ELSE 4
    BY <1>4, <1>5, <1>7 DEF Unit
  <2>2. at \in 1..Len(q) /\ Len(s) >= at
    BY <1>1, <1>4, <1>7
  <2>3. s[at] = Unit(m, "payload")
    BY <1>3, <2>1, <2>2 DEF StartsWith
  <2>4. \A i \in 1..at : \E p \in {"b0", "b1", "len", "mask", "payload"} : s[i] = Unit(m, p)
    <3>1. CASE sent[c][m] = "long"
      BY <1>3, <2>1, <2>2, <3>1 DEF StartsWith
    <3>2. CASE sent[c][m] # "long"
      BY <1>3, <2>1, <2>2, <3>2 DEF StartsWith
    <3> QED
      BY <3>1, <3>2
  <2>5. \A i \in 1..at : s[i].of = m
    BY <2>4 DEF Unit
  <2> QED
    BY <1>2, <2>2, <2>3, <2>5
<1> QED
  BY <1>5, <1>6, <1>7 DEF s, q, m, at

(* The units of a frame follow each other up to its last one. *)
LEMMA UnitsFollow ==
  ASSUME NEW c \in Conns, NEW n \in Nat
  PROVE  LET u == Units(c, n) IN
         /\ \A i \in 1..(Len(u) - 1) : u[i + 1] = After(c, u[i])
         /\ u[1] = IF n = 0 THEN Unit(0, "request") ELSE Unit(n, "b0")
         /\ u[Len(u)] = LastOf(n)
<1> DEFINE u == Units(c, n)
<1>1. CASE n = 0
  <2>1. Len(u) = 2 /\ u[1] = Unit(0, "request") /\ u[2] = Unit(0, "blank")
    BY <1>1, UnitsOfRequest
  <2>2. \A i \in 1..(Len(u) - 1) : i = 1
    BY <2>1
  <2> HIDE DEF u
  <2>3. \A i \in 1..(Len(u) - 1) : u[i + 1] = After(c, u[i])
    BY <2>1, <2>2, 1 + 1 = 2 DEF After, Unit
  <2> QED
    BY <1>1, <2>1, <2>3 DEF LastOf, u
<1>2. CASE n # 0 /\ sent[c][n] = "long"
  <2>1. /\ Len(u) = 5 /\ u[1] = Unit(n, "b0") /\ u[2] = Unit(n, "b1") /\ u[3] = Unit(n, "len")
        /\ u[4] = Unit(n, "mask") /\ u[5] = Unit(n, "payload")
    BY <1>2, UnitsOfLong
  <2>2. \A i \in 1..(Len(u) - 1) : i \in {1, 2, 3, 4}
    BY <2>1
  <2> HIDE DEF u
  <2>3. u[1 + 1] = After(c, u[1]) /\ u[2 + 1] = After(c, u[2]) /\ u[3 + 1] = After(c, u[3]) /\ u[4 + 1] = After(c, u[4])
    BY <1>2, <2>1 DEF After, Unit
  <2> QED
    BY <1>2, <2>1, <2>2, <2>3 DEF LastOf, u
<1>3. CASE n # 0 /\ sent[c][n] # "long"
  <2>1. /\ Len(u) = 4 /\ u[1] = Unit(n, "b0") /\ u[2] = Unit(n, "b1")
        /\ u[3] = Unit(n, "mask") /\ u[4] = Unit(n, "payload")
    BY <1>3, UnitsOfShort
  <2>2. \A i \in 1..(Len(u) - 1) : i \in {1, 2, 3}
    BY <2>1
  <2> HIDE DEF u
  <2>3. u[1 + 1] = After(c, u[1]) /\ u[2 + 1] = After(c, u[2]) /\ u[3 + 1] = After(c, u[3])
    BY <1>3, <2>1 DEF After, Unit
  <2> QED
    BY <1>3, <2>1, <2>2, <2>3 DEF LastOf, u
<1> QED
  BY <1>1, <1>2, <1>3

(* What is behind a part of the stream goes on as the stream did.          *)
LEMMA RestGoesOn ==
  ASSUME BaseType, NEW c \in Conns, NEW k \in 0..Len(Stream(c)), GoesOn(c), UNCHANGED sent,
         Stream(c)' = SubSeq(Stream(c), k + 1, Len(Stream(c)))
  PROVE  /\ GoesOn(c)'
         /\ Len(Stream(c)') = Len(Stream(c)) - k /\ Stream(c)' \in Seq(AnyUnit)
         /\ \A i \in 1..(Len(Stream(c)) - k) : Stream(c)'[i] = Stream(c)[k + i]
<1> DEFINE s == Stream(c)
           t == Stream(c)'
<1>1. s \in Seq(AnyUnit) /\ k \in 0..Len(s) /\ t = SubSeq(s, k + 1, Len(s)) /\ Len(s) \in Nat
  BY StreamType, FrontOfStream
<1>2. \A i \in 1..(Len(s) - 1) : s[i + 1] = After(c, s[i])
  BY DEF GoesOn
<1> HIDE DEF s, t
<1>4. /\ t \in Seq(AnyUnit) /\ Len(t) = Len(s) - k
      /\ \A i \in 1..(Len(s) - k) : t[i] = s[k + i]
  BY <1>1, Suffix
<1>5. ASSUME NEW i \in 1..(Len(t) - 1)
      PROVE  t[i + 1] = After(c, t[i])
  <2>1. /\ i \in 1..(Len(s) - k) /\ i + 1 \in 1..(Len(s) - k)
        /\ k + i \in 1..(Len(s) - 1) /\ k + (i + 1) = (k + i) + 1
    BY <1>1, <1>4
  <2>2. t[i] = s[k + i] /\ t[i + 1] = s[(k + i) + 1]
    BY <1>4, <2>1
  <2> QED
    BY <1>2, <2>1, <2>2
<1>6. GoesOn(c)'
  BY <1>5 DEF GoesOn, After, t
<1> QED
  BY <1>4, <1>6 DEF s, t

(* Steps that leave the frames of their client where they are. *)
LEMMA FramesSame ==
  ASSUME NEW c \in Conns, FramesInv(c), Stream(c)' = Stream(c),
         UNCHANGED <<sent, outq, got, ended>>,
         stage'[c] \in Live => stage[c] \in Live,
         stage'[c] \in Live => (stage'[c] \in Opening <=> stage[c] \in Opening),
         parsing' # c /\ stage'[c] = "open" => PayloadAt(c)' = 0
  PROVE  FramesInv(c)'
<1>1. Written(c)' = Written(c)
  BY DEF Written
<1>2. stage'[c] \in Opening => got[c] = <<>>
  BY DEF FramesInv, Live, Opening
<1>3. ASSUME stage'[c] \in Live
      PROVE  Begins(c)' /\ GoesOn(c)' /\ Ends(c)' /\ Holds(c)'
  <2>1. Begins(c) /\ GoesOn(c) /\ Ends(c) /\ Holds(c)
    BY <1>3 DEF FramesInv
  <2>2. Begins(c)' /\ Ends(c)'
    BY <1>1, <1>3, <2>1 DEF Begins, Ends
  <2>3. GoesOn(c)'
    BY <2>1 DEF GoesOn, After
  <2>4. Holds(c)'
    BY <1>1, <2>1 DEF Holds
  <2> QED
    BY <2>2, <2>3, <2>4
<1> QED
  BY <1>2, <1>3 DEF FramesInv

LEMMA SendFrames ==
  ASSUME Inv, NEW c \in Conns, FramesInv(c), NEW f \in Frames, SendText(c, f)
  PROVE  FramesInv(c)'
<1> DEFINE s == Stream(c)
<1>1. UNCHANGED <<stage, buf, wire, got, ended, parsing>>
  BY DEF SendText
<1>2. Stream(c)' = s
  BY <1>1, StreamKept
<1>3. BaseType /\ QueueInv(c) /\ RequestInv(c)
  BY DEF Inv, StreamsInv
<1>4. /\ Len(sent'[c]) = Len(sent[c]) + 1 /\ Len(sent[c]) \in Nat /\ Len(outq[c]) \in Nat
      /\ \A n \in 1..Len(sent[c]) : sent'[c][n] = sent[c][n]
      /\ Written(c)' = Written(c) /\ Len(got[c]) \in Nat
  <2>1. /\ Len(sent'[c]) = Len(sent[c]) + 1 /\ Written(c)' = Written(c)
        /\ \A n \in 1..Len(sent[c]) : sent'[c][n] = sent[c][n]
    BY <1>3, SendQueue
  <2>2. Len(sent[c]) \in Nat /\ Len(outq[c]) \in Nat /\ Len(got[c]) \in Nat
    BY <1>3 DEF BaseType
  <2> QED
    BY <2>1, <2>2
<1>5. \A i \in 1..Len(s) : /\ s[i].of \in Nat /\ s[i].of <= Len(sent[c])
                           /\ s[i].part \notin {"request", "blank"} => s[i].of \in 1..Len(sent[c])
  <2>1. s \in Seq(AnyUnit)
    BY <1>3, StreamType
  <2>2. \A i \in 1..Len(s) : s[i].of <= Len(sent[c])
    BY <1>3 DEF RequestInv
  <2> HIDE DEF s
  <2> SUFFICES ASSUME NEW i \in 1..Len(s)
               PROVE  /\ s[i].of \in Nat /\ s[i].of <= Len(sent[c])
                      /\ s[i].part \notin {"request", "blank"} => s[i].of \in 1..Len(sent[c])
    OBVIOUS
  <2>3. s[i] \in AnyUnit
    BY <2>1
  <2>4. s[i].of \in Nat /\ (s[i].part \notin {"request", "blank"} => s[i].of # 0)
    BY <2>3, PartTypes
  <2>5. s[i].of <= Len(sent[c])
    BY <2>2
  <2> QED
    BY <1>4, <2>4, <2>5
<1>6. /\ \A i \in 1..Len(got'[c]) : got'[c][i] = Unit(i, "payload")
      /\ Len(got'[c]) <= Len(sent'[c])
      /\ stage'[c] \in Opening => got'[c] = <<>>
  <2>1. Len(got[c]) <= Len(sent[c])
    BY DEF FramesInv
  <2>2. Len(got[c]) <= Len(sent[c]) + 1
    BY <1>4, <2>1
  <2> QED
    BY <1>1, <1>4, <2>2 DEF FramesInv
<1>7. ASSUME stage'[c] \in Live
      PROVE  Begins(c)' /\ GoesOn(c)' /\ Ends(c)' /\ Holds(c)'
  <2>1. Begins(c) /\ GoesOn(c) /\ Ends(c) /\ Holds(c)
    BY <1>1, <1>7 DEF FramesInv
  <2>2. Begins(c)'
    BY <1>1, <1>2, <2>1 DEF Begins
  <2>3. GoesOn(c)'
    <3>1. ASSUME NEW i \in 1..(Len(s) - 1)
          PROVE  s[i + 1] = After(c, s[i])'
      <4>1. i \in 1..Len(s)
        BY <1>3, FrontOfStream
      <4>2. s[i].part = "b1" => sent'[c][s[i].of] = sent[c][s[i].of]
        BY <1>4, <1>5, <4>1
      <4>3. s[i + 1] = After(c, s[i])
        BY <2>1 DEF GoesOn
      <4>4. Stream(c)'[i] = s[i]
        BY <1>2
      <4> QED
        BY <1>2, <4>2, <4>3, <4>4 DEF After
    <3> QED
      BY <1>2, <3>1 DEF GoesOn
  <2>4. Written(c) \in Int /\ Written(c) <= Len(sent[c])
    <3>1. \A a, b \in Nat : a - b \in Int /\ a - b <= a
      OBVIOUS
    <3> QED
      BY <1>4, <3>1 DEF Written
  <2>5. Ends(c)'
    <3>1. Written(c) = Len(got[c]) + 1 => sent'[c][Written(c)] = sent[c][Written(c)]
      <4> DEFINE n == Written(c)
      <4>1. n = Len(got[c]) + 1 => n \in 1..Len(sent[c])
        BY <1>4, <2>4
      <4> HIDE DEF n
      <4> QED
        BY <1>4, <4>1 DEF n
    <3> QED
      BY <1>1, <1>2, <1>4, <2>1, <3>1 DEF Ends
  <2>6. Holds(c)'
    <3>1. \A n \in (Len(got[c]) + 1)..Written(c) : n \in 1..Len(sent[c])
      BY <1>4, <2>4
    <3>2. \A n \in (Len(got[c]) + 1)..Written(c) : sent'[c][n] = sent[c][n]
      BY <1>4, <3>1
    <3> QED
      BY <1>1, <1>2, <1>4, <2>1, <3>2 DEF Holds
  <2> QED
    BY <2>2, <2>3, <2>5, <2>6
<1>8. ASSUME parsing' # c, stage'[c] = "open"
      PROVE  PayloadAt(c)' = 0
  <2>1. PayloadAt(c) = 0
    BY <1>1, <1>8 DEF FramesInv
  <2>2. Len(buf[c]) >= 2 => sent'[c][buf[c][2].of] = sent[c][buf[c][2].of]
    <3>1. Len(buf[c]) \in 0..Len(s)
      BY <1>3, FrontOfStream
    <3>2. \A i \in 1..Len(buf[c]) : s[i] = buf[c][i]
      BY <1>3, StreamType
    <3>3. Len(buf[c]) >= 2 => 2 \in 1..Len(s) /\ s[2] = buf[c][2]
      BY <1>3, <3>1, <3>2, FrontOfStream
    <3>4. \A i \in 1..Len(s) : s[i].part \notin {"request", "blank"}
      BY <1>1, <1>3, <1>8 DEF RequestInv, Early
    <3> QED
      BY <1>4, <1>5, <3>3, <3>4
  <2>3. buf'[c] = buf[c]
    BY <1>1
  <2> QED
    BY <2>1, <2>2, <2>3 DEF PayloadAt, Parts
<1> QED
  BY <1>6, <1>7, <1>8 DEF FramesInv

(* A whole frame is written behind the one before. *)
LEMMA WriteFrames ==
  ASSUME Inv, NEW c \in Conns, c \notin torn', FramesInv(c), NEW k \in 1..5, OnWrite(c, k)
  PROVE  FramesInv(c)'
<1> DEFINE s == Stream(c)
           t == Stream(c)'
           n == Head(outq[c])
           u == Units(c, n)
           W == Written(c)
<1>1. BaseType /\ QueueInv(c) /\ RequestInv(c)
  BY DEF Inv, StreamsInv
<1>2. UNCHANGED <<sent, ended, stage, got, parsing, buf>> /\ ~ended[c]
  BY <1>1, WriteQueue
<1>3. /\ n = W + 1 /\ n \in 0..Len(sent[c]) /\ n = outq[c][1] /\ 1 \in 1..Len(outq[c])
      /\ Written(c)' = n
  <2>1. Len(outq[c]) \in Nat
    BY <1>1 DEF BaseType
  <2> QED
    BY <1>1, <2>1, WriteQueue
<1>4. k = Len(u)
  <2>1. k \in 1..Len(u) /\ ~(k < Len(u))
    BY DEF OnWrite
  <2>2. Len(u) \in Nat
    BY <1>3, UnitsType
  <2> HIDE DEF u
  <2> QED
    BY <2>1, <2>2
<1>5. u \in Seq(AnyUnit) /\ t = s \o SubSeq(u, 1, k) /\ k >= 1
  <2>1. u \in Seq(AnyUnit)
    BY <1>3, UnitsType
  <2>2. t = s \o SubSeq(u, 1, k)
    BY <1>1, WriteStream
  <2> QED
    BY <2>1, <2>2, k >= 1
<1>6. /\ \A i \in 1..(Len(u) - 1) : u[i + 1] = After(c, u[i])
      /\ u[1] = IF n = 0 THEN Unit(0, "request") ELSE Unit(n, "b0")
      /\ u[Len(u)] = LastOf(n)
  <2>1. n \in Nat
    <3>1. Len(sent[c]) \in Nat
      BY <1>1 DEF BaseType
    <3> QED
      BY <1>3, <3>1
  <2> HIDE DEF n
  <2> QED
    BY <2>1, UnitsFollow
<1>7. s \in Seq(AnyUnit) /\ Len(sent[c]) \in Nat /\ Len(got[c]) \in Nat /\ W \in Int
  <2>1. Len(sent[c]) \in Nat /\ Len(got[c]) \in Nat /\ Len(outq[c]) \in Nat
    BY <1>1 DEF BaseType
  <2>2. W \in Int
    BY <2>1 DEF Written
  <2> QED
    BY <1>1, <2>1, <2>2, StreamType
<1>8. n = 0 => s = <<>>
  BY <1>1, <1>3 DEF RequestInv
<1> HIDE DEF s, t, n, u, W
<1>9. /\ Len(t) = Len(s) + k /\ t \in Seq(AnyUnit)
      /\ \A i \in 1..Len(s) : t[i] = s[i]
      /\ \A i \in 1..k : t[Len(s) + i] = u[i]
  <2>1. SubSeq(u, 1, k) = u
    BY <1>4, <1>5, SubSeqFull
  <2> QED
    BY <1>4, <1>5, <1>7, <2>1, Joined
<1>10. Len(s) \in Nat /\ k \in Nat
  BY <1>7
<1>11. ASSUME stage[c] \in Live
       PROVE  Begins(c)' /\ GoesOn(c)' /\ Ends(c)' /\ Holds(c)'
  <2>1. Begins(c) /\ GoesOn(c) /\ Ends(c) /\ Holds(c)
    BY <1>11 DEF FramesInv
  <2>2. /\ s # <<>> => s[1] = IF stage[c] \in Opening THEN Unit(0, "request") ELSE Unit(Len(got[c]) + 1, "b0")
        /\ \A i \in 1..(Len(s) - 1) : s[i + 1] = After(c, s[i])
        /\ IF s # <<>> THEN s[Len(s)] = LastOf(W)
           ELSE IF stage[c] \in Opening THEN W = -1
           ELSE \/ W = Len(got[c])
                \/ W = Len(got[c]) + 1 /\ sent[c][W] = "close"
    BY <1>2, <2>1 DEF Begins, GoesOn, Ends, s, W
  <2>3. W # Len(got[c]) + 1 \/ sent[c][W] # "close"
    <3>1. ASSUME W = Len(got[c]) + 1, sent[c][W] = "close"
          PROVE  FALSE
      <4>1. W \in 1..Len(sent[c])
        BY <1>3, <1>7, <3>1
      <4>2. W = Len(sent[c])
        BY <1>1, <3>1, <4>1 DEF QueueInv
      <4> QED
        BY <1>3, <1>7, <4>2
    <3> QED
      BY <3>1
  <2>4. t[1] = IF stage[c] \in Opening THEN Unit(0, "request") ELSE Unit(Len(got[c]) + 1, "b0")
    <3>1. CASE s # <<>>
      <4>1. 1 \in 1..Len(s)
        BY <1>7, <3>1
      <4> QED
        BY <1>9, <2>2, <3>1, <4>1
    <3>2. CASE s = <<>>
      <4>1. Len(s) = 0 /\ 1 \in 1..k
        BY <1>5, <1>10, <3>2
      <4>2. t[1] = u[1]
        BY <1>9, <4>1, 0 + 1 = 1
      <4>3. CASE stage[c] \in Opening
        <5>1. n = 0
          BY <1>3, <2>2, <3>2, <4>3
        <5> QED
          BY <1>6, <4>2, <4>3, <5>1
      <4>4. CASE stage[c] \notin Opening
        <5>1. n = Len(got[c]) + 1 /\ n # 0
          BY <1>3, <1>7, <2>2, <2>3, <3>2, <4>4
        <5> QED
          BY <1>6, <4>2, <4>4, <5>1
      <4> QED
        BY <4>3, <4>4
    <3> QED
      BY <3>1, <3>2
  <2>5. ASSUME NEW i \in 1..(Len(t) - 1)
        PROVE  t[i + 1] = After(c, t[i])
    <3>1. CASE i < Len(s)
      <4>1. i \in 1..(Len(s) - 1) /\ i \in 1..Len(s) /\ i + 1 \in 1..Len(s)
        BY <1>10, <3>1
      <4> QED
        BY <1>9, <2>2, <4>1
    <3>2. CASE i = Len(s)
      <4>1. s # <<>> /\ i \in 1..Len(s) /\ 1 \in 1..k
        BY <1>5, <1>10, <3>2
      <4>2. t[i + 1] = u[1] /\ t[i] = LastOf(W)
        BY <1>9, <2>2, <3>2, <4>1
      <4>3. n # 0 /\ u[1] = Unit(n, "b0")
        BY <1>6, <1>8, <4>1
      <4>4. After(c, LastOf(W)) = Unit(W + 1, "b0")
        BY DEF After, LastOf, Unit
      <4> QED
        BY <1>3, <4>2, <4>3, <4>4
    <3>3. CASE i > Len(s)
      <4> DEFINE j == i - Len(s)
      <4>1. j \in 1..(k - 1) /\ j \in 1..k /\ j + 1 \in 1..k
        BY <1>9, <1>10, <3>3
      <4>2. Len(s) + j = i /\ Len(s) + (j + 1) = i + 1
        BY <1>10, <3>3
      <4>3. t[i] = u[j] /\ t[i + 1] = u[j + 1]
        BY <1>9, <4>1, <4>2
      <4> QED
        BY <1>4, <1>6, <4>1, <4>3
    <3> QED
      BY <1>10, <3>1, <3>2, <3>3
  <2>6. t # <<>> /\ t[Len(t)] = LastOf(n)
    <3>1. k \in 1..k /\ Len(t) # 0
      BY <1>5, <1>9, <1>10
    <3> QED
      BY <1>4, <1>6, <1>9, <3>1
  <2>7. ASSUME NEW m \in (Len(got[c]) + 1)..n, sent[c][m] \in Text
        PROVE  \E i \in 1..Len(t) : t[i] = Unit(m, "payload")
    <3>1. CASE m = n
      <4>1. n # 0 /\ Len(t) \in 1..Len(t)
        BY <1>5, <1>7, <1>9, <1>10, <3>1
      <4> QED
        BY <2>6, <3>1, <4>1 DEF LastOf
    <3>2. CASE m # n
      <4>1. m \in (Len(got[c]) + 1)..W
        BY <1>3, <1>7, <3>2
      <4>2. PICK i \in 1..Len(s) : s[i] = Unit(m, "payload")
        BY <1>2, <2>1, <2>7, <4>1 DEF Holds, s, W
      <4>3. i \in 1..Len(t)
        BY <1>9, <1>10
      <4> QED
        BY <1>9, <4>2, <4>3
    <3> QED
      BY <3>1, <3>2
  <2>8. Begins(c)' /\ GoesOn(c)'
    <3>1. Begins(c)'
      BY <1>2, <2>4 DEF Begins, t
    <3>2. GoesOn(c)'
      BY <1>2, <2>5 DEF GoesOn, After, t
    <3> QED
      BY <3>1, <3>2
  <2>9. Ends(c)' /\ Holds(c)'
    BY <1>2, <1>3, <2>6, <2>7 DEF Ends, Holds, t
  <2> QED
    BY <2>8, <2>9
<1>12. PayloadAt(c)' = PayloadAt(c)
  BY <1>2 DEF PayloadAt, Parts
<1> QED
  BY <1>2, <1>11, <1>12 DEF FramesInv

(* The parser takes the frame in front out of the stream. *)
LEMMA ParseFrames ==
  ASSUME Inv, NEW c \in Conns, FramesInv(c), ParseFrame(c)
  PROVE  FramesInv(c)'
<1> DEFINE s == Stream(c)
           t == Stream(c)'
           m == Len(got[c]) + 1
           W == Written(c)
           k == PayloadAt(c)
<1>1. BaseType /\ QueueInv(c) /\ RequestInv(c)
  BY DEF Inv, StreamsInv
<1>2. /\ parsing = c /\ UNCHANGED <<sent, outq, wire, ended, stage, parsing>>
      /\ stage[c] \in {"writing", "open"}
  BY HubAssumption DEF ParseFrame, client, Inv, TablesInv, Idle
<1>3. Begins(c) /\ GoesOn(c) /\ Ends(c) /\ Holds(c) /\ stage[c] \notin Opening
  BY <1>2 DEF FramesInv, Live, Opening
<1>4. InStep(buf[c]) /\ (Len(buf[c]) >= 2 => buf[c][2] = Unit(m, "b1"))
  BY <1>1, <1>3, FrontOfBuffer
<1>5. k # 0
  BY <1>4 DEF ParseFrame
<1>6. k \in 1..Len(buf[c]) /\ buf[c][k] = Unit(m, "payload") /\ \A i \in 1..k : s[i].of = m
  BY <1>1, <1>3, <1>5, FrontOfBuffer
<1>7. buf[c][2].of = m
  BY <1>1, <1>4, <1>5, PayloadPlace DEF Unit
<1>8. k \in 1..Len(s) /\ s[k] = Unit(m, "payload") /\ Len(s) \in Nat /\ s \in Seq(AnyUnit)
  <2>1. Len(buf[c]) \in 0..Len(s) /\ Len(s) \in Nat
    BY <1>1, FrontOfStream
  <2>2. s[k] = buf[c][k]
    BY <1>1, <1>6, StreamType
  <2>3. s \in Seq(AnyUnit)
    BY <1>1, StreamType
  <2> HIDE DEF s, k
  <2>4. k \in 1..Len(s)
    BY <1>6, <2>1
  <2> QED
    BY <1>6, <2>1, <2>2, <2>3, <2>4
<1>9. t = SubSeq(s, k + 1, Len(s))
  BY <1>1, <1>4, ParseStream
<1>10. /\ GoesOn(c)' /\ Len(t) = Len(s) - k /\ t \in Seq(AnyUnit)
       /\ \A i \in 1..(Len(s) - k) : t[i] = s[k + i]
  BY <1>1, <1>2, <1>3, <1>8, <1>9, k \in 0..Len(s), RestGoesOn
<1>11. m \in 1..Len(sent[c]) /\ Len(sent[c]) \in Nat /\ Len(got[c]) \in Nat
  <2>1. s[k].of <= Len(sent[c])
    BY <1>1, <1>8 DEF RequestInv
  <2>2. Len(sent[c]) \in Nat /\ Len(got[c]) \in Nat
    BY <1>1 DEF BaseType
  <2> QED
    BY <1>8, <2>1, <2>2 DEF Unit
<1>12. W \in Int /\ W <= Len(sent[c]) /\ Written(c)' = W
  <2>1. Len(sent[c]) \in Nat /\ Len(outq[c]) \in Nat
    BY <1>1 DEF BaseType
  <2>2. W \in Int /\ W <= Len(sent[c])
    <3>1. \A a, b \in Nat : a - b \in Int /\ a - b <= a
      OBVIOUS
    <3> QED
      BY <2>1, <3>1 DEF Written
  <2> QED
    BY <1>2, <2>2 DEF Written
<1>13. \/ /\ sent[c][m] \in Text
          /\ got'[c] = Append(got[c], Unit(m, "payload"))
       \/ sent[c][m] = "close" /\ UNCHANGED got
  <2>1. sent[c][m] \in Frames
    BY <1>1, <1>11 DEF BaseType
  <2>2. IF sent[c][m] \in Text THEN Emit(c, buf[c][k]) ELSE UNCHANGED got
    BY <1>4, <1>7 DEF ParseFrame
  <2>3. CASE sent[c][m] \in Text
    BY <1>1, <1>6, <2>2, <2>3 DEF Emit, BaseType
  <2>4. CASE sent[c][m] \notin Text
    BY <2>1, <2>2, <2>4 DEF Frames
  <2> QED
    BY <2>3, <2>4
<1>14. sent[c][m] = "close" => m = Len(sent[c])
  BY <1>1, <1>11 DEF QueueInv
<1>15. /\ t # <<>> => t[1] = Unit(m + 1, "b0") /\ m + 1 <= Len(sent[c])
       /\ ~ended[c] /\ t # <<>> => t[Len(t)] = LastOf(W)
       /\ ~ended[c] /\ t = <<>> => W = m
       /\ ~ended[c] => \A n \in (m + 1)..W :
             sent[c][n] \in Text => \E i \in 1..Len(t) : t[i] = Unit(n, "payload")
  <2>1. s # <<>>
    BY <1>8
  <2>2. /\ \A i \in 1..(Len(s) - 1) : s[i + 1] = After(c, s[i])
        /\ ~ended[c] => s[Len(s)] = LastOf(W)
        /\ \A i \in 1..Len(s) : s[i].of <= Len(sent[c])
    BY <1>1, <1>3, <2>1 DEF GoesOn, Ends, RequestInv
  <2>3. ~ended[c] => \A n \in m..W :
             sent[c][n] \in Text => \E i \in 1..Len(s) : s[i] = Unit(n, "payload")
    BY <1>3 DEF Holds
  <2> HIDE DEF s, t, k, W, m
  <2>4. ASSUME t # <<>>
        PROVE  t[1] = Unit(m + 1, "b0") /\ m + 1 <= Len(sent[c]) /\ (~ended[c] => t[Len(t)] = LastOf(W))
    <3>1. 1 \in 1..(Len(s) - k) /\ k \in 1..(Len(s) - 1)
      BY <1>8, <1>10, <2>4
    <3>2. t[1] = s[k + 1] /\ s[k + 1] = After(c, s[k]) /\ k + 1 \in 1..Len(s)
      BY <1>8, <1>10, <2>2, <3>1
    <3>3. t[1] = Unit(m + 1, "b0")
      BY <1>8, <3>2 DEF After, Unit
    <3>4. m + 1 <= Len(sent[c])
      BY <2>2, <3>2, <3>3 DEF Unit
    <3>5. t[Len(t)] = s[Len(s)]
      <4>1. Len(t) \in 1..(Len(s) - k) /\ k + Len(t) = Len(s)
        BY <1>8, <1>10, <3>1
      <4> QED
        BY <1>10, <4>1
    <3> QED
      BY <2>2, <3>3, <3>4, <3>5
  <2>5. ASSUME ~ended[c], t = <<>>
        PROVE  W = m
    <3>1. k = Len(s)
      BY <1>8, <1>10, <2>5
    <3>2. Unit(m, "payload") = LastOf(W)
      BY <1>8, <2>2, <2>5, <3>1
    <3> QED
      BY <3>2 DEF LastOf, Unit
  <2>6. ASSUME ~ended[c], NEW n \in (m + 1)..W, sent[c][n] \in Text
        PROVE  \E i \in 1..Len(t) : t[i] = Unit(n, "payload")
    <3>1. n \in m..W /\ n # m
      BY <1>11, <1>12 DEF m
    <3>2. PICK i \in 1..Len(s) : s[i] = Unit(n, "payload")
      BY <2>3, <2>6, <3>1
    <3>3. i \notin 1..k
      BY <1>6, <3>1, <3>2 DEF Unit
    <3> DEFINE j == i - k
    <3>4. j \in 1..(Len(s) - k) /\ k + j = i
      BY <1>8, <3>3
    <3> QED
      BY <1>10, <3>2, <3>4
  <2> QED
    BY <2>4, <2>5, <2>6
<1>16. CASE sent[c][m] \in Text /\ got'[c] = Append(got[c], Unit(m, "payload"))
  <2>1. /\ Len(got'[c]) = m /\ got'[c][m] = Unit(m, "payload")
        /\ \A i \in 1..Len(got[c]) : got'[c][i] = got[c][i]
    <3>1. got[c] \in Seq(FrameUnit)
      BY <1>1 DEF BaseType
    <3> QED
      BY <1>16, <3>1
  <2>2. \A i \in 1..Len(got'[c]) : got'[c][i] = Unit(i, "payload")
    <3>1. \A i \in 1..Len(got[c]) : got[c][i] = Unit(i, "payload")
      BY DEF FramesInv
    <3>2. \A i \in 1..m : i = m \/ i \in 1..Len(got[c])
      BY <1>11
    <3> QED
      BY <2>1, <3>1, <3>2
  <2>3. Len(got'[c]) <= Len(sent'[c])
    BY <1>2, <1>11, <2>1
  <2>4. Begins(c)'
    BY <1>2, <1>3, <1>15, <2>1 DEF Begins
  <2>5. Ends(c)'
    BY <1>2, <1>3, <1>12, <1>15, <2>1 DEF Ends
  <2>6. Holds(c)'
    BY <1>2, <1>12, <1>15, <2>1 DEF Holds
  <2> QED
    BY <1>2, <1>3, <1>10, <2>2, <2>3, <2>4, <2>5, <2>6 DEF FramesInv
<1>17. CASE sent[c][m] = "close" /\ UNCHANGED got
  <2>1. t = <<>>
    BY <1>11, <1>14, <1>15, <1>17
  <2>2. ~ended[c] => W = m
    BY <1>15, <2>1
  <2>3. Begins(c)'
    BY <2>1 DEF Begins
  <2>4. Ends(c)'
    BY <1>2, <1>3, <1>12, <1>17, <2>1, <2>2 DEF Ends
  <2>5. Holds(c)'
    <3>1. ~ended[c] => \A n \in m..W : n = m
      BY <1>11, <1>12, <2>2
    <3>2. "close" \notin Text
      BY DEF Text
    <3> QED
      BY <1>2, <1>12, <1>17, <3>1, <3>2 DEF Holds
  <2> QED
    BY <1>2, <1>3, <1>10, <1>17, <2>3, <2>4, <2>5 DEF FramesInv
<1> QED
  BY <1>13, <1>16, <1>17

(* Behind the blank line of the request the first frame begins.            *)
LEMMA HandshakeFrames ==
  ASSUME Inv, NEW c \in Conns, FramesInv(c), NEW n \in 1..Len(wire[c]), OnHandshakeRead(c, n)
  PROVE  FramesInv(c)'
<1> DEFINE s == Stream(c)
           t == Stream(c)'
           W == Written(c)
<1>1. BaseType /\ QueueInv(c) /\ RequestInv(c)
  BY DEF Inv, StreamsInv
<1>2. UNCHANGED <<sent, outq, ended, got, parsing>> /\ parsing = None /\ stage[c] = "reading"
  BY DEF OnHandshakeRead, Reads, Idle
<1>3. CASE Stream(c)' = Stream(c) /\ UNCHANGED stage
  BY <1>2, <1>3, FramesSame
<1>4. ASSUME stage' = [stage EXCEPT ![c] = "writing"],
             NEW i \in 1..Len(s), s[i].part = "blank", t = SubSeq(s, i + 1, Len(s))
      PROVE  FramesInv(c)'
  <2>1. stage'[c] = "writing" /\ stage[c] \in Opening /\ stage'[c] \notin Opening
    BY <1>1, <1>2, <1>4 DEF BaseType, Opening
  <2>2. got[c] = <<>> /\ Begins(c) /\ GoesOn(c) /\ Ends(c) /\ Holds(c)
    BY <2>1 DEF FramesInv, Live
  <2>3. s \in Seq(AnyUnit) /\ Len(s) \in Nat
    BY <1>1, StreamType, FrontOfStream
  <2>4. i = 2
    BY <1>1, <1>4 DEF RequestInv
  <2>5. s # <<>> /\ 2 \in 0..Len(s) /\ 2 \in 1..Len(s)
    BY <1>4, <2>3, <2>4
  <2>6. /\ s[1] = Unit(0, "request")
        /\ \A j \in 1..(Len(s) - 1) : s[j + 1] = After(c, s[j])
        /\ ~ended[c] => s[Len(s)] = LastOf(W)
        /\ ~ended[c] => \A m \in 1..W :
              sent[c][m] \in Text => \E j \in 1..Len(s) : s[j] = Unit(m, "payload")
    <3>1. Len(got[c]) + 1 = 1
      BY <2>2
    <3> QED
      BY <2>1, <2>2, <2>5, <3>1 DEF Begins, GoesOn, Ends, Holds
  <2>7. /\ GoesOn(c)' /\ Len(t) = Len(s) - 2 /\ t \in Seq(AnyUnit)
        /\ \A j \in 1..(Len(s) - 2) : t[j] = s[2 + j]
    BY <1>1, <1>2, <1>4, <2>2, <2>4, <2>5, RestGoesOn
  <2> HIDE DEF s, t, W
  <2>8. s[2] = Unit(0, "blank")
    <3>1. 1 \in 1..(Len(s) - 1)
      BY <2>3, <2>5
    <3>2. s[1 + 1] = After(c, s[1])
      BY <2>6, <3>1
    <3>3. After(c, Unit(0, "request")) = Unit(0, "blank")
      BY DEF After, Unit
    <3> QED
      BY <2>6, <3>2, <3>3
  <2>9. ASSUME t # <<>>
        PROVE  t[1] = Unit(1, "b0") /\ (~ended[c] => t[Len(t)] = LastOf(W))
    <3>1. 1 \in 1..(Len(s) - 2) /\ 2 \in 1..(Len(s) - 1) /\ Len(t) \in 1..(Len(s) - 2) /\ 2 + Len(t) = Len(s)
      BY <2>3, <2>5, <2>7, <2>9
    <3>2. t[1] = s[3] /\ s[3] = After(c, s[2]) /\ t[Len(t)] = s[Len(s)]
      BY <2>6, <2>7, <3>1, 2 + 1 = 3
    <3> QED
      BY <2>6, <2>8, <3>2 DEF After, Unit
  <2>10. ASSUME t = <<>>, ~ended[c]
         PROVE  W = 0
    <3>1. Len(s) = 2
      BY <2>3, <2>5, <2>7, <2>10
    <3>2. Unit(0, "blank") = LastOf(W)
      BY <2>6, <2>8, <2>10, <3>1
    <3> QED
      BY <3>2 DEF LastOf, Unit
  <2>11. ASSUME ~ended[c], NEW m \in 1..W, sent[c][m] \in Text
         PROVE  \E j \in 1..Len(t) : t[j] = Unit(m, "payload")
    <3>1. PICK j \in 1..Len(s) : s[j] = Unit(m, "payload")
      BY <2>6, <2>11
    <3>2. j # 1 /\ j # 2
      BY <2>6, <2>8, <3>1 DEF Unit
    <3> DEFINE h == j - 2
    <3>3. h \in 1..(Len(s) - 2) /\ 2 + h = j
      BY <2>3, <3>2
    <3> QED
      BY <2>7, <3>1, <3>3
  <2>12. Len(got'[c]) = 0 /\ got'[c] = <<>> /\ Len(got'[c]) + 1 = 1
    BY <1>2, <2>2
  <2>13. Written(c)' = W
    BY <1>2 DEF Written, W
  <2>14. Begins(c)' /\ Ends(c)' /\ Holds(c)'
    <3>1. Begins(c)'
      BY <2>1, <2>9, <2>12 DEF Begins, t
    <3>2. Ends(c)'
      BY <1>2, <2>1, <2>9, <2>10, <2>12, <2>13 DEF Ends, t
    <3>3. Holds(c)'
      BY <1>2, <2>11, <2>12, <2>13 DEF Holds, t
    <3> QED
      BY <3>1, <3>2, <3>3
  <2>15. Len(got'[c]) <= Len(sent'[c])
    BY <1>2 DEF FramesInv
  <2>16. \A j \in 1..Len(got'[c]) : got'[c][j] = Unit(j, "payload")
    BY <2>12
  <2> QED
    BY <2>1, <2>7, <2>14, <2>15, <2>16 DEF FramesInv
<1> QED
  BY <1>1, <1>3, <1>4, HandshakeStream

(* The connection is cut off, and what was on the wire may be lost. *)
LEMMA EndFrames ==
  ASSUME Inv, NEW c \in Conns, FramesInv(c), NEW w \in {wire[c], <<>>}, ClientEnds(c, w)
  PROVE  FramesInv(c)'
<1> DEFINE s == Stream(c)
           t == Stream(c)'
<1>1. BaseType
  BY DEF Inv
<1>2. UNCHANGED <<sent, stage, parsing, buf, got>> /\ ended'[c]
  BY <1>1 DEF ClientEnds, BaseType
<1>3. s \in Seq(AnyUnit) /\ Len(s) \in Nat /\ Len(buf[c]) \in 0..Len(s)
  BY <1>1, StreamType, FrontOfStream
<1>4. t = s \/ t = SubSeq(s, 1, Len(buf[c]))
  BY <1>1, EndsStream
<1>5. Len(t) \in 0..Len(s) /\ \A i \in 1..Len(t) : t[i] = s[i]
  <2> DEFINE a == Len(buf[c])
  <2> HIDE DEF s, t, a
  <2>1. a \in 0..Len(s) /\ (t = s \/ t = SubSeq(s, 1, a))
    BY <1>3, <1>4 DEF a
  <2>2. CASE t = s
    BY <1>3, <2>2
  <2>3. CASE t = SubSeq(s, 1, a)
    BY <1>3, <2>1, <2>3, Prefix
  <2> QED
    BY <2>1, <2>2, <2>3
<1>6. ASSUME stage'[c] \in Live
      PROVE  Begins(c)' /\ GoesOn(c)' /\ Ends(c)' /\ Holds(c)'
  <2>1. Begins(c) /\ GoesOn(c)
    BY <1>2, <1>6 DEF FramesInv
  <2>2. /\ s # <<>> => s[1] = IF stage[c] \in Opening THEN Unit(0, "request") ELSE Unit(Len(got[c]) + 1, "b0")
        /\ \A i \in 1..(Len(s) - 1) : s[i + 1] = After(c, s[i])
    BY <2>1 DEF Begins, GoesOn
  <2>3. t \in Seq(AnyUnit)
    <3> DEFINE a == Len(buf[c])
    <3>1. a \in 0..Len(s) /\ (t = s \/ t = SubSeq(s, 1, a))
      BY <1>3, <1>4
    <3> HIDE DEF s, t, a
    <3> QED
      BY <1>3, <3>1, Prefix
  <2> HIDE DEF s, t
  <2>4. t # <<>> => s # <<>> /\ t[1] = s[1]
    <3>1. t # <<>> => 1 \in 1..Len(t) /\ Len(s) # 0
      BY <1>3, <1>5, <2>3
    <3> QED
      BY <1>3, <1>5, <3>1
  <2>5. \A i \in 1..(Len(t) - 1) : t[i + 1] = After(c, t[i])
    <3>1. \A i \in 1..(Len(t) - 1) : i \in 1..Len(t) /\ i + 1 \in 1..Len(t) /\ i \in 1..(Len(s) - 1)
      BY <1>3, <1>5
    <3> QED
      BY <1>5, <2>2, <3>1
  <2>6. Begins(c)'
    BY <1>2, <2>2, <2>4 DEF Begins, t
  <2>7. GoesOn(c)'
    BY <1>2, <2>5 DEF GoesOn, After, t
  <2> QED
    BY <1>2, <2>6, <2>7 DEF Ends, Holds
<1>7. PayloadAt(c)' = PayloadAt(c)
  BY <1>2 DEF PayloadAt, Parts
<1> QED
  BY <1>2, <1>6, <1>7 DEF FramesInv

LEMMA FramesKept ==
  ASSUME Inv, NEW c \in Conns, c \notin torn', FramesInv(c), Steps(c)
  PROVE  FramesInv(c)'
<1>1. /\ BaseType /\ QueueInv(c) /\ c # None
      /\ parsing = c => stage[c] \in {"writing", "open"}
  BY HubAssumption DEF Inv, StreamsInv, TablesInv, Idle
<1>2. CASE Dial(c)
  <2>1. stage'[c] = "backlog" /\ outq'[c] = <<0>> /\ UNCHANGED <<sent, wire, buf, ended, got>>
    BY <1>1, <1>2 DEF Dial, BaseType
  <2>2. sent[c] = <<>> /\ buf[c] = <<>> /\ wire[c] = <<>> /\ got[c] = <<>>
    BY <1>1, <1>2 DEF Dial, QueueInv
  <2>3. Stream(c)' = <<>> /\ Len(Stream(c)') = 0
    BY <2>1, <2>2 DEF Stream
  <2>4. Written(c)' = -1 /\ Len(sent'[c]) = 0 /\ Len(got'[c]) = 0
    <3>1. Len(outq'[c]) = 1 /\ Len(sent'[c]) = 0 /\ Len(got'[c]) = 0
      BY <2>1, <2>2
    <3> QED
      BY <3>1 DEF Written
  <2>5. Begins(c)' /\ GoesOn(c)'
    BY <2>3 DEF Begins, GoesOn
  <2>6. Ends(c)'
    BY <2>1, <2>3, <2>4 DEF Ends, Opening
  <2>7. Holds(c)'
    BY <2>4 DEF Holds
  <2> QED
    BY <2>1, <2>2, <2>4, <2>5, <2>6, <2>7 DEF FramesInv
<1>3. CASE \E f \in Frames : SendText(c, f)
  BY <1>3, SendFrames
<1>4. CASE \E k \in 1..5 : OnWrite(c, k)
  BY <1>4, WriteFrames
<1>5. CASE \E w \in {wire[c], <<>>} : ClientEnds(c, w)
  BY <1>5, EndFrames
<1>6. CASE OnAccept(c)
  <2>1. stage[c] = "backlog" /\ stage'[c] = "reading" /\ UNCHANGED <<sent, outq, got, ended, buf, wire>>
    BY <1>1, <1>6 DEF OnAccept, client, BaseType
  <2> QED
    BY <2>1, StreamKept, FramesSame DEF Live, Opening
<1>7. CASE \E n \in 1..Len(wire[c]) : OnHandshakeRead(c, n)
  BY <1>7, HandshakeFrames
<1>8. CASE HandshakeFails(c) \/ OnClientClosed(c)
  <2>1. stage'[c] = "gone" /\ UNCHANGED <<sent, outq, got, ended, buf, wire>>
    BY <1>1, <1>8 DEF HandshakeFails, OnClientClosed, client, BaseType
  <2> QED
    BY <2>1, StreamKept, FramesSame DEF Live, Opening
<1>9. CASE OnHandshakeWritten(c)
  <2>1. parsing' = c /\ UNCHANGED <<sent, outq, got, ended, buf, wire, stage>>
    BY <1>9 DEF OnHandshakeWritten, client
  <2> QED
    BY <2>1, StreamKept, FramesSame
<1>10. CASE ParseFrame(c)
  BY <1>10, ParseFrames
<1>11. ASSUME Parsed(c)
       PROVE  PayloadAt(c) = 0
  <2>1. stage[c] \in {"writing", "open"}
    BY <1>1, <1>11 DEF Parsed
  <2>2. Begins(c) /\ GoesOn(c) /\ stage[c] \notin Opening
    BY <2>1 DEF FramesInv, Live, Opening
  <2>3. InStep(buf[c])
    BY <1>1, <2>2, FrontOfBuffer
  <2> QED
    BY <1>11, <2>3 DEF Parsed
<1>12. CASE Entered(c) \/ Waits(c)
  <2>1. /\ stage[c] \in {"writing", "open"} /\ stage'[c] \in {"open", "dead"} /\ Parsed(c)
        /\ UNCHANGED <<sent, outq, got, ended, buf, wire>>
    BY <1>1, <1>12 DEF Entered, Waits, client, BaseType
  <2>2. PayloadAt(c)' = 0
    BY <1>11, <2>1 DEF PayloadAt, Parts
  <2> QED
    BY <2>1, <2>2, StreamKept, FramesSame DEF Live, Opening
<1>13. ASSUME NEW n \in 1..Len(wire[c]), OnRead(c, n)
       PROVE  FramesInv(c)'
  <2>1. parsing' = c /\ UNCHANGED <<sent, outq, got, ended, stage>>
    BY <1>13 DEF OnRead, Reads
  <2>2. Stream(c)' = Stream(c)
    BY <1>1, <1>13, ReadStream
  <2> QED
    BY <2>1, <2>2, FramesSame
<1> QED
  BY <1>2, <1>3, <1>4, <1>5, <1>6, <1>7, <1>8, <1>9, <1>10, <1>12, <1>13 DEF Steps

-----------------------------------------------------------------------------
(* What the hub and its connections promise *)

LEMMA InitFrames == Init => WholeInv
<1> SUFFICES ASSUME Init, NEW c \in Conns
             PROVE  FramesInv(c)
  BY DEF WholeInv
<1>1. /\ got[c] = <<>> /\ sent[c] = <<>> /\ stage[c] = "none"
      /\ Len(got[c]) = 0 /\ Len(sent[c]) = 0
  BY DEF Init
<1> QED
  BY <1>1 DEF FramesInv, Live, Opening

LEMMA NextFrames ==
  ASSUME Inv, WholeInv, [Next]_vars
  PROVE  WholeInv'
<1>1. ASSUME NEW c \in Conns, Steps(c)
      PROVE  WholeInv'
  <2>0. torn \subseteq torn'
    BY <1>1 DEF Steps, Dial, SendText, OnWrite, ClientEnds, OnAccept, OnHandshakeRead, Reads,
                HandshakeFails, OnHandshakeWritten, ParseFrame, Entered, OnRead, Waits,
                OnClientClosed, client
  <2>1. c \notin torn' => FramesInv(c)'
    BY <1>1, <2>0, FramesKept DEF WholeInv
  <2>2. parsing' = parsing \/ parsing \in {None, c}
    BY <1>1 DEF Steps, Dial, SendText, OnWrite, ClientEnds, OnAccept, OnHandshakeRead,
                HandshakeFails, OnHandshakeWritten, ParseFrame, Entered, Parsed, OnRead, Waits,
                OnClientClosed, Idle
  <2>3. ASSUME NEW d \in Conns \ torn', d # c
        PROVE  FramesInv(d)'
    <3>1. Kept(d) /\ FramesInv(d)
      BY <1>1, <2>0, <2>3, OthersKept DEF Inv, WholeInv
    <3>2. /\ UNCHANGED <<sent[d], outq[d], ended[d], got[d], stage[d], buf[d]>>
          /\ Stream(d)' = Stream(d) /\ Written(d)' = Written(d)
      BY <3>1 DEF Kept, Stream, Written
    <3>3. Begins(d)' <=> Begins(d)
      BY <3>2 DEF Begins
    <3>4. GoesOn(d)' <=> GoesOn(d)
      BY <3>2 DEF GoesOn, After
    <3>5. (Ends(d)' <=> Ends(d)) /\ (Holds(d)' <=> Holds(d))
      BY <3>2 DEF Ends, Holds
    <3>6. PayloadAt(d)' = PayloadAt(d)
      BY <3>2 DEF PayloadAt, Parts
    <3>7. parsing # d \/ parsing' = d
      BY <2>2, <2>3, HubAssumption
    <3> QED
      BY <3>1, <3>2, <3>3, <3>4, <3>5, <3>6, <3>7 DEF FramesInv
  <2> QED
    BY <2>1, <2>3 DEF WholeInv
<1>2. CASE UNCHANGED vars
  <2>1. /\ UNCHANGED <<sent, outq, wire, ended, torn, stage, pending, buf, parsing>>
        /\ UNCHANGED <<clients, ports, got, answered>>
    BY <1>2 DEF vars, client, tables
  <2>2. ASSUME NEW d \in Conns \ torn'
        PROVE  FramesInv(d)'
    <3>1. FramesInv(d)
      BY <2>1 DEF WholeInv
    <3>2. Stream(d)' = Stream(d) /\ PayloadAt(d)' = PayloadAt(d)
      BY <2>1 DEF Stream, PayloadAt, Parts
    <3>3. parsing' # d /\ stage'[d] = "open" => PayloadAt(d)' = 0
      BY <2>1, <3>1, <3>2 DEF FramesInv
    <3> QED
      BY <2>1, <3>1, <3>2, <3>3, FramesSame
  <2> QED
    BY <2>2 DEF WholeInv
<1> QED
  BY <1>1, <1>2, NextSteps

LEMMA FramesInvariance == Spec => [](Inv /\ WholeInv)
<1>1. Init => Inv /\ WholeInv
  BY InitInv, InitFrames
<1>2. Inv /\ WholeInv /\ [Next]_vars => (Inv /\ WholeInv)'
  BY NextInv, NextFrames
<1> QED
  BY <1>1, <1>2, PTL DEF Spec

LEMMA InvDelivers ==
  ASSUME Inv, WholeInv
  PROVE  MessagesDelivered
<1>1. ASSUME NEW c \in Conns \ torn
      PROVE  \A i \in DOMAIN got[c] : got[c][i] = Unit(i, "payload")
  <2>1. DOMAIN got[c] = 1..Len(got[c])
    BY DEF Inv, BaseType
  <2> QED
    BY <2>1 DEF WholeInv, FramesInv
<1>2. ASSUME NEW c \in Conns \ torn, Idle, stage[c] = "open", ~ended[c],
             NEW n \in DOMAIN sent[c], sent[c][n] \in Text, Come(c, n)
      PROVE  n \in DOMAIN got[c]
  <2> DEFINE s == Stream(c)
             q == buf[c]
             w == wire[c]
             W == Written(c)
  <2>1. BaseType /\ QueueInv(c) /\ FramesInv(c) /\ parsing # c
    BY <1>2, HubAssumption DEF Inv, StreamsInv, WholeInv, Idle
  <2>2. Begins(c) /\ GoesOn(c) /\ Holds(c) /\ PayloadAt(c) = 0 /\ stage[c] \notin Opening
    BY <1>2, <2>1 DEF FramesInv, Live, Opening
  <2>3. /\ sent[c] \in Seq(Frames) /\ outq[c] \in Seq(Nat) /\ got[c] \in Seq(FrameUnit)
        /\ Len(sent[c]) \in Nat /\ Len(outq[c]) \in Nat /\ Len(got[c]) \in Nat
    BY <2>1 DEF BaseType
  <2>4. n \in 1..Len(sent[c])
    BY <2>3
  <2>5. W = Len(sent[c]) - Len(outq[c])
    BY DEF Written
  <2>6. n <= W
    <3>1. ASSUME ~(n <= W)
          PROVE  FALSE
      <4> DEFINE j == n - W
      <4>1. j \in 1..Len(outq[c]) /\ W + j = n
        <5>1. \A a, b \in Nat : \A x \in 1..a : ~(x <= a - b) =>
                 x - (a - b) \in 1..b /\ (a - b) + (x - (a - b)) = x
          OBVIOUS
        <5>2. ~(n <= Len(sent[c]) - Len(outq[c]))
          BY <2>5, <3>1
        <5>3. /\ n - (Len(sent[c]) - Len(outq[c])) \in 1..Len(outq[c])
              /\ (Len(sent[c]) - Len(outq[c])) + (n - (Len(sent[c]) - Len(outq[c]))) = n
          BY <2>3, <2>4, <5>1, <5>2
        <5> QED
          BY <2>5, <5>3
      <4>2. outq[c][j] = n
        BY <2>1, <4>1 DEF QueueInv
      <4>3. j \in DOMAIN outq[c]
        BY <2>3, <4>1
      <4> QED
        BY <1>2, <4>2, <4>3 DEF Come
    <3> QED
      BY <3>1
  <2>7. W \in Int
    BY <2>3, <2>5
  <2>8. ASSUME n \notin DOMAIN got[c]
        PROVE  FALSE
    <3>1. n \in (Len(got[c]) + 1)..W
      <4>1. n \notin 1..Len(got[c])
        BY <2>3, <2>8
      <4> HIDE DEF W
      <4> QED
        BY <2>3, <2>4, <2>6, <2>7, <4>1
    <3>2. PICK i \in 1..Len(s) : s[i] = Unit(n, "payload")
      BY <1>2, <2>2, <3>1 DEF Holds
    <3>3. /\ q \in Seq(AnyUnit) /\ w \in Seq(AnyUnit) /\ Len(s) = Len(q) + Len(w)
          /\ \A j \in 1..Len(q) : s[j] = q[j]
          /\ \A j \in 1..Len(w) : s[Len(q) + j] = w[j]
      BY <2>1, StreamType
    <3>4. \A j \in 1..Len(w) : w[j] # Unit(n, "payload")
      <4>1. DOMAIN w = 1..Len(w)
        BY <3>3
      <4> QED
        BY <1>2, <4>1 DEF Come
    <3>5. StartsWith(c, s, Len(got[c]) + 1)
      BY <2>1, <2>2, FrontUnits
    <3>6. Len(q) >= 2 => q[2] = Unit(Len(got[c]) + 1, "b1")
      BY <2>1, <2>2, FrontOfBuffer
    <3>7. /\ Len(q) >= 5 => PayloadAt(c) # 0
          /\ Len(q) >= 4 /\ sent[c][q[2].of] # "long" => PayloadAt(c) # 0
      BY <2>1, PayloadPlace
    <3> HIDE DEF s, q, w, W
    <3>8. Len(q) \in Nat /\ Len(w) \in Nat /\ i \in 1..(Len(q) + Len(w))
      BY <3>3
    <3>9. i \in 1..Len(q)
      <4>1. ASSUME i > Len(q)
            PROVE  FALSE
        <5> DEFINE j == i - Len(q)
        <5>1. j \in 1..Len(w) /\ Len(q) + j = i
          BY <3>8, <4>1
        <5> QED
          BY <3>2, <3>3, <3>4, <5>1
      <4> QED
        BY <3>8, <4>1
    <3>10. Len(q) < 5 /\ (Len(q) >= 4 => sent[c][Len(got[c]) + 1] = "long")
      <4>1. Len(q) < 5
        BY <2>2, <3>7, <3>8
      <4>2. Len(q) >= 4 => q[2].of = Len(got[c]) + 1
        BY <3>6, <3>8 DEF Unit
      <4> QED
        BY <2>2, <3>7, <4>1, <4>2
    <3>11. i \in {1, 2, 3, 4} /\ i <= Len(s)
      BY <3>3, <3>8, <3>9, <3>10
    <3>12. s[i].part = "payload"
      BY <3>2 DEF Unit
    <3>13. i = 4 /\ sent[c][Len(got[c]) + 1] # "long"
      <4> DEFINE m == Len(got[c]) + 1
      <4>1. /\ Unit(m, "b0").part # "payload" /\ Unit(m, "b1").part # "payload"
            /\ Unit(m, "len").part # "payload" /\ Unit(m, "mask").part # "payload"
        BY DEF Unit
      <4>2. Len(s) \in Nat
        BY <3>3, <3>8
      <4> HIDE DEF m
      <4>3. StartsWith(c, s, m)
        BY <3>5 DEF m
      <4>4. i = 4 /\ sent[c][m] # "long"
        BY <3>11, <3>12, <4>1, <4>2, <4>3 DEF StartsWith
      <4> QED
        BY <4>4 DEF m
    <3> QED
      BY <3>8, <3>9, <3>10, <3>13
  <2> QED
    BY <2>8
<1> QED
  BY <1>1, <1>2 DEF MessagesDelivered

(* However TCP cuts the stream, every message of an open connection that   *)
(* has come to its last byte is handed on, once and in order               *)
(* (ws_connection.cc:29, ws_hub.cc:126), as long as its client's socket took  *)
(* whole frames.                                                           *)
THEOREM Delivered == Spec => []MessagesDelivered
<1>1. Spec => [](Inv /\ WholeInv)
  BY FramesInvariance
<1>2. Inv /\ WholeInv => MessagesDelivered
  BY InvDelivers
<1> QED
  BY <1>1, <1>2, PTL

-----------------------------------------------------------------------------
(* Refinement *)

Over == {c \in Conns : stage[c] \in {"dead", "gone"}}

(* What was handed on are frames that were sent ... *)
HandedOn ==
  \A c \in Conns : \A i \in 1..Len(got[c]) : got[c][i].of \in 1..Len(sent[c])

(* ... and the first ones, if no write was cut off.                        *)
ArrivedFirst ==
  /\ HandedOn
  /\ \A c \in Conns \ torn :
       Len(got[c]) <= Len(sent[c]) /\ \A i \in 1..Len(got[c]) : got[c][i].of = i

LEMMA HandedKept ==
  ASSUME Inv, HandedOn, NEW c \in Conns, Steps(c)
  PROVE  HandedOn'
<1>1. BaseType /\ RequestInv(c)
  BY DEF Inv, StreamsInv
<1>2. CASE UNCHANGED <<sent, got>>
  BY <1>2 DEF HandedOn
<1>3. ASSUME NEW f \in Frames, SendText(c, f)
      PROVE  HandedOn'
  <2>1. got' = got /\ Len(sent'[c]) = Len(sent[c]) + 1 /\ Len(sent[c]) \in Nat
    BY <1>1, <1>3, SendQueue DEF SendText, BaseType
  <2>2. \A d \in Conns : d # c => sent'[d] = sent[d]
    BY <1>1, <1>3 DEF SendText, BaseType
  <2> QED
    BY <2>1, <2>2 DEF HandedOn
<1>4. CASE ParseFrame(c) /\ Emit(c, buf[c][PayloadAt(c)]) /\ PayloadAt(c) # 0
  <2> DEFINE k == PayloadAt(c)
             u == buf[c][k]
  <2>1. Len(buf[c]) \in Nat /\ Len(wire[c]) \in Nat /\ Len(sent[c]) \in Nat /\ got[c] \in Seq(FrameUnit)
    BY <1>1 DEF BaseType
  <2>2. k <= Len(buf[c]) /\ k \in {4, 5}
    BY <1>1, <1>4, PayloadPlace
  <2> HIDE DEF k
  <2>3. k \in 1..Len(buf[c])
    BY <2>1, <2>2
  <2>4. Len(Stream(c)) = Len(buf[c]) + Len(wire[c]) /\ Stream(c)[k] = u
    BY <1>1, <2>3, StreamType
  <2>5. k \in 1..Len(Stream(c))
    <3>1. Len(Stream(c)) = Len(buf[c]) + Len(wire[c])
      BY <2>4
    <3>2. \A x, y \in Nat : 1..x \subseteq 1..(x + y)
      OBVIOUS
    <3> QED
      BY <2>1, <2>3, <3>1, <3>2
  <2>6. u \in AnyUnit
    BY <1>1, <2>3 DEF BaseType
  <2>7. u.part \notin {"request", "blank"} /\ u.of <= Len(sent[c])
    <3>1. stage[c] \in {"writing", "open"}
      BY <1>4, HubAssumption DEF Inv, TablesInv, Idle, ParseFrame
    <3> QED
      BY <1>1, <2>4, <2>5, <3>1 DEF RequestInv, Early
  <2> HIDE DEF u
  <2>8. u \in FrameUnit /\ u.of \in 1..Len(sent[c])
    <3>1. u \in FrameUnit
      BY <2>6, <2>7, PartTypes
    <3>2. u.of \in Nat \ {0}
      BY <3>1 DEF FrameUnit
    <3> QED
      BY <2>1, <2>7, <3>1, <3>2
  <2>9. got' = [got EXCEPT ![c] = Append(got[c], u)] /\ sent' = sent
    BY <1>4 DEF Emit, ParseFrame, client, u, k
  <2>10. got'[c] = Append(got[c], u) /\ \A d \in Conns : d # c => got'[d] = got[d]
    BY <1>1, <2>9 DEF BaseType
  <2>11. \A i \in 1..Len(got'[c]) : got'[c][i] = u \/ (i \in 1..Len(got[c]) /\ got'[c][i] = got[c][i])
    <3>1. /\ Len(Append(got[c], u)) = Len(got[c]) + 1 /\ Append(got[c], u)[Len(got[c]) + 1] = u
          /\ \A i \in 1..Len(got[c]) : Append(got[c], u)[i] = got[c][i]
      BY <2>1, <2>8, AppendProperties
    <3>2. got'[c] = Append(got[c], u) /\ Len(got[c]) \in Nat
      BY <2>1, <2>10
    <3> QED
      BY <3>1, <3>2
  <2> QED
    BY <2>8, <2>9, <2>10, <2>11 DEF HandedOn
<1> QED
  BY <1>2, <1>3, <1>4 DEF Steps, Dial, OnWrite, ClientEnds, OnAccept, OnHandshakeRead, Reads,
      HandshakeFails, OnHandshakeWritten, ParseFrame, Entered, OnRead, Waits, OnClientClosed, client

LEMMA HandedInvariance == Spec => [](Inv /\ WholeInv /\ HandedOn)
<1>1. Init => HandedOn
  BY DEF Init, HandedOn
<1>2. Inv /\ HandedOn /\ [Next]_vars => HandedOn'
  <2>1. Inv /\ HandedOn /\ Next => HandedOn'
    BY NextSteps, HandedKept
  <2>2. HandedOn /\ UNCHANGED vars => HandedOn'
    BY DEF HandedOn, vars, client
  <2> QED
    BY <2>1, <2>2
<1>3. Spec => [](Inv /\ WholeInv)
  BY FramesInvariance
<1> QED
  BY <1>1, <1>2, <1>3, PTL DEF Spec

LEMMA ArrivedIs == Inv /\ WholeInv /\ HandedOn => ArrivedFirst
<1> SUFFICES ASSUME Inv, WholeInv, HandedOn, NEW c \in Conns \ torn
             PROVE  Len(got[c]) <= Len(sent[c]) /\ \A i \in 1..Len(got[c]) : got[c][i].of = i
  BY DEF ArrivedFirst
<1>1. FramesInv(c)
  BY DEF WholeInv
<1>2. \A i \in 1..Len(got[c]) : got[c][i] = Unit(i, "payload")
  BY <1>1 DEF FramesInv
<1>3. \A i \in 1..Len(got[c]) : Unit(i, "payload").of = i
  BY DEF Unit
<1> QED
  BY <1>1, <1>2, <1>3 DEF FramesInv

(* Of a client of which nothing more was handed on, nothing changes. *)
ArrivedOf(c) == [i \in 1..Len(got[c]) |-> sent[c][got[c][i].of]]

ByConn == Arrived = [c \in Conns |-> ArrivedOf(c)]

LEMMA ArrivedByConn == BaseType => ByConn
<1> SUFFICES ASSUME BaseType
             PROVE  ByConn
  OBVIOUS
<1>1. \A c \in Conns : DOMAIN got[c] = 1..Len(got[c])
  BY DEF BaseType
<1> QED
  BY <1>1 DEF Arrived, ArrivedOf, ByConn

LEMMA ArrivedKept ==
  ASSUME HandedOn, NEW c \in Conns, UNCHANGED got[c],
         \A i \in 1..Len(sent[c]) : sent'[c][i] = sent[c][i]
  PROVE  ArrivedOf(c)' = ArrivedOf(c)
<1>1. \A i \in 1..Len(got[c]) : got[c][i].of \in 1..Len(sent[c])
  BY DEF HandedOn
<1> QED
  BY <1>1 DEF ArrivedOf

(* Every step is one of the abstract connection, or none. *)
LEMMA StepRefined ==
  ASSUME Inv, Inv', ArrivedFirst, ArrivedFirst', NEW c \in Conns, Steps(c)
  PROVE  Link!Next \/ UNCHANGED Link!vars
<1>0. BaseType /\ HandedOn
  BY DEF Inv, ArrivedFirst
<1>a. /\ Arrived = [d \in Conns |-> ArrivedOf(d)] /\ Arrived' = [d \in Conns |-> ArrivedOf(d)']
  <2>1. (BaseType => ByConn)'
    BY ArrivedByConn, PTL
  <2> QED
    BY <1>0, <2>1, ArrivedByConn DEF Inv, ByConn
<1>1. CASE UNCHANGED <<sent, got, torn>> /\ (Over' = Over \/ Over' = Over \cup {c})
  <2>1. Arrived' = Arrived
    BY <1>1 DEF Arrived
  <2>2. CASE Over' = Over
    BY <1>1, <2>1, <2>2 DEF Link!vars, Over
  <2>3. CASE Over' = Over \cup {c}
    <3>1. Link!End(c)
      BY <1>1, <2>1, <2>3 DEF Link!End, Over
    <3> QED
      BY <3>1 DEF Link!Next
  <2> QED
    BY <1>1, <2>2, <2>3
<1>2. ASSUME NEW f \in Frames, SendText(c, f)
      PROVE  Link!Next
  <2>1. UNCHANGED <<got, stage, torn>> /\ sent' = [sent EXCEPT ![c] = Append(@, f)]
    BY <1>2 DEF SendText
  <2>2. \A i \in 1..Len(sent[c]) : sent'[c][i] = sent[c][i]
    BY <1>0, <1>2, SendQueue
  <2>3. \A d \in Conns : \A i \in 1..Len(sent[d]) : sent'[d][i] = sent[d][i]
    BY <1>0, <2>1, <2>2 DEF BaseType
  <2>4. \A d \in Conns : ArrivedOf(d)' = ArrivedOf(d)
    BY <1>0, <2>1, <2>3, ArrivedKept
  <2>5. Arrived' = Arrived
    BY <1>a, <2>4
  <2>6. Link!Send(c, f)
    BY <2>1, <2>5 DEF Link!Send
  <2> QED
    BY <2>6 DEF Link!Next
<1>3. CASE ParseFrame(c)
  <2>1. /\ UNCHANGED <<sent, stage, torn>> /\ stage[c] \in {"writing", "open"}
        /\ UNCHANGED got \/ \E u : got' = [got EXCEPT ![c] = Append(@, u)]
    BY <1>3, HubAssumption DEF ParseFrame, Emit, client, Inv, TablesInv, Idle
  <2>2. CASE UNCHANGED got
    BY <1>1, <2>1, <2>2 DEF Over
  <2>3. ASSUME NEW u, got' = [got EXCEPT ![c] = Append(got[c], u)]
        PROVE  Link!Next
    <3>1. got'[c] = Append(got[c], u) /\ \A d \in Conns : d # c => got'[d] = got[d]
      BY <1>0, <2>3 DEF BaseType
    <3>2. \A d \in Conns : d # c => ArrivedOf(d)' = ArrivedOf(d)
      BY <2>1, <3>1 DEF ArrivedOf
    <3>3. Arrived' = [Arrived EXCEPT ![c] = ArrivedOf(c)'] /\ Arrived'[c] = ArrivedOf(c)'
      BY <1>a, <3>2
    <3>4. c \notin Over
      BY <2>1 DEF Over
    <3>5. CASE c \in torn
      <4>1. Link!Garble(c)
        BY <2>1, <3>3, <3>4, <3>5 DEF Link!Garble, Over
      <4> QED
        BY <4>1 DEF Link!Next
    <3>6. CASE c \notin torn
      <4> DEFINE m == Len(got[c])
      <4>1. m \in Nat /\ Len(got'[c]) = m + 1 /\ m + 1 <= Len(sent[c])
        <5>1. got[c] \in Seq(FrameUnit) /\ m \in Nat
          BY <1>0 DEF BaseType
        <5>2. Len(Append(got[c], u)) = m + 1
          BY <5>1
        <5>3. Len(got'[c]) <= Len(sent'[c])
          BY <2>1, <3>6 DEF ArrivedFirst
        <5> QED
          BY <2>1, <3>1, <5>1, <5>2, <5>3
      <4>2. ArrivedOf(c) = [i \in 1..m |-> sent[c][i]]
        BY <3>6 DEF ArrivedOf, ArrivedFirst
      <4>3. ArrivedOf(c)' = [i \in 1..(m + 1) |-> sent[c][i]]
        BY <2>1, <3>6, <4>1 DEF ArrivedOf, ArrivedFirst
      <4>4. ArrivedOf(c) \in Seq(Frames) /\ Len(ArrivedOf(c)) = m
        <5>1. sent[c] \in Seq(Frames) /\ Len(sent[c]) \in Nat
          BY <1>0 DEF BaseType
        <5>2. \A i \in 1..m : i \in 1..Len(sent[c])
          BY <4>1, <5>1
        <5>3. [i \in 1..m |-> sent[c][i]] \in [1..m -> Frames]
          BY <5>1, <5>2
        <5>4. \A e \in [1..m -> Frames] : e \in Seq(Frames) /\ Len(e) = m
          <6> HIDE DEF m
          <6> QED
            BY <4>1
        <5> QED
          BY <4>2, <5>3, <5>4
      <4> HIDE DEF m
      <4>5. Append(ArrivedOf(c), sent[c][m + 1]) = [i \in 1..(m + 1) |-> sent[c][i]]
        BY <4>1, <4>2, <4>4
      <4>6. Arrived[c] = ArrivedOf(c)
        BY <1>a
      <4>7. Link!Arrive(c)
        <5>1. Len(Arrived[c]) < Len(sent[c])
          BY <4>1, <4>4, <4>6
        <5>2. Arrived' = [Arrived EXCEPT ![c] = Append(Arrived[c], sent[c][Len(Arrived[c]) + 1])]
          BY <3>3, <4>3, <4>4, <4>5, <4>6
        <5> QED
          BY <2>1, <3>4, <3>6, <5>1, <5>2 DEF Link!Arrive, Over
      <4> QED
        BY <4>7 DEF Link!Next
    <3> QED
      BY <3>5, <3>6
  <2> QED
    BY <2>1, <2>2, <2>3
<1>4. CASE HandshakeFails(c) \/ OnClientClosed(c) \/ Entered(c)
  <2>1. /\ UNCHANGED <<sent, got, torn>> /\ stage[c] \in {"reading", "writing", "open"}
        /\ \E g \in {"open", "dead", "gone"} : stage' = [stage EXCEPT ![c] = g]
    BY <1>4 DEF HandshakeFails, OnClientClosed, Entered, client
  <2>2. Over' = Over \/ Over' = Over \cup {c}
    <3>1. PICK g \in {"open", "dead", "gone"} : stage' = [stage EXCEPT ![c] = g]
      BY <2>1
    <3>2. \A d \in Conns : stage'[d] = IF d = c THEN g ELSE stage[d]
      BY <1>0, <3>1 DEF BaseType
    <3> QED
      BY <2>1, <3>2 DEF Over
  <2> QED
    BY <1>1, <2>1, <2>2
<1>5. CASE Dial(c) \/ OnAccept(c) \/ \E n \in 1..Len(wire[c]) : OnHandshakeRead(c, n)
  <2>1. /\ UNCHANGED <<sent, got, torn>> /\ stage[c] \in {"none", "backlog", "reading"}
        /\ stage' = stage \/ \E g \in {"backlog", "reading", "writing"} : stage' = [stage EXCEPT ![c] = g]
    BY <1>5 DEF Dial, OnAccept, OnHandshakeRead, Reads, client
  <2>2. \A d \in Conns : stage'[d] = stage[d] \/ (d = c /\ stage'[d] \in {"backlog", "reading", "writing"})
    BY <1>0, <2>1 DEF BaseType
  <2>3. Over' = Over
    BY <2>1, <2>2 DEF Over
  <2> QED
    BY <1>1, <2>1, <2>3
<1>6. CASE \/ \E w \in {wire[c], <<>>} : ClientEnds(c, w)
           \/ OnHandshakeWritten(c) \/ Waits(c)
           \/ \E n \in 1..Len(wire[c]) : OnRead(c, n)
  <2>1. UNCHANGED <<sent, got, stage, torn>>
    BY <1>6 DEF ClientEnds, OnHandshakeWritten, Waits, OnRead, Reads, client
  <2> QED
    BY <1>1, <2>1 DEF Over
<1>7. CASE \E k \in 1..5 : OnWrite(c, k)
  <2>1. UNCHANGED <<sent, got, stage>> /\ (torn' = torn \/ torn' = torn \cup {c})
    BY <1>7 DEF OnWrite
  <2>2. CASE torn' = torn
    BY <1>1, <2>1, <2>2 DEF Over
  <2>3. CASE torn' = torn \cup {c}
    <3>1. Arrived' = Arrived /\ Over' = Over
      BY <2>1 DEF Arrived, Over
    <3>2. Link!Tear(c)
      BY <2>1, <2>3, <3>1 DEF Link!Tear, Over
    <3> QED
      BY <3>2 DEF Link!Next
  <2> QED
    BY <2>1, <2>2, <2>3
<1> QED
  BY <1>2, <1>3, <1>4, <1>5, <1>6, <1>7 DEF Steps

(* The hub and its connections are what the other modules take a           *)
(* connection for: frames come whole, in order and once, until it is over  *)
(* or has lost a part of one (ws_connection.cc:214).                       *)
THEOREM Implements == Spec => FrameLinkSpec
<1>1. Init => Link!Init
  BY DEF Init, Link!Init, Arrived
<1>2. Inv /\ Inv' /\ ArrivedFirst /\ ArrivedFirst' /\ [Next]_vars => [Link!Next]_(Link!vars)
  <2> SUFFICES ASSUME Inv, Inv', ArrivedFirst, ArrivedFirst', [Next]_vars
               PROVE  Link!Next \/ UNCHANGED Link!vars
    OBVIOUS
  <2>1. CASE Next
    BY <2>1, NextSteps, StepRefined
  <2>2. CASE UNCHANGED vars
    BY <2>2 DEF vars, client, tables, Link!vars, Arrived
  <2> QED
    BY <2>1, <2>2
<1> QED
  BY <1>1, <1>2, HandedInvariance, ArrivedIs, PTL DEF Spec, FrameLinkSpec, Link!Spec


-----------------------------------------------------------------------------
(* The development daemon: what its parser finds in a stream               *)

DevPiece == {Piece(0, "upgrade"), Piece(0, "blank")}
              \cup [of : Nat \ {0}, part : {"b0", "b1", "len", "mask", "payload"}]

LEMMA PieceTypes ==
  /\ \A n, p : Piece(n, p).of = n /\ Piece(n, p).part = p
  /\ \A p \in {"b0", "b1", "len", "mask", "payload"} : \A n \in Nat \ {0} : Piece(n, p) \in DevPiece
  /\ Piece(0, "upgrade") \in DevPiece /\ Piece(0, "blank") \in DevPiece
  /\ \A u \in DevPiece : /\ u.of \in Nat /\ u = Piece(u.of, u.part)
                         /\ u.part \in {"upgrade", "blank", "b0", "b1", "len", "mask", "payload"}
                         /\ u.part \notin {"upgrade", "blank"} => u.of >= 1
                         /\ u.part \in {"upgrade", "blank"} => u.of = 0
BY DEF DevPiece, Piece

(* What comes behind a unit of the frames fr. *)
Follows(fr, u) ==
  CASE u.part = "upgrade" -> Piece(0, "blank")
    [] u.part = "b0" -> Piece(u.of, "b1")
    [] u.part = "b1" -> Piece(u.of, IF fr[u.of].req \in Long THEN "len" ELSE "mask")
    [] u.part = "len" -> Piece(u.of, "mask")
    [] u.part = "mask" -> Piece(u.of, "payload")
    [] u.part \in {"blank", "payload"} -> Piece(u.of + 1, "b0")

(* The frame that the parser takes out next, 0 for the handshake. *)
First(fr, q) == IF q = <<>> THEN Len(fr) + 1 ELSE q[1].of

(* q has all units from its first one to the last one that was sent. *)
Flowing(fr, q) ==
  /\ \A i \in 1..(Len(q) - 1) : q[i + 1] = Follows(fr, q[i])
  /\ \A i, j \in 1..Len(q) : i <= j => q[i].of <= q[j].of
  /\ q # <<>> => q[Len(q)] = Piece(Len(fr), IF Len(fr) = 0 THEN "blank" ELSE "payload")
  /\ \A n \in 1..Len(fr) :
       n >= First(fr, q) => \E i \in 1..Len(q) : q[i] = Piece(n, "payload")

LEMMA FlowBounds ==
  ASSUME NEW fr \in Seq(Sendable), NEW q \in Seq(DevPiece), Flowing(fr, q)
  PROVE  /\ \A i \in 1..Len(q) : q[i].of \in 0..Len(fr) /\ q[i].of >= First(fr, q)
         /\ First(fr, q) \in 0..(Len(fr) + 1)
<1>1. Len(q) \in Nat /\ Len(fr) \in Nat
  OBVIOUS
<1>2. \A i \in 1..Len(q) : q[i].of \in Nat
  BY PieceTypes
<1>3. ASSUME NEW i \in 1..Len(q)
      PROVE  q[i].of <= Len(fr) /\ q[1].of <= q[i].of /\ 1 \in 1..Len(q)
  <2>1. q # <<>> /\ Len(q) \in 1..Len(q) /\ 1 \in 1..Len(q) /\ i <= Len(q) /\ 1 <= i
    BY <1>1
  <2>2. q[Len(q)].of = Len(fr)
    BY <2>1, PieceTypes DEF Flowing
  <2> QED
    BY <2>1, <2>2 DEF Flowing
<1>4. CASE q = <<>>
  BY <1>1, <1>4 DEF First
<1>5. CASE q # <<>>
  <2>1. 1 \in 1..Len(q)
    BY <1>5
  <2> QED
    BY <1>1, <1>2, <1>3, <1>5, <2>1 DEF First
<1> QED
  BY <1>4, <1>5

(* The units of a frame. *)
LEMMA PiecesAre ==
  ASSUME NEW n \in Nat \ {0}, NEW f
  PROVE  /\ Pieces(n, f) \in Seq(DevPiece)
         /\ Len(Pieces(n, f)) \in {4, 5}
         /\ Pieces(n, f)[1] = Piece(n, "b0") /\ Pieces(n, f)[2] = Piece(n, "b1")
         /\ f.req \in Long => /\ Len(Pieces(n, f)) = 5
                              /\ Pieces(n, f)[3] = Piece(n, "len") /\ Pieces(n, f)[4] = Piece(n, "mask")
                              /\ Pieces(n, f)[5] = Piece(n, "payload")
         /\ f.req \notin Long => /\ Len(Pieces(n, f)) = 4
                                 /\ Pieces(n, f)[3] = Piece(n, "mask")
                                 /\ Pieces(n, f)[4] = Piece(n, "payload")
<1>1. CASE f.req \in Long
  <2>1. PiecesOf(f) = <<"b0", "b1", "len", "mask", "payload">>
    BY <1>1 DEF PiecesOf
  <2>2. Pieces(n, f) = [i \in 1..5 |-> Piece(n, <<"b0", "b1", "len", "mask", "payload">>[i])]
    BY <2>1 DEF Pieces
  <2> QED
    BY <1>1, <2>2, PieceTypes
<1>2. CASE f.req \notin Long
  <2>1. PiecesOf(f) = <<"b0", "b1", "mask", "payload">>
    BY <1>2 DEF PiecesOf
  <2>2. Pieces(n, f) = [i \in 1..4 |-> Piece(n, <<"b0", "b1", "mask", "payload">>[i])]
    BY <2>1 DEF Pieces
  <2> QED
    BY <1>2, <2>2, PieceTypes
<1> QED
  BY <1>1, <1>2

LEMMA PiecesFollow ==
  ASSUME NEW n \in Nat \ {0}, NEW fr, NEW f, fr[n] = f
  PROVE  LET u == Pieces(n, f) IN
         /\ \A i \in 1..(Len(u) - 1) : u[i + 1] = Follows(fr, u[i])
         /\ \A i \in 1..Len(u) : u[i].of = n
         /\ u[Len(u)] = Piece(n, "payload")
<1> DEFINE u == Pieces(n, f)
<1>1. CASE f.req \in Long
  <2>1. /\ Len(u) = 5 /\ u[1] = Piece(n, "b0") /\ u[2] = Piece(n, "b1") /\ u[3] = Piece(n, "len")
        /\ u[4] = Piece(n, "mask") /\ u[5] = Piece(n, "payload")
    BY <1>1, PiecesAre
  <2>2. \A i \in 1..(Len(u) - 1) : i \in {1, 2, 3, 4}
    BY <2>1
  <2>3. \A i \in 1..Len(u) : i \in {1, 2, 3, 4, 5}
    BY <2>1
  <2> HIDE DEF u
  <2>4. /\ u[1 + 1] = Follows(fr, u[1]) /\ u[2 + 1] = Follows(fr, u[2])
        /\ u[3 + 1] = Follows(fr, u[3]) /\ u[4 + 1] = Follows(fr, u[4])
    BY <1>1, <2>1 DEF Follows, Piece
  <2>5. \A i \in 1..Len(u) : u[i].of = n
    BY <2>1, <2>3, PieceTypes
  <2> QED
    BY <2>1, <2>2, <2>4, <2>5 DEF u
<1>2. CASE f.req \notin Long
  <2>1. /\ Len(u) = 4 /\ u[1] = Piece(n, "b0") /\ u[2] = Piece(n, "b1")
        /\ u[3] = Piece(n, "mask") /\ u[4] = Piece(n, "payload")
    BY <1>2, PiecesAre
  <2>2. \A i \in 1..(Len(u) - 1) : i \in {1, 2, 3}
    BY <2>1
  <2>3. \A i \in 1..Len(u) : i \in {1, 2, 3, 4}
    BY <2>1
  <2> HIDE DEF u
  <2>4. /\ u[1 + 1] = Follows(fr, u[1]) /\ u[2 + 1] = Follows(fr, u[2])
        /\ u[3 + 1] = Follows(fr, u[3])
    BY <1>2, <2>1 DEF Follows, Piece
  <2>5. \A i \in 1..Len(u) : u[i].of = n
    BY <2>1, <2>3, PieceTypes
  <2> QED
    BY <2>1, <2>2, <2>4, <2>5 DEF u
<1> QED
  BY <1>1, <1>2

(* A frame that is sent goes behind what is on its way. *)
LEMMA FlowSent ==
  ASSUME NEW fr \in Seq(Sendable), NEW q \in Seq(DevPiece), NEW f \in Sendable, Flowing(fr, q)
  PROVE  LET t == q \o Pieces(Len(fr) + 1, f)
             fs == Append(fr, f) IN
         /\ t \in Seq(DevPiece) /\ fs \in Seq(Sendable) /\ Len(fs) = Len(fr) + 1
         /\ \A n \in 1..Len(fr) : fs[n] = fr[n]
         /\ Flowing(fs, t) /\ First(fs, t) = First(fr, q)
         /\ t # <<>> /\ t[1] = IF q = <<>> THEN Piece(Len(fr) + 1, "b0") ELSE q[1]
<1> DEFINE N == Len(fr)
           P == Pieces(N + 1, f)
           t == q \o P
           fs == Append(fr, f)
<1>1. /\ N \in Nat /\ N + 1 \in Nat \ {0}
      /\ fs \in Seq(Sendable) /\ Len(fs) = N + 1 /\ fs[N + 1] = f
      /\ \A n \in 1..N : fs[n] = fr[n]
  OBVIOUS
<1>2. /\ P \in Seq(DevPiece) /\ Len(P) \in {4, 5} /\ P[1] = Piece(N + 1, "b0")
      /\ \A i \in 1..(Len(P) - 1) : P[i + 1] = Follows(fs, P[i])
      /\ \A i \in 1..Len(P) : P[i].of = N + 1
      /\ P[Len(P)] = Piece(N + 1, "payload")
  <2> DEFINE M == N + 1
  <2>1. M \in Nat \ {0} /\ fs[M] = f
    BY <1>1
  <2> HIDE DEF N, M, fs
  <2> DEFINE u == Pieces(M, f)
  <2>2. u \in Seq(DevPiece) /\ Len(u) \in {4, 5} /\ u[1] = Piece(M, "b0")
    BY <2>1, PiecesAre
  <2>3. /\ \A i \in 1..(Len(u) - 1) : u[i + 1] = Follows(fs, u[i])
        /\ \A i \in 1..Len(u) : u[i].of = M
        /\ u[Len(u)] = Piece(M, "payload")
    BY <2>1, PiecesFollow
  <2> QED
    BY <2>2, <2>3 DEF M
<1>3. \A i \in 1..Len(q) : q[i].of \in 0..N /\ q[i].of >= First(fr, q)
  BY FlowBounds
<1>4. First(fr, q) \in 0..(N + 1)
  BY FlowBounds
<1> DEFINE L == Len(q)
           K == Len(P)
<1>5. L \in Nat /\ K \in {4, 5} /\ \A i \in 1..L : q[i] \in DevPiece
  BY <1>2
<1> HIDE DEF N, P, fs
<1>6. /\ t \in Seq(DevPiece) /\ Len(t) = L + K
      /\ \A i \in 1..L : t[i] = q[i]
      /\ \A i \in 1..K : t[L + i] = P[i]
  BY <1>2, Joined
<1> HIDE DEF t, K
<1>7. \A i \in 1..Len(t) : i \in 1..L \/ (i - L \in 1..K /\ t[i] = P[i - L] /\ i > L)
  <2> SUFFICES ASSUME NEW i \in 1..Len(t), i \notin 1..L
               PROVE  i - L \in 1..K /\ t[i] = P[i - L] /\ i > L
    OBVIOUS
  <2> HIDE DEF L
  <2>1. i - L \in 1..K /\ L + (i - L) = i /\ i > L
    BY <1>5, <1>6
  <2> QED
    BY <1>6, <2>1
<1>8. ASSUME NEW i \in 1..(Len(t) - 1)
      PROVE  t[i + 1] = Follows(fs, t[i])
  <2>1. CASE i < L
    <3>1. i \in 1..(L - 1) /\ i \in 1..L /\ i + 1 \in 1..L
      BY <1>5, <2>1
    <3>2. t[i] = q[i] /\ t[i + 1] = q[i + 1]
      BY <1>6, <3>1
    <3>3. q[i + 1] = Follows(fr, q[i])
      BY <3>1 DEF Flowing
    <3>4. q[i].part = "b1" => q[i].of \in 1..N
      BY <1>1, <1>3, <1>5, <3>1, PieceTypes
    <3>5. Follows(fs, q[i]) = Follows(fr, q[i])
      BY <1>1, <3>4 DEF Follows
    <3> QED
      BY <3>2, <3>3, <3>5
  <2>2. CASE i = L
    <3>1. L \in 1..L /\ q # <<>>
      BY <1>5, <2>2
    <3>2. t[i] = q[L] /\ t[i + 1] = P[1]
      <4>1. 1 \in 1..K
        BY <1>5
      <4> QED
        BY <1>6, <2>2, <3>1, <4>1
    <3>3. q[L] = Piece(N, IF N = 0 THEN "blank" ELSE "payload")
      BY <3>1 DEF Flowing, N
    <3>4. Follows(fs, q[L]) = Piece(N + 1, "b0")
      BY <3>3, PieceTypes DEF Follows
    <3> QED
      BY <1>2, <3>2, <3>4
  <2>3. CASE i > L
    <3> DEFINE j == i - L
    <3>1. j \in 1..(K - 1) /\ j \in 1..K /\ j + 1 \in 1..K /\ L + j = i /\ L + (j + 1) = i + 1
      <4> HIDE DEF L
      <4> QED
        BY <1>5, <1>6, <2>3
    <3>2. t[i] = P[j] /\ t[i + 1] = P[j + 1]
      BY <1>6, <3>1
    <3> HIDE DEF j
    <3> QED
      BY <1>2, <3>1, <3>2 DEF K
  <2> QED
    BY <1>5, <2>1, <2>2, <2>3
<1>9. ASSUME NEW i \in 1..Len(t), NEW j \in 1..Len(t), i <= j
      PROVE  t[i].of <= t[j].of
  <2>1. CASE j \in 1..L
    <3>1. i \in 1..L
      BY <1>5, <1>9, <2>1
    <3> QED
      BY <1>6, <1>9, <2>1, <3>1 DEF Flowing
  <2>2. CASE j \notin 1..L
    <3>1. t[j].of = N + 1
      BY <1>2, <1>7, <2>2 DEF K
    <3>2. t[i].of \in 0..(N + 1)
      <4>1. CASE i \in 1..L
        <5>1. t[i].of \in 0..N
          BY <1>3, <1>6, <4>1
        <5> QED
          BY <1>1, <5>1
      <4>2. CASE i \notin 1..L
        <5>1. t[i].of = N + 1
          BY <1>2, <1>7, <4>2 DEF K
        <5> QED
          BY <1>1, <5>1
      <4> QED
        BY <4>1, <4>2
    <3> QED
      BY <1>1, <3>1, <3>2
  <2> QED
    BY <2>1, <2>2
<1>10. t # <<>> /\ t[Len(t)] = Piece(N + 1, "payload") /\ Len(t) \in Nat
  <2>1. K \in 1..K /\ L + K # 0 /\ L + K \in Nat
    BY <1>5
  <2> QED
    BY <1>2, <1>6, <2>1 DEF K
<1>11. t[1] = IF q = <<>> THEN Piece(N + 1, "b0") ELSE q[1]
  <2>1. CASE q = <<>>
    <3>1. L = 0 /\ 1 \in 1..K /\ L + 1 = 1
      BY <1>5, <2>1
    <3> HIDE DEF L
    <3> QED
      BY <1>2, <1>6, <2>1, <3>1
  <2>2. CASE q # <<>>
    <3>1. 1 \in 1..L
      BY <1>5, <2>2
    <3> QED
      BY <1>6, <2>2, <3>1
  <2> QED
    BY <2>1, <2>2
<1>12. First(fs, t) = First(fr, q)
  BY <1>10, <1>11, PieceTypes DEF First, N
<1>13. ASSUME NEW n \in 1..Len(fs), n >= First(fs, t)
       PROVE  \E i \in 1..Len(t) : t[i] = Piece(n, "payload")
  <2>1. CASE n = N + 1
    BY <1>10, <2>1, Len(t) \in 1..Len(t)
  <2>2. CASE n # N + 1
    <3>1. n \in 1..N
      BY <1>1, <2>2
    <3>2. PICK i \in 1..Len(q) : q[i] = Piece(n, "payload")
      BY <1>12, <1>13, <3>1 DEF Flowing, N
    <3>3. i \in 1..Len(t)
      BY <1>5, <1>6
    <3> QED
      BY <1>6, <3>2, <3>3
  <2> QED
    BY <2>1, <2>2
<1>14. Len(fs) # 0
  BY <1>1
<1>15. Flowing(fs, t)
  BY <1>1, <1>8, <1>9, <1>10, <1>13, <1>14 DEF Flowing
<1> QED
  BY <1>1, <1>6, <1>10, <1>11, <1>12, <1>15 DEF N, P, t, fs

(* What is behind a frame, or behind the handshake, flows on. *)
LEMMA FlowTaken ==
  ASSUME NEW fr \in Seq(Sendable), NEW q \in Seq(DevPiece), Flowing(fr, q),
         NEW m \in Nat, NEW k \in 1..Len(q), q[k].part \in {"blank", "payload"}, q[k].of = m,
         \A i \in 1..k : q[i].of = m
  PROVE  LET t == SubSeq(q, k + 1, Len(q)) IN
         /\ t \in Seq(DevPiece) /\ Flowing(fr, t) /\ First(fr, t) = m + 1
         /\ t # <<>> => t[1] = Piece(m + 1, "b0")
<1> DEFINE t == SubSeq(q, k + 1, Len(q))
           N == Len(fr)
           L == Len(q)
<1>1. L \in Nat /\ N \in Nat /\ k \in 0..L /\ \A i \in 1..L : q[i] \in DevPiece
  OBVIOUS
<1>2. t \in Seq(DevPiece) /\ Len(t) = L - k /\ \A i \in 1..(L - k) : t[i] = q[k + i]
  BY <1>1, Suffix
<1> HIDE DEF t
<1>3. \A i \in 1..Len(t) : k + i \in 1..L /\ k + i > k /\ t[i] = q[k + i]
  BY <1>1, <1>2
<1>4. ASSUME t # <<>>
      PROVE  t[1] = Piece(m + 1, "b0") /\ Len(t) >= 1 /\ q # <<>>
  <2>1. Len(t) >= 1 /\ Len(t) \in Nat
    BY <1>2, <1>4
  <2>2. 1 \in 1..Len(t) /\ k \in 1..(L - 1)
    BY <1>1, <1>2, <2>1
  <2>3. t[1] = q[k + 1] /\ q[k + 1] = Follows(fr, q[k])
    BY <1>3, <2>2 DEF Flowing
  <2>4. Follows(fr, q[k]) = Piece(m + 1, "b0")
    BY DEF Follows
  <2> QED
    BY <2>1, <2>3, <2>4
<1>5. CASE t = <<>>
  <2>1. k = L /\ Len(t) = 0
    BY <1>1, <1>2, <1>5
  <2>2. q # <<>>
    BY <1>1
  <2>3. q[L] = Piece(N, IF N = 0 THEN "blank" ELSE "payload")
    BY <2>2 DEF Flowing
  <2>4. m = N
    BY <2>1, <2>3, PieceTypes
  <2>5. First(fr, t) = N + 1
    BY <1>5 DEF First
  <2>6. Flowing(fr, t)
    BY <1>1, <1>5, <2>1, <2>5 DEF Flowing
  <2> QED
    BY <1>2, <1>5, <2>4, <2>5, <2>6 DEF t
<1>6. CASE t # <<>>
  <2>1. First(fr, t) = m + 1
    BY <1>4, <1>6, PieceTypes DEF First
  <2>2. ASSUME NEW i \in 1..(Len(t) - 1)
        PROVE  t[i + 1] = Follows(fr, t[i])
    <3>1. i \in 1..Len(t) /\ i + 1 \in 1..Len(t)
      BY <1>1, <1>2
    <3>2. k + i \in 1..(L - 1) /\ k + (i + 1) = (k + i) + 1
      BY <1>1, <1>2
    <3>3. t[i] = q[k + i] /\ t[i + 1] = q[(k + i) + 1]
      BY <1>3, <3>1, <3>2
    <3> QED
      BY <3>2, <3>3 DEF Flowing
  <2>3. ASSUME NEW i \in 1..Len(t), NEW j \in 1..Len(t), i <= j
        PROVE  t[i].of <= t[j].of
    <3>1. k + i \in 1..L /\ k + j \in 1..L /\ k + i <= k + j
      BY <1>3, <2>3
    <3>2. q[k + i].of <= q[k + j].of
      BY <3>1 DEF Flowing
    <3> QED
      BY <1>3, <3>2
  <2>4. t[Len(t)] = Piece(N, IF N = 0 THEN "blank" ELSE "payload")
    <3>1. Len(t) \in 1..Len(t) /\ k + Len(t) = L
      BY <1>1, <1>2, <1>4, <1>6
    <3>2. t[Len(t)] = q[L]
      BY <1>3, <3>1
    <3> QED
      BY <1>4, <1>6, <3>2 DEF Flowing
  <2>5. ASSUME NEW n \in 1..N, n >= m + 1
        PROVE  \E i \in 1..Len(t) : t[i] = Piece(n, "payload")
    <3>1. n >= First(fr, q)
      <4>1. 1 \in 1..k /\ q # <<>>
        BY <1>1
      <4>2. First(fr, q) = m
        BY <4>1 DEF First
      <4> QED
        BY <2>5, <4>2
    <3>2. PICK i \in 1..L : q[i] = Piece(n, "payload")
      BY <3>1 DEF Flowing
    <3>3. ~(i \in 1..k)
      <4>1. q[i].of = n
        BY <3>2, PieceTypes
      <4> QED
        BY <2>5, <4>1
    <3>4. i - k \in 1..Len(t) /\ k + (i - k) = i
      BY <1>1, <1>2, <3>3
    <3>5. t[i - k] = q[i]
      BY <1>3, <3>4
    <3> QED
      BY <3>2, <3>4, <3>5
  <2>6. Flowing(fr, t)
    BY <2>1, <2>2, <2>3, <2>4, <2>5 DEF Flowing
  <2> QED
    BY <1>2, <1>4, <1>6, <2>1, <2>6 DEF t
<1> QED
  BY <1>5, <1>6

(* A flow that begins with a frame has its units in front. *)
Fronts(fr, q, m) ==
  /\ Len(q) >= 1 => q[1] = Piece(m, "b0")
  /\ Len(q) >= 2 => q[2] = Piece(m, "b1")
  /\ Len(q) >= 3 => q[3] = Piece(m, IF fr[m].req \in Long THEN "len" ELSE "mask")
  /\ Len(q) >= 4 => q[4] = Piece(m, IF fr[m].req \in Long THEN "mask" ELSE "payload")
  /\ fr[m].req \in Long /\ Len(q) >= 5 => q[5] = Piece(m, "payload")

LEMMA FlowFronts ==
  ASSUME NEW fr, NEW q \in Seq(DevPiece), Flowing(fr, q), NEW m, q # <<>> => q[1] = Piece(m, "b0")
  PROVE  Fronts(fr, q, m)
<1>1. Len(q) \in Nat
  OBVIOUS
<1>2. \A i \in Nat : i >= 1 /\ i + 1 <= Len(q) => q[i + 1] = Follows(fr, q[i])
  <2>1. \A i \in 1..(Len(q) - 1) : q[i + 1] = Follows(fr, q[i])
    BY DEF Flowing
  <2> QED
    BY <1>1, <2>1
<1>3. Len(q) >= 1 => q[1] = Piece(m, "b0")
  BY <1>1
<1>4. /\ Follows(fr, Piece(m, "b0")) = Piece(m, "b1")
      /\ Follows(fr, Piece(m, "b1")) = Piece(m, IF fr[m].req \in Long THEN "len" ELSE "mask")
      /\ Follows(fr, Piece(m, "len")) = Piece(m, "mask")
      /\ Follows(fr, Piece(m, "mask")) = Piece(m, "payload")
  BY DEF Follows, Piece
<1>5. Len(q) >= 2 => q[2] = Piece(m, "b1")
  BY <1>1, <1>2, <1>3, <1>4, 1 + 1 = 2
<1>6. Len(q) >= 3 => q[3] = Piece(m, IF fr[m].req \in Long THEN "len" ELSE "mask")
  BY <1>1, <1>2, <1>4, <1>5, 2 + 1 = 3
<1>7. Len(q) >= 4 => q[4] = Piece(m, IF fr[m].req \in Long THEN "mask" ELSE "payload")
  BY <1>1, <1>2, <1>4, <1>6, 3 + 1 = 4
<1>8. fr[m].req \in Long /\ Len(q) >= 5 => q[5] = Piece(m, "payload")
  BY <1>1, <1>2, <1>4, <1>7, 4 + 1 = 5
<1> QED
  BY <1>3, <1>5, <1>6, <1>7, <1>8 DEF Fronts

(* BodyAt, of a buffer b. *)
Place(fr, b) ==
  IF Len(b) < 2 \/ Len(b) < Header(fr[b[2].of]) + 2 THEN 0 ELSE Header(fr[b[2].of]) + 2

(* The parser takes out the units of the frame in front, and no others. *)
LEMMA PlaceOfBody ==
  ASSUME NEW fr, NEW b \in Seq(DevPiece), NEW l \in Seq(DevPiece), Flowing(fr, b \o l), NEW m,
         b \o l # <<>> => (b \o l)[1] = Piece(m, "b0"), Place(fr, b) # 0
  PROVE  /\ Place(fr, b) \in 1..Len(b) /\ b[Place(fr, b)] = Piece(m, "payload")
         /\ (b \o l)[Place(fr, b)] = Piece(m, "payload")
         /\ \A i \in 1..Place(fr, b) : (b \o l)[i].of = m
<1> DEFINE q == b \o l
           k == Place(fr, b)
<1>1. /\ q \in Seq(DevPiece) /\ Len(q) = Len(b) + Len(l) /\ \A i \in 1..Len(b) : q[i] = b[i]
      /\ Len(b) \in Nat /\ Len(l) \in Nat
  BY Joined
<1> HIDE DEF q
<1>2. Fronts(fr, q, m)
  BY <1>1, FlowFronts DEF q
<1>3. /\ Len(b) >= 2 /\ Len(b) >= k
      /\ k = IF fr[b[2].of].req \in Long THEN 5 ELSE 4
  BY <1>1 DEF Place, Header
<1>4. b[2] = Piece(m, "b1") /\ q[2] = Piece(m, "b1")
  BY <1>1, <1>2, <1>3 DEF Fronts
<1>5. k = IF fr[m].req \in Long THEN 5 ELSE 4
  BY <1>3, <1>4, PieceTypes
<1> HIDE DEF k
<1>6. k \in 1..Len(b) /\ k <= Len(q) /\ k \in {4, 5}
  BY <1>1, <1>3, <1>5
<1>7. q[k] = Piece(m, "payload")
  BY <1>1, <1>2, <1>5, <1>6 DEF Fronts
<1>8. \A i \in 1..k : \E p \in {"b0", "b1", "len", "mask", "payload"} : q[i] = Piece(m, p)
  <2>1. CASE fr[m].req \in Long
    BY <1>1, <1>2, <1>5, <1>6, <2>1 DEF Fronts
  <2>2. CASE fr[m].req \notin Long
    BY <1>1, <1>2, <1>5, <1>6, <2>2 DEF Fronts
  <2> QED
    BY <2>1, <2>2
<1>9. ASSUME NEW i \in 1..k
      PROVE  q[i].of = m
  <2>1. PICK p \in {"b0", "b1", "len", "mask", "payload"} : q[i] = Piece(m, p)
    BY <1>8
  <2>2. Piece(m, p).of = m
    BY PieceTypes
  <2> QED
    BY <2>1, <2>2
<1>10. b[k] = Piece(m, "payload")
  BY <1>1, <1>6, <1>7
<1>11. k \in 1..Len(b) /\ b[k] = Piece(m, "payload") /\ q[k] = Piece(m, "payload")
       /\ \A i \in 1..k : q[i].of = m
  BY <1>6, <1>7, <1>9, <1>10
<1> QED
  BY <1>11 DEF q, k

(* A buffer without a whole frame has no payload. *)
LEMMA NoBody ==
  ASSUME NEW fr, NEW b \in Seq(DevPiece), NEW l \in Seq(DevPiece), Flowing(fr, b \o l), NEW m,
         b \o l # <<>> => (b \o l)[1] = Piece(m, "b0"), Place(fr, b) = 0,
         NEW i \in 1..Len(b)
  PROVE  b[i].part # "payload"
<1> DEFINE q == b \o l
<1>1. /\ q \in Seq(DevPiece) /\ Len(q) = Len(b) + Len(l) /\ \A j \in 1..Len(b) : q[j] = b[j]
      /\ Len(b) \in Nat /\ Len(l) \in Nat
  BY Joined
<1> HIDE DEF q
<1>2. Fronts(fr, q, m)
  BY <1>1, FlowFronts DEF q
<1>3. Len(b) >= 2 => b[2] = Piece(m, "b1")
  BY <1>1, <1>2 DEF Fronts
<1>4. Len(b) < 2 \/ Len(b) < IF fr[m].req \in Long THEN 5 ELSE 4
  BY <1>1, <1>3, PieceTypes DEF Place, Header
<1>5. Len(b) < 5 /\ (Len(b) < 4 \/ fr[m].req \in Long)
  BY <1>1, <1>4
<1>6. i \in {1, 2, 3, 4} /\ i <= Len(q) /\ b[i] = q[i] /\ (i = 4 => fr[m].req \in Long)
  BY <1>1, <1>5
<1>7. \E p \in {"b0", "b1", "len", "mask"} : q[i] = Piece(m, p)
  BY <1>1, <1>2, <1>6 DEF Fronts
<1> QED
  BY <1>6, <1>7, PieceTypes

(* The requests among the frames before m have been handled, in order. *)
HandledUpTo(fr, h, m) ==
  /\ \A i \in 1..Len(h) : h[i] \in 1..(m - 1) /\ fr[h[i]].op = "text"
  /\ \A n \in 1..(m - 1) : fr[n].op = "text" => \E i \in 1..Len(h) : h[i] = n
  /\ \A i, j \in 1..Len(h) : i < j => h[i] < h[j]

LEMMA HandlesNext ==
  ASSUME NEW fr, NEW h \in Seq(Nat), NEW m \in Nat \ {0}, HandledUpTo(fr, h, m)
  PROVE  /\ fr[m].op # "text" => HandledUpTo(fr, h, m + 1)
         /\ fr[m].op = "text" => HandledUpTo(fr, Append(h, m), m + 1)
<1>0. \A n \in 1..((m + 1) - 1) : n \in 1..(m - 1) \/ n = m
  OBVIOUS
<1>1. CASE fr[m].op # "text"
  BY <1>0, <1>1 DEF HandledUpTo
<1>2. CASE fr[m].op = "text"
  <2> DEFINE g == Append(h, m)
             K == Len(h)
  <2>1. K \in Nat /\ Len(g) = K + 1 /\ g[K + 1] = m /\ \A i \in 1..K : g[i] = h[i]
    BY AppendProperties
  <2>2. \A i \in 1..(K + 1) : i \in 1..K \/ i = K + 1
    BY <2>1
  <2>3. \A i \in 1..K : h[i] \in 1..(m - 1) /\ h[i] < m
    BY DEF HandledUpTo
  <2> HIDE DEF g
  <2>4. \A i \in 1..Len(g) : g[i] \in 1..((m + 1) - 1) /\ fr[g[i]].op = "text"
    <3> SUFFICES ASSUME NEW i \in 1..Len(g)
                 PROVE  g[i] \in 1..((m + 1) - 1) /\ fr[g[i]].op = "text"
      OBVIOUS
    <3>1. CASE i \in 1..K
      BY <2>1, <2>3, <3>1 DEF HandledUpTo
    <3>2. CASE i = K + 1
      BY <1>2, <2>1, <3>2
    <3> QED
      BY <2>1, <2>2, <3>1, <3>2
  <2>5. \A n \in 1..((m + 1) - 1) : fr[n].op = "text" => \E i \in 1..Len(g) : g[i] = n
    <3> SUFFICES ASSUME NEW n \in 1..((m + 1) - 1), fr[n].op = "text"
                 PROVE  \E i \in 1..Len(g) : g[i] = n
      OBVIOUS
    <3>1. CASE n = m
      BY <2>1, <3>1, K + 1 \in 1..Len(g)
    <3>2. CASE n \in 1..(m - 1)
      <4>1. PICK i \in 1..K : h[i] = n
        BY <3>2 DEF HandledUpTo
      <4>2. i \in 1..Len(g)
        BY <2>1
      <4> QED
        BY <2>1, <4>1, <4>2
    <3> QED
      BY <1>0, <3>1, <3>2
  <2>6. \A i, j \in 1..Len(g) : i < j => g[i] < g[j]
    <3> SUFFICES ASSUME NEW i \in 1..Len(g), NEW j \in 1..Len(g), i < j
                 PROVE  g[i] < g[j]
      OBVIOUS
    <3>1. i \in 1..K
      BY <2>1
    <3>2. CASE j \in 1..K
      BY <2>1, <3>1, <3>2 DEF HandledUpTo
    <3>3. CASE j = K + 1
      BY <2>1, <2>3, <3>1, <3>3
    <3> QED
      BY <2>1, <2>2, <3>2, <3>3
  <2>7. HandledUpTo(fr, g, m + 1)
    BY <2>4, <2>5, <2>6 DEF HandledUpTo
  <2> QED
    BY <1>2, <2>7 DEF g
<1> QED
  BY <1>1, <1>2

(* What holds of one socket: of its frames fr, its stage st, its buffer b, *)
(* its units l on the way and the numbers h of the frames handled; idle is *)
(* that its callback does not run.                                         *)
SockInv(fr, st, b, l, h, idle) ==
  LET q == b \o l IN
  /\ \A n \in 1..Len(fr) : fr[n].op = "close" => n = Len(fr)
  /\ Flowing(fr, q)
  /\ st = "new" => q # <<>> /\ q[1] = Piece(0, "upgrade") /\ h = <<>>
  /\ st # "new" => First(fr, q) >= 1 /\ (q # <<>> => q[1] = Piece(First(fr, q), "b0"))
  /\ st = "closed" => q = <<>>
  /\ HandledUpTo(fr, h, First(fr, q))
  /\ idle /\ st # "new" => Place(fr, b) = 0

(* A client sends a frame. *)
LEMMA SockSends ==
  ASSUME NEW fr \in Seq(Sendable), NEW st, NEW b \in Seq(DevPiece),
         NEW l \in Seq(DevPiece), NEW h \in Seq(Nat), SockInv(fr, st, b, l, h, TRUE), st # "closed", NEW f \in Sendable,
         \A n \in 1..Len(fr) : fr[n].op # "close"
  PROVE  SockInv(Append(fr, f), st, b, l \o Pieces(Len(fr) + 1, f), h, TRUE)
<1> DEFINE q == b \o l
           P == Pieces(Len(fr) + 1, f)
           t == q \o P
           fs == Append(fr, f)
<1>1. q \in Seq(DevPiece) /\ Len(q) = Len(b) + Len(l) /\ \A i \in 1..Len(b) : q[i] = b[i]
  BY Joined
<1>2. Flowing(fr, q) /\ HandledUpTo(fr, h, First(fr, q))
  BY DEF SockInv
<1>3. P \in Seq(DevPiece)
  BY Len(fr) + 1 \in Nat \ {0}, PiecesAre
<1>4. b \o (l \o P) = t
  <2> HIDE DEF P
  <2> QED
    BY <1>3, ConcatAssociative, SMTT(30)
<1>5. /\ First(fr, q) \in 0..(Len(fr) + 1)
      /\ \A i \in 1..Len(q) : q[i].of \in 0..Len(fr) /\ q[i].of >= First(fr, q)
  BY <1>1, <1>2, FlowBounds
<1> HIDE DEF q
<1>6. /\ Len(fs) = Len(fr) + 1 /\ \A n \in 1..Len(fr) : fs[n] = fr[n]
      /\ Flowing(fs, t) /\ First(fs, t) = First(fr, q)
      /\ t # <<>> /\ t[1] = IF q = <<>> THEN Piece(Len(fr) + 1, "b0") ELSE q[1]
  BY <1>1, <1>2, FlowSent
<1>7. Len(fr) \in Nat /\ Len(b) \in Nat /\ Len(l) \in Nat
  OBVIOUS
<1> HIDE DEF P, t, fs
<1>8. \A n \in 1..Len(fs) : fs[n].op = "close" => n = Len(fs)
  <2>1. \A n \in 1..Len(fs) : n \in 1..Len(fr) \/ n = Len(fs)
    BY <1>6, <1>7
  <2>2. \A n \in 1..Len(fr) : fs[n].op # "close"
    BY <1>6
  <2> QED
    BY <2>1, <2>2
<1>9. st = "new" => t # <<>> /\ t[1] = Piece(0, "upgrade") /\ h = <<>>
  BY <1>6 DEF SockInv, q
<1>10. st # "new" => First(fs, t) >= 1 /\ (t # <<>> => t[1] = Piece(First(fs, t), "b0"))
  BY <1>6 DEF SockInv, q, First
<1>11. HandledUpTo(fs, h, First(fs, t))
  <2> DEFINE m == First(fr, q)
  <2>1. \A n \in 1..(m - 1) : n \in 1..Len(fr) /\ fs[n] = fr[n]
    BY <1>5, <1>6, <1>7
  <2> HIDE DEF m
  <2>2. HandledUpTo(fs, h, m)
    BY <1>2, <2>1 DEF HandledUpTo, m
  <2> QED
    BY <1>6, <2>2 DEF m
<1>12. st # "new" => Place(fs, b) = 0
  <2> SUFFICES ASSUME st # "new"
               PROVE  Place(fs, b) = 0
    OBVIOUS
  <2>1. Place(fr, b) = 0 /\ First(fr, q) >= 1
    BY DEF SockInv, q
  <2>2. CASE Len(b) < 2
    BY <2>2 DEF Place
  <2>3. CASE Len(b) >= 2
    <3>1. 2 \in 1..Len(b) /\ 2 \in 1..Len(q)
      BY <1>1, <1>7, <2>3
    <3>2. q[2].of \in 0..Len(fr) /\ q[2].of >= First(fr, q) /\ q[2] = b[2]
      BY <1>1, <1>5, <3>1
    <3>3. b[2].of \in 1..Len(fr)
      BY <1>5, <1>7, <2>1, <3>2
    <3>4. fs[b[2].of] = fr[b[2].of]
      BY <1>6, <3>3
    <3> QED
      BY <2>1, <3>4 DEF Place
  <2> QED
    BY <1>7, <2>2, <2>3
<1> QED
  BY <1>2, <1>4, <1>6, <1>8, <1>9, <1>10, <1>11, <1>12 DEF SockInv, P, fs

(* The blank line of the handshake has come. *)
LEMMA SockOpens ==
  ASSUME NEW fr \in Seq(Sendable), NEW b \in Seq(DevPiece), NEW l \in Seq(DevPiece), NEW h \in Seq(Nat),
         SockInv(fr, "new", b, l, h, TRUE), NEW i \in 1..Len(b), b[i].part = "blank"
  PROVE  SockInv(fr, "open", SubSeq(b, 3, Len(b)), l, h, FALSE)
<1> DEFINE q == b \o l
           t == SubSeq(q, 3, Len(q))
           x == SubSeq(b, 3, Len(b))
<1>1. /\ q \in Seq(DevPiece) /\ Len(q) = Len(b) + Len(l) /\ \A j \in 1..Len(b) : q[j] = b[j]
      /\ Len(b) \in Nat /\ Len(l) \in Nat
  BY Joined
<1>2. Flowing(fr, q) /\ q # <<>> /\ q[1] = Piece(0, "upgrade") /\ h = <<>>
  BY DEF SockInv
<1> HIDE DEF q
<1>3. Len(b) >= 2
  <2>1. ASSUME i = 1
        PROVE  FALSE
    BY <1>1, <1>2, <2>1, PieceTypes
  <2> QED
    BY <1>1, <2>1
<1>4. 2 \in 1..Len(q) /\ 1 \in 1..(Len(q) - 1) /\ 2 \in 0..Len(b)
  BY <1>1, <1>3
<1>5. q[2] = Piece(0, "blank")
  <2>1. q[1 + 1] = Follows(fr, q[1])
    BY <1>2, <1>4 DEF Flowing
  <2>2. Follows(fr, q[1]) = Piece(0, "blank")
    BY <1>2, PieceTypes DEF Follows
  <2> QED
    BY <2>1, <2>2, 1 + 1 = 2
<1>6. \A j \in 1..2 : q[j].of = 0
  <2>1. \A j \in 1..2 : j = 1 \/ j = 2
    OBVIOUS
  <2> QED
    BY <1>2, <1>5, <2>1, PieceTypes
<1>7. q[2].part \in {"blank", "payload"} /\ q[2].of = 0
  BY <1>5, PieceTypes
<1>8. /\ Flowing(fr, t) /\ First(fr, t) = 1 /\ (t # <<>> => t[1] = Piece(1, "b0"))
  <2> DEFINE k == 2
             z == 0
             y == SubSeq(q, k + 1, Len(q))
  <2>1. /\ k \in 1..Len(q) /\ z \in Nat /\ q[k].part \in {"blank", "payload"} /\ q[k].of = z
        /\ \A j \in 1..k : q[j].of = z
    BY <1>4, <1>6, <1>7
  <2>2. t = y /\ z + 1 = 1
    OBVIOUS
  <2> HIDE DEF k, z
  <2>3. Flowing(fr, y) /\ First(fr, y) = z + 1 /\ (y # <<>> => y[1] = Piece(z + 1, "b0"))
    BY <1>1, <1>2, <2>1, FlowTaken
  <2> HIDE DEF y, t
  <2> QED
    BY <2>2, <2>3
<1>9. x \o l = t
  <2> DEFINE k == 2
  <2>1. SubSeq(b, k + 1, Len(b)) \o l = SubSeq(b \o l, k + 1, Len(b \o l))
    <3>1. k \in 0..Len(b)
      BY <1>4
    <3> HIDE DEF k
    <3> QED
      BY <3>1, Taken
  <2>2. k + 1 = 3
    OBVIOUS
  <2> HIDE DEF k
  <2> QED
    BY <2>1, <2>2 DEF q
<1>10. HandledUpTo(fr, h, 1)
  BY <1>2 DEF HandledUpTo
<1>11. \A n \in 1..Len(fr) : fr[n].op = "close" => n = Len(fr)
  BY DEF SockInv
<1> HIDE DEF t, x
<1>12. SockInv(fr, "open", x, l, h, FALSE)
  BY <1>8, <1>9, <1>10, <1>11 DEF SockInv
<1> QED
  BY <1>12 DEF x

(* A frame is taken out of the buffer. *)
LEMMA SockTakes ==
  ASSUME NEW fr \in Seq(Sendable), NEW b \in Seq(DevPiece), NEW l \in Seq(DevPiece), NEW h \in Seq(Nat),
         SockInv(fr, "open", b, l, h, FALSE), Place(fr, b) # 0
  PROVE  LET k == Place(fr, b)
             m == b[k].of
             x == SubSeq(b, k + 1, Len(b)) IN
         /\ k \in 1..Len(b) /\ m \in 1..Len(fr) /\ x \in Seq(DevPiece)
         /\ fr[m].op = "close" => SockInv(fr, "closed", x, l, h, TRUE)
         /\ fr[m].op # "text" => SockInv(fr, "open", x, l, h, FALSE)
         /\ fr[m].op = "text" => SockInv(fr, "open", x, l, Append(h, m), FALSE)
<1> DEFINE q == b \o l
           k == Place(fr, b)
           m == b[k].of
           x == SubSeq(b, k + 1, Len(b))
           t == SubSeq(q, k + 1, Len(q))
           n == First(fr, q)
<1>1. /\ q \in Seq(DevPiece) /\ Len(q) = Len(b) + Len(l) /\ \A j \in 1..Len(b) : q[j] = b[j]
      /\ Len(b) \in Nat /\ Len(l) \in Nat
  BY Joined
<1>2. /\ Flowing(fr, q) /\ HandledUpTo(fr, h, n) /\ n >= 1 /\ (q # <<>> => q[1] = Piece(n, "b0"))
      /\ \A j \in 1..Len(fr) : fr[j].op = "close" => j = Len(fr)
  BY DEF SockInv
<1>3. \A i \in 1..Len(q) : q[i].of \in 0..Len(fr)
  BY <1>1, <1>2, FlowBounds
<1>4. n \in 0..(Len(fr) + 1)
  BY <1>1, <1>2, FlowBounds
<1> HIDE DEF n
<1>5. /\ k \in 1..Len(b) /\ b[k] = Piece(n, "payload") /\ q[k] = Piece(n, "payload")
      /\ \A i \in 1..k : q[i].of = n
  BY <1>2, PlaceOfBody
<1> HIDE DEF q, k
<1>6. m = n /\ k \in 1..Len(q) /\ k \in 0..Len(b) /\ q[k].of = n /\ q[k].part \in {"blank", "payload"}
  BY <1>1, <1>5, PieceTypes
<1>7. n \in 1..Len(fr) /\ n \in Nat \ {0} /\ Len(fr) \in Nat
  BY <1>2, <1>3, <1>4, <1>6
<1>8. t \in Seq(DevPiece) /\ Flowing(fr, t) /\ First(fr, t) = n + 1 /\ (t # <<>> => t[1] = Piece(n + 1, "b0"))
  <2>1. /\ q \in Seq(DevPiece) /\ Flowing(fr, q) /\ n \in Nat /\ k \in 1..Len(q)
        /\ q[k].part \in {"blank", "payload"} /\ q[k].of = n /\ \A i \in 1..k : q[i].of = n
    BY <1>1, <1>2, <1>5, <1>6, <1>7
  <2> QED
    BY <2>1, FlowTaken
<1>9. x \in Seq(DevPiece) /\ x \o l = t
  BY <1>6, Suffix, Taken DEF q
<1> HIDE DEF t, x, m
<1>10. /\ fr[n].op # "text" => HandledUpTo(fr, h, n + 1)
       /\ fr[n].op = "text" => HandledUpTo(fr, Append(h, n), n + 1)
  BY <1>2, <1>7, HandlesNext
<1>11. n + 1 >= 1
  BY <1>7
<1>12. fr[n].op # "text" => SockInv(fr, "open", x, l, h, FALSE)
  BY <1>2, <1>8, <1>9, <1>10, <1>11 DEF SockInv
<1>13. fr[n].op = "text" => SockInv(fr, "open", x, l, Append(h, n), FALSE)
  BY <1>2, <1>8, <1>9, <1>10, <1>11 DEF SockInv
<1>14. ASSUME fr[n].op = "close"
       PROVE  SockInv(fr, "closed", x, l, h, TRUE)
  <2>1. n = Len(fr)
    BY <1>2, <1>7, <1>14
  <2>2. t = <<>>
    <3>1. ASSUME t # <<>>
          PROVE  FALSE
      <4>1. 1 \in 1..Len(t)
        BY <1>8, <3>1
      <4>2. t[1].of = n + 1
        BY <1>8, <3>1, PieceTypes
      <4>3. t[1].of <= Len(fr)
        <5>1. t[1].of \in 0..Len(fr)
          BY <1>8, <4>1, FlowBounds
        <5> QED
          BY <5>1
      <4> QED
        BY <1>7, <2>1, <4>2, <4>3
    <3> QED
      BY <3>1
  <2>3. Len(x) = 0
    <3>1. Len(x \o l) = Len(x) + Len(l) /\ Len(x) \in Nat /\ Len(l) \in Nat
      BY <1>9
    <3>2. Len(x \o l) = 0
      BY <1>9, <2>2
    <3> QED
      BY <3>1, <3>2
  <2>4. Place(fr, x) = 0
    BY <2>3 DEF Place
  <2> QED
    BY <1>2, <1>8, <1>9, <1>10, <1>11, <1>14, <2>2, <2>4 DEF SockInv
<1> QED
  BY <1>5, <1>6, <1>7, <1>9, <1>12, <1>13, <1>14 DEF k, m, x

(* Between callbacks exactly the requests that have come to their last     *)
(* byte have been handled.                                                 *)
LEMMA SockKeepsUp ==
  ASSUME NEW fr \in Seq(Sendable), NEW st, NEW b \in Seq(DevPiece),
         NEW l \in Seq(DevPiece), NEW h \in Seq(Nat), SockInv(fr, st, b, l, h, TRUE), st # "new", NEW n \in 1..Len(fr)
  PROVE  n < First(fr, b \o l) <=> \A i \in 1..Len(l) : l[i] # Piece(n, "payload")
<1> DEFINE q == b \o l
           m == First(fr, q)
<1>1. /\ q \in Seq(DevPiece) /\ Len(q) = Len(b) + Len(l)
      /\ \A j \in 1..Len(b) : q[j] = b[j]
      /\ \A j \in 1..Len(l) : q[Len(b) + j] = l[j]
      /\ Len(b) \in Nat /\ Len(l) \in Nat
  BY Joined
<1>2. Flowing(fr, q) /\ (q # <<>> => q[1] = Piece(m, "b0")) /\ Place(fr, b) = 0
  BY DEF SockInv
<1>3. \A i \in 1..Len(q) : q[i].of \in 0..Len(fr) /\ q[i].of >= m
  BY <1>1, <1>2, FlowBounds
<1>7. m \in 0..(Len(fr) + 1) /\ Len(fr) \in Nat
  <2>1. First(fr, q) \in 0..(Len(fr) + 1)
    BY <1>1, <1>2, FlowBounds
  <2> QED
    BY <2>1
<1> HIDE DEF m
<1>4. \A i \in 1..Len(b) : b[i].part # "payload"
  BY <1>2, NoBody
<1> HIDE DEF q
<1>5. ASSUME NEW i \in 1..Len(l), l[i] = Piece(n, "payload")
      PROVE  n >= m
  <2> DEFINE j == Len(b) + i
  <2>1. j \in 1..Len(q) /\ q[j] = l[i]
    BY <1>1
  <2>2. q[j].of = n
    BY <1>5, <2>1, PieceTypes
  <2> HIDE DEF j
  <2> QED
    BY <1>3, <2>1, <2>2
<1>6. ASSUME n >= m
      PROVE  \E i \in 1..Len(l) : l[i] = Piece(n, "payload")
  <2>1. PICK i \in 1..Len(q) : q[i] = Piece(n, "payload")
    BY <1>2, <1>6 DEF Flowing, m
  <2>2. i \notin 1..Len(b)
    <3>1. ASSUME i \in 1..Len(b)
          PROVE  FALSE
      <4>1. b[i] = Piece(n, "payload")
        BY <1>1, <2>1, <3>1
      <4>2. b[i].part = "payload"
        BY <4>1, PieceTypes
      <4> QED
        BY <1>4, <3>1, <4>2
    <3> QED
      BY <3>1
  <2> DEFINE j == i - Len(b)
  <2>3. j \in 1..Len(l) /\ Len(b) + j = i
    BY <1>1, <2>2
  <2> HIDE DEF j
  <2>4. l[j] = Piece(n, "payload")
    BY <1>1, <2>1, <2>3
  <2> QED
    BY <2>3, <2>4
<1> QED
  BY <1>5, <1>6, <1>7 DEF m, q

(* More units come; what is on its way and what has come are the same flow. *)
LEMMA SockReads ==
  ASSUME NEW fr, NEW st, NEW b, NEW l, NEW h, SockInv(fr, st, b, l, h, TRUE),
         NEW g, NEW r, g \o r = b \o l
  PROVE  /\ st = "new" => SockInv(fr, st, g, r, h, TRUE)
         /\ SockInv(fr, st, g, r, h, FALSE)
BY DEF SockInv

(* The inductive invariant of the development daemon. *)
DevTypes ==
  /\ frames \in [Socks -> Seq(Sendable)] /\ handled \in [Socks -> Seq(Nat)]
  /\ line \in [Socks -> Seq(DevPiece)] /\ buffer \in [Socks -> Seq(DevPiece)]
  /\ sock \in [Socks -> {"new", "open", "closed"}]
  /\ running # NoSock => running \in Socks /\ sock[running] = "open"

SockHolds(s) == SockInv(frames[s], sock[s], buffer[s], line[s], handled[s], running # s)

DevInv == DevTypes /\ \A s \in Socks : SockHolds(s)

LEMMA DevStarts == DevInit => DevInv
<1> SUFFICES ASSUME DevInit
             PROVE  DevInv
  OBVIOUS
<1> DEFINE w == <<Piece(0, "upgrade"), Piece(0, "blank")>>
           e == <<>>
<1>1. w \in Seq(DevPiece) /\ Len(w) = 2 /\ w[1] = Piece(0, "upgrade") /\ w[2] = Piece(0, "blank") /\ w # <<>>
  BY PieceTypes
<1>2. Follows(e, w[1]) = w[2]
  BY <1>1, PieceTypes DEF Follows
<1>3. w[1].of = 0 /\ w[2].of = 0
  BY <1>1, PieceTypes
<1>4. e \o w = w /\ Len(e) = 0
  BY <1>1
<1> HIDE DEF w
<1>5. Flowing(e, w)
  <2>1. \A i \in 1..(Len(w) - 1) : i = 1
    BY <1>1
  <2>2. \A i \in 1..Len(w) : i = 1 \/ i = 2
    BY <1>1
  <2>3. \A i \in 1..(Len(w) - 1) : w[i + 1] = Follows(e, w[i])
    BY <1>2, <2>1, 1 + 1 = 2
  <2>4. \A i, j \in 1..Len(w) : i <= j => w[i].of <= w[j].of
    BY <1>3, <2>2
  <2>5. w[Len(w)] = Piece(Len(e), IF Len(e) = 0 THEN "blank" ELSE "payload")
    BY <1>1, <1>4
  <2>6. \A n \in 1..Len(e) : FALSE
    BY <1>4
  <2> HIDE DEF e
  <2> QED
    BY <2>3, <2>4, <2>5, <2>6 DEF Flowing
<1>6. HandledUpTo(e, e, First(e, w))
  <2>1. First(e, w) = 0
    BY <1>1, <1>3 DEF First
  <2>2. HandledUpTo(e, e, 0)
    BY <1>4 DEF HandledUpTo
  <2> QED
    BY <2>1, <2>2
<1>7. SockInv(e, "new", e, w, e, TRUE)
  <2>1. \A n \in 1..Len(e) : FALSE
    BY <1>4
  <2> HIDE DEF e
  <2> QED
    BY <1>1, <1>4, <1>5, <1>6, <2>1 DEF SockInv, e
<1>8. ASSUME NEW s \in Socks
      PROVE  SockHolds(s)
  <2>1. /\ frames[s] = e /\ sock[s] = "new" /\ buffer[s] = e /\ line[s] = w /\ handled[s] = e
        /\ running # s
    BY DevAssumption DEF DevInit, w
  <2> HIDE DEF e
  <2> QED
    BY <1>7, <2>1 DEF SockHolds
<1>9. DevTypes
  BY <1>1 DEF DevInit, DevTypes, w
<1> QED
  BY <1>8, <1>9 DEF DevInv

LEMMA DevClientSends ==
  ASSUME DevInv, NEW s \in Socks, NEW f \in Sendable, ClientSends(s, f)
  PROVE  DevInv'
<1> DEFINE fr == frames[s]
           P == Pieces(Len(fr) + 1, f)
<1>1. /\ fr \in Seq(Sendable) /\ buffer[s] \in Seq(DevPiece) /\ line[s] \in Seq(DevPiece)
      /\ handled[s] \in Seq(Nat) /\ Len(fr) + 1 \in Nat \ {0}
  BY DEF DevInv, DevTypes
<1>2. /\ line' = [line EXCEPT ![s] = @ \o P] /\ frames' = [frames EXCEPT ![s] = Append(@, f)]
      /\ sock[s] # "closed" /\ running = NoSock /\ running # s
      /\ UNCHANGED <<sock, buffer, running, handled>>
  BY DevAssumption DEF ClientSends
<1>3. P \in Seq(DevPiece)
  BY <1>1, PiecesAre
<1>4. \A n \in 1..Len(fr) : fr[n].op # "close"
  <2>1. \A n \in 1..Len(fr) : fr[n] \in Sendable /\ fr[n] # Close
    BY <1>1 DEF ClientSends, ToSet
  <2>2. \A g \in Sendable : g.op = "close" => g = Close
    BY DEF Sendable, Request, Ping, Close
  <2> QED
    BY <2>1, <2>2
<1>5. SockInv(fr, sock[s], buffer[s], line[s], handled[s], TRUE)
  BY <1>2 DEF DevInv, SockHolds
<1>6. SockInv(Append(fr, f), sock[s], buffer[s], line[s] \o P, handled[s], TRUE)
  BY <1>1, <1>2, <1>4, <1>5, SockSends
<1> HIDE DEF P
<1>7. DevTypes'
  <2>1. line[s] \o P \in Seq(DevPiece) /\ Append(fr, f) \in Seq(Sendable)
    BY <1>1, <1>3
  <2> QED
    BY <1>2, <2>1 DEF DevInv, DevTypes
<1>8. ASSUME NEW r \in Socks
      PROVE  SockHolds(r)'
  <2>1. CASE r = s
    <3>1. line'[s] = line[s] \o P /\ frames'[s] = Append(fr, f) /\ running' # s
      BY <1>2 DEF DevInv, DevTypes
    <3> HIDE DEF fr
    <3> QED
      BY <1>2, <1>6, <2>1, <3>1 DEF SockHolds
  <2>2. CASE r # s
    <3>1. line'[r] = line[r] /\ frames'[r] = frames[r]
      BY <1>2, <2>2 DEF DevInv, DevTypes
    <3> QED
      BY <1>2, <3>1 DEF DevInv, SockHolds
  <2> QED
    BY <2>1, <2>2
<1> QED
  BY <1>7, <1>8 DEF DevInv

LEMMA DevOnData ==
  ASSUME DevInv, NEW s \in Socks, NEW k \in 1..Len(line[s]), OnData(s, k)
  PROVE  DevInv'
<1> DEFINE g == buffer[s] \o SubSeq(line[s], 1, k)
           r == SubSeq(line[s], k + 1, Len(line[s]))
           x == SubSeq(g, 3, Len(g))
           whole == \E i \in DOMAIN g : g[i].part = "blank"
<1>1. /\ frames[s] \in Seq(Sendable) /\ buffer[s] \in Seq(DevPiece) /\ line[s] \in Seq(DevPiece)
      /\ handled[s] \in Seq(Nat) /\ k \in 0..Len(line[s])
      /\ sock[s] \in {"new", "open", "closed"}
  BY DEF DevInv, DevTypes
<1>2. /\ running = NoSock /\ running # s /\ sock[s] # "closed" /\ UNCHANGED <<frames, handled>>
      /\ line' = [line EXCEPT ![s] = r]
  BY DevAssumption DEF OnData, DevInv, DevTypes
<1>3. /\ sock[s] = "new" /\ whole =>
           /\ sock' = [sock EXCEPT ![s] = "open"] /\ running' = s
           /\ buffer' = [buffer EXCEPT ![s] = x]
      /\ sock[s] = "new" /\ ~whole => buffer' = [buffer EXCEPT ![s] = g] /\ UNCHANGED <<sock, running>>
      /\ sock[s] # "new" => buffer' = [buffer EXCEPT ![s] = g] /\ running' = s /\ UNCHANGED sock
  BY DEF OnData
<1>4. g \in Seq(DevPiece) /\ r \in Seq(DevPiece)
  <2>1. SubSeq(line[s], 1, k) \in Seq(DevPiece)
    BY <1>1, Prefix
  <2> QED
    BY <1>1, <2>1, Suffix, Joined
<1>5. g \o r = buffer[s] \o line[s]
  BY <1>1, Moved
<1> HIDE DEF g, r
<1>6. SockInv(frames[s], sock[s], buffer[s], line[s], handled[s], TRUE)
  BY <1>2 DEF DevInv, SockHolds
<1>7. /\ sock[s] = "new" => SockInv(frames[s], sock[s], g, r, handled[s], TRUE)
      /\ SockInv(frames[s], sock[s], g, r, handled[s], FALSE)
  BY <1>5, <1>6, SockReads
<1>8. ASSUME NEW z \in Socks, z # s
      PROVE  SockHolds(z)'
  <2>1. /\ line'[z] = line[z] /\ buffer'[z] = buffer[z] /\ sock'[z] = sock[z]
        /\ (running' # z) = (running # z)
    BY <1>2, <1>3, <1>8, DevAssumption DEF DevInv, DevTypes
  <2> QED
    BY <1>2, <2>1 DEF DevInv, SockHolds
<1>9. line'[s] = r /\ frames'[s] = frames[s] /\ handled'[s] = handled[s]
  BY <1>2 DEF DevInv, DevTypes
<1>10. CASE sock[s] = "new" /\ whole
  <2>1. x \in Seq(DevPiece)
    BY <1>4
  <2>2. PICK i \in 1..Len(g) : g[i].part = "blank"
    BY <1>4, <1>10
  <2>3. SockInv(frames[s], "open", x, r, handled[s], FALSE)
    <3>1. SockInv(frames[s], "new", g, r, handled[s], TRUE)
      BY <1>7, <1>10
    <3> QED
      BY <1>1, <1>4, <2>2, <3>1, SockOpens
  <2> HIDE DEF x, whole
  <2>4. buffer'[s] = x /\ sock'[s] = "open" /\ (running' # s) = FALSE
    BY <1>3, <1>10 DEF DevInv, DevTypes
  <2>5. SockHolds(s)'
    BY <1>9, <2>3, <2>4 DEF SockHolds
  <2>6. DevTypes'
    BY <1>2, <1>3, <1>4, <1>10, <2>1, <2>4 DEF DevInv, DevTypes
  <2> QED
    BY <1>8, <2>5, <2>6 DEF DevInv
<1>11. CASE sock[s] = "new" /\ ~whole
  <2> HIDE DEF x, whole
  <2>1. buffer'[s] = g /\ sock'[s] = sock[s] /\ (running' # s) = TRUE
    BY <1>2, <1>3, <1>11 DEF DevInv, DevTypes
  <2>2. SockHolds(s)'
    BY <1>7, <1>9, <1>11, <2>1 DEF SockHolds
  <2>3. DevTypes'
    BY <1>2, <1>3, <1>4, <1>11 DEF DevInv, DevTypes
  <2> QED
    BY <1>8, <2>2, <2>3 DEF DevInv
<1>12. CASE sock[s] # "new"
  <2> HIDE DEF x, whole
  <2>1. buffer'[s] = g /\ sock'[s] = sock[s] /\ (running' # s) = FALSE /\ sock[s] = "open"
    BY <1>1, <1>2, <1>3, <1>12 DEF DevInv, DevTypes
  <2>2. SockHolds(s)'
    BY <1>7, <1>9, <2>1 DEF SockHolds
  <2>3. DevTypes'
    BY <1>2, <1>3, <1>4, <1>12, <2>1 DEF DevInv, DevTypes
  <2> QED
    BY <1>8, <2>2, <2>3 DEF DevInv
<1> QED
  BY <1>10, <1>11, <1>12

LEMMA DevTakeFrame ==
  ASSUME DevInv, TakeFrame
  PROVE  DevInv'
<1>0. PICK s : s = running
  OBVIOUS
<1> DEFINE fr == frames[s]
           at == BodyAt(s)
           n == buffer[s][at].of
           x == SubSeq(buffer[s], at + 1, Len(buffer[s]))
<1>1. /\ s \in Socks /\ sock[s] = "open" /\ fr \in Seq(Sendable) /\ buffer[s] \in Seq(DevPiece)
      /\ line[s] \in Seq(DevPiece) /\ handled[s] \in Seq(Nat)
  BY <1>0 DEF TakeFrame, DevInv, DevTypes
<1>2. UNCHANGED <<line, frames>>
  BY DEF TakeFrame, pages
<1>3. at = Place(fr, buffer[s])
  BY DEF BodyAt, Place
<1>4. SockInv(fr, "open", buffer[s], line[s], handled[s], FALSE)
  <2>1. (running # s) = FALSE
    BY <1>0
  <2> QED
    BY <1>1, <2>1 DEF DevInv, SockHolds
<1>5. \/ at = 0 /\ running' = NoSock /\ UNCHANGED <<sock, buffer, handled>>
      \/ /\ at # 0 /\ buffer' = [buffer EXCEPT ![s] = x]
         /\ \/ /\ fr[n].op = "close" /\ sock' = [sock EXCEPT ![s] = "closed"] /\ running' = NoSock
               /\ UNCHANGED handled
            \/ fr[n].op = "ping" /\ UNCHANGED <<sock, running, handled>>
            \/ /\ fr[n].op = "text" /\ handled' = [handled EXCEPT ![s] = Append(@, n)]
               /\ UNCHANGED <<sock, running>>
  BY <1>0 DEF TakeFrame
<1>6. /\ DOMAIN buffer = Socks /\ DOMAIN sock = Socks /\ DOMAIN handled = Socks
  BY DEF DevInv, DevTypes
<1>7. CASE at = 0 /\ running' = NoSock /\ UNCHANGED <<sock, buffer, handled>>
  <2>1. SockInv(fr, "open", buffer[s], line[s], handled[s], TRUE)
    BY <1>3, <1>4, <1>7 DEF SockInv
  <2>2. ASSUME NEW z \in Socks
        PROVE  SockHolds(z)'
    <3>1. (running' # z) = TRUE
      BY <1>7, DevAssumption
    <3>2. CASE z = s
      BY <1>1, <1>2, <1>7, <2>1, <3>1, <3>2 DEF SockHolds
    <3>3. CASE z # s
      <4>1. (running # z) = TRUE
        BY <1>0, <3>3
      <4> QED
        BY <1>2, <1>7, <3>1, <4>1 DEF DevInv, SockHolds
    <3> QED
      BY <3>2, <3>3
  <2>3. DevTypes'
    BY <1>2, <1>7 DEF DevInv, DevTypes
  <2> QED
    BY <2>2, <2>3 DEF DevInv
<1>8. ASSUME at # 0, buffer' = [buffer EXCEPT ![s] = x]
      PROVE  /\ n \in 1..Len(fr) /\ x \in Seq(DevPiece) /\ buffer'[s] = x
             /\ fr[n].op = "close" => SockInv(fr, "closed", x, line[s], handled[s], TRUE)
             /\ fr[n].op # "text" => SockInv(fr, "open", x, line[s], handled[s], FALSE)
             /\ fr[n].op = "text" => SockInv(fr, "open", x, line[s], Append(handled[s], n), FALSE)
  <2>1. buffer'[s] = x
    BY <1>1, <1>6, <1>8
  <2> DEFINE b == buffer[s]
             l == line[s]
             h == handled[s]
  <2>2. Place(fr, b) # 0
    BY <1>3, <1>8
  <2> HIDE DEF fr, b, l, h
  <2>3. LET k == Place(fr, b)
            m == b[k].of
            y == SubSeq(b, k + 1, Len(b)) IN
        /\ k \in 1..Len(b) /\ m \in 1..Len(fr) /\ y \in Seq(DevPiece)
        /\ fr[m].op = "close" => SockInv(fr, "closed", y, l, h, TRUE)
        /\ fr[m].op # "text" => SockInv(fr, "open", y, l, h, FALSE)
        /\ fr[m].op = "text" => SockInv(fr, "open", y, l, Append(h, m), FALSE)
    BY <1>1, <1>4, <2>2, SockTakes DEF b, l, h
  <2>4. Place(fr, b) = at
    BY <1>3 DEF b
  <2> HIDE DEF at
  <2> QED
    BY <2>1, <2>3, <2>4 DEF b, l, h
<1> HIDE DEF fr, at, n, x
<1>9. CASE at # 0 /\ buffer' = [buffer EXCEPT ![s] = x]
  <2>1. /\ n \in 1..Len(fr) /\ x \in Seq(DevPiece) /\ buffer'[s] = x
        /\ \A z \in Socks \ {s} : buffer'[z] = buffer[z]
    BY <1>6, <1>8, <1>9
  <2>2. ASSUME NEW z \in Socks \ {s}, handled'[z] = handled[z], sock'[z] = sock[z], running' # z
        PROVE  SockHolds(z)'
    <3>1. (running # z) = TRUE /\ (running' # z) = TRUE
      BY <1>0, <2>2
    <3> QED
      BY <1>2, <2>1, <2>2, <3>1 DEF DevInv, SockHolds
  <2>3. CASE fr[n].op = "close" /\ sock' = [sock EXCEPT ![s] = "closed"] /\ running' = NoSock
             /\ UNCHANGED handled
    <3>1. sock'[s] = "closed" /\ (running' # s) = TRUE
      BY <1>1, <1>6, <2>3, DevAssumption
    <3>2. SockHolds(s)'
      BY <1>2, <1>8, <1>9, <2>1, <2>3, <3>1 DEF SockHolds, fr
    <3>3. \A z \in Socks \ {s} : handled'[z] = handled[z] /\ sock'[z] = sock[z] /\ running' # z
      BY <1>6, <2>3, DevAssumption
    <3>4. DevTypes'
      BY <1>2, <1>9, <2>1, <2>3 DEF DevInv, DevTypes
    <3> QED
      BY <2>2, <3>2, <3>3, <3>4 DEF DevInv
  <2>4. CASE fr[n].op = "ping" /\ UNCHANGED <<sock, running, handled>>
    <3>1. sock'[s] = "open" /\ (running' # s) = FALSE
      BY <1>0, <1>1, <2>4
    <3>2. SockHolds(s)'
      BY <1>2, <1>8, <1>9, <2>1, <2>4, <3>1 DEF SockHolds, fr
    <3>3. \A z \in Socks \ {s} : handled'[z] = handled[z] /\ sock'[z] = sock[z] /\ running' # z
      BY <1>0, <2>4
    <3>4. DevTypes'
      BY <1>2, <1>9, <2>1, <2>4 DEF DevInv, DevTypes
    <3> QED
      BY <2>2, <3>2, <3>3, <3>4 DEF DevInv
  <2>5. CASE fr[n].op = "text" /\ handled' = [handled EXCEPT ![s] = Append(@, n)]
             /\ UNCHANGED <<sock, running>>
    <3>1. sock'[s] = "open" /\ (running' # s) = FALSE /\ handled'[s] = Append(handled[s], n)
      BY <1>0, <1>1, <1>6, <2>5
    <3>2. SockHolds(s)'
      BY <1>2, <1>8, <1>9, <2>1, <2>5, <3>1 DEF SockHolds, fr
    <3>3. \A z \in Socks \ {s} : handled'[z] = handled[z] /\ sock'[z] = sock[z] /\ running' # z
      BY <1>0, <1>6, <2>5
    <3>4. DevTypes'
      <4>1. Append(handled[s], n) \in Seq(Nat)
        BY <1>1, <2>1
      <4> QED
        BY <1>2, <1>9, <2>1, <2>5, <4>1 DEF DevInv, DevTypes
    <3> QED
      BY <2>2, <3>2, <3>3, <3>4 DEF DevInv
  <2> QED
    BY <1>5, <1>9, <2>3, <2>4, <2>5
<1> QED
  BY <1>5, <1>7, <1>9

LEMMA DevStep == DevInv /\ [DevNext]_devVars => DevInv'
<1> SUFFICES ASSUME DevInv, [DevNext]_devVars
             PROVE  DevInv'
  OBVIOUS
<1>1. ASSUME UNCHANGED <<frames, handled, line, buffer, sock, running>>
      PROVE  DevInv'
  BY <1>1 DEF DevInv, DevTypes, SockHolds
<1>2. CASE TakeFrame
  BY <1>2, DevTakeFrame
<1>3. CASE EchoTimer
  BY <1>1, <1>3 DEF EchoTimer, pages
<1>4. CASE FoundTimer
  BY <1>1, <1>4 DEF FoundTimer, pages
<1>5. CASE \E s \in Socks : \E f \in Sendable : ClientSends(s, f)
  BY <1>5, DevClientSends
<1>6. CASE \E s \in Socks : \E n \in 1..Len(line[s]) : OnData(s, n)
  BY <1>6, DevOnData
<1>7. CASE UNCHANGED devVars
  BY <1>1, <1>7 DEF devVars, pages
<1> QED
  BY <1>2, <1>3, <1>4, <1>5, <1>6, <1>7 DEF DevNext

LEMMA DevInvMeans == DevInv => ParserKeepsUp
<1> SUFFICES ASSUME DevInv, running = NoSock, NEW s \in Socks, sock[s] # "new"
             PROVE  /\ ToSet(handled[s]) =
                         {n \in DOMAIN frames[s] : frames[s][n].op = "text" /\ Complete(s, n)}
                    /\ \A i, j \in DOMAIN handled[s] : i < j => handled[s][i] < handled[s][j]
  BY DEF ParserKeepsUp
<1> DEFINE fr == frames[s]
           h == handled[s]
           m == First(fr, buffer[s] \o line[s])
<1>1. /\ fr \in Seq(Sendable) /\ buffer[s] \in Seq(DevPiece) /\ line[s] \in Seq(DevPiece)
      /\ h \in Seq(Nat)
  BY DEF DevInv, DevTypes
<1>2. SockInv(fr, sock[s], buffer[s], line[s], h, TRUE)
  <2>1. (running # s) = TRUE
    BY DevAssumption
  <2> QED
    BY <2>1 DEF DevInv, SockHolds
<1>3. HandledUpTo(fr, h, m) /\ m \in 0..(Len(fr) + 1)
  <2>1. HandledUpTo(fr, h, m) /\ Flowing(fr, buffer[s] \o line[s])
    BY <1>2 DEF SockInv
  <2>2. buffer[s] \o line[s] \in Seq(DevPiece)
    BY <1>1, Joined
  <2> QED
    BY <1>1, <2>1, <2>2, FlowBounds
<1>4. ASSUME NEW n \in 1..Len(fr)
      PROVE  n < m <=> Complete(s, n)
  <2>1. n < m <=> \A i \in 1..Len(line[s]) : line[s][i] # Piece(n, "payload")
    BY <1>1, <1>2, SockKeepsUp
  <2>2. DOMAIN line[s] = 1..Len(line[s])
    BY <1>1
  <2> QED
    BY <2>1, <2>2 DEF Complete
<1>5. DOMAIN fr = 1..Len(fr) /\ DOMAIN h = 1..Len(h) /\ Len(fr) \in Nat
  BY <1>1
<1> HIDE DEF fr, h, m
<1>6. \A n \in 1..(m - 1) : n \in 1..Len(fr) /\ n < m
  BY <1>3, <1>5
<1>7. \A n \in 1..Len(fr) : n < m => n \in 1..(m - 1)
  BY <1>3, <1>5
<1>8. ASSUME NEW n \in ToSet(h)
      PROVE  n \in DOMAIN fr /\ fr[n].op = "text" /\ Complete(s, n)
  <2>1. PICK i \in 1..Len(h) : n = h[i]
    BY <1>5, <1>8 DEF ToSet
  <2>2. n \in 1..(m - 1) /\ fr[n].op = "text"
    BY <1>3, <2>1 DEF HandledUpTo
  <2> QED
    BY <1>4, <1>5, <1>6, <2>2
<1>9. ASSUME NEW n \in DOMAIN fr, fr[n].op = "text", Complete(s, n)
      PROVE  n \in ToSet(h)
  <2>1. n \in 1..(m - 1)
    BY <1>4, <1>5, <1>7, <1>9
  <2>2. PICK i \in 1..Len(h) : h[i] = n
    BY <1>3, <1>9, <2>1 DEF HandledUpTo
  <2> QED
    BY <1>5, <2>2 DEF ToSet
<1>10. \A i, j \in DOMAIN h : i < j => h[i] < h[j]
  BY <1>3, <1>5 DEF HandledUpTo
<1> QED
  BY <1>8, <1>9, <1>10 DEF fr, h

(* However TCP cuts the streams of any number of clients, the development  *)
(* daemon has, between callbacks, handled exactly the requests that have   *)
(* come to their last byte, once and in the order in which they were sent  *)
(* (daemon.mjs:155).                                                       *)
THEOREM KeepsUp == DevSpec => []ParserKeepsUp
<1>1. DevInv => ParserKeepsUp
  BY DevInvMeans
<1>2. DevInit => DevInv
  BY DevStarts
<1>3. DevInv /\ [DevNext]_devVars => DevInv'
  BY DevStep
<1> QED
  BY <1>1, <1>2, <1>3, PTL DEF DevSpec
=============================================================================
