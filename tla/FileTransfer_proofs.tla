------------------------- MODULE FileTransfer_proofs -------------------------
(***************************************************************************)
(* For files of any length, any number of sessions, broken channels and    *)
(* timeouts: what a receiver offers for download is the whole file, and a  *)
(* transfer that is resumed goes on where the receiver's data ends.        *)
(***************************************************************************)
EXTENDS FileTransfer, WellFoundedInduction, FiniteSetTheorems, TLAPS

Places == 0..MaxChunks

Types ==
  /\ size \in Places
  /\ source \in BOOLEAN /\ sending \in Sessions \cup {0}
  /\ sendCard \in Phases /\ recvCard \in Phases
  /\ next \in [Sessions -> Idle..MaxChunks]
  /\ canceled \subseteq Sessions /\ silent \subseteq canceled
  /\ waiting \subseteq Sessions /\ given \subseteq Sessions
  /\ chan \in [Sessions -> {"none", "opening", "open", "closed"}]
  /\ listening \subseteq Sessions /\ active \subseteq Sessions
  /\ breaks \in 0..MaxBreaks /\ timeouts \in 0..MaxTimeouts

(* Every chunk on a channel is one of the file.                            *)
DataOf(q, n) == q \in Seq(Frames) /\ \A i \in 1..Len(q) : q[i].t = "chunk" => q[i].i < n

(* Every blob that is being hashed is the whole file.                     *)
WholeOf(q, n) == q \in Seq(Places) /\ \A i \in 1..Len(q) : q[i] = n

DataOK == data \in [Sessions -> Seq(Frames)] /\ \A k \in Sessions : DataOf(data[k], size)
BackOK == back \in [Sessions -> Seq(Places)]
FinishOK ==
  finishing \in [Sessions -> Seq(Places)] /\ \A k \in Sessions : WholeOf(finishing[k], size)

(* The entry at the receiver holds chunks of the file, the prefix of them  *)
(* without a gap.                                                          *)
Entry(r, n) ==
  \/ r = NoRec
  \/ /\ r \in [chunks : SUBSET (0..(n - 1)), contig : 0..n]
     /\ 0..(r.contig - 1) \subseteq r.chunks

Inv ==
  Types /\ DataOK /\ BackOK /\ FinishOK /\ Entry(rec, size) /\ blob \in {NoBlob, size}

-----------------------------------------------------------------------------
(* Numbers *)

(* A set of natural numbers has a least element.                           *)
LEMMA LeastElement ==
  ASSUME NEW T, T \subseteq Nat, T # {}
  PROVE  \E m \in T : \A n \in T : m <= n
<1>1. PICK m \in T : \A n \in T : ~ (<<n, m>> \in OpToRel(<, Nat))
  BY NatLessThanWellFounded, WFMin, Zenon
<1>2. ASSUME NEW n \in T PROVE ~(n < m)
  <2>1. n < m => <<n, m>> \in OpToRel(<, Nat)
    BY Zenon DEF OpToRel
  <2> QED
    BY <1>1, <2>1, Zenon
<1>3. \A n \in T : m <= n
  BY <1>2
<1> QED
  BY <1>3

(* The place of the first gap from c on in a set of chunks.                *)
FirstGap(h, c, m) == m \notin h /\ \A j \in c..(m - 1) : j \in h

(* From c on there is a first gap, at the end of the file or before it.    *)
LEMMA GapExists ==
  ASSUME NEW n \in Nat, NEW h \in SUBSET (0..(n - 1)), NEW c \in 0..n, n <= MaxChunks
  PROVE  \E m \in c..(MaxChunks + 1) : FirstGap(h, c, m) /\ m <= n
<1> DEFINE T == {m \in c..n : m \notin h}
<1>0. MaxChunks \in Nat
  BY BoundsAssumption
<1>1. n \in T /\ T \subseteq Nat
  OBVIOUS
<1>2. PICK m \in T : \A j \in T : m <= j
  <2> HIDE DEF T
  <2> QED
    BY <1>1, LeastElement
<1>3. m \in c..n /\ m \notin h /\ \A j \in c..(m - 1) : j \in h
  BY <1>2
<1> QED
  BY <1>0, <1>3 DEF FirstGap

(* Placed keeps the entry, and the prefix grows as far as it can.          *)
LEMMA PlacedKeeps ==
  ASSUME size \in Places, Entry(rec, size), rec # NoRec, NEW i \in 0..(size - 1)
  PROVE  /\ Entry(Placed(rec, i), size)
         /\ Placed(rec, i).contig \in 0..size
         /\ 0..(Placed(rec, i).contig - 1) \subseteq Placed(rec, i).chunks
<1>0. MaxChunks \in Nat /\ size \in Nat /\ size <= MaxChunks
  BY BoundsAssumption DEF Places
<1>1. /\ rec.chunks \in SUBSET (0..(size - 1)) /\ rec.contig \in 0..size
      /\ 0..(rec.contig - 1) \subseteq rec.chunks
  BY DEF Entry
<1> DEFINE h == rec.chunks \cup {i}
           c == rec.contig
           g == CHOOSE m \in c..(MaxChunks + 1) : FirstGap(h, c, m)
<1>2. h \in SUBSET (0..(size - 1)) /\ c \in 0..size
  BY <1>0, <1>1
<1>3. \E m \in c..(MaxChunks + 1) : FirstGap(h, c, m)
  <2> HIDE DEF h, c
  <2> QED
    BY <1>0, <1>2, GapExists
<1>4. g \in c..(MaxChunks + 1) /\ FirstGap(h, c, g)
  <2> HIDE DEF h, c
  <2> QED
    BY <1>3
<1>5. Placed(rec, i) = [chunks |-> h, contig |-> g]
  BY DEF Placed, FirstGap
<1>6. g \in 0..size /\ 0..(g - 1) \subseteq h
  <2>1. \A j \in c..(g - 1) : j \in h
    BY <1>4 DEF FirstGap
  <2>2. \A j \in 0..(c - 1) : j \in h
    BY <1>1
  <2>3. c \in Nat /\ g \in Nat /\ c <= g
    <3> HIDE DEF g, h
    <3> QED
      BY <1>0, <1>1, <1>4
  <2>4. \A j \in 0..(g - 1) : j \in h
    <3> HIDE DEF g, h, c
    <3> QED
      BY <2>1, <2>2, <2>3
  <2>5. g <= size
    <3> HIDE DEF g, h, c
    <3>1. size \notin h
      BY <1>0, <1>2
    <3> QED
      BY <1>0, <2>3, <2>4, <3>1
  <2> HIDE DEF g, h, c
  <2> QED
    BY <1>0, <2>3, <2>4, <2>5
<1> HIDE DEF g, h, c
<1> QED
  BY <1>0, <1>2, <1>5, <1>6 DEF Entry

(* Of a gapless prefix every chunk is put together.                        *)
LEMMA AssembledIsPrefix ==
  ASSUME size \in Places, NEW r, Entry(r, size), r # NoRec
  PROVE  Assembled(r) = r.contig
<1>1. /\ r.chunks \in SUBSET (0..(size - 1)) /\ r.contig \in 0..size
      /\ 0..(r.contig - 1) \subseteq r.chunks
  BY DEF Entry
<1>2. size \in Nat
  BY BoundsAssumption DEF Places
<1>3. {j \in r.chunks : j < r.contig} = 0..(r.contig - 1)
  BY <1>1, <1>2
<1>4. ASSUME NEW c \in Nat PROVE Cardinality(0..(c - 1)) = c
  <2>1. 0 \in Int /\ c - 1 \in Int
    OBVIOUS
  <2>2. Cardinality(0..(c - 1)) = IF 0 > c - 1 THEN 0 ELSE (c - 1) - 0 + 1
    BY <2>1, FS_Interval
  <2> QED
    BY <2>2
<1>5. r.contig \in Nat
  BY <1>1, <1>2
<1> QED
  BY <1>3, <1>4, <1>5 DEF Assembled

-----------------------------------------------------------------------------
(* Queues *)

(* The frames are frames, and only a chunk has the form of one.            *)
LEMMA FrameTypes ==
  /\ Meta \in Frames /\ Fend \in Frames /\ Ask \in Frames
  /\ \A i \in 0..MaxChunks : Chunk(i) \in Frames /\ Chunk(i).t = "chunk" /\ Chunk(i).i = i
  /\ Meta.t # "chunk" /\ Fend.t # "chunk" /\ Ask.t # "chunk"
BY BoundsAssumption DEF Meta, Fend, Ask, Chunk, Frames

(* A chunk of the file, or another frame, may follow what is on a channel. *)
LEMMA DataAppend ==
  ASSUME NEW n, NEW q, DataOf(q, n), NEW f \in Frames, f.t = "chunk" => f.i < n
  PROVE  DataOf(Append(q, f), n)
BY DEF DataOf

(* Reading a frame yields a chunk of the file or another frame.            *)
LEMMA DataTail ==
  ASSUME NEW n, NEW q, DataOf(q, n), q # <<>>
  PROVE  /\ DataOf(Tail(q), n)
         /\ Head(q) \in Frames /\ (Head(q).t = "chunk" => Head(q).i < n)
BY DEF DataOf

LEMMA DataEmpty == ASSUME NEW n PROVE DataOf(<<>>, n)
BY DEF DataOf

(* A whole file may follow the whole files that are being hashed.          *)
LEMMA WholeAppend ==
  ASSUME NEW n \in Places, NEW q, WholeOf(q, n)
  PROVE  WholeOf(Append(q, n), n)
BY DEF WholeOf

(* The blob whose hash is known is whole.                                  *)
LEMMA WholeTail ==
  ASSUME NEW n, NEW q, WholeOf(q, n), q # <<>>
  PROVE  WholeOf(Tail(q), n) /\ Head(q) = n
BY DEF WholeOf

(* The queue of one session changes, the others stay.                      *)
LEMMA DataStep ==
  ASSUME Inv, size' = size, NEW k \in Sessions, NEW q, DataOf(q, size),
         data' = [data EXCEPT ![k] = q]
  PROVE  DataOK'
BY DEF Inv, DataOK, DataOf

LEMMA BackStep ==
  ASSUME Inv, NEW k \in Sessions, NEW q \in Seq(Places), back' = [back EXCEPT ![k] = q]
  PROVE  BackOK'
BY DEF Inv, BackOK

LEMMA FinishStep ==
  ASSUME Inv, size' = size, NEW k \in Sessions, NEW q, WholeOf(q, size),
         finishing' = [finishing EXCEPT ![k] = q]
  PROVE  FinishOK'
BY DEF Inv, FinishOK, WholeOf

(* Parts that a step leaves alone.                                         *)
LEMMA SameData == ASSUME Inv, UNCHANGED <<size, data>> PROVE DataOK'
BY DEF Inv, DataOK

LEMMA SameBack == ASSUME Inv, UNCHANGED back PROVE BackOK'
BY DEF Inv, BackOK

LEMMA SameFinish == ASSUME Inv, UNCHANGED <<size, finishing>> PROVE FinishOK'
BY DEF Inv, FinishOK

LEMMA SameEntry == ASSUME Inv, UNCHANGED <<size, rec>> PROVE Entry(rec, size)'
BY DEF Inv

LEMMA SameBlob == ASSUME Inv, UNCHANGED <<size, blob>> PROVE blob' \in {NoBlob, size'}
BY DEF Inv

-----------------------------------------------------------------------------
(* The initial states and the steps *)

LEMMA InitInv == ASSUME Init PROVE Inv
<1>1. 0 \in Nat /\ MaxChunks \in Nat /\ MaxSessions \in Nat /\ MaxBreaks \in Nat /\ MaxTimeouts \in Nat
  BY BoundsAssumption
<1>2. Types
  <2>1. size \in Places /\ breaks \in 0..MaxBreaks /\ timeouts \in 0..MaxTimeouts
    BY <1>1 DEF Init, Places
  <2>2. sendCard \in Phases /\ recvCard \in Phases
    BY DEF Init, Phases
  <2>3. next \in [Sessions -> Idle..MaxChunks]
    BY <1>1 DEF Init, Idle
  <2>4. chan \in [Sessions -> {"none", "opening", "open", "closed"}]
    BY DEF Init
  <2> QED
    BY <2>1, <2>2, <2>3, <2>4 DEF Init, Types
<1>3. DataOK
  BY DEF Init, DataOK, DataOf
<1>4. BackOK /\ FinishOK
  BY DEF Init, BackOK, FinishOK, WholeOf
<1> QED
  BY <1>2, <1>3, <1>4 DEF Init, Inv, Entry

(* Each action keeps the invariant: the sender's user, his loop, the channel.*)
LEMMA SendFileToInv == ASSUME Inv, SendFileTo PROVE Inv'
<1>1. Types'
  BY BoundsAssumption DEF Inv, Types, SendFileTo, PushOutgoingFile, Open, Sessions, Phases, receiverVars
<1>2. DataOK' /\ BackOK' /\ FinishOK'
  BY SameData, SameBack, SameFinish DEF SendFileTo, receiverVars
<1>3. Entry(rec, size)' /\ blob' \in {NoBlob, size'}
  BY SameEntry, SameBlob DEF SendFileTo, receiverVars
<1> QED
  BY <1>1, <1>2, <1>3 DEF Inv

(* sendFile sets the loop to a chunk of the file and declares the file.    *)
LEMMA SendFileInv ==
  ASSUME Inv, size' = size, NEW k \in Sessions, NEW i \in Places, NEW state,
         SendFile(k, i, data[k], state)
  PROVE  DataOK' /\ next' \in [Sessions -> Idle..MaxChunks]
<1>1. CASE state = "open"
  <2>1. DataOf(Append(data[k], Meta), size)
    BY FrameTypes, DataAppend DEF Inv, DataOK
  <2>2. DataOK'
    BY <1>1, <2>1, DataStep DEF SendFile
  <2> QED
    BY <1>1, <2>2, BoundsAssumption DEF SendFile, Inv, Types, Places, Idle
<1>2. CASE state # "open"
  BY <1>2, SameData DEF SendFile, Inv, Types
<1> QED
  BY <1>1, <1>2

LEMMA ChannelOpensInv == ASSUME Inv, NEW k \in Sessions, ChannelOpens(k) PROVE Inv'
<1>1. DataOK' /\ next' \in [Sessions -> Idle..MaxChunks] /\ waiting' \subseteq Sessions
  <2>1. CASE k = 1 /\ SendFile(k, 0, data[k], "open") /\ UNCHANGED waiting
    <3>1. 0 \in Places
      BY BoundsAssumption DEF Places
    <3> QED
      BY <2>1, <3>1, SendFileInv DEF ChannelOpens, Inv, Types
  <2>2. CASE /\ waiting' = waiting \cup {k}
             /\ data' = [data EXCEPT ![k] = Append(@, Ask)]
             /\ UNCHANGED next
    <3>1. DataOf(Append(data[k], Ask), size)
      BY FrameTypes, DataAppend DEF Inv, DataOK
    <3>2. DataOK'
      BY <2>2, <3>1, DataStep DEF ChannelOpens
    <3> QED
      BY <2>2, <3>2 DEF Inv, Types
  <2>3. CASE UNCHANGED <<next, data, waiting>>
    BY <2>3, SameData DEF ChannelOpens, Inv, Types
  <2> QED
    BY <2>1, <2>2, <2>3 DEF ChannelOpens
<1>2. Types'
  BY <1>1 DEF Inv, Types, ChannelOpens
<1>3. BackOK' /\ FinishOK'
  BY SameBack, SameFinish DEF ChannelOpens
<1>4. Entry(rec, size)' /\ blob' \in {NoBlob, size'}
  BY SameEntry, SameBlob DEF ChannelOpens
<1> QED
  BY <1>1, <1>2, <1>3, <1>4 DEF Inv

LEMMA OpeningTimesOutInv == ASSUME Inv, NEW k \in Sessions, OpeningTimesOut(k) PROVE Inv'
<1>1. Types'
  BY BoundsAssumption DEF Inv, Types, OpeningTimesOut, receiverVars
<1>2. DataOK' /\ BackOK' /\ FinishOK'
  BY SameData, SameBack, SameFinish DEF OpeningTimesOut, receiverVars
<1>3. Entry(rec, size)' /\ blob' \in {NoBlob, size'}
  BY SameEntry, SameBlob DEF OpeningTimesOut, receiverVars
<1> QED
  BY <1>1, <1>2, <1>3 DEF Inv

LEMMA ReceiveAckInv == ASSUME Inv, NEW k \in Sessions, ReceiveAck(k) PROVE Inv'
<1>1. back[k] \in Seq(Places) /\ back[k] # <<>>
  BY DEF Inv, BackOK, ReceiveAck
<1>2. Head(back[k]) \in Places /\ Tail(back[k]) \in Seq(Places)
  BY <1>1
<1>3. DataOK' /\ next' \in [Sessions -> Idle..MaxChunks] /\ waiting' \subseteq Sessions
  <2>1. CASE k \in waiting
    BY <1>2, <2>1, SendFileInv DEF ReceiveAck, Inv, Types
  <2>2. CASE k \notin waiting
    BY <2>2, SameData DEF ReceiveAck, Inv, Types
  <2> QED
    BY <2>1, <2>2
<1>4. Types'
  BY <1>3 DEF Inv, Types, ReceiveAck, receiverVars
<1>5. BackOK' /\ FinishOK'
  BY <1>2, BackStep, SameFinish DEF ReceiveAck, receiverVars
<1>6. Entry(rec, size)' /\ blob' \in {NoBlob, size'}
  BY SameEntry, SameBlob DEF ReceiveAck, receiverVars
<1> QED
  BY <1>3, <1>4, <1>5, <1>6 DEF Inv

LEMMA AskTimesOutInv == ASSUME Inv, NEW k \in Sessions, AskTimesOut(k) PROVE Inv'
<1>1. 0 \in Places
  BY BoundsAssumption DEF Places
<1>2. DataOK' /\ next' \in [Sessions -> Idle..MaxChunks]
  BY <1>1, SendFileInv DEF AskTimesOut
<1>3. Types'
  BY <1>2, BoundsAssumption DEF Inv, Types, AskTimesOut, receiverVars
<1>4. BackOK' /\ FinishOK'
  BY SameBack, SameFinish DEF AskTimesOut, receiverVars
<1>5. Entry(rec, size)' /\ blob' \in {NoBlob, size'}
  BY SameEntry, SameBlob DEF AskTimesOut, receiverVars
<1> QED
  BY <1>2, <1>3, <1>4, <1>5 DEF Inv

(* One round of the loop of sendFile.                                      *)
LEMMA SendLoopInv == ASSUME Inv, NEW k \in Sessions, SendLoop(k) PROVE Inv'
<1> USE DEF Inv
<1>0. /\ size \in Nat /\ MaxChunks \in Nat /\ size <= MaxChunks
      /\ next[k] \in Idle..MaxChunks /\ next[k] # Idle
  BY BoundsAssumption DEF Types, SendLoop, Places
<1>1. DataOK' /\ next' \in [Sessions -> Idle..MaxChunks] /\ sendCard' \in Phases
      /\ source' \in BOOLEAN /\ sending' \in Sessions \cup {0}
  <2>0. LoopEnds(k) => next' \in [Sessions -> Idle..MaxChunks]
    BY <1>0 DEF LoopEnds, Types, Idle
  <2>1. CASE StopSilently(k)
    BY <2>0, <2>1, SameData DEF StopSilently, SendLoop, FailSend, Types, Phases
  <2>2. CASE StopCanceled(k)
    <3>1. sendCard' \in Phases
      BY <2>2 DEF StopCanceled, CancelSend, Types, Phases
    <3>2. source' \in BOOLEAN /\ sending' \in Sessions \cup {0}
      BY <2>2 DEF StopCanceled, Types
    <3>3. DataOf(Append(data[k], Fend), size)
      BY FrameTypes, DataAppend DEF DataOK
    <3>4. DataOK'
      BY <2>2, <3>3, DataStep, SameData DEF StopCanceled, SendLoop
    <3> QED
      BY <2>0, <2>2, <3>1, <3>2, <3>4 DEF StopCanceled
  <2>3. CASE Fail(k)
    BY <2>0, <2>3, SameData DEF Fail, SendLoop, FailSend, Types, Phases
  <2>4. CASE Finish(k)
    BY <2>0, <2>4, SameData DEF Finish, SendLoop, FinishSend, Types, Phases
  <2>5. CASE SendChunk(k)
    <3>1. next[k] \in 0..MaxChunks /\ next[k] < size /\ next[k] + 1 \in Idle..MaxChunks
      BY <1>0, <2>5 DEF SendChunk, Idle
    <3>2. DataOf(Append(data[k], Chunk(next[k])), size)
      BY <3>1, FrameTypes, DataAppend DEF DataOK
    <3>3. DataOK'
      BY <2>5, <3>2, DataStep DEF SendChunk, SendLoop
    <3> QED
      BY <2>5, <3>1, <3>3 DEF SendChunk, UpdateSendProgress, Types, Phases
  <2> QED
    BY <2>1, <2>2, <2>3, <2>4, <2>5 DEF SendLoop
<1>2. Types'
  BY <1>1 DEF Types, SendLoop, receiverVars
<1>3. BackOK' /\ FinishOK'
  BY SameBack, SameFinish DEF SendLoop, receiverVars
<1>4. Entry(rec, size)' /\ blob' \in {NoBlob, size'}
  BY SameEntry, SameBlob DEF SendLoop, receiverVars
<1> QED
  BY <1>1, <1>2, <1>3, <1>4

LEMMA CancelFileInv == ASSUME Inv, CancelFile PROVE Inv'
<1>1. Types'
  BY DEF Inv, Types, CancelFile, Cancel, receiverVars
<1>2. DataOK' /\ BackOK' /\ FinishOK'
  BY SameData, SameBack, SameFinish DEF CancelFile, receiverVars
<1>3. Entry(rec, size)' /\ blob' \in {NoBlob, size'}
  BY SameEntry, SameBlob DEF CancelFile, receiverVars
<1> QED
  BY <1>1, <1>2, <1>3 DEF Inv

LEMMA InterruptFileInv == ASSUME Inv, InterruptFile PROVE Inv'
<1>1. Types'
  BY DEF Inv, Types, InterruptFile, Interrupt, receiverVars
<1>2. DataOK' /\ BackOK' /\ FinishOK'
  BY SameData, SameBack, SameFinish DEF InterruptFile, receiverVars
<1>3. Entry(rec, size)' /\ blob' \in {NoBlob, size'}
  BY SameEntry, SameBlob DEF InterruptFile, receiverVars
<1> QED
  BY <1>1, <1>2, <1>3 DEF Inv

LEMMA HangupInv == ASSUME Inv, NEW k \in Sessions, Hangup(k) PROVE Inv'
<1>1. Types'
  BY DEF Inv, Types, Hangup, senderVars, receiverVars
<1>2. DataOK' /\ FinishOK'
  BY SameData, SameFinish DEF Hangup, receiverVars
<1>3. BackOK'
  <2>1. <<>> \in Seq(Places)
    OBVIOUS
  <2> QED
    BY <2>1, BackStep DEF Hangup
<1>4. Entry(rec, size)' /\ blob' \in {NoBlob, size'}
  BY SameEntry, SameBlob DEF Hangup, receiverVars
<1> QED
  BY <1>1, <1>2, <1>3, <1>4 DEF Inv

LEMMA ResumeFileInv == ASSUME Inv, NEW k \in Sessions, ResumeFile(k) PROVE Inv'
<1>1. Types'
  BY DEF Inv, Types, ResumeFile, ResumeSendProgress, Open, Phases, receiverVars
<1>2. DataOK' /\ BackOK' /\ FinishOK'
  BY SameData, SameBack, SameFinish DEF ResumeFile, receiverVars
<1>3. Entry(rec, size)' /\ blob' \in {NoBlob, size'}
  BY SameEntry, SameBlob DEF ResumeFile, receiverVars
<1> QED
  BY <1>1, <1>2, <1>3 DEF Inv

LEMMA ChannelBreaksInv == ASSUME Inv, NEW k \in Sessions, ChannelBreaks(k) PROVE Inv'
<1>1. Types'
  BY BoundsAssumption DEF Inv, Types, ChannelBreaks, receiverVars
<1>2. DataOK' /\ FinishOK'
  BY SameData, SameFinish DEF ChannelBreaks, receiverVars
<1>3. BackOK'
  <2>1. <<>> \in Seq(Places)
    OBVIOUS
  <2> QED
    BY <2>1, BackStep DEF ChannelBreaks
<1>4. Entry(rec, size)' /\ blob' \in {NoBlob, size'}
  BY SameEntry, SameBlob DEF ChannelBreaks, receiverVars
<1> QED
  BY <1>1, <1>2, <1>3, <1>4 DEF Inv

(* A chunk that arrives goes into the entry; when the prefix is the file,  *)
(* the file is put together whole.                                         *)
LEMMA ReceiveChunkInv ==
  ASSUME Inv, size' = size, NEW k \in Sessions, NEW i \in 0..(size - 1), ReceiveChunk(k, i)
  PROVE  /\ Entry(rec, size)' /\ FinishOK' /\ BackOK'
         /\ active' \subseteq Sessions /\ recvCard' \in Phases
<1> USE DEF Inv
<1>0. size \in Places /\ size \in Nat
  BY BoundsAssumption DEF Types, Places
<1>1. CASE k \in active /\ rec # NoRec
  <2> DEFINE r == Placed(rec, i)
  <2>1. /\ Entry(r, size) /\ r.contig \in 0..size
        /\ 0..(r.contig - 1) \subseteq r.chunks
    BY <1>0, <1>1, PlacedKeeps
  <2>2. /\ rec' = r
        /\ finishing' = IF r.contig >= size
                        THEN [finishing EXCEPT ![k] = Append(finishing[k], Assembled(r))]
                        ELSE finishing
        /\ UpdateReceiveProgress /\ UNCHANGED <<active, back>>
    BY <1>1 DEF ReceiveChunk, ReceiveHead
  <2> HIDE DEF r
  <2>3. FinishOK'
    <3>1. CASE r.contig >= size
      <4>1. r.contig = size
        BY <1>0, <2>1, <3>1
      <4>2. r # NoRec
        BY <1>0, <4>1 DEF NoRec
      <4>3. Assembled(r) = size
        BY <1>0, <2>1, <4>1, <4>2, AssembledIsPrefix
      <4>4. WholeOf(Append(finishing[k], size), size)
        BY <1>0, WholeAppend DEF FinishOK
      <4> QED
        BY <2>2, <3>1, <4>3, <4>4, FinishStep
    <3>2. CASE ~ (r.contig >= size)
      BY <2>2, <3>2, SameFinish
    <3> QED
      BY <3>1, <3>2
  <2>4. recvCard' \in Phases /\ active' \subseteq Sessions
    BY <2>2 DEF UpdateReceiveProgress, Update, Types, Phases
  <2> QED
    BY <2>1, <2>2, <2>3, <2>4, SameBack
<1>2. CASE ~ (k \in active /\ rec # NoRec)
  <2>1. UNCHANGED <<rec, finishing, active, back>>
    BY <1>2 DEF ReceiveChunk
  <2>2. recvCard' \in Phases
    BY <1>2 DEF ReceiveChunk, ReceiveHead, UpdateReceiveProgress, Update, Types, Phases
  <2> QED
    BY <2>1, <2>2, SameFinish, SameBack, SameEntry DEF Types
<1> QED
  BY <1>1, <1>2

LEMMA OnChannelMessageInv == ASSUME Inv, NEW k \in Sessions, OnChannelMessage(k) PROVE Inv'
<1> USE DEF Inv
<1> DEFINE f == Head(data[k])
<1>0. size \in Nat /\ size \in Places /\ MaxChunks \in Nat /\ size <= MaxChunks
  BY BoundsAssumption DEF Types, Places
<1>1. /\ DataOf(Tail(data[k]), size) /\ f \in Frames
      /\ f.t = "chunk" => f.i < size
  BY DataTail DEF DataOK, OnChannelMessage
<1>2. DataOK'
  BY <1>1, DataStep DEF OnChannelMessage
<1>3. /\ Entry(rec, size)' /\ FinishOK' /\ BackOK'
      /\ active' \subseteq Sessions /\ recvCard' \in Phases
  <2>0. /\ UNCHANGED <<size, blob>>
        /\ \/ ReceiveMeta(k)
           \/ f.t = "chunk" /\ ReceiveChunk(k, f.i)
           \/ ReceiveFend(k)
           \/ ReceiveAsk(k)
    BY DEF OnChannelMessage
  <2> HIDE DEF f
  <2>1. CASE ReceiveMeta(k)
    <3>1. Entry(rec, size)'
      BY <1>0, <2>0, <2>1 DEF ReceiveMeta, Entry
    <3>2. active' \subseteq Sessions /\ recvCard' \in Phases
      BY <2>1 DEF ReceiveMeta, UpdateReceiveProgress, Update, Types, Phases
    <3> QED
      BY <2>0, <2>1, <3>1, <3>2, SameFinish, SameBack DEF ReceiveMeta
  <2>2. CASE f.t = "chunk" /\ ReceiveChunk(k, f.i)
    <3>1. f.i \in 0..(size - 1)
      BY <1>0, <1>1, <2>2 DEF Frames
    <3> QED
      BY <2>0, <2>2, <3>1, ReceiveChunkInv
  <2>3. CASE ReceiveFend(k)
    <3>1. Entry(rec, size)'
      BY <2>3 DEF ReceiveFend, Entry
    <3>2. active' \subseteq Sessions /\ recvCard' \in Phases
      BY <2>3 DEF ReceiveFend, CancelReceive, Update, Types, Phases
    <3> QED
      BY <2>0, <2>3, <3>1, <3>2, SameFinish, SameBack DEF ReceiveFend
  <2>4. CASE ReceiveAsk(k)
    <3> DEFINE n == IF rec = NoRec THEN 0 ELSE rec.contig
    <3>1. n \in Places
      BY <1>0 DEF Entry, Places
    <3> HIDE DEF n
    <3>2. Append(back[k], n) \in Seq(Places)
      BY <3>1 DEF BackOK
    <3>3. back' = [back EXCEPT ![k] = Append(back[k], n)] \/ back' = back
      BY <2>4 DEF ReceiveAsk, n
    <3>4. BackOK'
      BY <3>2, <3>3, BackStep, SameBack
    <3> QED
      BY <2>0, <2>4, <3>4, SameEntry, SameFinish DEF ReceiveAsk, Types
  <2> QED
    BY <2>0, <2>1, <2>2, <2>3, <2>4
<1>4. Types'
  BY <1>3 DEF Types, OnChannelMessage, senderVars
<1>5. blob' \in {NoBlob, size'}
  BY SameBlob DEF OnChannelMessage
<1> QED
  BY <1>2, <1>3, <1>4, <1>5

(* The receiver's other steps.                                             *)
LEMMA FinishReceiveInv == ASSUME Inv, NEW k \in Sessions, FinishReceive(k) PROVE Inv'
<1> USE DEF Inv
<1>1. WholeOf(Tail(finishing[k]), size) /\ Head(finishing[k]) = size
  BY WholeTail DEF FinishOK, FinishReceive
<1>2. FinishOK'
  BY <1>1, FinishStep DEF FinishReceive
<1>3. blob' \in {NoBlob, size'}
  BY <1>1 DEF FinishReceive, CompleteReceive
<1>4. Types'
  BY DEF Types, FinishReceive, CompleteReceive, PutCard, Update, Phases, senderVars
<1>5. DataOK' /\ BackOK'
  BY SameData, SameBack DEF FinishReceive
<1>6. Entry(rec, size)'
  BY DEF FinishReceive, Entry
<1> QED
  BY <1>2, <1>3, <1>4, <1>5, <1>6

LEMMA OnCloseInv == ASSUME Inv, NEW k \in Sessions, OnClose(k) PROVE Inv'
<1>1. DataOK'
  BY DataEmpty, DataStep DEF OnClose
<1>2. Types'
  BY DEF Inv, Types, OnClose, FailReceive, Update, Phases, senderVars
<1>3. BackOK' /\ FinishOK'
  BY SameBack, SameFinish DEF OnClose
<1>4. Entry(rec, size)' /\ blob' \in {NoBlob, size'}
  BY SameEntry, SameBlob DEF OnClose
<1> QED
  BY <1>1, <1>2, <1>3, <1>4 DEF Inv

LEMMA OnCallHangupInv == ASSUME Inv, NEW k \in Sessions, OnCallHangup(k) PROVE Inv'
<1>1. DataOK'
  BY DataEmpty, DataStep DEF OnCallHangup
<1>2. Types'
  BY DEF Inv, Types, OnCallHangup, senderVars
<1>3. BackOK' /\ FinishOK'
  BY SameBack, SameFinish DEF OnCallHangup
<1>4. Entry(rec, size)' /\ blob' \in {NoBlob, size'}
  BY SameEntry, SameBlob DEF OnCallHangup
<1> QED
  BY <1>1, <1>2, <1>3, <1>4 DEF Inv

LEMMA RecordArrivesInv == ASSUME Inv, RecordArrives PROVE Inv'
<1>1. Types'
  BY DEF Inv, Types, RecordArrives, Phases, senderVars
<1>2. DataOK' /\ BackOK' /\ FinishOK'
  BY SameData, SameBack, SameFinish DEF RecordArrives
<1>3. Entry(rec, size)' /\ blob' \in {NoBlob, size'}
  BY SameEntry, SameBlob DEF RecordArrives
<1> QED
  BY <1>1, <1>2, <1>3 DEF Inv

LEMMA NextInv == ASSUME Inv, [Next]_vars PROVE Inv'
<1>1. CASE SendFileTo
  BY <1>1, SendFileToInv
<1>2. CASE CancelFile
  BY <1>2, CancelFileInv
<1>3. CASE InterruptFile
  BY <1>3, InterruptFileInv
<1>4. CASE RecordArrives
  BY <1>4, RecordArrivesInv
<1>5. ASSUME NEW k \in Sessions,
             \/ ChannelOpens(k) \/ OpeningTimesOut(k) \/ ReceiveAck(k) \/ AskTimesOut(k)
             \/ SendLoop(k) \/ Hangup(k) \/ ResumeFile(k) \/ ChannelBreaks(k)
             \/ OnChannelMessage(k) \/ FinishReceive(k) \/ OnClose(k) \/ OnCallHangup(k)
      PROVE  Inv'
  BY <1>5, ChannelOpensInv, OpeningTimesOutInv, ReceiveAckInv, AskTimesOutInv, SendLoopInv,
     HangupInv, ResumeFileInv, ChannelBreaksInv, OnChannelMessageInv, FinishReceiveInv,
     OnCloseInv, OnCallHangupInv
<1>6. CASE UNCHANGED vars
  <2>1. Types'
    BY <1>6 DEF Inv, Types, vars, senderVars, receiverVars
  <2> QED
    BY <1>6, <2>1, SameData, SameBack, SameFinish, SameEntry, SameBlob
    DEF Inv, vars, receiverVars
<1> QED
  BY <1>1, <1>2, <1>3, <1>4, <1>5, <1>6 DEF Next

(* The invariant that the transfer keeps, whatever breaks or times out.    *)
THEOREM Invariance == Spec => []Inv
BY InitInv, NextInv, PTL DEF Spec

-----------------------------------------------------------------------------
(* Where a resumed transfer goes on *)

NoChunk(q) == \A n \in 1..Len(q) : q[n].t # "chunk"
NoFend(q) == \A n \in 1..Len(q) : q[n].t # "fend"
Carries(q, i) == \E n \in 1..Len(q) : q[n] = Chunk(i)

(* The file is declared before any of its chunks.                          *)
MetaAhead(q) ==
  \E n \in 1..Len(q) : q[n].t = "fmeta" /\ \A m \in 1..Len(q) : q[m].t = "chunk" => n < m

(* A session that carries the file, or will.                               *)
Live(k) ==
  (chan[k] = "opening" /\ (k = 1 \/ k \notin given)) \/ k \in waiting \/ next[k] # Idle

(* The card of the sender speaks of the one session there is.              *)
LiveInv ==
  \A k \in Sessions :
    Live(k) => sendCard = "sending" /\ \A j \in Sessions : Live(j) => j = k

Quiet(k) ==
  /\ sendCard = "none" => chan[k] = "none"
  /\ chan[k] # "open" => back[k] = <<>>
  /\ chan[k] \in {"none", "opening"} => k \notin waiting
  /\ chan[k] \in {"none", "opening"} \/ k \in waiting => next[k] = Idle /\ NoChunk(data[k])
  /\ sendCard # "canceled" => NoFend(data[k])

Declared(k) ==
  next[k] # Idle /\ chan[k] = "open" =>
    blob # NoBlob \/ MetaAhead(data[k]) \/ (k \in active /\ rec # NoRec)

Held(k) ==
  next[k] # Idle /\ chan[k] = "open" =>
    \A i \in 0..(next[k] - 1) : i \in rec.chunks \/ Carries(data[k], i) \/ blob # NoBlob

Answered(k) ==
  k \in waiting =>
    \A n \in 1..Len(back[k]) : (0..(back[k][n] - 1)) \subseteq rec.chunks \/ blob # NoBlob

Good(k) == Quiet(k) /\ Declared(k) /\ Held(k) /\ Answered(k)
ResumeInv == LiveInv /\ \A k \in Sessions : Good(k)

(* What the receiver holds it keeps, until it has the whole file.          *)
RecKept ==
  /\ blob # NoBlob => blob' # NoBlob
  /\ blob' # NoBlob \/ (rec.chunks \subseteq rec'.chunks /\ (rec # NoRec => rec' # NoRec))

LEMMA AppendFrame ==
  ASSUME NEW q \in Seq(Frames), NEW f \in Frames
  PROVE  /\ NoChunk(q) /\ f.t # "chunk" => NoChunk(Append(q, f))
         /\ NoFend(q) /\ f.t # "fend" => NoFend(Append(q, f))
         /\ NoChunk(q) /\ f.t = "fmeta" => MetaAhead(Append(q, f))
         /\ MetaAhead(q) => MetaAhead(Append(q, f))
         /\ \A i : Carries(q, i) => Carries(Append(q, f), i)
         /\ \A i : f = Chunk(i) => Carries(Append(q, f), i)
<1> DEFINE r == Append(q, f)
<1>1. /\ Len(q) \in Nat /\ Len(r) = Len(q) + 1
      /\ \A n \in 1..Len(q) : r[n] = q[n]
      /\ r[Len(q) + 1] = f
  OBVIOUS
<1> HIDE DEF r
<1>2. /\ \A n \in 1..Len(r) : (n \in 1..Len(q) /\ r[n] = q[n]) \/ (n = Len(q) + 1 /\ r[n] = f)
      /\ \A n \in 1..Len(q) : n \in 1..Len(r) /\ n < Len(q) + 1
      /\ Len(q) + 1 \in 1..Len(r)
  BY <1>1
<1>3. NoChunk(q) /\ f.t # "chunk" => NoChunk(r)
  BY <1>2 DEF NoChunk
<1>4. NoFend(q) /\ f.t # "fend" => NoFend(r)
  BY <1>2 DEF NoFend
<1>5. NoChunk(q) /\ f.t = "fmeta" => MetaAhead(r)
  BY <1>1, <1>2 DEF NoChunk, MetaAhead
<1>6. MetaAhead(q) => MetaAhead(r)
  BY <1>1, <1>2 DEF MetaAhead
<1>7. \A i : Carries(q, i) => Carries(r, i)
  BY <1>1, <1>2 DEF Carries
<1>8. \A i : f = Chunk(i) => Carries(r, i)
  BY <1>1, <1>2 DEF Carries
<1> QED
  BY <1>3, <1>4, <1>5, <1>6, <1>7, <1>8 DEF r

LEMMA TailFrame ==
  ASSUME NEW q \in Seq(Frames), q # <<>>
  PROVE  /\ Head(q) \in Frames
         /\ NoChunk(q) => NoChunk(Tail(q))
         /\ NoFend(q) => NoFend(Tail(q)) /\ Head(q).t # "fend"
         /\ MetaAhead(q) => Head(q).t # "chunk" /\ (Head(q).t = "fmeta" \/ MetaAhead(Tail(q)))
         /\ \A i : Carries(q, i) => Head(q) = Chunk(i) \/ Carries(Tail(q), i)
<1> DEFINE r == Tail(q)
<1>1. /\ Len(q) \in Nat \ {0} /\ Len(r) = Len(q) - 1 /\ Head(q) = q[1] /\ q[1] \in Frames
      /\ \A n \in 1..(Len(q) - 1) : r[n] = q[n + 1]
  OBVIOUS
<1> HIDE DEF r
<1>2. /\ \A n \in 1..Len(r) : n + 1 \in 1..Len(q) /\ r[n] = q[n + 1]
      /\ \A n \in 2..Len(q) : n - 1 \in 1..Len(r) /\ q[n] = r[n - 1]
      /\ 1 \in 1..Len(q) /\ \A n \in 1..Len(q) : n = 1 \/ n \in 2..Len(q)
  BY <1>1
<1>3. NoChunk(q) => NoChunk(r)
  BY <1>2 DEF NoChunk
<1>4. NoFend(q) => NoFend(r) /\ Head(q).t # "fend"
  BY <1>1, <1>2 DEF NoFend
<1>5. ASSUME MetaAhead(q) PROVE Head(q).t # "chunk" /\ (Head(q).t = "fmeta" \/ MetaAhead(r))
  <2>1. PICK n \in 1..Len(q) : q[n].t = "fmeta" /\ \A m \in 1..Len(q) : q[m].t = "chunk" => n < m
    BY <1>5 DEF MetaAhead
  <2>2. Head(q).t # "chunk"
    <3>1. q[1].t = "chunk" => n < 1
      BY <1>2, <2>1
    <3> QED
      BY <1>1, <3>1
  <2>3. CASE n = 1
    BY <1>1, <2>1, <2>2, <2>3
  <2>4. CASE n \in 2..Len(q)
    <3>1. n - 1 \in 1..Len(r) /\ r[n - 1].t = "fmeta"
      BY <1>2, <2>1, <2>4
    <3>2. ASSUME NEW m \in 1..Len(r), r[m].t = "chunk" PROVE n - 1 < m
      <4>1. n < m + 1
        BY <1>2, <2>1, <3>2
      <4> QED
        BY <4>1
    <3> QED
      BY <2>2, <3>1, <3>2 DEF MetaAhead
  <2> QED
    BY <1>2, <2>1, <2>3, <2>4
<1>6. \A i : Carries(q, i) => Head(q) = Chunk(i) \/ Carries(r, i)
  BY <1>1, <1>2 DEF Carries
<1> QED
  BY <1>1, <1>3, <1>4, <1>5, <1>6 DEF r

(* The session j takes no part in a step.                                  *)
LEMMA Bystander ==
  ASSUME NEW j \in Sessions, Good(j), RecKept,
         sendCard = "canceled" => sendCard' = "canceled",
         sendCard # "none" => sendCard' # "none",
         chan'[j] = chan[j], back'[j] = back[j], data'[j] = data[j], next'[j] = next[j],
         j \in waiting' => j \in waiting,
         j \in active => j \in active' \/ blob' # NoBlob
  PROVE  Good(j)'
<1>1. Quiet(j)'
  BY DEF Good, Quiet
<1>2. Declared(j)'
  BY DEF Good, Declared, RecKept
<1>3. Held(j)'
  BY DEF Good, Held, RecKept
<1>4. Answered(j)'
  BY DEF Good, Answered, RecKept
<1> QED
  BY <1>1, <1>2, <1>3, <1>4 DEF Good

(* A step that changes neither the session j nor the card.                 *)
LEMMA Untouched ==
  ASSUME Inv, NEW k \in Sessions, Good(k),
         UNCHANGED <<sendCard, chan, back, data, next, waiting, rec, active, blob>>
  PROVE  Good(k)'
BY Bystander DEF RecKept

(* No session comes to life.                                               *)
LEMMA NoneComes ==
  ASSUME LiveInv, sendCard' = sendCard, \A j \in Sessions : Live(j)' => Live(j)
  PROVE  LiveInv'
BY DEF LiveInv

LEMMA SendFileToResume ==
  ASSUME Inv, ResumeInv, SendFileTo PROVE ResumeInv'
<1>0. 1 \in Sessions
  BY BoundsAssumption DEF Sessions
<1>1. \A j \in Sessions : chan[j] = "none" /\ ~ Live(j) /\ Good(j)
  BY DEF ResumeInv, LiveInv, Good, Quiet, SendFileTo, AttachButton
<1>2. /\ sendCard = "none" /\ sendCard' = "sending" /\ chan' = [chan EXCEPT ![1] = "opening"]
      /\ UNCHANGED <<next, waiting, given, data, back, rec, active, blob>>
  BY DEF SendFileTo, AttachButton, PushOutgoingFile, Open, receiverVars
<1>3. \A j \in Sessions : j # 1 => chan'[j] = chan[j]
  BY <1>2 DEF Inv, Types
<1>4. LiveInv'
  <2>1. \A j \in Sessions : Live(j)' => j = 1
    BY <1>1, <1>2, <1>3 DEF Live
  <2> QED
    BY <1>0, <1>2, <2>1 DEF LiveInv
<1>5. ASSUME NEW j \in Sessions PROVE Good(j)'
  <2>1. CASE j # 1
    BY <1>1, <1>2, <1>3, <2>1 DEF Good, Quiet, Declared, Held, Answered
  <2>2. CASE j = 1
    <3>1. chan'[j] = "opening"
      BY <1>2, <2>2 DEF Inv, Types
    <3>2. next[j] = Idle /\ j \notin waiting /\ back[j] = <<>> /\ NoChunk(data[j]) /\ NoFend(data[j])
      BY <1>1, <1>2 DEF Good, Quiet
    <3> QED
      BY <1>2, <3>1, <3>2 DEF Good, Quiet, Declared, Held, Answered
  <2> QED
    BY <2>1, <2>2
<1> QED
  BY <1>4, <1>5 DEF ResumeInv

LEMMA NextUpdate ==
  ASSUME Inv, NEW k \in Sessions, NEW i, next' = [next EXCEPT ![k] = i]
  PROVE  next'[k] = i /\ \A j \in Sessions : j # k => next'[j] = next[j]
BY DEF Inv, Types

LEMMA DataUpdate ==
  ASSUME Inv, NEW k \in Sessions, NEW q, data' = [data EXCEPT ![k] = q]
  PROVE  data'[k] = q /\ \A j \in Sessions : j # k => data'[j] = data[j]
BY DEF Inv, DataOK

LEMMA BackUpdate ==
  ASSUME Inv, NEW k \in Sessions, NEW q, back' = [back EXCEPT ![k] = q]
  PROVE  back'[k] = q /\ \A j \in Sessions : j # k => back'[j] = back[j]
BY DEF Inv, BackOK

LEMMA ChanUpdate ==
  ASSUME Inv, NEW k \in Sessions, NEW s, chan' = [chan EXCEPT ![k] = s]
  PROVE  chan'[k] = s /\ \A j \in Sessions : j # k => chan'[j] = chan[j]
BY DEF Inv, Types

(* Starting the loop of session k leaves the other sessions alone.         *)
LEMMA StartIsLocal ==
  ASSUME Inv, NEW k \in Sessions, NEW i, NEW q, NEW s, SendFile(k, i, q, s)
  PROVE  \A j \in Sessions : j # k => next'[j] = next[j] /\ data'[j] = data[j]
<1>1. CASE s = "open"
  <2>1. \A j \in Sessions : j # k => next'[j] = next[j]
    BY <1>1, NextUpdate DEF SendFile
  <2>2. \A j \in Sessions : j # k => data'[j] = data[j]
    <3>1. data' = [data EXCEPT ![k] = Append(q, Meta)]
      BY <1>1 DEF SendFile
    <3> QED
      BY <3>1, DataUpdate
  <2> QED
    BY <2>1, <2>2
<1>2. CASE s # "open"
  BY <1>2 DEF SendFile
<1> QED
  BY <1>1, <1>2

(* The loop of session k is started at chunk i, which the receiver has     *)
(* asked for.                                                              *)
LEMMA Started ==
  ASSUME Inv, NEW k \in Sessions, NEW i \in Nat, SendFile(k, i, data[k], chan'[k]),
         Quiet(k), NoChunk(data[k]), chan[k] = chan'[k] \/ chan'[k] = "open",
         k \notin waiting', UNCHANGED <<sendCard, rec, active, blob>>, sendCard # "none",
         chan'[k] \notin {"none", "opening"},
         chan'[k] # "open" => back'[k] = <<>> /\ next[k] = Idle,
         \A j \in 0..(i - 1) : j \in rec.chunks \/ blob # NoBlob
  PROVE  Good(k)'
<1>1. data[k] \in Seq(Frames)
  BY DEF Inv, DataOK
<1>2. CASE chan'[k] = "open"
  <2>1. next'[k] = i /\ data'[k] = Append(data[k], Meta)
    BY <1>2, NextUpdate, DataUpdate DEF SendFile
  <2>2. Meta \in Frames /\ Meta.t = "fmeta"
    BY FrameTypes DEF Meta
  <2>3. MetaAhead(data'[k])
    BY <1>1, <2>1, <2>2, AppendFrame
  <2>4. NoFend(data[k]) => NoFend(data'[k])
    BY <1>1, <2>1, <2>2, AppendFrame
  <2> QED
    BY <1>2, <2>1, <2>3, <2>4 DEF Good, Quiet, Declared, Held, Answered
<1>3. CASE chan'[k] # "open"
  BY <1>3 DEF SendFile, Good, Quiet, Declared, Held, Answered
<1> QED
  BY <1>2, <1>3

LEMMA ChannelOpensResume ==
  ASSUME Inv, ResumeInv, NEW k \in Sessions, ChannelOpens(k) PROVE ResumeInv'
<1>0. /\ chan[k] = "opening" /\ chan' = [chan EXCEPT ![k] = "open"]
      /\ \/ k = 1 /\ SendFile(k, 0, data[k], "open") /\ UNCHANGED waiting
         \/ /\ k > 1 /\ k \notin given /\ waiting' = waiting \cup {k}
            /\ data' = [data EXCEPT ![k] = Append(data[k], Ask)] /\ UNCHANGED next
         \/ UNCHANGED <<next, data, waiting>>
      /\ UNCHANGED <<sendCard, given, back, rec, active, blob>>
  BY DEF ChannelOpens
<1>1. Good(k) /\ Quiet(k) /\ LiveInv
  BY DEF ResumeInv, Good
<1>2. chan'[k] = "open" /\ \A j \in Sessions : j # k => chan'[j] = chan[j]
  BY <1>0, ChanUpdate
<1>3. next[k] = Idle /\ k \notin waiting /\ back[k] = <<>> /\ NoChunk(data[k]) /\ sendCard # "none"
  BY <1>0, <1>1 DEF Quiet
<1>4. \A j \in Sessions : j # k => /\ next'[j] = next[j] /\ data'[j] = data[j]
                                   /\ (j \in waiting' => j \in waiting)
  <2>1. ASSUME UNCHANGED next, data' = [data EXCEPT ![k] = Append(data[k], Ask)]
        PROVE  \A j \in Sessions : j # k => next'[j] = next[j] /\ data'[j] = data[j]
    BY <2>1, DataUpdate
  <2> QED
    BY <1>0, <2>1, StartIsLocal
<1>5. LiveInv'
  <2>1. \A j \in Sessions : Live(j)' => Live(j)
    <3>1. Live(k)' => Live(k)
      BY <1>0, <1>2, <1>3 DEF Live
    <3>2. \A j \in Sessions : j # k => (Live(j)' => Live(j))
      BY <1>0, <1>2, <1>4 DEF Live
    <3> QED
      BY <3>1, <3>2
  <2> QED
    BY <1>0, <1>1, <2>1, NoneComes
<1>6. Good(k)'
  <2>1. CASE k = 1 /\ SendFile(k, 0, data[k], "open") /\ UNCHANGED waiting
    <3>1. SendFile(k, 0, data[k], chan'[k]) /\ 0 \in Nat /\ \A j \in 0..(0 - 1) : FALSE
      BY <1>2, <2>1
    <3> QED
      BY <1>0, <1>1, <1>2, <1>3, <2>1, <3>1, Started
  <2>2. CASE /\ k > 1 /\ waiting' = waiting \cup {k}
             /\ data' = [data EXCEPT ![k] = Append(data[k], Ask)] /\ UNCHANGED next
    <3>1. data'[k] = Append(data[k], Ask) /\ data[k] \in Seq(Frames)
      BY <2>2, DataUpdate DEF Inv, DataOK
    <3>2. Ask \in Frames /\ Ask.t = "fresume"
      BY FrameTypes DEF Ask
    <3>3. NoChunk(data'[k]) /\ (NoFend(data[k]) => NoFend(data'[k]))
      BY <1>3, <3>1, <3>2, AppendFrame
    <3>4. Len(back'[k]) = 0
      BY <1>0, <1>3
    <3> QED
      BY <1>0, <1>1, <1>2, <1>3, <2>2, <3>3, <3>4 DEF Good, Quiet, Declared, Held, Answered
  <2>3. CASE UNCHANGED <<next, data, waiting>>
    BY <1>0, <1>1, <1>2, <1>3, <2>3 DEF Good, Quiet, Declared, Held, Answered
  <2> QED
    BY <1>0, <2>1, <2>2, <2>3
<1>7. ASSUME NEW j \in Sessions, j # k PROVE Good(j)'
  <2>1. Good(j) /\ RecKept
    BY <1>0 DEF ResumeInv, RecKept
  <2> QED
    BY <1>0, <1>2, <1>4, <1>7, <2>1, Bystander
<1> QED
  BY <1>5, <1>6, <1>7 DEF ResumeInv

LEMMA ReceiveAckResume ==
  ASSUME Inv, ResumeInv, NEW k \in Sessions, ReceiveAck(k) PROVE ResumeInv'
<1>0. /\ back[k] # <<>> /\ chan[k] = "open" /\ back' = [back EXCEPT ![k] = Tail(back[k])]
      /\ UNCHANGED <<sendCard, given, chan, rec, active, blob>>
      /\ \/ k \in waiting /\ waiting' = waiting \ {k} /\ SendFile(k, Head(back[k]), data[k], chan[k])
         \/ k \notin waiting /\ UNCHANGED <<waiting, next, data>>
  BY DEF ReceiveAck, receiverVars
<1>1. Good(k) /\ Quiet(k) /\ LiveInv
  BY DEF ResumeInv, Good
<1>2. back'[k] = Tail(back[k]) /\ \A j \in Sessions : j # k => back'[j] = back[j]
  BY <1>0, BackUpdate
<1>3. back[k] \in Seq(Places)
  BY DEF Inv, BackOK
<1>4. Head(back[k]) = back[k][1] /\ 1 \in 1..Len(back[k]) /\ Head(back[k]) \in Places
  BY <1>0, <1>3
<1>5. \A j \in Sessions : j # k => /\ next'[j] = next[j] /\ data'[j] = data[j]
                                   /\ (j \in waiting' => j \in waiting)
  BY <1>0, StartIsLocal
<1>6. LiveInv'
  <2>1. Live(k)' => Live(k)
    BY <1>0 DEF Live
  <2>2. \A j \in Sessions : j # k => (Live(j)' => Live(j))
    BY <1>0, <1>5 DEF Live
  <2> QED
    BY <1>0, <1>1, <2>1, <2>2, NoneComes
<1>7. Good(k)'
  <2>1. CASE k \in waiting /\ waiting' = waiting \ {k} /\ SendFile(k, Head(back[k]), data[k], chan[k])
    <3>1. NoChunk(data[k]) /\ sendCard # "none"
      BY <1>0, <1>1, <2>1 DEF Quiet
    <3>2. Head(back[k]) \in Nat
      BY <1>4, BoundsAssumption DEF Places
    <3>3. \A j \in 0..(Head(back[k]) - 1) : j \in rec.chunks \/ blob # NoBlob
      BY <1>1, <1>4, <2>1 DEF Good, Answered
    <3>4. SendFile(k, Head(back[k]), data[k], chan'[k]) /\ chan'[k] = "open" /\ k \notin waiting'
      BY <1>0, <2>1
    <3> QED
      BY <1>0, <1>1, <3>1, <3>2, <3>3, <3>4, Started
  <2>2. CASE k \notin waiting /\ UNCHANGED <<waiting, next, data>>
    BY <1>0, <1>1, <2>2 DEF Good, Quiet, Declared, Held, Answered
  <2> QED
    BY <1>0, <2>1, <2>2
<1>8. ASSUME NEW j \in Sessions, j # k PROVE Good(j)'
  <2>1. Good(j) /\ RecKept
    BY <1>0 DEF ResumeInv, RecKept
  <2> QED
    BY <1>0, <1>2, <1>5, <1>8, <2>1, Bystander
<1> QED
  BY <1>6, <1>7, <1>8 DEF ResumeInv

LEMMA AskTimesOutResume ==
  ASSUME Inv, ResumeInv, NEW k \in Sessions, AskTimesOut(k) PROVE ResumeInv'
<1>0. /\ k \in waiting /\ waiting' = waiting \ {k} /\ SendFile(k, 0, data[k], chan[k])
      /\ UNCHANGED <<sendCard, given, chan, back, rec, active, blob>>
  BY DEF AskTimesOut, receiverVars
<1>1. Good(k) /\ Quiet(k) /\ LiveInv
  BY DEF ResumeInv, Good
<1>2. \A j \in Sessions : j # k => next'[j] = next[j] /\ data'[j] = data[j]
  BY <1>0, StartIsLocal
<1>3. LiveInv'
  <2>1. Live(k)' => Live(k)
    BY <1>0 DEF Live
  <2>2. \A j \in Sessions : j # k => (Live(j)' => Live(j))
    BY <1>0, <1>2 DEF Live
  <2> QED
    BY <1>0, <1>1, <2>1, <2>2, NoneComes
<1>4. Good(k)'
  <2>1. /\ NoChunk(data[k]) /\ next[k] = Idle /\ chan[k] \notin {"none", "opening"}
        /\ sendCard # "none" /\ (chan[k] # "open" => back[k] = <<>>)
    BY <1>0, <1>1 DEF Quiet
  <2>2. 0 \in Nat /\ \A j \in 0..(0 - 1) : FALSE
    OBVIOUS
  <2>3. SendFile(k, 0, data[k], chan'[k]) /\ k \notin waiting'
    BY <1>0
  <2> QED
    BY <1>0, <1>1, <2>1, <2>2, <2>3, Started
<1>5. ASSUME NEW j \in Sessions, j # k PROVE Good(j)'
  <2>1. Good(j) /\ RecKept
    BY <1>0 DEF ResumeInv, RecKept
  <2> QED
    BY <1>0, <1>2, <1>5, <2>1, Bystander
<1> QED
  BY <1>3, <1>4, <1>5 DEF ResumeInv

LEMMA QuietUserResume ==
  ASSUME Inv, ResumeInv,
         CancelFile \/ InterruptFile \/ RecordArrives \/ (\E k \in Sessions : OpeningTimesOut(k))
         \/ UNCHANGED vars
  PROVE  ResumeInv'
<1>1. /\ UNCHANGED <<sendCard, chan, back, data, next, waiting, rec, active, blob>>
      /\ given \subseteq given'
  BY DEF CancelFile, InterruptFile, RecordArrives, OpeningTimesOut, Cancel, Interrupt, senderVars,
         receiverVars, vars
<1>2. LiveInv'
  <2>1. \A j \in Sessions : Live(j)' => Live(j)
    BY <1>1 DEF Live
  <2> QED
    BY <1>1, <2>1, NoneComes DEF ResumeInv
<1>3. ASSUME NEW j \in Sessions PROVE Good(j)'
  <2>1. Good(j)
    BY DEF ResumeInv
  <2> QED
    BY <1>1, <2>1, Untouched
<1> QED
  BY <1>2, <1>3 DEF ResumeInv

(* The loop of session k comes to its end, and with it what was under way. *)
LEMMA LoopEndsResume ==
  ASSUME Inv, ResumeInv, NEW k \in Sessions, next[k] # Idle, LoopEnds(k),
         UNCHANGED <<chan, waiting, given, back, rec, active, blob>>,
         sendCard' # "none",
         \/ UNCHANGED data
         \/ data' = [data EXCEPT ![k] = Append(data[k], Fend)] /\ sendCard' = "canceled"
  PROVE  ResumeInv'
<1>1. LiveInv /\ Good(k) /\ Quiet(k) /\ next'[k] = Idle
      /\ \A j \in Sessions : j # k => next'[j] = next[j]
  BY NextUpdate DEF ResumeInv, Good, LoopEnds
<1>2. k \notin waiting /\ chan[k] \notin {"none", "opening"}
  BY <1>1 DEF Quiet
<1>3. sendCard = "sending" /\ \A j \in Sessions : Live(j) => j = k
  BY <1>1 DEF LiveInv, Live
<1>4. \A j \in Sessions : ~ Live(j)'
  <2>1. ~ Live(k)'
    BY <1>1, <1>2 DEF Live
  <2>2. ASSUME NEW j \in Sessions, j # k PROVE ~ Live(j)'
    BY <1>1, <1>3, <2>2 DEF Live
  <2> QED
    BY <2>1, <2>2
<1>5. LiveInv'
  BY <1>4 DEF LiveInv
<1>6. \A j \in Sessions : j # k => data'[j] = data[j]
  BY DataUpdate
<1>7. Quiet(k)'
  <2>1. sendCard' # "canceled" => NoFend(data[k])'
    BY <1>1, <1>3 DEF Quiet
  <2> QED
    BY <1>1, <1>2, <2>1 DEF Quiet
<1>8. Good(k)'
  BY <1>1, <1>2, <1>7 DEF Good, Declared, Held, Answered
<1>9. ASSUME NEW j \in Sessions, j # k PROVE Good(j)'
  <2>1. Good(j) /\ RecKept
    BY DEF ResumeInv, RecKept
  <2> QED
    BY <1>1, <1>3, <1>6, <1>9, <2>1, Bystander
<1> QED
  BY <1>5, <1>8, <1>9 DEF ResumeInv

LEMMA SendChunkResume ==
  ASSUME Inv, ResumeInv, NEW k \in Sessions, next[k] # Idle, SendChunk(k),
         UNCHANGED <<chan, waiting, given, back, rec, active, blob>>
  PROVE  ResumeInv'
<1>1. /\ LiveInv /\ Good(k) /\ Quiet(k) /\ chan[k] = "open"
      /\ next' = [next EXCEPT ![k] = next[k] + 1]
      /\ data' = [data EXCEPT ![k] = Append(data[k], Chunk(next[k]))]
      /\ sendCard' = "sending"
  BY DEF ResumeInv, Good, SendChunk, UpdateSendProgress
<1>2. /\ next'[k] = next[k] + 1 /\ data'[k] = Append(data[k], Chunk(next[k]))
      /\ \A j \in Sessions : j # k => next'[j] = next[j] /\ data'[j] = data[j]
  <2>1. next'[k] = next[k] + 1 /\ \A j \in Sessions : j # k => next'[j] = next[j]
    BY <1>1, NextUpdate
  <2>2. /\ data'[k] = Append(data[k], Chunk(next[k]))
        /\ \A j \in Sessions : j # k => data'[j] = data[j]
    BY <1>1, DataUpdate
  <2> QED
    BY <2>1, <2>2
<1>3. sendCard = "sending" /\ k \notin waiting
  BY <1>1 DEF LiveInv, Live, Quiet
<1>4. next[k] \in 0..MaxChunks /\ next'[k] # Idle
  <2>1. next[k] \in Idle..MaxChunks /\ MaxChunks \in Nat
    BY BoundsAssumption DEF Inv, Types
  <2> QED
    BY <1>2, <2>1 DEF Idle
<1>5. /\ data[k] \in Seq(Frames) /\ Chunk(next[k]) \in Frames
      /\ Chunk(next[k]).t # "fend"
  BY <1>4, FrameTypes DEF Inv, DataOK
<1>6. LiveInv'
  <2>1. \A j \in Sessions : j # k => (Live(j)' => Live(j))
    BY <1>2 DEF Live
  <2>2. Live(k)
    BY DEF Live
  <2>3. \A j \in Sessions : Live(j)' => Live(j)
    BY <2>1, <2>2
  <2> QED
    BY <1>1, <1>3, <2>3, NoneComes
<1>7. /\ NoFend(data[k]) => NoFend(data'[k])
      /\ MetaAhead(data[k]) => MetaAhead(data'[k])
      /\ \A i : Carries(data[k], i) => Carries(data'[k], i)
      /\ Carries(data'[k], next[k])
  BY <1>2, <1>5, AppendFrame
<1>8. Quiet(k)'
  BY <1>1, <1>3, <1>7 DEF Quiet
<1>9. Declared(k)'
  BY <1>1, <1>7 DEF Good, Declared
<1>10. Held(k)'
  <2>1. \A i \in 0..next[k] : i = next[k] \/ i \in 0..(next[k] - 1)
    BY <1>4
  <2>2. next'[k] - 1 = next[k]
    BY <1>2, <1>4
  <2>3. \A i \in 0..(next[k] - 1) : i \in rec.chunks \/ Carries(data[k], i) \/ blob # NoBlob
    BY <1>1 DEF Good, Held
  <2>4. \A i \in 0..next[k] : i \in rec.chunks \/ Carries(data'[k], i) \/ blob # NoBlob
    BY <1>7, <2>1, <2>3
  <2> QED
    BY <2>2, <2>4 DEF Held
<1>11. Good(k)'
  BY <1>3, <1>8, <1>9, <1>10 DEF Good, Answered
<1>12. ASSUME NEW j \in Sessions, j # k PROVE Good(j)'
  <2>1. Good(j) /\ RecKept
    BY DEF ResumeInv, RecKept
  <2> QED
    BY <1>1, <1>2, <1>3, <1>12, <2>1, Bystander
<1> QED
  BY <1>6, <1>11, <1>12 DEF ResumeInv

LEMMA SendLoopResume ==
  ASSUME Inv, ResumeInv, NEW k \in Sessions, SendLoop(k) PROVE ResumeInv'
<1>1. next[k] # Idle /\ UNCHANGED <<chan, waiting, given, back, rec, active, blob>>
  BY DEF SendLoop, receiverVars
<1>2. sendCard = "sending"
  BY <1>1 DEF ResumeInv, LiveInv, Live
<1>3. CASE SendChunk(k)
  BY <1>1, <1>3, SendChunkResume
<1>4. CASE StopSilently(k) \/ StopCanceled(k) \/ Fail(k) \/ Finish(k)
  <2>1. /\ LoopEnds(k) /\ sendCard' # "none"
        /\ \/ UNCHANGED data
           \/ data' = [data EXCEPT ![k] = Append(data[k], Fend)] /\ sendCard' = "canceled"
    BY <1>2, <1>4 DEF StopSilently, StopCanceled, Fail, Finish, FailSend, CancelSend, FinishSend
  <2> QED
    BY <1>1, <2>1, LoopEndsResume
<1> QED
  BY <1>3, <1>4 DEF SendLoop

(* The channel of session k is closed.                                     *)
LEMMA ChannelClosesResume ==
  ASSUME Inv, ResumeInv, NEW k \in Sessions, Hangup(k) \/ ChannelBreaks(k) PROVE ResumeInv'
<1>1. /\ chan[k] \in {"opening", "open"} /\ chan' = [chan EXCEPT ![k] = "closed"]
      /\ back' = [back EXCEPT ![k] = <<>>] /\ given \subseteq given'
      /\ UNCHANGED <<sendCard, next, waiting, data, rec, active, blob>>
  BY DEF Hangup, ChannelBreaks, senderVars, receiverVars
<1>2. /\ chan'[k] = "closed" /\ back'[k] = <<>>
      /\ \A j \in Sessions : j # k => chan'[j] = chan[j] /\ back'[j] = back[j]
  BY <1>1, ChanUpdate, BackUpdate
<1>3. LiveInv'
  <2>1. Live(k)' => Live(k)
    BY <1>1, <1>2 DEF Live
  <2>2. \A j \in Sessions : j # k => (Live(j)' => Live(j))
    BY <1>1, <1>2 DEF Live
  <2> QED
    BY <1>1, <2>1, <2>2, NoneComes DEF ResumeInv
<1>4. Good(k)'
  <2>1. Quiet(k)
    BY DEF ResumeInv, Good
  <2>2. Len(back'[k]) = 0
    BY <1>2
  <2> QED
    BY <1>1, <1>2, <2>1, <2>2 DEF Good, Quiet, Declared, Held, Answered
<1>5. ASSUME NEW j \in Sessions, j # k PROVE Good(j)'
  <2>1. Good(j) /\ RecKept
    BY <1>1 DEF ResumeInv, RecKept
  <2> QED
    BY <1>1, <1>2, <1>5, <2>1, Bystander
<1> QED
  BY <1>3, <1>4, <1>5 DEF ResumeInv

LEMMA ResumeFileResume ==
  ASSUME Inv, ResumeInv, NEW k \in Sessions, ResumeFile(k) PROVE ResumeInv'
<1>1. /\ sendCard = "failed" /\ sendCard' = "sending" /\ chan[k] = "none"
      /\ chan' = [chan EXCEPT ![k] = "opening"]
      /\ UNCHANGED <<next, waiting, given, data, back, rec, active, blob>>
  BY DEF ResumeFile, ResumeButton, ResumeSendProgress, Open, receiverVars
<1>2. chan'[k] = "opening" /\ \A j \in Sessions : j # k => chan'[j] = chan[j]
  BY <1>1, ChanUpdate
<1>3. \A j \in Sessions : ~ Live(j)
  BY <1>1 DEF ResumeInv, LiveInv
<1>4. LiveInv'
  <2>1. \A j \in Sessions : Live(j)' => j = k
    BY <1>1, <1>2, <1>3 DEF Live
  <2> QED
    BY <1>1, <2>1 DEF LiveInv
<1>5. Good(k)'
  <2>1. Quiet(k)
    BY DEF ResumeInv, Good
  <2> QED
    BY <1>1, <1>2, <2>1 DEF Good, Quiet, Declared, Held, Answered
<1>6. ASSUME NEW j \in Sessions, j # k PROVE Good(j)'
  <2>1. Good(j) /\ RecKept
    BY <1>1 DEF ResumeInv, RecKept
  <2> QED
    BY <1>1, <1>2, <1>6, <2>1, Bystander
<1> QED
  BY <1>4, <1>5, <1>6 DEF ResumeInv

(* The receiver's end of a channel that is closed.                         *)
LEMMA EndClosesResume ==
  ASSUME Inv, ResumeInv, NEW k \in Sessions, OnClose(k) \/ OnCallHangup(k) PROVE ResumeInv'
<1>1. /\ chan[k] = "closed" /\ data' = [data EXCEPT ![k] = <<>>]
      /\ UNCHANGED <<sendCard, chan, next, waiting, given, back, rec, active, blob>>
  BY DEF OnClose, OnCallHangup, senderVars
<1>2. data'[k] = <<>> /\ \A j \in Sessions : j # k => data'[j] = data[j]
  BY <1>1, DataUpdate
<1>3. LiveInv'
  <2>1. \A j \in Sessions : Live(j)' => Live(j)
    BY <1>1 DEF Live
  <2> QED
    BY <1>1, <2>1, NoneComes DEF ResumeInv
<1>4. Good(k)'
  <2>1. Good(k)
    BY DEF ResumeInv
  <2>2. NoChunk(<<>>) /\ NoFend(<<>>)
    BY DEF NoChunk, NoFend
  <2> QED
    BY <1>1, <1>2, <2>1, <2>2 DEF Good, Quiet, Declared, Held, Answered
<1>5. ASSUME NEW j \in Sessions, j # k PROVE Good(j)'
  <2>1. Good(j) /\ RecKept
    BY <1>1 DEF ResumeInv, RecKept
  <2> QED
    BY <1>1, <1>2, <1>5, <2>1, Bystander
<1> QED
  BY <1>3, <1>4, <1>5 DEF ResumeInv

LEMMA FinishReceiveResume ==
  ASSUME Inv, ResumeInv, NEW k \in Sessions, FinishReceive(k) PROVE ResumeInv'
<1>1. /\ UNCHANGED <<sendCard, chan, next, waiting, given, data, back>>
      /\ active' = active \ {k}
  BY DEF FinishReceive, senderVars
<1>2. blob' # NoBlob
  <2>1. Head(finishing[k]) = size
    BY WholeTail DEF Inv, FinishOK, FinishReceive
  <2>2. size # NoBlob
    BY BoundsAssumption DEF Inv, Types, Places, NoBlob
  <2> QED
    BY <2>1, <2>2 DEF FinishReceive, CompleteReceive
<1>3. LiveInv'
  <2>1. \A j \in Sessions : Live(j)' => Live(j)
    BY <1>1 DEF Live
  <2> QED
    BY <1>1, <2>1, NoneComes DEF ResumeInv
<1>4. ASSUME NEW j \in Sessions PROVE Good(j)'
  <2>1. Good(j) /\ RecKept
    BY <1>2 DEF ResumeInv, RecKept
  <2> QED
    BY <1>1, <1>2, <2>1, Bystander
<1> QED
  BY <1>3, <1>4 DEF ResumeInv

(* The receiver takes a frame; session k is left to show for each kind.    *)
LEMMA FrameReadResume ==
  ASSUME Inv, ResumeInv, NEW k \in Sessions, RecKept, Good(k)',
         UNCHANGED <<sendCard, chan, next, waiting, given>>,
         data' = [data EXCEPT ![k] = Tail(data[k])], active \subseteq active',
         \A j \in Sessions : j # k => back'[j] = back[j]
  PROVE  ResumeInv'
<1>1. LiveInv'
  <2>1. \A j \in Sessions : Live(j)' => Live(j)
    BY DEF Live
  <2> QED
    BY <2>1, NoneComes DEF ResumeInv
<1>2. ASSUME NEW j \in Sessions, j # k PROVE Good(j)'
  <2>1. Good(j) /\ data'[j] = data[j]
    BY <1>2, DataUpdate DEF ResumeInv
  <2> QED
    BY <1>2, <2>1, Bystander
<1> QED
  BY <1>1, <1>2 DEF ResumeInv

(* What is placed in the entry stays there.                                *)
LEMMA PlacedHolds ==
  ASSUME Inv, rec # NoRec, NEW i \in 0..(size - 1)
  PROVE  /\ rec.chunks \subseteq Placed(rec, i).chunks /\ i \in Placed(rec, i).chunks
         /\ Placed(rec, i) # NoRec
<1>1. Placed(rec, i).contig \in 0..size
  BY PlacedKeeps DEF Inv, Types
<1>2. Placed(rec, i).chunks = rec.chunks \cup {i}
  BY DEF Placed
<1> QED
  BY <1>1, <1>2 DEF NoRec

(* fend is the last frame of a transfer that was canceled: nothing is      *)
(* under way.                                                              *)
LEMMA FendResume ==
  ASSUME Inv, ResumeInv, NEW k \in Sessions, data[k] # <<>>, Head(data[k]).t = "fend",
         data' = [data EXCEPT ![k] = Tail(data[k])],
         UNCHANGED <<sendCard, chan, next, waiting, given, back, blob>>
  PROVE  ResumeInv'
<1>1. data[k] \in Seq(Frames)
  BY DEF Inv, DataOK
<1>2. ~ NoFend(data[k])
  BY <1>1, TailFrame
<1>3. sendCard = "canceled"
  BY <1>2 DEF ResumeInv, Good, Quiet
<1>4. \A j \in Sessions : ~ Live(j)
  BY <1>3 DEF ResumeInv, LiveInv
<1>5. \A j \in Sessions : ~ Live(j)'
  BY <1>4 DEF Live
<1>6. ASSUME NEW j \in Sessions PROVE Good(j)'
  <2>1. next'[j] = Idle /\ j \notin waiting'
    BY <1>5 DEF Live
  <2>2. NoChunk(data[j]) => NoChunk(data'[j])
    BY <1>1, TailFrame, DataUpdate
  <2>3. Quiet(j)
    BY DEF ResumeInv, Good
  <2> QED
    BY <1>3, <2>1, <2>2, <2>3 DEF Good, Quiet, Declared, Held, Answered
<1> QED
  BY <1>5, <1>6 DEF ResumeInv, LiveInv

LEMMA ChunkResume ==
  ASSUME Inv, ResumeInv, NEW k \in Sessions, data[k] # <<>>, Head(data[k]).t = "chunk",
         ReceiveChunk(k, Head(data[k]).i),
         data' = [data EXCEPT ![k] = Tail(data[k])],
         UNCHANGED <<sendCard, chan, next, waiting, given, blob>>
  PROVE  ResumeInv'
<1> DEFINE i == Head(data[k]).i
<1>1. data[k] \in Seq(Frames) /\ Good(k) /\ data'[k] = Tail(data[k])
  BY DataUpdate DEF Inv, DataOK, ResumeInv
<1>2. /\ NoChunk(data[k]) => NoChunk(data'[k])
      /\ NoFend(data[k]) => NoFend(data'[k])
      /\ ~ MetaAhead(data[k])
      /\ \A n : Carries(data[k], n) => Head(data[k]) = Chunk(n) \/ Carries(data'[k], n)
  BY <1>1, TailFrame
<1>3. i \in 0..(size - 1)
  <2>1. Head(data[k]) \in Frames /\ i < size
    BY DataTail DEF Inv, DataOK
  <2>2. size \in Nat /\ MaxChunks \in Nat
    BY BoundsAssumption DEF Inv, Types, Places
  <2> QED
    BY <2>1, <2>2 DEF Frames
<1>4. \A n : Head(data[k]) = Chunk(n) => n = i
  BY DEF Chunk
<1> HIDE DEF i
<1>5. UNCHANGED <<active, back>>
  BY DEF ReceiveChunk
<1>6. CASE k \in active /\ rec # NoRec
  <2>1. rec.chunks \subseteq rec'.chunks /\ i \in rec'.chunks /\ rec' # NoRec
    BY <1>3, <1>6, PlacedHolds DEF ReceiveChunk, i
  <2>2. Quiet(k)' /\ Declared(k)' /\ Answered(k)'
    BY <1>1, <1>2, <1>5, <1>6, <2>1 DEF Good, Quiet, Declared, Answered
  <2>3. Held(k)'
    BY <1>1, <1>2, <1>4, <2>1 DEF Good, Held
  <2>4. RecKept
    BY <2>1 DEF RecKept
  <2> QED
    BY <1>5, <2>2, <2>3, <2>4, FrameReadResume DEF Good
<1>7. CASE ~ (k \in active /\ rec # NoRec)
  <2>1. rec' = rec
    BY <1>7 DEF ReceiveChunk
  <2>2. next[k] # Idle /\ chan[k] = "open" => blob # NoBlob
    BY <1>1, <1>2, <1>7 DEF Good, Declared
  <2>3. Good(k)'
    BY <1>1, <1>2, <1>5, <2>1, <2>2 DEF Good, Quiet, Declared, Held, Answered
  <2>4. RecKept
    BY <2>1 DEF RecKept
  <2> QED
    BY <1>5, <2>3, <2>4, FrameReadResume
<1> QED
  BY <1>6, <1>7

LEMMA MetaResume ==
  ASSUME Inv, ResumeInv, NEW k \in Sessions, data[k] # <<>>, Head(data[k]).t = "fmeta",
         ReceiveMeta(k), data' = [data EXCEPT ![k] = Tail(data[k])],
         UNCHANGED <<sendCard, chan, next, waiting, given, blob>>
  PROVE  ResumeInv'
<1>1. data[k] \in Seq(Frames) /\ Good(k) /\ data'[k] = Tail(data[k])
  BY DataUpdate DEF Inv, DataOK, ResumeInv
<1>2. /\ NoChunk(data[k]) => NoChunk(data'[k])
      /\ NoFend(data[k]) => NoFend(data'[k])
      /\ \A n : Carries(data[k], n) => Head(data[k]) = Chunk(n) \/ Carries(data'[k], n)
  BY <1>1, TailFrame
<1>3. \A n : Head(data[k]) # Chunk(n)
  BY DEF Chunk
<1>4. /\ active' = active \cup {k} /\ UNCHANGED back
      /\ rec' # NoRec /\ rec.chunks \subseteq rec'.chunks
  BY DEF ReceiveMeta, NoRec
<1>5. Quiet(k)' /\ Declared(k)' /\ Answered(k)'
  BY <1>1, <1>2, <1>4 DEF Good, Quiet, Declared, Answered
<1>6. Held(k)'
  BY <1>1, <1>2, <1>3, <1>4 DEF Good, Held
<1>7. RecKept
  BY <1>4 DEF RecKept
<1> QED
  BY <1>4, <1>5, <1>6, <1>7, FrameReadResume DEF Good

LEMMA AskResume ==
  ASSUME Inv, ResumeInv, NEW k \in Sessions, data[k] # <<>>, Head(data[k]).t = "fresume",
         ReceiveAsk(k), data' = [data EXCEPT ![k] = Tail(data[k])],
         UNCHANGED <<sendCard, chan, next, waiting, given, blob>>
  PROVE  ResumeInv'
<1> DEFINE c == IF rec = NoRec THEN 0 ELSE rec.contig
<1>1. data[k] \in Seq(Frames) /\ Good(k) /\ data'[k] = Tail(data[k])
  BY DataUpdate DEF Inv, DataOK, ResumeInv
<1>2. /\ NoChunk(data[k]) => NoChunk(data'[k])
      /\ NoFend(data[k]) => NoFend(data'[k])
      /\ MetaAhead(data[k]) => MetaAhead(data'[k])
      /\ \A n : Carries(data[k], n) => Head(data[k]) = Chunk(n) \/ Carries(data'[k], n)
  BY <1>1, TailFrame
<1>3. \A n : Head(data[k]) # Chunk(n)
  BY DEF Chunk
<1>4. UNCHANGED <<rec, active>>
  BY DEF ReceiveAsk
<1>5. c \in Places /\ 0..(c - 1) \subseteq rec.chunks
  <2>1. size \in Nat /\ MaxChunks \in Nat /\ size <= MaxChunks
    BY BoundsAssumption DEF Inv, Types, Places
  <2> QED
    BY <2>1 DEF Inv, Entry, Places
<1>6. \/ chan[k] = "open" /\ back' = [back EXCEPT ![k] = Append(back[k], c)]
      \/ back' = back
  BY DEF ReceiveAsk
<1> HIDE DEF c
<1>7. \A j \in Sessions : j # k => back'[j] = back[j]
  BY <1>6, BackUpdate
<1>8. Answered(k)'
  <2>1. CASE chan[k] = "open" /\ back' = [back EXCEPT ![k] = Append(back[k], c)]
    <3>1. back'[k] = Append(back[k], c) /\ back[k] \in Seq(Places)
      BY <2>1, BackUpdate DEF Inv, BackOK
    <3>2. \A n \in 1..Len(back'[k]) : back'[k][n] = c \/ (n \in 1..Len(back[k]) /\ back'[k][n] = back[k][n])
      BY <1>5, <3>1
    <3> QED
      BY <1>1, <1>4, <1>5, <3>2 DEF Good, Answered
  <2>2. CASE back' = back
    BY <1>1, <1>4, <2>2 DEF Good, Answered
  <2> QED
    BY <1>6, <2>1, <2>2
<1>9. Quiet(k)'
  BY <1>1, <1>2, <1>6 DEF Good, Quiet
<1>10. Declared(k)' /\ Held(k)'
  BY <1>1, <1>2, <1>3, <1>4 DEF Good, Declared, Held
<1>11. RecKept
  BY <1>4 DEF RecKept
<1> QED
  BY <1>4, <1>7, <1>8, <1>9, <1>10, <1>11, FrameReadResume DEF Good

LEMMA OnChannelMessageResume ==
  ASSUME Inv, ResumeInv, NEW k \in Sessions, OnChannelMessage(k) PROVE ResumeInv'
<1>1. /\ data[k] # <<>> /\ data' = [data EXCEPT ![k] = Tail(data[k])]
      /\ UNCHANGED <<sendCard, chan, next, waiting, given, blob>>
      /\ \/ Head(data[k]).t = "fmeta" /\ ReceiveMeta(k)
         \/ Head(data[k]).t = "chunk" /\ ReceiveChunk(k, Head(data[k]).i)
         \/ Head(data[k]).t = "fend" /\ ReceiveFend(k)
         \/ Head(data[k]).t = "fresume" /\ ReceiveAsk(k)
  BY DEF OnChannelMessage, senderVars
<1>2. CASE Head(data[k]).t = "fmeta" /\ ReceiveMeta(k)
  BY <1>1, <1>2, MetaResume
<1>3. CASE Head(data[k]).t = "chunk" /\ ReceiveChunk(k, Head(data[k]).i)
  BY <1>1, <1>3, ChunkResume
<1>4. CASE Head(data[k]).t = "fend" /\ ReceiveFend(k)
  <2>1. back' = back
    BY <1>4 DEF ReceiveFend
  <2> QED
    BY <1>1, <1>4, <2>1, FendResume
<1>5. CASE Head(data[k]).t = "fresume" /\ ReceiveAsk(k)
  BY <1>1, <1>5, AskResume
<1> QED
  BY <1>1, <1>2, <1>3, <1>4, <1>5

LEMMA InitResume == ASSUME Init PROVE ResumeInv
<1>1. \A k \in Sessions : ~ Live(k)
  BY DEF Init, Live
<1>2. ASSUME NEW k \in Sessions PROVE Good(k)
  <2>1. chan[k] = "none" /\ data[k] = <<>> /\ back[k] = <<>> /\ next[k] = Idle /\ waiting = {}
    BY DEF Init
  <2>2. NoChunk(<<>>) /\ NoFend(<<>>)
    BY DEF NoChunk, NoFend
  <2> QED
    BY <2>1, <2>2 DEF Good, Quiet, Declared, Held, Answered
<1> QED
  BY <1>1, <1>2 DEF ResumeInv, LiveInv

LEMMA NextResume == ASSUME Inv, ResumeInv, [Next]_vars PROVE ResumeInv'
<1>1. CASE SendFileTo
  BY <1>1, SendFileToResume
<1>2. CASE CancelFile \/ InterruptFile \/ RecordArrives \/ UNCHANGED vars
  BY <1>2, QuietUserResume
<1>3. ASSUME NEW k \in Sessions,
             \/ ChannelOpens(k) \/ OpeningTimesOut(k) \/ ReceiveAck(k) \/ AskTimesOut(k)
             \/ SendLoop(k) \/ Hangup(k) \/ ResumeFile(k) \/ ChannelBreaks(k)
             \/ OnChannelMessage(k) \/ FinishReceive(k) \/ OnClose(k) \/ OnCallHangup(k)
      PROVE  ResumeInv'
  <2>1. CASE OpeningTimesOut(k)
    BY <2>1, QuietUserResume
  <2> QED
    BY <1>3, <2>1, ChannelOpensResume, ReceiveAckResume, AskTimesOutResume, SendLoopResume,
       ChannelClosesResume, ResumeFileResume, OnChannelMessageResume, FinishReceiveResume,
       EndClosesResume
<1> QED
  BY <1>1, <1>2, <1>3 DEF Next

LEMMA ResumeInvariance == Spec => []ResumeInv
<1>1. Init => ResumeInv
  BY InitResume
<1>2. Inv /\ ResumeInv /\ [Next]_vars => ResumeInv'
  BY NextResume
<1> QED
  BY <1>1, <1>2, Invariance, PTL DEF Spec

-----------------------------------------------------------------------------
(* What follows *)

(* The queues, cards, flags and the receiver's entry stay in their types.  *)
THEOREM TypeCorrect == Spec => []TypeOK
<1>1. Inv => TypeOK
  <2> SUFFICES ASSUME Inv PROVE TypeOK
    OBVIOUS
  <2>1. size \in Nat /\ MaxChunks \in Nat /\ size <= MaxChunks
    BY BoundsAssumption DEF Inv, Types, Places
  <2>2. rec = NoRec \/ (rec.chunks \subseteq 0..(MaxChunks - 1) /\ rec.contig \in 0..MaxChunks)
    BY <2>1 DEF Inv, Entry
  <2>3. blob \in NoBlob..MaxChunks
    BY <2>1 DEF Inv, NoBlob
  <2>4. \A k \in Sessions :
          /\ data[k] \in Seq(Frames) /\ back[k] \in Seq(0..MaxChunks)
          /\ finishing[k] \in Seq(0..MaxChunks)
    BY DEF Inv, DataOK, BackOK, FinishOK, Places
  <2>5. size \in 0..MaxChunks
    BY DEF Inv, Types, Places
  <2> QED
    BY <2>2, <2>3, <2>4, <2>5 DEF Inv, Types, TypeOK
<1> QED
  BY <1>1, Invariance, PTL

(* A file that the receiver offers for download has every chunk of the     *)
(* file (finishReceive, webrtc.ts), however often the transfer was         *)
(* interrupted and resumed and in whatever order the sessions' chunks came.*)
THEOREM FileIsWhole == Spec => []BlobIsWhole
<1>1. Inv => BlobIsWhole
  BY DEF Inv, BlobIsWhole, FinishOK, WholeOf
<1> QED
  BY <1>1, Invariance, PTL

(* Resuming skips nothing: while the loop of sendFile runs on an open      *)
(* channel, whatever chunk it has passed, or was asked to begin after, is  *)
(* held by the receiver or is on that very channel, unless the receiver    *)
(* has the whole file (sendFile, resumeFile and onDcMessage, webrtc.ts).   *)
THEOREM NothingSkipped == Spec => []NoGap
<1>1. ResumeInv => NoGap
  BY DEF ResumeInv, Good, Held, Carries, NoGap, OnItsWay
<1> QED
  BY <1>1, ResumeInvariance, PTL

(* Whatever the receiver has answered to fresume it still holds when the   *)
(* answer is read, although sessions break, time out and follow each other:*)
(* the sender never goes on beyond the receiver's data.                    *)
THEOREM ResumesWhereHeld == Spec => []ResumePointIsHeld
<1>1. Inv /\ ResumeInv => ResumePointIsHeld
  BY DEF Inv, Types, ResumeInv, Good, Answered, ResumePointIsHeld
<1> QED
  BY <1>1, Invariance, ResumeInvariance, PTL
=============================================================================
