---------------------------- MODULE FileTransfer ----------------------------
(***************************************************************************)
(* One file on its way from one WebUI to another over WebRTC data channels *)
(* (ui/client/webrtc.ts, ui/client/xfer.ts).  A channel that breaks does   *)
(* not end the transfer: the receiver keeps the chunks it has, the sender  *)
(* keeps the source, and a later session asks where to go on.              *)
(*                                                                         *)
(* Every session has one data channel.  Sessions are numbered in the order *)
(* in which they are opened; the first carries the file from its start,    *)
(* the others resume it.  The file is its number of chunks.                *)
(***************************************************************************)
EXTENDS Integers, Sequences, FiniteSets

CONSTANTS MaxChunks,     \* bound: chunks of the file
          MaxSessions,   \* bound: the first session and the resumed ones
          MaxBreaks,     \* bound: channels that break by themselves
          MaxTimeouts    \* bound: questions and openings that time out

ASSUME BoundsAssumption ==
  /\ MaxChunks \in Nat /\ MaxSessions \in Nat \ {0}
  /\ MaxBreaks \in Nat /\ MaxTimeouts \in Nat

Sessions == 1..MaxSessions
Idle == -1                                    \* no loop of sendFile is running
NoRec == [chunks |-> {}, contig |-> -1]       \* no entry in persistRecv
NoBlob == -1

Phases == {"none", "plain", "sending", "receiving", "done", "failed", "canceled"}

Meta == [t |-> "fmeta", i |-> 0]
Chunk(i) == [t |-> "chunk", i |-> i]          \* fhead and the binary frame after it
Fend == [t |-> "fend", i |-> 0]
Ask == [t |-> "fresume", i |-> 0]
Frames == [t : {"fmeta", "chunk", "fend", "fresume"}, i : 0..MaxChunks]

VARIABLES
  size,       \* the file: chunks 0..size-1
  source,     \* sender: sendState holds the file
  sending,    \* sender: the session in sendingByFileId, 0 when there is none
  sendCard,   \* sender: phase of the file's card
  next,       \* sender: chunk that the loop of sendFile takes next, per session
  canceled,   \* sender: sessions with sendCanceled set
  silent,     \* sender: sessions with interruptSilent set
  waiting,    \* sender: sessions with an entry in resumePromises
  given,      \* sender: sessions of which resumeFile has given up waiting for the channel
  chan,       \* state of each session's channel as the sender sees it
  data, back, \* frames on each channel, to the receiver and to the sender
  rec,        \* receiver: the entry of persistRecv
  listening,  \* receiver: sessions whose channel delivers messages
  active,     \* receiver: sessions with activeFileId set
  finishing,  \* receiver: per session, the blobs that are being hashed
  recvCard,   \* receiver: phase of the card; "plain": the record came, no transfer yet
  blob,       \* receiver: chunks of the file behind the card's link
  breaks, timeouts

senderVars == <<source, sending, sendCard, next, canceled, silent, waiting, given>>
receiverVars == <<rec, listening, active, finishing, recvCard, blob>>
vars == <<size, senderVars, chan, data, back, receiverVars, breaks, timeouts>>

Init ==
  /\ size \in 0..MaxChunks
  /\ source = FALSE /\ sending = 0 /\ sendCard = "none"
  /\ next = [k \in Sessions |-> Idle]
  /\ canceled = {} /\ silent = {} /\ waiting = {} /\ given = {}
  /\ chan = [k \in Sessions |-> "none"]
  /\ data = [k \in Sessions |-> <<>>] /\ back = [k \in Sessions |-> <<>>]
  /\ rec = NoRec /\ listening = {} /\ active = {}
  /\ finishing = [k \in Sessions |-> <<>>]
  /\ recvCard = "none" /\ blob = NoBlob
  /\ breaks = 0 /\ timeouts = 0

-----------------------------------------------------------------------------
(* The cards (ui/client/xfer.ts, ui/views/chat.ts) *)

\* The sender's card is there from the start.
PushOutgoingFile == sendCard' = "sending"
UpdateSendProgress == sendCard' = "sending"
ResumeSendProgress == sendCard' = "sending"
FinishSend == sendCard' = "done"
CancelSend == sendCard' = "canceled"
FailSend == sendCard' = "failed"

\* A change of phase at the receiver, which only shows when there is a card.
Update(phase) == recvCard' = IF recvCard = "none" THEN "none" ELSE phase

UpdateReceiveProgress == Update("receiving")
FailReceive == Update("failed")
CancelReceive == Update("canceled")

\* putAt: a card of the receiver's own making, which has its file from the start.
PutCard == recvCard' = "done"

\* The card gets the file; without one the receiver makes it.
CompleteReceive(b) ==
  /\ blob' = b
  /\ IF recvCard = "none" THEN PutCard ELSE Update("done")

AttachButton == sendCard = "none"     \* one file is followed
CanResumeFile == source
CancelButton == sendCard = "sending"
ResumeButton == sendCard = "failed" /\ CanResumeFile

-----------------------------------------------------------------------------
(* The sender *)

\* The session k is opened: its channel is created and its offer sent.
Open(k) == chan' = [chan EXCEPT ![k] = "opening"]

SendFileTo ==
  /\ AttachButton
  /\ PushOutgoingFile /\ source' = TRUE /\ sending' = 1
  /\ Open(1)
  /\ UNCHANGED <<size, next, canceled, silent, waiting, given, data, back,
                 receiverVars, breaks, timeouts>>

\* sendFile: the file is declared and the loop started; nothing happens on a closed channel.
SendFile(k, fromIndex, q, state) ==
  IF state = "open"
  THEN /\ next' = [next EXCEPT ![k] = fromIndex]
       /\ data' = [data EXCEPT ![k] = Append(q, Meta)]
  ELSE UNCHANGED <<next, data>>

\* The channel opens: the first session sends the file, a later one asks for the point to
\* resume at, unless resumeFile has given up waiting for it.
ChannelOpens(k) ==
  /\ chan[k] = "opening"
  /\ chan' = [chan EXCEPT ![k] = "open"]
  /\ listening' = listening \cup {k}
  /\ \/ /\ k = 1
        /\ SendFile(k, 0, data[k], "open")
        /\ UNCHANGED waiting
     \/ /\ k > 1 /\ k \notin given
        /\ waiting' = waiting \cup {k}
        /\ data' = [data EXCEPT ![k] = Append(@, Ask)]
        /\ UNCHANGED next
     \/ /\ k \in given
        /\ UNCHANGED <<next, data, waiting>>
  /\ UNCHANGED <<size, source, sending, sendCard, canceled, silent, given, back,
                 rec, active, finishing, recvCard, blob, breaks, timeouts>>

\* waitDcOpen times out: resumeFile returns an error and leaves the card as it is.
OpeningTimesOut(k) ==
  /\ k > 1 /\ chan[k] = "opening" /\ k \notin given
  /\ timeouts < MaxTimeouts
  /\ timeouts' = timeouts + 1
  /\ given' = given \cup {k}
  /\ UNCHANGED <<size, source, sending, sendCard, next, canceled, silent, waiting,
                 chan, data, back, receiverVars, breaks>>

\* Mutant: the chunk at the point of resumption is skipped.
ReceiveAckSkips(k) ==
  /\ back[k] # <<>> /\ chan[k] = "open"
  /\ back' = [back EXCEPT ![k] = Tail(@)]
  /\ IF k \in waiting
     THEN /\ waiting' = waiting \ {k}
          /\ SendFile(k, Head(back[k]) + 1, data[k], chan[k])
     ELSE UNCHANGED <<waiting, next, data>>
  /\ UNCHANGED <<size, source, sending, sendCard, canceled, silent, given, chan,
                 receiverVars, breaks, timeouts>>

\* The answer to fresume, the number of bytes the receiver has without a gap.
ReceiveAck(k) ==
  /\ back[k] # <<>> /\ chan[k] = "open"
  /\ back' = [back EXCEPT ![k] = Tail(@)]
  /\ IF k \in waiting
     THEN /\ waiting' = waiting \ {k}
          /\ SendFile(k, Head(back[k]), data[k], chan[k])
     ELSE UNCHANGED <<waiting, next, data>>
  /\ UNCHANGED <<size, source, sending, sendCard, canceled, silent, given, chan,
                 receiverVars, breaks, timeouts>>

\* No answer in time: the file is sent from its start.
AskTimesOut(k) ==
  /\ k \in waiting /\ timeouts < MaxTimeouts
  /\ timeouts' = timeouts + 1
  /\ waiting' = waiting \ {k}
  /\ SendFile(k, 0, data[k], chan[k])
  /\ UNCHANGED <<size, source, sending, sendCard, canceled, silent, given, chan, back,
                 receiverVars, breaks>>

-----------------------------------------------------------------------------
(* One round of the loop of sendFile *)

\* Ends the loop of session k.
LoopEnds(k) == next' = [next EXCEPT ![k] = Idle]

\* interruptSilent: nothing is said to the receiver, the source stays for a resumption.
StopSilently(k) ==
  /\ k \in canceled \cap silent
  /\ LoopEnds(k)
  /\ FailSend /\ sending' = 0
  /\ UNCHANGED <<source, data>>

\* A cancellation is told to the receiver and the source given up.  On a channel that is
\* closed, send throws and the rest of stop() is not run.
StopCanceled(k) ==
  /\ k \in canceled \ silent
  /\ LoopEnds(k)
  /\ IF chan[k] = "open"
     THEN /\ data' = [data EXCEPT ![k] = Append(@, Fend)]
          /\ CancelSend /\ source' = FALSE /\ sending' = 0
     ELSE UNCHANGED <<data, sendCard, source, sending>>

Fail(k) ==
  /\ k \notin canceled /\ chan[k] # "open"
  /\ LoopEnds(k)
  /\ FailSend /\ sending' = 0
  /\ UNCHANGED <<source, data>>

\* Everything is handed over to the channel; the sender reports the transfer as done.
Finish(k) ==
  /\ k \notin canceled /\ chan[k] = "open" /\ next[k] >= size
  /\ LoopEnds(k)
  /\ FinishSend /\ source' = FALSE /\ sending' = 0
  /\ UNCHANGED data

SendChunk(k) ==
  /\ k \notin canceled /\ chan[k] = "open" /\ next[k] < size
  /\ next' = [next EXCEPT ![k] = @ + 1]
  /\ data' = [data EXCEPT ![k] = Append(@, Chunk(next[k]))]
  /\ UpdateSendProgress
  /\ UNCHANGED <<source, sending>>

SendLoop(k) ==
  /\ next[k] # Idle
  /\ StopSilently(k) \/ StopCanceled(k) \/ Fail(k) \/ Finish(k) \/ SendChunk(k)
  /\ UNCHANGED <<size, canceled, silent, waiting, given, chan, back, receiverVars,
                 breaks, timeouts>>

-----------------------------------------------------------------------------
(* The user of the sender *)

\* Flags of a session, which its loop looks at before each chunk.
Cancel(k) == canceled' = canceled \cup {k} /\ UNCHANGED silent
Interrupt(k) == canceled' = canceled \cup {k} /\ silent' = silent \cup {k}

\* The button of a card that is being sent.
CancelFile ==
  /\ CancelButton /\ sending # 0
  /\ Cancel(sending)
  /\ UNCHANGED <<size, source, sending, sendCard, next, waiting, given, chan,
                 data, back, receiverVars, breaks, timeouts>>

\* interruptFile: the session is told to stop, and hung up a moment later.
InterruptFile ==
  /\ sending # 0
  /\ Interrupt(sending)
  /\ sending' = 0
  /\ UNCHANGED <<size, source, sendCard, next, waiting, given, chan, data, back,
                 receiverVars, breaks, timeouts>>

\* The timer of interruptFile: hangup closes the connection.
Hangup(k) ==
  /\ k \in silent /\ chan[k] \in {"opening", "open"}
  /\ chan' = [chan EXCEPT ![k] = "closed"]
  /\ back' = [back EXCEPT ![k] = <<>>]
  /\ UNCHANGED <<size, senderVars, data, receiverVars, breaks, timeouts>>

\* The button of a card that failed, shown while the source is there.
ResumeFile(k) ==
  /\ ResumeButton
  /\ chan[k] = "none" /\ \A j \in 1..(k - 1) : chan[j] # "none"
  /\ ResumeSendProgress /\ sending' = k
  /\ Open(k)
  /\ UNCHANGED <<size, source, next, canceled, silent, waiting, given, data, back,
                 receiverVars, breaks, timeouts>>

\* The network drops a channel.
ChannelBreaks(k) ==
  /\ breaks < MaxBreaks /\ chan[k] \in {"opening", "open"}
  /\ breaks' = breaks + 1
  /\ chan' = [chan EXCEPT ![k] = "closed"]
  /\ back' = [back EXCEPT ![k] = <<>>]
  /\ given' = IF chan[k] = "opening" THEN given \cup {k} ELSE given
  /\ UNCHANGED <<size, source, sending, sendCard, next, canceled, silent, waiting, data,
                 receiverVars, timeouts>>

-----------------------------------------------------------------------------
(* The receiver *)

\* fmeta: an entry for the same file is used again, which is what resuming relies on.
ReceiveMeta(k) ==
  /\ active' = active \cup {k}
  /\ rec' = IF rec = NoRec THEN [chunks |-> {}, contig |-> 0] ELSE rec
  /\ UpdateReceiveProgress
  /\ UNCHANGED <<finishing, back>>

\* The entry with chunk i in place, and the end of the gapless prefix moved on.
Placed(r, i) ==
  LET held == r.chunks \cup {i} IN
  [chunks |-> held,
   contig |-> CHOOSE n \in r.contig..(MaxChunks + 1) :
                n \notin held /\ \A j \in r.contig..(n - 1) : j \in held]

\* finishReceive puts the chunks of the prefix together and has them hashed.
Assembled(r) == Cardinality({i \in r.chunks : i < r.contig})

\* fhead: the card shows progress, also when the entry was dropped by another session.
ReceiveHead(k) == IF k \in active THEN UpdateReceiveProgress ELSE UNCHANGED recvCard

\* Mutant: the last chunk is not waited for.
ReceiveChunkEarly(k, i) ==
  /\ ReceiveHead(k)
  /\ IF k \in active /\ rec # NoRec
     THEN LET r == Placed(rec, i) IN
          /\ rec' = r
          /\ finishing' = IF r.contig >= size - 1
                          THEN [finishing EXCEPT ![k] = Append(@, Assembled(r))] ELSE finishing
          /\ UNCHANGED <<active, back>>
     ELSE UNCHANGED <<rec, finishing, active, back>>

\* Mutant: one byte more than the file has is waited for.
ReceiveChunkNever(k, i) ==
  /\ ReceiveHead(k)
  /\ IF k \in active /\ rec # NoRec
     THEN LET r == Placed(rec, i) IN
          /\ rec' = r
          /\ finishing' = IF r.contig > size
                          THEN [finishing EXCEPT ![k] = Append(@, Assembled(r))] ELSE finishing
          /\ UNCHANGED <<active, back>>
     ELSE UNCHANGED <<rec, finishing, active, back>>

\* A chunk with its header.  A session whose entry was dropped has no place for it.
ReceiveChunk(k, i) ==
  /\ ReceiveHead(k)
  /\ IF k \in active /\ rec # NoRec
     THEN LET r == Placed(rec, i) IN
          /\ rec' = r
          /\ finishing' = IF r.contig >= size
                          THEN [finishing EXCEPT ![k] = Append(@, Assembled(r))] ELSE finishing
          /\ UNCHANGED <<active, back>>
     ELSE UNCHANGED <<rec, finishing, active, back>>

\* Mutant: the entry is kept.
ReceiveFendKeeps(k) ==
  /\ active' = active \ {k}
  /\ CancelReceive
  /\ UNCHANGED <<rec, finishing, back>>

\* fend of a cancellation: what was received is dropped.
ReceiveFend(k) ==
  /\ rec' = NoRec /\ active' = active \ {k}
  /\ CancelReceive
  /\ UNCHANGED <<finishing, back>>

\* Mutant: the number of the next chunk is taken for a number of chunks.
ReceiveAskNext(k) ==
  /\ back' = IF chan[k] = "open"
             THEN [back EXCEPT ![k] = Append(@, IF rec = NoRec THEN 0 ELSE rec.contig + 1)]
             ELSE back
  /\ UNCHANGED <<rec, active, recvCard, finishing>>

\* fresume: the answer is the length of the gapless prefix.
ReceiveAsk(k) ==
  /\ back' = IF chan[k] = "open"
             THEN [back EXCEPT ![k] = Append(@, IF rec = NoRec THEN 0 ELSE rec.contig)]
             ELSE back
  /\ UNCHANGED <<rec, active, recvCard, finishing>>

OnChannelMessage(k) ==
  /\ k \in listening /\ data[k] # <<>>
  /\ data' = [data EXCEPT ![k] = Tail(@)]
  /\ LET f == Head(data[k]) IN
     \/ f.t = "fmeta" /\ ReceiveMeta(k)
     \/ f.t = "chunk" /\ ReceiveChunk(k, f.i)
     \/ f.t = "fend" /\ ReceiveFend(k)
     \/ f.t = "fresume" /\ ReceiveAsk(k)
  /\ UNCHANGED <<size, senderVars, chan, listening, blob, breaks, timeouts>>

\* The hash of a whole file is known: the card gets its link, the entry is dropped.
FinishReceive(k) ==
  /\ finishing[k] # <<>>
  /\ finishing' = [finishing EXCEPT ![k] = Tail(@)]
  /\ CompleteReceive(Head(finishing[k]))
  /\ rec' = NoRec /\ active' = active \ {k}
  /\ UNCHANGED <<size, senderVars, chan, data, back, listening, breaks, timeouts>>

\* The receiver's end of a closed channel: onclose marks an incomplete transfer as failed.
OnClose(k) ==
  /\ k \in listening /\ chan[k] = "closed"
  /\ listening' = listening \ {k}
  /\ data' = [data EXCEPT ![k] = <<>>]
  /\ IF k \in active /\ rec # NoRec /\ rec.contig < size
     THEN FailReceive ELSE UNCHANGED recvCard
  /\ UNCHANGED <<size, senderVars, chan, back, rec, active, finishing, blob, breaks, timeouts>>

\* The hangup of an interrupted session closes the connection here, without an onclose.
OnCallHangup(k) ==
  /\ k \in listening \cap silent /\ chan[k] = "closed"
  /\ listening' = listening \ {k}
  /\ data' = [data EXCEPT ![k] = <<>>]
  /\ UNCHANGED <<size, senderVars, chan, back, rec, active, finishing, recvCard, blob,
                 breaks, timeouts>>

\* The message that announces the file comes by way of the daemons.
RecordArrives ==
  /\ sendCard # "none" /\ recvCard = "none"
  /\ recvCard' = "plain"
  /\ UNCHANGED <<size, senderVars, chan, data, back, rec, listening, active, finishing, blob,
                 breaks, timeouts>>

-----------------------------------------------------------------------------
Next ==
  \/ SendFileTo \/ CancelFile \/ InterruptFile \/ RecordArrives
  \/ \E k \in Sessions :
       \/ ChannelOpens(k) \/ OpeningTimesOut(k) \/ ReceiveAck(k) \/ AskTimesOut(k)
       \/ SendLoop(k) \/ Hangup(k) \/ ResumeFile(k) \/ ChannelBreaks(k)
       \/ OnChannelMessage(k) \/ FinishReceive(k) \/ OnClose(k) \/ OnCallHangup(k)

\* The browsers run the loop, deliver messages, finish hashes and fire the hangup timer.
Fairness ==
  \A k \in Sessions :
    /\ WF_vars(SendLoop(k)) /\ WF_vars(OnChannelMessage(k)) /\ WF_vars(FinishReceive(k))
    /\ WF_vars(Hangup(k))

Spec == Init /\ [][Next]_vars /\ Fairness

-----------------------------------------------------------------------------
TypeOK ==
  /\ size \in 0..MaxChunks
  /\ source \in BOOLEAN /\ sending \in Sessions \cup {0}
  /\ sendCard \in Phases /\ recvCard \in Phases
  /\ next \in [Sessions -> Idle..MaxChunks]
  /\ canceled \subseteq Sessions /\ silent \subseteq canceled
  /\ waiting \subseteq Sessions /\ given \subseteq Sessions
  /\ chan \in [Sessions -> {"none", "opening", "open", "closed"}]
  /\ \A k \in Sessions :
       data[k] \in Seq(Frames) /\ back[k] \in Seq(0..MaxChunks)
  /\ rec = NoRec \/ (rec.chunks \subseteq 0..(MaxChunks - 1) /\ rec.contig \in 0..MaxChunks)
  /\ listening \subseteq Sessions /\ active \subseteq Sessions
  /\ \A k \in Sessions : finishing[k] \in Seq(0..MaxChunks)
  /\ blob \in NoBlob..MaxChunks
  /\ breaks \in 0..MaxBreaks /\ timeouts \in 0..MaxTimeouts

\* A file that is offered for download has every chunk, however often the transfer was
\* interrupted, resumed or restarted and in whatever order the sessions' chunks came.
BlobIsWhole ==
  /\ blob \in {NoBlob, size}
  /\ \A k \in Sessions : \A n \in 1..Len(finishing[k]) : finishing[k][n] = size

OnItsWay(k, i) == \E n \in 1..Len(data[k]) : data[k][n] = Chunk(i)

\* Resuming leaves no gap: while a loop runs on an open channel, each chunk it has passed or
\* skipped is held by the receiver or is on that channel, unless the file is complete.
NoGap ==
  \A k \in Sessions :
    (next[k] # Idle /\ chan[k] = "open") =>
      \A i \in 0..(next[k] - 1) :
        i \in rec.chunks \/ OnItsWay(k, i) \/ blob # NoBlob \/ \E j \in Sessions : finishing[j] # <<>>

\* What the receiver answers to fresume it has, for as long as the sender waits for it: the
\* transfer is never resumed beyond the receiver's data.
ResumePointIsHeld ==
  \A k \in waiting : \A n \in 1..Len(back[k]) :
    (0..(back[k][n] - 1)) \subseteq rec.chunks \/ blob # NoBlob

\* A loop that runs ends with the whole file at the receiver, or because the channel closed
\* or the user canceled; an empty file is the exception.
TransferEnds ==
  \A k \in Sessions :
    next[k] # Idle ~> (blob = size \/ chan[k] # "open" \/ k \in canceled \/ size = 0)

\* After a cancellation the receiver's entry is dropped in the end, as long as channels stay
\* open: fend reaches it, or the file is finished.
CancelDropsPartial ==
  sendCard = "canceled" ~>
    (rec = NoRec \/ \E k \in Sessions : chan[k] = "closed")

\* docs/protocol.md:84: transfer_ack confirms that the transfer is complete.  It is what the
\* sender's WebUI tells its daemon in Finish.
AckMeansReceived == sendCard = "done" ~> blob = size
=============================================================================
