------------------------------- MODULE Calls -------------------------------
(***************************************************************************)
(* One-to-one calls and the sessions of file transfers between WebUIs      *)
(* (ui/client/webrtc.ts, ui/views/media.ts).  A call is announced by an    *)
(* invitation, the caller captures its media and sends an offer, the       *)
(* callee rings, captures and answers.  Capturing is slow: the user has to *)
(* agree to it, on both sides, and everything else goes on meanwhile.      *)
(*                                                                         *)
(* A call is one use of a callId; From, To and Mode say between whom and   *)
(* of which kind.  "voice" stands for voice and video.                     *)
(***************************************************************************)
EXTENDS Integers, Sequences, FiniteSets

CONSTANTS Devices, Calls, From, To, Mode,
          NoCall,
          MaxCalls,      \* bound: calls that are made
          MaxCandidates, \* bound: ICE candidates that are sent
          MaxFaults      \* bound: signals lost between two daemons, and hangups

ASSUME CallsAssumption ==
  /\ From \in [Calls -> Devices] /\ To \in [Calls -> Devices]
  /\ \A c \in Calls : From[c] # To[c]
  /\ Mode \in [Calls -> {"voice", "share", "file"}]
  /\ NoCall \notin Calls
  /\ MaxCalls \in Nat /\ MaxCandidates \in Nat /\ MaxFaults \in Nat

Kinds == {"call_invite", "offer", "answer", "ice", "call_accept", "call_hangup"}
Signals == [t : Kinds, call : Calls]
NoMedia == [call |-> NoCall, ringing |-> FALSE]

VARIABLES
  media,      \* the overlay; ringing: an incoming call that can be accepted
  sess,       \* state of the connection of the session of a call
  pending,    \* pendingCalls
  stream,     \* calls in pendingCalls that have their captured stream
  slot,       \* pendingOffer: the one offer that waits for its call to be accepted
  armed,      \* armedAnswer: accepted calls whose offer is still to come
  capturing,  \* calls for which getUserMedia or getDisplayMedia is awaited
  tracks,     \* sessions with local tracks
  applying,   \* sessions whose remote description is being set
  remote,     \* sessions whose remote description is set
  iceQueue,   \* sessions with a candidate that waits for the remote description
  gathered,   \* sessions that have sent their candidate
  offered, accepted, answered,   \* calls: offer sent, accept button pressed, answer sent
  displaced,  \* calls whose waiting offer was replaced or cleared by another's
  broken,     \* calls that lost a signal, were hung up or whose user refused the capture
  net,        \* signals on their way, from one device to another
  faults

page == <<media, sess, pending, stream, slot, armed, capturing, tracks>>
rtc == <<applying, remote, iceQueue, gathered>>
history == <<offered, accepted, answered, displaced, broken>>
vars == <<page, rtc, history, net, faults>>

NoneAnywhere == [d \in Devices |-> {}]

Init ==
  /\ media = [d \in Devices |-> NoMedia]
  /\ sess = [d \in Devices |-> [c \in Calls |-> "none"]]
  /\ pending = NoneAnywhere /\ stream = NoneAnywhere
  /\ slot = [d \in Devices |-> NoCall]
  /\ armed = NoneAnywhere /\ capturing = NoneAnywhere /\ tracks = NoneAnywhere
  /\ applying = NoneAnywhere /\ remote = NoneAnywhere
  /\ iceQueue = NoneAnywhere /\ gathered = NoneAnywhere
  /\ offered = {} /\ accepted = {} /\ answered = {} /\ displaced = {} /\ broken = {}
  /\ net = [d \in Devices |-> [e \in Devices |-> <<>>]]
  /\ faults = 0

-----------------------------------------------------------------------------
Add(f, d, c) == [f EXCEPT ![d] = @ \cup {c}]
Remove(f, d, c) == [f EXCEPT ![d] = @ \ {c}]

Peer(d, c) == IF From[c] = d THEN To[c] ELSE From[c]

\* The net with signals of call c sent from d to the call's other end.
Sent(d, c, kinds) ==
  [net EXCEPT ![d][Peer(d, c)] = @ \o [n \in 1..Len(kinds) |-> [t |-> kinds[n], call |-> c]]]

\* newSession, unless there is one.
WithSession(d, c) == [sess EXCEPT ![d][c] = IF @ = "none" THEN "open" ELSE @]

-----------------------------------------------------------------------------
(* The caller *)

\* Calls that have been made; every callId is used once.
Made == offered \cup broken \cup {c \in Calls : sess[From[c]][c] # "none"}

\* A button of the input line, which lies under an open overlay.
CallButton(c) == Mode[c] # "file" /\ media[From[c]] = NoMedia

\* The invitation is sent before anything is captured.
StartCall(c) ==
  LET d == From[c] IN
  /\ CallButton(c)
  /\ c \notin Made /\ Cardinality(Made) < MaxCalls
  /\ sess' = [sess EXCEPT ![d][c] = "open"]
  /\ media' = [media EXCEPT ![d] = [call |-> c, ringing |-> FALSE]]
  /\ net' = Sent(d, c, <<"call_invite">>)
  /\ capturing' = Add(capturing, d, c)
  /\ UNCHANGED <<pending, stream, slot, armed, tracks, rtc, history, faults>>

\* Offer and local description of a session.
SendOffer(d, c) == net' = Sent(d, c, <<"offer">>) /\ offered' = offered \cup {c}

\* The caller has its media: the tracks are added and the offer sent.  On a connection that
\* was closed meanwhile addTrack throws.
CallerCaptured(c) ==
  LET d == From[c] IN
  /\ c \in capturing[d]
  /\ capturing' = Remove(capturing, d, c)
  /\ IF sess[d][c] = "open"
     THEN tracks' = Add(tracks, d, c) /\ SendOffer(d, c)
     ELSE UNCHANGED <<tracks, net, offered>>
  /\ UNCHANGED <<media, sess, pending, stream, slot, armed, rtc, accepted, answered, displaced,
                 broken, faults>>

\* The user refuses: the overlay and the invitation stay.
CallerCaptureFails(c) ==
  LET d == From[c] IN
  /\ c \in capturing[d]
  /\ capturing' = Remove(capturing, d, c)
  /\ broken' = broken \cup {c}
  /\ UNCHANGED <<media, sess, pending, stream, slot, armed, tracks, rtc, offered, accepted,
                 answered, displaced, net, faults>>

\* sendFileTo: a session with an offer that needs no acceptance.
SendFileTo(c) ==
  LET d == From[c] IN
  /\ Mode[c] = "file" /\ c \notin Made /\ Cardinality(Made) < MaxCalls
  /\ sess' = [sess EXCEPT ![d][c] = "open"]
  /\ SendOffer(d, c)
  /\ UNCHANGED <<media, pending, stream, slot, armed, capturing, tracks, rtc, accepted, answered,
                 displaced, broken, faults>>

-----------------------------------------------------------------------------
(* The buttons of the overlay *)

AcceptButton(d) == media[d].ringing

\* "Reject" and "end" close the overlay.  Their call_reject and call_hangup name no receiver,
\* so that the daemon keeps them: the peer is not told and the session goes on.
CloseOverlay(d) ==
  /\ media[d] # NoMedia
  /\ media' = [media EXCEPT ![d] = NoMedia]
  /\ UNCHANGED <<sess, pending, stream, slot, armed, capturing, tracks, rtc, history, net,
                 faults>>

\* Mutant: an acceptance that comes before the offer is not remembered.
AnswerOnly(d, c) ==
  /\ slot' = IF slot[d] = c THEN [slot EXCEPT ![d] = NoCall] ELSE slot
  /\ applying' = IF slot[d] = c THEN Add(applying, d, c) ELSE applying
  /\ UNCHANGED armed

\* The end of acceptIncomingCall: the waiting offer is answered, or the answer armed.
AnswerOrArm(d, c) ==
  IF slot[d] = c
  THEN /\ slot' = [slot EXCEPT ![d] = NoCall]
       /\ applying' = Add(applying, d, c)
       /\ UNCHANGED armed
  ELSE /\ armed' = Add(armed, d, c)
       /\ UNCHANGED <<slot, applying>>

\* "Accept".  Voice and video are captured first; a share needs nothing and goes on at once.
Accept(d) ==
  LET c == media[d].call IN
  /\ AcceptButton(d)
  /\ media' = [media EXCEPT ![d].ringing = FALSE]
  /\ accepted' = accepted \cup {c}
  /\ IF Mode[c] = "voice"
     THEN /\ capturing' = Add(capturing, d, c)
          /\ net' = Sent(d, c, <<"call_accept">>)
          /\ UNCHANGED <<sess, slot, armed, applying>>
     ELSE /\ sess' = WithSession(d, c)
          /\ AnswerOrArm(d, c)
          /\ net' = Sent(d, c, <<"call_accept", "call_accept">>)
          /\ UNCHANGED capturing
  /\ UNCHANGED <<pending, stream, tracks, remote, iceQueue, gathered, offered, answered, displaced,
                 broken, faults>>

\* Mutant: the answer does not wait for the tracks.
CalleeCapturedWithoutTracks(c) ==
  LET d == To[c] IN
  /\ c \in capturing[d]
  /\ capturing' = Remove(capturing, d, c)
  /\ stream' = IF c \in pending[d] THEN Add(stream, d, c) ELSE stream
  /\ media' = [media EXCEPT ![d] = [call |-> c, ringing |-> FALSE]]
  /\ sess' = WithSession(d, c)
  /\ AnswerOrArm(d, c)
  /\ net' = Sent(d, c, <<"call_accept">>)
  /\ UNCHANGED <<pending, tracks, remote, iceQueue, gathered, history, faults>>

\* The callee has its media.  The call may have ended meanwhile: overlay and session are
\* set up in any case.
CalleeCaptured(c) ==
  LET d == To[c] IN
  /\ c \in capturing[d]
  /\ capturing' = Remove(capturing, d, c)
  /\ stream' = IF c \in pending[d] THEN Add(stream, d, c) ELSE stream
  /\ media' = [media EXCEPT ![d] = [call |-> c, ringing |-> FALSE]]
  /\ sess' = WithSession(d, c)
  /\ tracks' = Add(tracks, d, c)
  /\ AnswerOrArm(d, c)
  /\ net' = Sent(d, c, <<"call_accept">>)
  /\ UNCHANGED <<pending, remote, iceQueue, gathered, history, faults>>

CalleeCaptureFails(c) ==
  LET d == To[c] IN
  /\ c \in capturing[d]
  /\ capturing' = Remove(capturing, d, c)
  /\ broken' = broken \cup {c}
  /\ UNCHANGED <<media, sess, pending, stream, slot, armed, tracks, rtc, offered, accepted,
                 answered, displaced, net, faults>>

-----------------------------------------------------------------------------
(* Signals *)

OnInvite(d, c) ==
  /\ pending' = Add(pending, d, c)
  /\ media' = [media EXCEPT ![d] = [call |-> c, ringing |-> TRUE]]
  /\ UNCHANGED <<sess, stream, slot, armed, capturing, tracks, rtc, history>>

\* The offer of c takes the slot from any other, or empties it.
Displace(d, c) == displaced' = displaced \cup ({slot[d]} \ {c, NoCall})

\* addTrackFrom and then onSignal; addTrack throws for a track the connection has already,
\* which ends the attempt without an answer.
ApplyWithStream(d, c) ==
  IF c \in tracks[d]
  THEN UNCHANGED <<tracks, applying>>
  ELSE /\ tracks' = Add(tracks, d, c)
       /\ applying' = Add(applying, d, c)

ApplyOffer(d, c) ==
  /\ applying' = Add(applying, d, c)
  /\ UNCHANGED tracks

\* Mutant: an offer that finds no captured stream is answered at once.
OnOfferAnswersAll(d, c) ==
  /\ sess' = WithSession(d, c)
  /\ armed' = Remove(armed, d, c)
  /\ Displace(d, c)
  /\ slot' = [slot EXCEPT ![d] = NoCall]
  /\ IF c \in stream[d] THEN ApplyWithStream(d, c) ELSE ApplyOffer(d, c)
  /\ UNCHANGED <<media, pending, stream, capturing, remote, iceQueue, gathered, offered, accepted,
                 answered, broken>>

OnOffer(d, c) ==
  /\ sess' = WithSession(d, c)
  /\ armed' = Remove(armed, d, c)
  /\ Displace(d, c)
  /\ IF c \in armed[d] \/ Mode[c] = "file" \/ c \notin pending[d] \/ c \in stream[d]
     THEN /\ slot' = [slot EXCEPT ![d] = NoCall]
          /\ IF c \in stream[d] THEN ApplyWithStream(d, c) ELSE ApplyOffer(d, c)
     ELSE /\ slot' = [slot EXCEPT ![d] = c]
          /\ UNCHANGED <<tracks, applying>>
  /\ UNCHANGED <<media, pending, stream, capturing, remote, iceQueue, gathered, offered, accepted,
                 answered, broken>>

\* routeSignal makes a session for a call it does not know, also one that was hung up.
OnAnswer(d, c) ==
  /\ sess' = WithSession(d, c)
  /\ applying' = IF sess[d][c] = "open" /\ c \notin remote[d]
                 THEN Add(applying, d, c) ELSE applying
  /\ UNCHANGED <<media, pending, stream, slot, armed, capturing, tracks, remote, iceQueue,
                 gathered, history>>

OnIce(d, c) ==
  /\ sess' = WithSession(d, c)
  /\ iceQueue' = IF c \in remote[d] THEN iceQueue ELSE Add(iceQueue, d, c)
  /\ UNCHANGED <<media, pending, stream, slot, armed, capturing, tracks, applying, remote,
                 gathered, history>>

\* call_accept names a call but changes the overlay that is open, whichever it is.
OnCallAccept(d) ==
  /\ media' = [media EXCEPT ![d].ringing = FALSE]
  /\ UNCHANGED <<sess, pending, stream, slot, armed, capturing, tracks, rtc, history>>

\* The sessions of the calls cs are closed at d and everything about them dropped.
DropSessions(d, cs) ==
  /\ sess' = [sess EXCEPT ![d] = [c \in Calls |-> IF c \in cs THEN "none" ELSE @[c]]]
  /\ pending' = [pending EXCEPT ![d] = @ \ cs] /\ stream' = [stream EXCEPT ![d] = @ \ cs]
  /\ armed' = [armed EXCEPT ![d] = @ \ cs] /\ tracks' = [tracks EXCEPT ![d] = @ \ cs]
  /\ applying' = [applying EXCEPT ![d] = @ \ cs] /\ remote' = [remote EXCEPT ![d] = @ \ cs]
  /\ iceQueue' = [iceQueue EXCEPT ![d] = @ \ cs]
  /\ broken' = broken \cup cs

\* call_hangup closes the overlay too, whichever it is.
OnHangup(d, c) ==
  /\ DropSessions(d, {c})
  /\ media' = [media EXCEPT ![d] = NoMedia]
  /\ UNCHANGED <<slot, capturing, gathered, offered, accepted, answered, displaced>>

Receive(e, d) ==
  /\ net[e][d] # <<>>
  /\ net' = [net EXCEPT ![e][d] = Tail(@)]
  /\ LET c == Head(net[e][d]).call
         t == Head(net[e][d]).t IN
     \/ t = "call_invite" /\ OnInvite(d, c)
     \/ t = "offer" /\ OnOffer(d, c)
     \/ t = "answer" /\ OnAnswer(d, c)
     \/ t = "ice" /\ OnIce(d, c)
     \/ t = "call_accept" /\ OnCallAccept(d)
     \/ t = "call_hangup" /\ OnHangup(d, c)
  /\ UNCHANGED faults

\* Mutant: the candidates that waited are not added.
RemoteDescriptionSetOnly(d, c) ==
  /\ c \in applying[d]
  /\ applying' = Remove(applying, d, c)
  /\ IF sess[d][c] = "open"
     THEN /\ remote' = Add(remote, d, c)
          /\ IF d = To[c]
             THEN net' = Sent(d, c, <<"answer">>) /\ answered' = answered \cup {c}
             ELSE UNCHANGED <<net, answered>>
     ELSE UNCHANGED <<remote, net, answered>>
  /\ UNCHANGED <<page, iceQueue, gathered, offered, accepted, displaced, broken, faults>>

\* onSignal after setRemoteDescription: the candidates that waited are added, and an offer
\* is answered.  On a closed connection it throws.
RemoteDescriptionSet(d, c) ==
  /\ c \in applying[d]
  /\ applying' = Remove(applying, d, c)
  /\ IF sess[d][c] = "open"
     THEN /\ remote' = Add(remote, d, c)
          /\ iceQueue' = Remove(iceQueue, d, c)
          /\ IF d = To[c]
             THEN net' = Sent(d, c, <<"answer">>) /\ answered' = answered \cup {c}
             ELSE UNCHANGED <<net, answered>>
     ELSE UNCHANGED <<remote, iceQueue, net, answered>>
  /\ UNCHANGED <<page, gathered, offered, accepted, displaced, broken, faults>>

\* onicecandidate: a session with a local description has found a candidate.
Gather(d, c) ==
  /\ sess[d][c] = "open" /\ c \notin gathered[d]
  /\ Cardinality({x \in Devices \X Calls : x[2] \in gathered[x[1]]}) < MaxCandidates
  /\ IF d = From[c] THEN c \in offered ELSE c \in answered /\ c \in remote[d]
  /\ gathered' = Add(gathered, d, c)
  /\ net' = Sent(d, c, <<"ice">>)
  /\ UNCHANGED <<page, applying, remote, iceQueue, history, faults>>

-----------------------------------------------------------------------------
(* Hangups that reach the peer *)

\* interruptFile: the connection is closed, the session stays in the table.
HangupFile(c) ==
  LET d == From[c] IN
  /\ Mode[c] = "file" /\ sess[d][c] = "open" /\ c \in offered /\ faults < MaxFaults
  /\ faults' = faults + 1
  /\ sess' = [sess EXCEPT ![d][c] = "closed"]
  /\ net' = Sent(d, c, <<"call_hangup">>)
  /\ broken' = broken \cup {c}
  /\ UNCHANGED <<media, pending, stream, slot, armed, capturing, tracks, rtc, offered, accepted,
                 answered, displaced>>

\* The hangups of the calls cs, in some order.
Hangups(cs) ==
  CHOOSE s \in [1..Cardinality(cs) -> [t : {"call_hangup"}, call : cs]] :
    \A c \in cs : \E n \in DOMAIN s : s[n].call = c

\* hangupDebug: every session is hung up.
HangupAll(d) ==
  LET cs == {c \in Calls : sess[d][c] # "none"} IN
  /\ cs # {} /\ faults < MaxFaults
  /\ faults' = faults + 1
  /\ DropSessions(d, cs)
  /\ slot' = [slot EXCEPT ![d] = NoCall]
  /\ media' = [media EXCEPT ![d] = NoMedia]
  /\ net' = [net EXCEPT ![d] = [e \in Devices |->
               net[d][e] \o Hangups({c \in cs : Peer(d, c) = e})]]
  /\ UNCHANGED <<capturing, gathered, offered, accepted, answered, displaced>>

\* A daemon cannot pass a signal on: it is dropped, nobody is told.
Lose(e, d) ==
  /\ net[e][d] # <<>> /\ faults < MaxFaults
  /\ faults' = faults + 1
  /\ broken' = broken \cup {Head(net[e][d]).call}
  /\ net' = [net EXCEPT ![e][d] = Tail(@)]
  /\ UNCHANGED <<page, rtc, offered, accepted, answered, displaced>>

-----------------------------------------------------------------------------
Next ==
  \/ \E c \in Calls :
       \/ StartCall(c) \/ CallerCaptured(c) \/ CallerCaptureFails(c) \/ SendFileTo(c)
       \/ CalleeCaptured(c) \/ CalleeCaptureFails(c) \/ HangupFile(c)
  \/ \E d \in Devices :
       \/ CloseOverlay(d) \/ Accept(d) \/ HangupAll(d)
       \/ \E c \in Calls : RemoteDescriptionSet(d, c) \/ Gather(d, c)
       \/ \E e \in Devices : Receive(e, d) \/ Lose(e, d)

\* The daemons pass signals on and the browsers finish what they were asked for.  What users
\* do, and whether they allow the capture, is theirs.
Fairness ==
  \A d \in Devices :
    /\ \A e \in Devices : WF_vars(Receive(e, d))
    /\ \A c \in Calls : WF_vars(RemoteDescriptionSet(d, c))

Spec == Init /\ [][Next]_vars /\ Fairness

-----------------------------------------------------------------------------
CallSets == [Devices -> SUBSET Calls]

TypeOK ==
  /\ media \in [Devices -> [call : Calls, ringing : BOOLEAN] \cup {NoMedia}]
  /\ sess \in [Devices -> [Calls -> {"none", "open", "closed"}]]
  /\ slot \in [Devices -> Calls \cup {NoCall}]
  /\ pending \in CallSets /\ stream \in CallSets /\ armed \in CallSets
  /\ capturing \in CallSets /\ tracks \in CallSets
  /\ applying \in CallSets /\ remote \in CallSets
  /\ iceQueue \in CallSets /\ gathered \in CallSets
  /\ offered \subseteq Calls /\ accepted \subseteq Calls /\ answered \subseteq Calls
  /\ displaced \subseteq Calls /\ broken \subseteq Calls
  /\ net \in [Devices -> [Devices -> Seq(Signals)]]
  /\ faults \in 0..MaxFaults

\* The queue of early candidates never strands one: a candidate only waits while the remote
\* description is still to come (webrtc.ts:54, the iceQueue and flushIce).
NoCandidateStranded ==
  \A d \in Devices : iceQueue[d] \cap remote[d] = {}

\* A call that rang is answered only when its user accepted it: not while it rings, not after
\* it was rejected, whatever the order in which invitation, offer and acceptance come.
AnsweredOnlyIfAccepted ==
  \A c \in Calls :
    (c \in answered /\ c \in pending[To[c]]) => c \in accepted

\* The media of the callee is only added for a call the user accepted, and is on the connection
\* before the answer that tells of it.
AnswerCarriesMedia ==
  \A c \in Calls :
    (Mode[c] = "voice" /\ c \in answered /\ c \in accepted /\ c \notin broken) =>
      c \in tracks[To[c]]

\* A viewer who accepts a share is answered for, whichever comes first, the offer or the
\* acceptance, unless another offer takes the slot.
ViewerIsAnswered ==
  \A c \in Calls :
    (Mode[c] = "share" /\ c \in accepted /\ c \in offered) ~>
      (c \in answered \/ c \in displaced \/ c \in broken)

\* webrtc.ts:403-404: an offer that comes after the acceptance is answered at once, so that it
\* cannot happen that nobody answers.
AcceptedIsAnswered ==
  \A c \in Calls :
    (c \in accepted /\ c \in offered /\ c \notin capturing[To[c]]) ~>
      (c \in answered \/ c \in displaced \/ c \in broken)
=============================================================================
