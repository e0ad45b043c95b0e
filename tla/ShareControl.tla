---------------------------- MODULE ShareControl ----------------------------
(***************************************************************************)
(* A member of a room shares its screen with the others and lets some of   *)
(* them control it (ui/client/webrtc.ts, ui/views/media.ts).  The host's   *)
(* page keeps the viewers and the controllers; its daemon has the switch   *)
(* that decides whether an input is injected (core/remote).  Requests,     *)
(* grants and hangups go by way of the daemons, inputs over a data channel *)
(* from page to page.                                                      *)
(*                                                                         *)
(* The shares of the host are numbered.  The session of viewer v in share  *)
(* k, <<v, k>>, stands for its callId.  An invitation and its offer travel *)
(* together here; module Calls tells them apart.                           *)
(***************************************************************************)
EXTENDS Integers, Sequences, FiniteSets, SequencesExt

CONSTANTS Viewers,       \* the other members of the room that are online
          NoOne,
          MaxShares,     \* bound: shares that are started
          MaxRequests,   \* bound: requests of the viewers
          MaxLeaves,     \* bound: overlays that viewers close and sessions they hang up
          MaxInputs      \* bound: inputs of the viewers

ASSUME ShareAssumption ==
  /\ NoOne \notin Viewers
  /\ MaxShares \in Nat \ {0} /\ MaxRequests \in Nat /\ MaxLeaves \in Nat
  /\ MaxInputs \in Nat

Shares == 1..MaxShares
Sessions == Viewers \X Shares
NoShare == 0
Room == 0                  \* the room's id, where a message carries a room or a session
NoView == [share |-> NoShare, ringing |-> FALSE, ctrl |-> FALSE]

VARIABLES
  (* the host's page *)
  share,      \* the entry of roomShares: number of the share, or NoShare
  started,    \* number of shares so far
  inviting,   \* members that the loop of startRoomShare has still to invite, per share
  viewers,    \* viewers of each share
  calls,      \* roomShareByCallId, and the sessions of those calls
  ctrl,       \* ctrlMembers
  overlay,    \* the overlay of the share is open
  ctrlReq, stopReq,   \* the requests it shows
  (* the host's daemon *)
  commands,   \* remote_host and remote_input on their way to it
  hosting,    \* hosting_
  verdicts,   \* inputs so far: session, was anyone in control when the page passed it on,
              \* and was it injected
  (* the viewers' pages *)
  view,       \* the overlay: session, whether it rings, whether it shows the control panel
  joined,     \* sessions that are connected at the viewer
  channel,    \* sessions with a data channel
  enabling,   \* sessions whose enableShareControl waits for the new offer
  (* between them *)
  toHost, toViewer, inputs,
  requests, leaves, sent,
  granted     \* sessions whose viewer was allowed to control

hostVars == <<share, started, inviting, viewers, calls, ctrl, overlay, ctrlReq, stopReq>>
daemonVars == <<hosting, verdicts>>
viewerVars == <<view, joined, channel, enabling>>
bounds == <<requests, leaves, sent>>
vars == <<hostVars, commands, daemonVars, viewerVars, toHost, toViewer, inputs, bounds, granted>>

Init ==
  /\ share = NoShare /\ started = 0
  /\ inviting = [k \in Shares |-> {}] /\ viewers = [k \in Shares |-> {}]
  /\ calls = {} /\ ctrl = {} /\ overlay = FALSE /\ ctrlReq = NoOne /\ stopReq = NoOne
  /\ commands = <<>> /\ hosting = FALSE /\ verdicts = {}
  /\ view = [v \in Viewers |-> NoView] /\ joined = {} /\ channel = {} /\ enabling = {}
  /\ toHost = [v \in Viewers |-> <<>>] /\ toViewer = [v \in Viewers |-> <<>>]
  /\ inputs = [v \in Viewers |-> <<>>]
  /\ requests = 0 /\ leaves = 0 /\ sent = 0 /\ granted = {}

-----------------------------------------------------------------------------
Msg(t, k) == [t |-> t, id |-> k]

\* toViewer with message m for each viewer of the set vs.
Told(vs, m) == [v \in Viewers |-> IF v \in vs THEN Append(toViewer[v], m) ELSE toViewer[v]]

\* The viewers of the share that goes on, and whether a member is one of them.
Watching == IF share = NoShare THEN {} ELSE viewers[share]
IsViewer(v) == v \in Watching

\* The session belongs to a share that was not ended.
OfShare(v, k) == <<v, k>> \in calls

\* remote_host, to the daemon of the same machine.
Switch(on) == commands' = Append(commands, [t |-> "remote_host", on |-> on])

\* remote_input.  from: the session it came over; on: whether anyone was in control when the
\* page passed it on.  The program carries neither.
Input(s) == [t |-> "remote_input", from |-> s, on |-> ctrl # {}]

\* syncShareControllers with disarm: the last controller to go turns the switch off.
DisarmIfLast(left) == IF left = {} THEN Switch(FALSE) ELSE UNCHANGED commands

-----------------------------------------------------------------------------
(* The buttons of the overlay (ui/views/media.ts) *)

\* The button that shares with a room lies under the overlay.
ShareButton == ~overlay

\* The host's: one row for each viewer, and the requests.
RemoveButton(v) == overlay /\ v \in Watching
TakeBackButton(v) == RemoveButton(v) /\ v \in ctrl
StopRequestBar == overlay /\ stopReq # NoOne
ControlRequestBar == overlay /\ ctrlReq # NoOne

\* A viewer's.
AcceptButton(v) == view[v].ringing
ViewerButtons(v) == view[v].share # NoShare /\ ~view[v].ringing /\ ~view[v].ctrl
ControlPanel(v) == view[v].ctrl

-----------------------------------------------------------------------------
(* The host *)

\* startRoomShare: the stream is there.  A share that goes on is replaced, not ended.
StartRoomShare ==
  /\ ShareButton /\ started < MaxShares
  /\ started' = started + 1 /\ share' = started + 1
  /\ inviting' = [inviting EXCEPT ![started + 1] = Viewers]
  /\ overlay' = TRUE /\ ctrlReq' = NoOne /\ stopReq' = NoOne
  /\ UNCHANGED <<viewers, calls, ctrl, commands, daemonVars, viewerVars, toHost, toViewer, inputs,
                 bounds, granted>>

\* One round of its loop, which awaits the offer.  It goes on when the share was ended
\* meanwhile.
InviteNext(v, k) ==
  /\ v \in inviting[k]
  /\ inviting' = [inviting EXCEPT ![k] = @ \ {v}]
  /\ viewers' = [viewers EXCEPT ![k] = @ \cup {v}]
  /\ calls' = calls \cup {<<v, k>>}
  /\ toViewer' = Told({v}, Msg("call_invite", k))
  /\ UNCHANGED <<share, started, ctrl, overlay, ctrlReq, stopReq, commands, daemonVars, viewerVars,
                 toHost, inputs, bounds, granted>>

\* endRoomShare.  gone: the viewer whose leaving ends the share, and of whom it knows already.
EndShare(gone, told) ==
  /\ toViewer' = [v \in Viewers |->
       told[v] \o IF v \in Watching \ gone THEN <<Msg("call_hangup", share)>> ELSE <<>>]
  /\ Switch(FALSE)
  /\ calls' = {} /\ ctrl' = {} /\ share' = NoShare
  /\ overlay' = FALSE /\ ctrlReq' = NoOne /\ stopReq' = NoOne

\* "End".
EndRoomShare ==
  /\ overlay
  /\ EndShare({}, toViewer)
  /\ UNCHANGED <<started, inviting, viewers, daemonVars, viewerVars, toHost, inputs, bounds, granted>>

\* "Remove": endRoomShareViewer.
EndRoomShareViewer(v) ==
  LET left == Watching \ {v} IN
  /\ RemoveButton(v)
  /\ viewers' = [viewers EXCEPT ![share] = left]
  /\ LET told == Told({v}, Msg("call_hangup", share)) IN
     IF left = {}
     THEN EndShare({v}, told)
     ELSE /\ toViewer' = told
          /\ calls' = calls \ {<<v, share>>}
          /\ ctrl' = ctrl \ {v}
          /\ DisarmIfLast(ctrl \ {v})
          /\ UNCHANGED <<share, overlay, ctrlReq, stopReq>>
  /\ UNCHANGED <<started, inviting, daemonVars, viewerVars, toHost, inputs, bounds, granted>>

\* Mutant: the answer does not say which it is, and every viewer takes it for a grant.
AlwaysGranted(approve) == "share_control_grant"

\* What the viewer is told, a grant that is approved or one that is not.
Answer(approve) == IF approve THEN "share_control_grant" ELSE "share_control_refused"

\* "Allow" and "refuse" of a request to control: resolveShareControlRequest.
ResolveShareControlRequest(approve) ==
  LET v == ctrlReq IN
  /\ ControlRequestBar /\ IsViewer(v)
  /\ ctrlReq' = NoOne
  /\ toViewer' = Told({v}, Msg(Answer(approve), share))
  /\ IF approve
     THEN /\ ctrl' = ctrl \cup {v}
          /\ Switch(TRUE)
          /\ granted' = granted \cup {<<v, share>>}
     ELSE UNCHANGED <<ctrl, commands, granted>>
  /\ UNCHANGED <<share, started, inviting, viewers, calls, overlay, stopReq, daemonVars, viewerVars,
                 toHost, inputs, bounds>>

\* "Take back": revokeShareControl.
RevokeShareControl(v) ==
  /\ TakeBackButton(v)
  /\ ctrl' = ctrl \ {v}
  /\ toViewer' = Told({v}, Msg("share_control_revoke", share))
  /\ DisarmIfLast(ctrl \ {v})
  /\ UNCHANGED <<share, started, inviting, viewers, calls, overlay, ctrlReq, stopReq, daemonVars,
                 viewerVars, toHost, inputs, bounds, granted>>

\* "Allow" and "ignore" of a request to stop: resolveRoomShareStopRequest.
ResolveRoomShareStopRequest(approve) ==
  LET ack == Told({stopReq}, Msg("room_share_stop_ack", share)) IN
  /\ StopRequestBar
  /\ IF approve
     THEN EndShare({}, ack)
     ELSE /\ toViewer' = ack
          /\ stopReq' = NoOne
          /\ UNCHANGED <<share, calls, ctrl, overlay, ctrlReq, commands>>
  /\ UNCHANGED <<started, inviting, viewers, daemonVars, viewerVars, toHost, inputs, bounds, granted>>

-----------------------------------------------------------------------------
(* What the host's page does with a viewer's messages *)

\* Mutant: the request is put into an overlay that may be closed.
OnControlRequestAnyway(v) ==
  /\ ctrlReq' = IF IsViewer(v) THEN v ELSE ctrlReq
  /\ UNCHANGED <<share, viewers, calls, ctrl, overlay, stopReq, commands, toViewer>>

\* Of a member that is no viewer nothing is taken.
OnControlRequest(v) ==
  /\ ctrlReq' = IF IsViewer(v) /\ overlay THEN v ELSE ctrlReq
  /\ UNCHANGED <<share, viewers, calls, ctrl, overlay, stopReq, commands, toViewer>>

\* Mutant: a release takes everybody's control for given back.
OnReleaseDisarms(v) ==
  /\ IF IsViewer(v)
     THEN ctrl' = ctrl \ {v} /\ Switch(FALSE)
     ELSE UNCHANGED <<ctrl, commands>>
  /\ UNCHANGED <<share, viewers, calls, overlay, ctrlReq, stopReq, toViewer>>

OnRelease(v) ==
  /\ IF IsViewer(v)
     THEN ctrl' = ctrl \ {v} /\ DisarmIfLast(ctrl \ {v})
     ELSE UNCHANGED <<ctrl, commands>>
  /\ UNCHANGED <<share, viewers, calls, overlay, ctrlReq, stopReq, toViewer>>

\* The request names a room, and the page looks for a share of that room.
OnStopRequest(v, id) ==
  /\ stopReq' = IF id = Room /\ share # NoShare /\ overlay THEN v ELSE stopReq
  /\ UNCHANGED <<share, viewers, calls, ctrl, overlay, ctrlReq, commands, toViewer>>

\* call_hangup.  A session of the share is taken out, the last one ends the share; for any
\* other the overlay is closed.  The controllers are not looked at.
OnHangup(v, k) ==
  IF OfShare(v, k)
  THEN LET left == IF share = k THEN Watching \ {v} ELSE Watching IN
       /\ viewers' = IF share = k THEN [viewers EXCEPT ![k] = left] ELSE viewers
       /\ IF share # NoShare /\ left = {}
          THEN EndShare({v}, toViewer)
          ELSE /\ calls' = calls \ {<<v, k>>}
               /\ UNCHANGED <<share, ctrl, overlay, ctrlReq, stopReq, commands, toViewer>>
  ELSE /\ overlay' = FALSE /\ ctrlReq' = NoOne /\ stopReq' = NoOne
       /\ UNCHANGED <<share, viewers, calls, ctrl, commands, toViewer>>

HostReceives(v) ==
  /\ toHost[v] # <<>>
  /\ toHost' = [toHost EXCEPT ![v] = Tail(@)]
  /\ LET m == Head(toHost[v]) IN
     \/ m.t = "share_control_request" /\ OnControlRequest(v)
     \/ m.t = "share_control_release" /\ OnRelease(v)
     \/ m.t = "room_share_stop_request" /\ OnStopRequest(v, m.id)
     \/ m.t = "call_hangup" /\ OnHangup(v, m.id)
  /\ UNCHANGED <<started, inviting, daemonVars, viewerVars, inputs, bounds, granted>>

\* An input comes over the data channel: it is passed to the daemon without a look at the
\* controllers.  A session that was closed delivers none.
OnChannelMessage(v) ==
  /\ inputs[v] # <<>>
  /\ inputs' = [inputs EXCEPT ![v] = Tail(@)]
  /\ LET s == <<v, Head(inputs[v])>> IN
     commands' = IF s \in calls THEN Append(commands, Input(s)) ELSE commands
  /\ UNCHANGED <<hostVars, daemonVars, viewerVars, toHost, toViewer, bounds, granted>>

\* The daemon: remote_host sets the switch, remote_input is injected while it is on.
DaemonHandles ==
  /\ commands # <<>>
  /\ commands' = Tail(commands)
  /\ LET c == Head(commands) IN
     IF c.t = "remote_host"
     THEN hosting' = c.on /\ UNCHANGED verdicts
     ELSE /\ verdicts' = verdicts \cup {[from |-> c.from, on |-> c.on, injected |-> hosting]}
          /\ UNCHANGED hosting
  /\ UNCHANGED <<hostVars, viewerVars, toHost, toViewer, inputs, bounds, granted>>

-----------------------------------------------------------------------------
(* A viewer *)

Tell(v, m) == toHost' = [toHost EXCEPT ![v] = Append(@, m)]
Current(v) == <<v, view[v].share>>
SetCtrl(v, on) == view' = [view EXCEPT ![v].ctrl = on /\ view[v].share # NoShare]

\* "Accept": acceptIncomingCall.
AcceptIncomingCall(v) ==
  /\ AcceptButton(v)
  /\ view' = [view EXCEPT ![v].ringing = FALSE]
  /\ joined' = joined \cup {Current(v)}
  /\ UNCHANGED <<hostVars, commands, daemonVars, channel, enabling, toHost, toViewer, inputs, bounds, granted>>

\* "End": the overlay is closed and nobody told.
CloseView(v) ==
  /\ view[v] # NoView
  /\ leaves < MaxLeaves /\ leaves' = leaves + 1
  /\ view' = [view EXCEPT ![v] = NoView]
  /\ UNCHANGED <<hostVars, commands, daemonVars, joined, channel, enabling, toHost, toViewer, inputs,
                 requests, sent, granted>>

\* hangupDebug: every session is hung up.
HangupAll(v) ==
  LET mine == {k \in Shares : <<v, k>> \in joined} IN
  /\ mine # {}
  /\ leaves < MaxLeaves /\ leaves' = leaves + 1
  /\ view' = [view EXCEPT ![v] = NoView]
  /\ joined' = joined \ ({v} \X Shares)
  /\ channel' = channel \ ({v} \X Shares) /\ enabling' = enabling \ ({v} \X Shares)
  /\ toHost' = [toHost EXCEPT ![v] = @ \o SetToSeq({Msg("call_hangup", k) : k \in mine})]
  /\ UNCHANGED <<hostVars, commands, daemonVars, toViewer, inputs, requests, sent, granted>>

\* "Request control".
RequestShareControl(v) ==
  /\ ViewerButtons(v)
  /\ requests < MaxRequests /\ requests' = requests + 1
  /\ Tell(v, Msg("share_control_request", view[v].share))
  /\ UNCHANGED <<hostVars, commands, daemonVars, viewerVars, toViewer, inputs, leaves, sent, granted>>

\* requestRoomShareStop(id), an exported function: the button passes the callId, the
\* end-to-end script the roomId.
RequestRoomShareStop(v, id) ==
  /\ ViewerButtons(v)
  /\ requests < MaxRequests /\ requests' = requests + 1
  /\ Tell(v, Msg("room_share_stop_request", id))
  /\ UNCHANGED <<hostVars, commands, daemonVars, viewerVars, toViewer, inputs, leaves, sent, granted>>

StopButton(v) == RequestRoomShareStop(v, view[v].share)
StopByScript(v) == RequestRoomShareStop(v, Room)

\* Mutant: the panel is closed and the host not told.
DisableShareControlSilently(v) == SetCtrl(v, FALSE) /\ UNCHANGED toHost

\* disableShareControl: the host is told, the panel closed, the channel kept.
DisableShareControl(v) ==
  /\ SetCtrl(v, FALSE)
  /\ Tell(v, Msg("share_control_release", view[v].share))

\* "End control".
EndControl(v) ==
  /\ ControlPanel(v)
  /\ DisableShareControl(v)
  /\ UNCHANGED <<hostVars, commands, daemonVars, joined, channel, enabling, toViewer, inputs, bounds, granted>>

\* attachRemoteDatachannel makes no second channel.
HasChannel(v) == Current(v) \in channel

\* enableShareControl: with a channel at once, without one after its offer was sent.
EnableShareControl(v) ==
  IF HasChannel(v)
  THEN SetCtrl(v, TRUE) /\ UNCHANGED <<channel, enabling>>
  ELSE /\ channel' = channel \cup {Current(v)}
       /\ enabling' = enabling \cup {Current(v)}
       /\ UNCHANGED view

\* The panel is opened whatever has become of the grant meanwhile.
OfferSent(v, k) ==
  /\ <<v, k>> \in enabling
  /\ enabling' = enabling \ {<<v, k>>}
  /\ SetCtrl(v, TRUE)
  /\ UNCHANGED <<hostVars, commands, daemonVars, joined, channel, toHost, toViewer, inputs, bounds, granted>>

ViewerReceives(v) ==
  /\ toViewer[v] # <<>>
  /\ toViewer' = [toViewer EXCEPT ![v] = Tail(@)]
  /\ LET m == Head(toViewer[v])
         open == view[v].share # NoShare IN
     \/ /\ m.t = "call_invite"
        /\ view' = [view EXCEPT ![v] = [share |-> m.id, ringing |-> TRUE, ctrl |-> FALSE]]
        /\ UNCHANGED <<joined, channel, enabling, toHost>>
     \/ /\ m.t = "call_hangup"
        /\ view' = [view EXCEPT ![v] = NoView]
        /\ joined' = joined \ {<<v, m.id>>} /\ channel' = channel \ {<<v, m.id>>}
        /\ enabling' = enabling \ {<<v, m.id>>}
        /\ UNCHANGED toHost
     \/ /\ m.t = "share_control_grant"
        /\ IF open THEN EnableShareControl(v) ELSE UNCHANGED <<view, channel, enabling>>
        /\ UNCHANGED <<joined, toHost>>
     \/ /\ m.t = "share_control_revoke"
        /\ IF open THEN DisableShareControl(v) ELSE UNCHANGED <<view, toHost>>
        /\ UNCHANGED <<joined, channel, enabling>>
     \/ /\ m.t \in {"share_control_refused", "room_share_stop_ack"}
        /\ UNCHANGED <<viewerVars, toHost>>
  /\ UNCHANGED <<hostVars, commands, daemonVars, inputs, bounds, granted>>

\* The input goes over the channel of the overlay's session.
SendInput(v) == inputs' = [inputs EXCEPT ![v] = Append(@, view[v].share)]

\* The control panel.
SendRemoteInput(v) ==
  /\ ControlPanel(v) /\ HasChannel(v) /\ Current(v) \in joined
  /\ sent < MaxInputs /\ sent' = sent + 1
  /\ SendInput(v)
  /\ UNCHANGED <<hostVars, commands, daemonVars, viewerVars, toHost, toViewer, requests, leaves, granted>>

-----------------------------------------------------------------------------
Next ==
  \/ StartRoomShare \/ EndRoomShare \/ DaemonHandles
  \/ \E approve \in BOOLEAN :
       ResolveShareControlRequest(approve) \/ ResolveRoomShareStopRequest(approve)
  \/ \E v \in Viewers :
       \/ EndRoomShareViewer(v) \/ RevokeShareControl(v) \/ HostReceives(v) \/ OnChannelMessage(v)
       \/ AcceptIncomingCall(v) \/ CloseView(v) \/ HangupAll(v) \/ RequestShareControl(v)
       \/ StopButton(v) \/ StopByScript(v) \/ EndControl(v) \/ ViewerReceives(v)
       \/ SendRemoteInput(v)
       \/ \E k \in Shares : OfferSent(v, k) \/ InviteNext(v, k)

\* Messages and commands are delivered, and offers sent; the rest is up to the users.
Fairness ==
  /\ WF_vars(DaemonHandles)
  /\ \A v \in Viewers :
       /\ WF_vars(HostReceives(v)) /\ WF_vars(ViewerReceives(v))
       /\ \A k \in Shares : WF_vars(OfferSent(v, k))

Spec == Init /\ [][Next]_vars /\ Fairness

-----------------------------------------------------------------------------
MsgTypes == {"call_invite", "call_hangup", "share_control_request", "share_control_grant",
             "share_control_refused", "share_control_release", "share_control_revoke",
             "room_share_stop_request", "room_share_stop_ack"}
Messages == [t : MsgTypes, id : 0..MaxShares]
Commands == [t : {"remote_host"}, on : BOOLEAN]
              \cup [t : {"remote_input"}, from : Sessions, on : BOOLEAN]

TypeOK ==
  /\ share \in 0..MaxShares /\ started \in 0..MaxShares
  /\ inviting \in [Shares -> SUBSET Viewers] /\ viewers \in [Shares -> SUBSET Viewers]
  /\ calls \subseteq Sessions /\ ctrl \subseteq Viewers /\ overlay \in BOOLEAN
  /\ ctrlReq \in Viewers \cup {NoOne} /\ stopReq \in Viewers \cup {NoOne}
  /\ overlay \/ (ctrlReq = NoOne /\ stopReq = NoOne)      \* they are fields of the overlay
  /\ commands \in Seq(Commands)
  /\ hosting \in BOOLEAN /\ verdicts \subseteq [from : Sessions, on : BOOLEAN, injected : BOOLEAN]
  /\ view \in [Viewers -> [share : 0..MaxShares, ringing : BOOLEAN, ctrl : BOOLEAN]]
  /\ joined \subseteq Sessions /\ channel \subseteq Sessions /\ enabling \subseteq Sessions
  /\ toHost \in [Viewers -> Seq(Messages)] /\ toViewer \in [Viewers -> Seq(Messages)]
  /\ inputs \in [Viewers -> Seq(Shares)]
  /\ requests \in 0..MaxRequests /\ leaves \in 0..MaxLeaves /\ sent \in 0..MaxInputs
  /\ granted \subseteq Sessions

\* A switch that is at h is at on when the first n of the commands q are handled.
SwitchAfter(h, q, n, on) ==
  \/ h = on /\ \A i \in 1..n : q[i].t # "remote_host"
  \/ \E i \in 1..n :
       /\ q[i].t = "remote_host" /\ q[i].on = on
       /\ \A j \in (i + 1)..n : q[j].t # "remote_host"

\* The daemon's one switch follows the page's controllers: on as long as there is any, off when
\* the last one is gone, whichever of the five ways it went (roadmap: four ways to take control
\* back, all of which turn it off).
SwitchFollowsControllers == SwitchAfter(hosting, commands, Len(commands), ctrl # {})

\* Since the share of session s began, the host has allowed its viewer to control.
AllowedSince(s) == \E k \in s[2]..MaxShares : <<s[1], k>> \in granted

\* Neither page nor daemon looks at who sends an input, so that it is up to the viewers' pages:
\* nothing of a viewer is injected whom the host did not allow to control since the share of
\* that session began, and nothing at all that came while nobody was in control.
InjectedOnlyIfAllowed ==
  \A verdict \in verdicts : verdict.injected => verdict.on /\ AllowedSince(verdict.from)

Has(q, t) == \E n \in 1..Len(q) : q[n].t = t

\* A controller can control: one of the share that the viewer watches has the panel, or will
\* get it, or has given it back, up to what is under way.  (The converse fails, see
\* PanelMeansControl.)
ControllerHasPanel ==
  \A v \in ctrl :
    (<<v, share>> \in granted /\ view[v].share = share) =>
      \/ view[v].ctrl \/ Current(v) \in enabling
      \/ Has(toViewer[v], "share_control_grant") \/ Has(toHost[v], "share_control_release")

\* webrtc.ts:602: a viewer whose control is taken back leaves the control mode at once, and its
\* inputs are passed back no more.  So a panel without a message on its way in either direction
\* is a controller's.  It fails: OfferSent opens the panel of a grant that was revoked while the
\* offer was awaited.
PanelMeansControl ==
  \A v \in Viewers :
    (view[v].ctrl /\ toViewer[v] = <<>> /\ toHost[v] = <<>>) => v \in ctrl

\* webrtc.ts:554: a viewer's request to stop is shown to the host.
StopRequestIsShown ==
  \A v \in Viewers :
    (overlay /\ v \in Watching /\ Has(toHost[v], "room_share_stop_request"))
      ~> (stopReq = v \/ ~overlay \/ v \notin Watching)
=============================================================================
