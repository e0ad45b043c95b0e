------------------------- MODULE ShareControl_proofs -------------------------
(***************************************************************************)
(* For any viewers, any number of shares, requests and inputs: the switch  *)
(* of the host's daemon follows the controllers of the host's page, which  *)
(* are any or none; an input is injected only of a viewer who was allowed  *)
(* to control since the share began, and only if someone was in control;   *)
(* and a controller that watches the share has its panel or will get it.   *)
(***************************************************************************)
EXTENDS ShareControl, FiniteSetTheorems, TLAPS

-----------------------------------------------------------------------------
(* The invariants *)

(* What rings, is controlled or is announced by an invitation is a share.  *)
ViewShown == \A v \in Viewers : view[v].ringing \/ view[v].ctrl => view[v].share \in Shares
Shown ==
  /\ ViewShown
  /\ \A v \in Viewers : \A n \in 1..Len(toViewer[v]) :
       toViewer[v][n].t = "call_invite" => toViewer[v][n].id \in Shares

HostTypes ==
  /\ share \in 0..MaxShares /\ started \in 0..MaxShares
  /\ inviting \in [Shares -> SUBSET Viewers] /\ viewers \in [Shares -> SUBSET Viewers]
  /\ calls \subseteq Sessions /\ ctrl \subseteq Viewers /\ granted \subseteq Sessions
OverlayTypes ==
  /\ overlay \in BOOLEAN
  /\ ctrlReq \in Viewers \cup {NoOne} /\ stopReq \in Viewers \cup {NoOne}
  /\ overlay \/ (ctrlReq = NoOne /\ stopReq = NoOne)
DaemonTypes ==
  /\ hosting \in BOOLEAN
  /\ verdicts \subseteq [from : Sessions, on : BOOLEAN, injected : BOOLEAN]
CommandTypes == commands \in Seq(Commands)
ViewTypes == view \in [Viewers -> [share : 0..MaxShares, ringing : BOOLEAN, ctrl : BOOLEAN]]
SessionTypes == joined \subseteq Sessions /\ channel \subseteq Sessions /\ enabling \subseteq Sessions
HostWays == toHost \in [Viewers -> Seq(Messages)]
ViewerWays == toViewer \in [Viewers -> Seq(Messages)]
InputWays == inputs \in [Viewers -> Seq(Shares)]
BoundTypes ==
  requests \in 0..MaxRequests /\ leaves \in 0..MaxLeaves /\ sent \in 0..MaxInputs

TypeInv ==
  /\ HostTypes /\ OverlayTypes /\ DaemonTypes /\ CommandTypes /\ ViewTypes /\ SessionTypes
  /\ HostWays /\ ViewerWays /\ InputWays /\ BoundTypes
  /\ Shown

(* An input among the commands q is injected as the page meant it.         *)
InputsAgree(h, q) ==
  \A n \in 1..Len(q) : q[n].t = "remote_input" => SwitchAfter(h, q, n - 1, q[n].on)

(* Each input so far was injected as the page meant it.                    *)
InjectedUnderControl == \A verdict \in verdicts : verdict.injected = verdict.on

SwitchInv ==
  /\ SwitchFollowsControllers
  /\ InputsAgree(hosting, commands)
  /\ InjectedUnderControl

(* The invitation to share k is on the way q; it is there once; a grant    *)
(* is behind it.                                                           *)
InviteAt(q, n, k) == q[n].t = "call_invite" /\ q[n].id = k
Invited(q, k) == \E n \in 1..Len(q) : InviteAt(q, n, k)
InvitedOnce(q, k) ==
  \A m, n \in 1..Len(q) : InviteAt(q, m, k) /\ InviteAt(q, n, k) => m = n
GrantBehind(q, k) ==
  \A m \in 1..Len(q) : InviteAt(q, m, k) =>
    \E n \in (m + 1)..Len(q) : q[n].t = "share_control_grant"

(* Viewer v will be invited to share k no more.                            *)
Asked(v, k) == k <= started /\ v \notin inviting[k]

(* Viewer v has seen the invitation to share k, and looks elsewhere now.   *)
Past(v, k) == Asked(v, k) /\ ~ Invited(toViewer[v], k) /\ view[v].share # k

(* A viewer is invited to a share once, and what he does about a share     *)
(* comes after it.                                                         *)
InviteInv ==
  /\ share <= started
  /\ \A v \in Viewers, k \in Shares :
       /\ v \in inviting[k] => k <= started
       /\ v \in viewers[k] \/ <<v, k>> \in granted => Asked(v, k)
       /\ view[v].share = k \/ <<v, k>> \in joined =>
            Asked(v, k) /\ ~ Invited(toViewer[v], k)
       /\ Invited(toViewer[v], k) => Asked(v, k)
       /\ InvitedOnce(toViewer[v], k)

(* A viewer that hung up, or that the host lost, is past the share; the    *)
(* others in control have the panel before them.                           *)
HungUp(q, k) == \E n \in 1..Len(q) : q[n].t = "call_hangup" /\ q[n].id = k
PanelInv ==
  /\ \A v \in Viewers, k \in Shares : HungUp(toHost[v], k) => Past(v, k)
  /\ \A v \in ctrl : share # NoShare /\ <<v, share>> \in granted =>
       /\ v \notin viewers[share] => Past(v, share)
       /\ GrantBehind(toViewer[v], share)
  /\ ControllerHasPanel

(* On the way q to viewer v, who looks at share j, each grant is of his,   *)
(* is recorded in g, and is of no share older than the one he looks at     *)
(* when he reads it.                                                       *)
Fit(g, v, j, q) ==
  /\ \A n \in 1..Len(q) :
       q[n].t = "share_control_grant" => <<v, q[n].id>> \in g /\ j <= q[n].id
  /\ \A m, n \in 1..Len(q) :
       m < n /\ q[m].t = "call_invite" /\ q[n].t = "share_control_grant" => q[m].id <= q[n].id

(* The host shares its last share or none; a channel, and what came over   *)
(* it, is of a session whose viewer was allowed to control since its share *)
(* began.                                                                  *)
ShareIsLast == share = NoShare \/ share = started
GrantsFit == \A v \in Viewers : Fit(granted, v, view[v].share, toViewer[v])
SessionsAllowed ==
  /\ \A s \in channel : AllowedSince(s)
  /\ \A v \in Viewers : \A n \in 1..Len(inputs[v]) : AllowedSince(<<v, inputs[v][n]>>)
CommandsAllowed ==
  \A n \in 1..Len(commands) : commands[n].t = "remote_input" => AllowedSince(commands[n].from)
VerdictsAllowed == \A verdict \in verdicts : AllowedSince(verdict.from)
AllowedInv ==
  /\ ShareIsLast /\ GrantsFit
  /\ SessionsAllowed /\ CommandsAllowed /\ VerdictsAllowed

Inv == TypeInv /\ SwitchInv /\ InviteInv /\ PanelInv /\ AllowedInv

-----------------------------------------------------------------------------
(* Sequences *)

(* The sequence of a finite set has elements of the set.                   *)
LEMMA SetToSeqElements ==
  ASSUME NEW S, IsFiniteSet(S)
  PROVE  SetToSeq(S) \in Seq(S)
<1> DEFINE c == Cardinality(S)
<1>1. c \in Nat /\ ExistsBijection(1..c, S)
  BY FS_CardinalityType
<1>2. PICK f \in Bijection(1..c, S) : TRUE
  BY <1>1 DEF ExistsBijection
<1>3. f \in [1..c -> S] /\ IsInjective(f)
  BY <1>2 DEF Bijection, Injection
<1>4. SetToSeq(S) \in [1..c -> S]
  BY <1>3 DEF SetToSeq
<1> HIDE DEF c
<1> QED
  BY <1>1, <1>4

(* A way q goes on as r: nothing is taken off and no invitation put on it. *)
Quiet(q, r) ==
  /\ r \in Seq(Messages) /\ Len(q) <= Len(r)
  /\ \A n \in 1..Len(q) : r[n] = q[n]
  /\ \A n \in (Len(q) + 1)..Len(r) : r[n].t # "call_invite"

LEMMA QuietSame == ASSUME NEW q \in Seq(Messages) PROVE Quiet(q, q)
BY DEF Quiet

LEMMA QuietAppend ==
  ASSUME NEW q \in Seq(Messages), NEW r, Quiet(q, r), NEW m \in Messages, m.t # "call_invite"
  PROVE  Quiet(q, Append(r, m))
<1>1. /\ Append(r, m) \in Seq(Messages) /\ Len(Append(r, m)) = Len(r) + 1
      /\ \A n \in 1..Len(r) : Append(r, m)[n] = r[n]
      /\ Append(r, m)[Len(r) + 1] = m
  BY DEF Quiet
<1>2. Len(q) \in Nat /\ Len(r) \in Nat
  BY DEF Quiet
<1> QED
  BY <1>1, <1>2 DEF Quiet

(* What the host sends to viewers that are no longer its own.              *)
LEMMA MessageTypes ==
  ASSUME NEW k \in 0..MaxShares, NEW t \in MsgTypes
  PROVE  Msg(t, k) \in Messages /\ Msg(t, k).t = t /\ Msg(t, k).id = k
BY DEF Msg, Messages

HostQuiet == ViewerWays' /\ \A v \in Viewers : Quiet(toViewer[v], toViewer'[v])

LEMMA ToldType ==
  ASSUME ViewerWays, NEW vs, NEW m \in Messages
  PROVE  /\ Told(vs, m) \in [Viewers -> Seq(Messages)]
         /\ \A v \in Viewers :
              Told(vs, m)[v] = IF v \in vs THEN Append(toViewer[v], m) ELSE toViewer[v]
BY DEF ViewerWays, Told

LEMMA ToldQuiet ==
  ASSUME ViewerWays, NEW vs, NEW m \in Messages, m.t # "call_invite"
  PROVE  \A v \in Viewers : Quiet(toViewer[v], Told(vs, m)[v])
<1> SUFFICES ASSUME NEW v \in Viewers PROVE Quiet(toViewer[v], Told(vs, m)[v])
  OBVIOUS
<1>1. toViewer[v] \in Seq(Messages)
  BY DEF ViewerWays
<1>2. Quiet(toViewer[v], toViewer[v])
  BY <1>1, QuietSame
<1>3. Quiet(toViewer[v], Append(toViewer[v], m))
  BY <1>1, <1>2, QuietAppend
<1> QED
  BY <1>2, <1>3, ToldType

(* The hangups of endRoomShare, behind what is told already.               *)
Hangups(told, W, m) == [v \in Viewers |-> told[v] \o IF v \in W THEN <<m>> ELSE <<>>]

LEMMA HangupsQuiet ==
  ASSUME NEW tv \in [Viewers -> Seq(Messages)], NEW told \in [Viewers -> Seq(Messages)],
         \A v \in Viewers : Quiet(tv[v], told[v]),
         NEW W, NEW m \in Messages, m.t # "call_invite"
  PROVE  /\ Hangups(told, W, m) \in [Viewers -> Seq(Messages)]
         /\ \A v \in Viewers : Quiet(tv[v], Hangups(told, W, m)[v])
<1>1. ASSUME NEW v \in Viewers
      PROVE  /\ Hangups(told, W, m)[v] \in Seq(Messages)
             /\ Quiet(tv[v], Hangups(told, W, m)[v])
  <2>1. CASE v \in W
    <3>1. Hangups(told, W, m)[v] = told[v] \o <<m>>
      BY <2>1 DEF Hangups
    <3>2. told[v] \o <<m>> = Append(told[v], m)
      OBVIOUS
    <3>3. Quiet(tv[v], Append(told[v], m)) /\ Append(told[v], m) \in Seq(Messages)
      BY QuietAppend
    <3> QED
      BY <3>1, <3>2, <3>3
  <2>2. CASE v \notin W
    <3>1. Hangups(told, W, m)[v] = told[v] \o <<>>
      BY <2>2 DEF Hangups
    <3>2. told[v] \o <<>> = told[v]
      OBVIOUS
    <3> QED
      BY <3>1, <3>2 DEF Quiet
  <2> QED
    BY <2>1, <2>2
<1>2. DOMAIN Hangups(told, W, m) = Viewers
  BY DEF Hangups
<1>3. Hangups(told, W, m) = [v \in Viewers |-> Hangups(told, W, m)[v]]
  BY DEF Hangups
<1> QED
  BY <1>1, <1>2, <1>3

-----------------------------------------------------------------------------
(* Types *)

LEMMA Numbers ==
  /\ MaxShares \in Nat /\ MaxRequests \in Nat /\ MaxLeaves \in Nat /\ MaxInputs \in Nat
  /\ Shares \subseteq 0..MaxShares /\ 0 \notin Shares /\ Shares \subseteq Nat
BY ShareAssumption DEF Shares

LEMMA InitTypes == ASSUME Init PROVE TypeInv
<1> USE DEF Init
<1>1. HostTypes /\ SessionTypes
  BY Numbers DEF HostTypes, SessionTypes, NoShare
<1>2. OverlayTypes
  BY DEF OverlayTypes
<1>3. DaemonTypes
  BY DEF DaemonTypes
<1>4. CommandTypes
  BY DEF CommandTypes
<1>5. ViewTypes
  BY Numbers DEF ViewTypes, NoView, NoShare
<1>6. HostWays /\ ViewerWays /\ InputWays
  BY DEF HostWays, ViewerWays, InputWays
<1>7. BoundTypes
  BY Numbers DEF BoundTypes
<1>8. Shown
  BY DEF Shown, ViewShown, NoView
<1> QED
  BY <1>1, <1>2, <1>3, <1>4, <1>5, <1>6, <1>7, <1>8 DEF TypeInv

(* Parts that a step leaves alone.                                         *)
LEMMA SameDaemon == ASSUME TypeInv, UNCHANGED daemonVars PROVE DaemonTypes'
BY DEF TypeInv, DaemonTypes, daemonVars

LEMMA SameCommands == ASSUME TypeInv, UNCHANGED commands PROVE CommandTypes'
BY DEF TypeInv, CommandTypes

LEMMA SameViewer == ASSUME TypeInv, UNCHANGED viewerVars PROVE ViewTypes' /\ SessionTypes'
BY DEF TypeInv, ViewTypes, SessionTypes, viewerVars

LEMMA SameWays ==
  ASSUME TypeInv
  PROVE  /\ UNCHANGED toHost => HostWays'
         /\ UNCHANGED inputs => InputWays'
         /\ UNCHANGED toViewer => ViewerWays' /\ HostQuiet
BY QuietSame DEF TypeInv, HostWays, ViewerWays, InputWays, HostQuiet

LEMMA SameBounds == ASSUME TypeInv, UNCHANGED bounds PROVE BoundTypes'
BY DEF TypeInv, BoundTypes, bounds

LEMMA SameHost == ASSUME TypeInv, UNCHANGED <<hostVars, granted>> PROVE HostTypes' /\ OverlayTypes'
BY DEF TypeInv, HostTypes, OverlayTypes, hostVars

(* A step that puts no invitation on a way and opens nothing shows nothing *)
(* new.                                                                    *)
LEMMA QuietShown ==
  ASSUME TypeInv, HostQuiet, UNCHANGED view
  PROVE  Shown'
<1>1. ASSUME NEW v \in Viewers, NEW n \in 1..Len(toViewer'[v]), toViewer'[v][n].t = "call_invite"
      PROVE  toViewer'[v][n].id \in Shares
  <2>1. Quiet(toViewer[v], toViewer'[v]) /\ toViewer[v] \in Seq(Messages)
    BY DEF HostQuiet, TypeInv, ViewerWays
  <2>2. n \in 1..Len(toViewer[v]) /\ toViewer'[v][n] = toViewer[v][n]
    BY <1>1, <2>1 DEF Quiet
  <2> QED
    BY <1>1, <2>2 DEF TypeInv, Shown, ViewShown
<1> QED
  BY <1>1 DEF TypeInv, Shown, ViewShown

LEMMA EndShareQuiet ==
  ASSUME TypeInv, NEW W, NEW told \in [Viewers -> Seq(Messages)],
         \A v \in Viewers : Quiet(toViewer[v], told[v]),
         toViewer' = Hangups(told, W, Msg("call_hangup", share))
  PROVE  HostQuiet
<1>1. Msg("call_hangup", share) \in Messages /\ Msg("call_hangup", share).t # "call_invite"
  BY MessageTypes DEF TypeInv, HostTypes, MsgTypes
<1> QED
  BY <1>1, HangupsQuiet DEF HostQuiet, ViewerWays, TypeInv

LEMMA SwitchType ==
  ASSUME CommandTypes, NEW on \in BOOLEAN,
         commands' = Append(commands, [t |-> "remote_host", on |-> on])
  PROVE  CommandTypes'
BY DEF CommandTypes, Commands

(* A step of the host's page alone.                                        *)
LEMMA HostStepTypes ==
  ASSUME TypeInv, HostTypes', OverlayTypes', CommandTypes', HostWays', HostQuiet,
         UNCHANGED <<daemonVars, viewerVars, inputs, bounds>>
  PROVE  TypeInv'
BY SameDaemon, SameViewer, SameWays, SameBounds, QuietShown DEF HostQuiet, TypeInv, viewerVars

LEMMA StartTypes == ASSUME TypeInv, StartRoomShare PROVE TypeInv' /\ HostQuiet
<1>1. HostTypes'
  BY Numbers DEF StartRoomShare, TypeInv, HostTypes, Shares
<1>2. OverlayTypes'
  BY DEF StartRoomShare, OverlayTypes
<1> QED
  BY <1>1, <1>2, HostStepTypes, SameWays, SameCommands DEF StartRoomShare

LEMMA InviteTypes ==
  ASSUME TypeInv, NEW v \in Viewers, NEW k \in Shares, InviteNext(v, k) PROVE TypeInv'
<1>1. Msg("call_invite", k) \in Messages /\ Msg("call_invite", k).id = k
  BY Numbers, MessageTypes DEF MsgTypes
<1>2. /\ ViewerWays'
      /\ \A w \in Viewers :
           toViewer'[w] = IF w \in {v} THEN Append(toViewer[w], Msg("call_invite", k)) ELSE toViewer[w]
  BY <1>1, ToldType DEF InviteNext, TypeInv, ViewerWays
<1>3. HostTypes'
  BY DEF InviteNext, TypeInv, HostTypes, Sessions
<1>4. Shown'
  <2>1. ASSUME NEW w \in Viewers, NEW n \in 1..Len(toViewer'[w]),
               toViewer'[w][n].t = "call_invite"
        PROVE  toViewer'[w][n].id \in Shares
    <3>1. toViewer[w] \in Seq(Messages)
      BY DEF TypeInv, ViewerWays
    <3>2. toViewer'[w] = IF w = v THEN Append(toViewer[w], Msg("call_invite", k)) ELSE toViewer[w]
      BY <1>2
    <3>3. n \in 1..Len(toViewer[w]) => toViewer'[w][n] = toViewer[w][n]
      BY <1>1, <3>1, <3>2
    <3>4. n \notin 1..Len(toViewer[w]) => toViewer'[w][n] = Msg("call_invite", k)
      BY <1>1, <2>1, <3>1, <3>2
    <3> QED
      BY <1>1, <2>1, <3>3, <3>4 DEF TypeInv, Shown, ViewShown
  <2> QED
    BY <2>1 DEF InviteNext, TypeInv, Shown, ViewShown, viewerVars
<1>5. OverlayTypes'
  BY DEF InviteNext, TypeInv, OverlayTypes
<1> QED
  BY <1>2, <1>3, <1>4, <1>5, SameDaemon, SameCommands, SameViewer, SameWays, SameBounds
  DEF InviteNext, TypeInv

(* endRoomShare; told is what the viewers are told before it.              *)
LEMMA EndShareTypes ==
  ASSUME TypeInv, NEW W, NEW told \in [Viewers -> Seq(Messages)],
         \A v \in Viewers : Quiet(toViewer[v], told[v]),
         toViewer' = Hangups(told, W, Msg("call_hangup", share)),
         Switch(FALSE), calls' = {}, ctrl' = {}, share' = NoShare, overlay' = FALSE,
         ctrlReq' = NoOne, stopReq' = NoOne,
         viewers' \in [Shares -> SUBSET Viewers], HostWays',
         UNCHANGED <<started, inviting, daemonVars, viewerVars, inputs, bounds, granted>>
  PROVE  TypeInv' /\ HostQuiet
<1>1. HostQuiet
  BY EndShareQuiet
<1>2. CommandTypes'
  BY SwitchType DEF Switch, TypeInv
<1>3. HostTypes'
  BY Numbers DEF TypeInv, HostTypes, NoShare
<1>4. OverlayTypes'
  BY DEF OverlayTypes
<1> QED
  BY <1>1, <1>2, <1>3, <1>4, HostStepTypes

LEMMA WaysQuiet ==
  ASSUME TypeInv
  PROVE  /\ toViewer \in [Viewers -> Seq(Messages)]
         /\ \A v \in Viewers : Quiet(toViewer[v], toViewer[v])
BY QuietSame DEF TypeInv, ViewerWays

LEMMA EndRoomShareTypes == ASSUME TypeInv, EndRoomShare PROVE TypeInv' /\ HostQuiet
<1>1. toViewer' = Hangups(toViewer, Watching \ {}, Msg("call_hangup", share))
  BY DEF EndRoomShare, EndShare, Hangups
<1>2. viewers' \in [Shares -> SUBSET Viewers] /\ HostWays'
  BY SameWays DEF EndRoomShare, TypeInv, HostTypes
<1> QED
  BY <1>1, <1>2, WaysQuiet, EndShareTypes DEF EndRoomShare, EndShare

(* The messages of the host that tell a viewer something.                  *)
LEMMA TellTypes ==
  ASSUME TypeInv,
         NEW t \in {"call_hangup", "share_control_grant", "share_control_refused",
                    "share_control_revoke", "room_share_stop_ack"}, NEW vs
  PROVE  /\ Told(vs, Msg(t, share)) \in [Viewers -> Seq(Messages)]
         /\ \A v \in Viewers : Quiet(toViewer[v], Told(vs, Msg(t, share))[v])
<1>1. Msg(t, share) \in Messages /\ Msg(t, share).t # "call_invite"
  BY MessageTypes DEF TypeInv, HostTypes, MsgTypes
<1> QED
  BY <1>1, ToldType, ToldQuiet DEF TypeInv

LEMMA EndViewerTypes ==
  ASSUME TypeInv, NEW v \in Viewers, EndRoomShareViewer(v) PROVE TypeInv' /\ HostQuiet
<1> DEFINE told == Told({v}, Msg("call_hangup", share))
<1>1. /\ told \in [Viewers -> Seq(Messages)]
      /\ \A w \in Viewers : Quiet(toViewer[w], told[w])
  BY TellTypes
<1>2. viewers' \in [Shares -> SUBSET Viewers] /\ HostWays'
  BY SameWays DEF EndRoomShareViewer, Watching, TypeInv, HostTypes
<1>3. CASE Watching \ {v} = {}
  <2>1. EndShare({v}, told)
    BY <1>3 DEF EndRoomShareViewer
  <2>2. toViewer' = Hangups(told, Watching \ {v}, Msg("call_hangup", share))
    BY <2>1 DEF EndShare, Hangups
  <2> HIDE DEF told
  <2> QED
    BY <1>1, <1>2, <2>1, <2>2, EndShareTypes DEF EndRoomShareViewer, EndShare
<1>4. CASE Watching \ {v} # {}
  <2>1. toViewer' = told
    BY <1>4 DEF EndRoomShareViewer
  <2> HIDE DEF told
  <2>2. HostQuiet
    BY <1>1, <2>1 DEF HostQuiet, ViewerWays
  <2>3. HostTypes'
    BY <1>2, <1>4 DEF EndRoomShareViewer, TypeInv, HostTypes
  <2>4. CommandTypes'
    BY <1>4, SwitchType, SameCommands DEF EndRoomShareViewer, DisarmIfLast, Switch, TypeInv
  <2>5. OverlayTypes'
    BY <1>4 DEF EndRoomShareViewer, TypeInv, OverlayTypes
  <2> QED
    BY <1>2, <2>2, <2>3, <2>4, <2>5, HostStepTypes DEF EndRoomShareViewer
<1> QED
  BY <1>3, <1>4

LEMMA ResolveControlTypes ==
  ASSUME TypeInv, NEW approve \in BOOLEAN, ResolveShareControlRequest(approve)
  PROVE  TypeInv' /\ HostQuiet
<1> DEFINE t == Answer(approve)
<1>1. toViewer' = Told({ctrlReq}, Msg(t, share))
  BY DEF ResolveShareControlRequest
<1>2. t \in {"share_control_grant", "share_control_refused"}
  BY DEF Answer
<1> HIDE DEF t
<1>3. HostQuiet
  BY <1>1, <1>2, TellTypes DEF HostQuiet, ViewerWays
<1>4. HostTypes'
  <2>1. ctrlReq \in Viewers /\ share \in Shares
    BY DEF ResolveShareControlRequest, IsViewer, Watching, TypeInv, HostTypes, OverlayTypes,
       NoShare, Shares
  <2>2. ctrl' \in {ctrl, ctrl \cup {ctrlReq}} /\ granted' \in {granted, granted \cup {<<ctrlReq, share>>}}
    BY DEF ResolveShareControlRequest
  <2> QED
    BY <2>1, <2>2 DEF ResolveShareControlRequest, TypeInv, HostTypes, Sessions
<1>5. OverlayTypes'
  BY DEF ResolveShareControlRequest, TypeInv, OverlayTypes
<1>6. CommandTypes'
  BY SwitchType, SameCommands DEF ResolveShareControlRequest, Switch, TypeInv
<1> QED
  BY <1>3, <1>4, <1>5, <1>6, HostStepTypes, SameWays DEF ResolveShareControlRequest

LEMMA RevokeTypes ==
  ASSUME TypeInv, NEW v \in Viewers, RevokeShareControl(v) PROVE TypeInv' /\ HostQuiet
<1>1. HostQuiet
  BY TellTypes DEF RevokeShareControl, HostQuiet, ViewerWays
<1>2. HostTypes' /\ OverlayTypes'
  BY DEF RevokeShareControl, TypeInv, HostTypes, OverlayTypes
<1>3. CommandTypes'
  BY SwitchType, SameCommands DEF RevokeShareControl, DisarmIfLast, Switch, TypeInv
<1> QED
  BY <1>1, <1>2, <1>3, HostStepTypes, SameWays DEF RevokeShareControl

LEMMA ResolveStopTypes ==
  ASSUME TypeInv, NEW approve \in BOOLEAN, ResolveRoomShareStopRequest(approve)
  PROVE  TypeInv' /\ HostQuiet
<1> DEFINE ack == Told({stopReq}, Msg("room_share_stop_ack", share))
<1>1. /\ ack \in [Viewers -> Seq(Messages)]
      /\ \A w \in Viewers : Quiet(toViewer[w], ack[w])
  BY TellTypes
<1>2. viewers' \in [Shares -> SUBSET Viewers] /\ HostWays'
  BY SameWays DEF ResolveRoomShareStopRequest, TypeInv, HostTypes
<1>3. CASE approve
  <2>1. EndShare({}, ack)
    BY <1>3 DEF ResolveRoomShareStopRequest
  <2>2. toViewer' = Hangups(ack, Watching \ {}, Msg("call_hangup", share))
    BY <2>1 DEF EndShare, Hangups
  <2> HIDE DEF ack
  <2> QED
    BY <1>1, <1>2, <2>1, <2>2, EndShareTypes DEF ResolveRoomShareStopRequest, EndShare
<1>4. CASE ~ approve
  <2>1. toViewer' = ack
    BY <1>4 DEF ResolveRoomShareStopRequest
  <2> HIDE DEF ack
  <2>2. HostQuiet
    BY <1>1, <2>1 DEF HostQuiet, ViewerWays
  <2>3. HostTypes'
    BY <1>4 DEF ResolveRoomShareStopRequest, TypeInv, HostTypes
  <2>4. OverlayTypes'
    BY <1>4 DEF ResolveRoomShareStopRequest, TypeInv, OverlayTypes, StopRequestBar
  <2> QED
    BY <1>2, <1>4, <2>2, <2>3, <2>4, HostStepTypes, SameCommands DEF ResolveRoomShareStopRequest
<1> QED
  BY <1>3, <1>4

LEMMA WayTail ==
  ASSUME HostWays, NEW v \in Viewers, toHost[v] # <<>>
  PROVE  /\ Head(toHost[v]) \in Messages
         /\ [toHost EXCEPT ![v] = Tail(@)] \in [Viewers -> Seq(Messages)]
BY DEF HostWays

LEMMA OnHangupTypes ==
  ASSUME TypeInv, NEW v \in Viewers, NEW k, OnHangup(v, k), HostWays',
         UNCHANGED <<started, inviting, daemonVars, viewerVars, inputs, bounds, granted>>
  PROVE  TypeInv' /\ HostQuiet
<1> DEFINE left == IF share = k THEN Watching \ {v} ELSE Watching
<1>1. CASE OfShare(v, k) /\ share # NoShare /\ left = {}
  <2>1. viewers' \in [Shares -> SUBSET Viewers]
    BY <1>1 DEF OnHangup, TypeInv, HostTypes
  <2>2. EndShare({v}, toViewer)
    BY <1>1 DEF OnHangup
  <2>3. toViewer' = Hangups(toViewer, Watching \ {v}, Msg("call_hangup", share))
    BY <2>2 DEF EndShare, Hangups
  <2> QED
    BY <2>1, <2>2, <2>3, WaysQuiet, EndShareTypes DEF EndShare
<1>2. CASE OfShare(v, k) /\ ~ (share # NoShare /\ left = {})
  <2>0. UNCHANGED <<share, ctrl, overlay, ctrlReq, stopReq, commands, toViewer>>
        /\ calls' = calls \ {<<v, k>>}
        /\ viewers' = IF share = k THEN [viewers EXCEPT ![k] = left] ELSE viewers
    BY <1>2 DEF OnHangup
  <2>1. left \subseteq Viewers
    BY DEF Watching, TypeInv, HostTypes, NoShare, Shares
  <2> HIDE DEF left
  <2>2. HostTypes'
    BY <2>0, <2>1 DEF TypeInv, HostTypes
  <2>3. OverlayTypes'
    BY <2>0 DEF TypeInv, OverlayTypes
  <2> QED
    BY <2>0, <2>2, <2>3, HostStepTypes, SameWays, SameCommands
<1>3. CASE ~ OfShare(v, k)
  <2>0. overlay' = FALSE /\ ctrlReq' = NoOne /\ stopReq' = NoOne
        /\ UNCHANGED <<share, viewers, calls, ctrl, commands, toViewer>>
    BY <1>3 DEF OnHangup
  <2>1. HostTypes'
    BY <2>0 DEF TypeInv, HostTypes
  <2>2. OverlayTypes'
    BY <2>0 DEF OverlayTypes
  <2> QED
    BY <2>0, <2>1, <2>2, HostStepTypes, SameWays, SameCommands
<1> QED
  BY <1>1, <1>2, <1>3

LEMMA HostReceivesTypes ==
  ASSUME TypeInv, NEW v \in Viewers, HostReceives(v) PROVE TypeInv' /\ HostQuiet
<1> DEFINE m == Head(toHost[v])
<1>0. UNCHANGED <<started, inviting, daemonVars, viewerVars, inputs, bounds, granted>>
  BY DEF HostReceives
<1>1. HostWays'
  BY WayTail DEF HostReceives, TypeInv, HostWays
<1>2. CASE OnControlRequest(v)
  <2>1. HostTypes'
    BY <1>0, <1>2 DEF OnControlRequest, TypeInv, HostTypes
  <2>2. OverlayTypes'
    BY <1>2 DEF OnControlRequest, TypeInv, OverlayTypes
  <2> QED
    BY <1>0, <1>1, <1>2, <2>1, <2>2, HostStepTypes, SameWays, SameCommands DEF OnControlRequest
<1>3. CASE OnRelease(v)
  <2>1. HostTypes'
    BY <1>0, <1>3 DEF OnRelease, TypeInv, HostTypes
  <2>2. OverlayTypes'
    BY <1>3 DEF OnRelease, TypeInv, OverlayTypes
  <2>3. CommandTypes'
    BY <1>3, SwitchType, SameCommands DEF OnRelease, DisarmIfLast, Switch, TypeInv
  <2> QED
    BY <1>0, <1>1, <1>3, <2>1, <2>2, <2>3, HostStepTypes, SameWays DEF OnRelease
<1>4. CASE OnStopRequest(v, m.id)
  <2>1. HostTypes'
    BY <1>0, <1>4 DEF OnStopRequest, TypeInv, HostTypes
  <2>2. OverlayTypes'
    BY <1>4 DEF OnStopRequest, TypeInv, OverlayTypes
  <2> QED
    BY <1>0, <1>1, <1>4, <2>1, <2>2, HostStepTypes, SameWays, SameCommands DEF OnStopRequest
<1>5. CASE OnHangup(v, m.id)
  BY <1>0, <1>1, <1>5, OnHangupTypes
<1> QED
  BY <1>2, <1>3, <1>4, <1>5 DEF HostReceives

LEMMA ChannelMessageTypes ==
  ASSUME TypeInv, NEW v \in Viewers, OnChannelMessage(v) PROVE TypeInv' /\ HostQuiet
<1>1. InputWays'
  BY DEF OnChannelMessage, TypeInv, InputWays
<1>2. CommandTypes'
  <2>1. ASSUME NEW s \in calls PROVE Input(s) \in Commands
    BY <2>1 DEF Input, Commands, TypeInv, HostTypes
  <2> QED
    BY <2>1 DEF OnChannelMessage, TypeInv, CommandTypes
<1>3. HostQuiet /\ HostWays' /\ ViewerWays'
  BY SameWays DEF OnChannelMessage
<1>4. Shown'
  BY <1>3, QuietShown DEF OnChannelMessage, viewerVars
<1> QED
  BY <1>1, <1>2, <1>3, <1>4, SameHost, SameDaemon, SameViewer, SameBounds
  DEF OnChannelMessage, TypeInv

LEMMA DaemonHandlesTypes == ASSUME TypeInv, DaemonHandles PROVE TypeInv' /\ HostQuiet
<1>1. Head(commands) \in Commands /\ CommandTypes'
  BY DEF DaemonHandles, TypeInv, CommandTypes
<1>2. DaemonTypes'
  <2>1. Head(commands).on \in BOOLEAN
    BY <1>1 DEF Commands
  <2>2. CASE Head(commands).t = "remote_host"
    BY <2>1, <2>2 DEF DaemonHandles, TypeInv, DaemonTypes
  <2>3. CASE Head(commands).t # "remote_host"
    <3>1. Head(commands).from \in Sessions
      BY <1>1, <2>3 DEF Commands
    <3> QED
      BY <2>1, <2>3, <3>1 DEF DaemonHandles, TypeInv, DaemonTypes
  <2> QED
    BY <2>2, <2>3
<1>3. HostQuiet /\ HostWays' /\ ViewerWays' /\ InputWays'
  BY SameWays DEF DaemonHandles
<1>4. Shown'
  BY <1>3, QuietShown DEF DaemonHandles, viewerVars
<1> QED
  BY <1>1, <1>2, <1>3, <1>4, SameHost, SameViewer, SameBounds DEF DaemonHandles, TypeInv

(* A step of a viewer: what he looks at and what he takes off his way      *)
(* decide.                                                                 *)
LEMMA ViewerStepTypes ==
  ASSUME TypeInv, ViewTypes', SessionTypes', HostWays', ViewerWays', InputWays', BoundTypes',
         ViewShown',
         \A w \in Viewers :
           UNCHANGED toViewer[w] \/ (toViewer[w] # <<>> /\ toViewer'[w] = Tail(toViewer[w])),
         UNCHANGED <<hostVars, commands, daemonVars, granted>>
  PROVE  TypeInv'
<1>1. ASSUME NEW w \in Viewers, NEW n \in 1..Len(toViewer'[w]), toViewer'[w][n].t = "call_invite"
      PROVE  toViewer'[w][n].id \in Shares
  <2>1. toViewer[w] \in Seq(Messages)
    BY DEF TypeInv, ViewerWays
  <2>2. CASE UNCHANGED toViewer[w]
    BY <1>1, <2>2 DEF TypeInv, Shown, ViewShown
  <2>3. CASE toViewer[w] # <<>> /\ toViewer'[w] = Tail(toViewer[w])
    <3>1. n + 1 \in 1..Len(toViewer[w]) /\ toViewer'[w][n] = toViewer[w][n + 1]
      BY <2>1, <2>3
    <3> QED
      BY <1>1, <3>1 DEF TypeInv, Shown, ViewShown
  <2> QED
    BY <2>2, <2>3
<1>2. Shown'
  BY <1>1 DEF Shown
<1> QED
  BY <1>2, SameHost, SameCommands, SameDaemon DEF TypeInv

LEMMA SameLook ==
  ASSUME TypeInv
  PROVE  /\ UNCHANGED view => ViewTypes' /\ ViewShown'
         /\ UNCHANGED <<joined, channel, enabling>> => SessionTypes'
BY DEF TypeInv, ViewTypes, SessionTypes, Shown, ViewShown

LEMMA ClosedTypes ==
  ASSUME TypeInv, NEW v \in Viewers, view' = [view EXCEPT ![v] = NoView]
  PROVE  ViewTypes' /\ ViewShown'
<1>1. NoView \in [share : 0..MaxShares, ringing : BOOLEAN, ctrl : BOOLEAN]
  BY Numbers DEF NoView, NoShare
<1>2. ViewTypes'
  BY <1>1 DEF TypeInv, ViewTypes
<1>3. \A w \in Viewers : view'[w] = IF w = v THEN NoView ELSE view[w]
  BY DEF TypeInv, ViewTypes
<1> QED
  BY <1>2, <1>3 DEF TypeInv, Shown, ViewShown, NoView

LEMMA SetCtrlTypes ==
  ASSUME TypeInv, NEW v \in Viewers, NEW on \in BOOLEAN, SetCtrl(v, on)
  PROVE  ViewTypes' /\ ViewShown'
<1> DEFINE b == on /\ view[v].share # NoShare
<1>0. b \in BOOLEAN
  OBVIOUS
<1>1. view' = [view EXCEPT ![v] = [view[v] EXCEPT !.ctrl = b]]
  BY DEF SetCtrl
<1>2. view[v] \in [share : 0..MaxShares, ringing : BOOLEAN, ctrl : BOOLEAN]
  BY DEF TypeInv, ViewTypes
<1>3. b => view[v].share \in Shares
  BY <1>2 DEF NoShare, Shares
<1> HIDE DEF b
<1>4. [view[v] EXCEPT !.ctrl = b] \in [share : 0..MaxShares, ringing : BOOLEAN, ctrl : BOOLEAN]
  BY <1>0, <1>2
<1>5. ViewTypes'
  BY <1>1, <1>4 DEF TypeInv, ViewTypes
<1>6. \A w \in Viewers : w # v => view'[w] = view[w]
  BY <1>1 DEF TypeInv, ViewTypes
<1>7. view'[v].share = view[v].share /\ view'[v].ringing = view[v].ringing /\ view'[v].ctrl = b
  BY <1>1, <1>2 DEF TypeInv, ViewTypes
<1> QED
  BY <1>3, <1>5, <1>6, <1>7 DEF TypeInv, Shown, ViewShown

LEMMA TellHostTypes ==
  ASSUME TypeInv, NEW v \in Viewers, NEW t \in MsgTypes, NEW k \in 0..MaxShares,
         Tell(v, Msg(t, k))
  PROVE  HostWays'
<1>1. Msg(t, k) \in Messages
  BY MessageTypes
<1> QED
  BY <1>1 DEF Tell, TypeInv, HostWays

LEMMA AcceptTypes ==
  ASSUME TypeInv, NEW v \in Viewers, AcceptIncomingCall(v) PROVE TypeInv'
<1>1. view[v].share \in Shares
  BY DEF AcceptIncomingCall, AcceptButton, TypeInv, Shown, ViewShown
<1>2. SessionTypes'
  BY <1>1 DEF AcceptIncomingCall, Current, TypeInv, SessionTypes, Sessions
<1>3. ViewTypes'
  BY DEF AcceptIncomingCall, TypeInv, ViewTypes
<1>4. \A w \in Viewers : /\ view'[w].share = view[w].share /\ view'[w].ctrl = view[w].ctrl
                         /\ view'[w].ringing => view[w].ringing
  BY DEF AcceptIncomingCall, TypeInv, ViewTypes
<1>5. ViewShown'
  BY <1>4 DEF TypeInv, Shown, ViewShown
<1> QED
  BY <1>2, <1>3, <1>5, ViewerStepTypes, SameWays, SameBounds DEF AcceptIncomingCall

LEMMA CloseTypes == ASSUME TypeInv, NEW v \in Viewers, CloseView(v) PROVE TypeInv'
<1>1. BoundTypes'
  BY Numbers DEF CloseView, TypeInv, BoundTypes
<1> QED
  BY <1>1, ClosedTypes, ViewerStepTypes, SameWays, SameLook DEF CloseView

(* The hangups of hangupDebug.                                             *)
LEMMA HangupMessages ==
  ASSUME NEW v \in Viewers
  PROVE  LET M == {Msg("call_hangup", k) : k \in {k \in Shares : <<v, k>> \in joined}}
         IN  SetToSeq(M) \in Seq(M) /\ M \subseteq Messages
<1> DEFINE D == {k \in Shares : <<v, k>> \in joined}
           M == {Msg("call_hangup", k) : k \in D}
<1>1. SetToSeq(M) \in Seq(M)
  <2>1. IsFiniteSet(Shares)
    BY Numbers, FS_Interval DEF Shares
  <2>2. IsFiniteSet(D)
    BY <2>1, FS_Subset
  <2>3. IsFiniteSet(M)
    <3> DEFINE f == [k \in D |-> Msg("call_hangup", k)]
    <3>1. f \in Surjection(D, M)
      BY DEF Surjection
    <3> QED
      BY <2>2, <3>1, FS_Surjection
  <2> QED
    BY <2>3, SetToSeqElements
<1>2. M \subseteq Messages
  <2>1. \A k \in Shares : Msg("call_hangup", k) \in Messages
    BY Numbers, MessageTypes DEF MsgTypes
  <2> QED
    BY <2>1
<1> QED
  BY <1>1, <1>2

LEMMA HangupAllTypes == ASSUME TypeInv, NEW v \in Viewers, HangupAll(v) PROVE TypeInv'
<1> DEFINE M == {Msg("call_hangup", k) : k \in {k \in Shares : <<v, k>> \in joined}}
<1>1. BoundTypes'
  BY Numbers DEF HangupAll, TypeInv, BoundTypes
<1>2. SessionTypes'
  BY DEF HangupAll, TypeInv, SessionTypes
<1>3. SetToSeq(M) \in Seq(M) /\ M \subseteq Messages
  BY HangupMessages
<1>4. toHost' = [toHost EXCEPT ![v] = @ \o SetToSeq(M)]
  BY DEF HangupAll
<1> HIDE DEF M
<1>5. SetToSeq(M) \in Seq(Messages)
  BY <1>3
<1>6. HostWays'
  BY <1>4, <1>5 DEF TypeInv, HostWays
<1> QED
  BY <1>1, <1>2, <1>6, ClosedTypes, ViewerStepTypes, SameWays DEF HangupAll

LEMMA RequestTypes ==
  ASSUME TypeInv, NEW v \in Viewers,
         RequestShareControl(v) \/ StopButton(v) \/ StopByScript(v)
  PROVE  TypeInv'
<1>1. view[v].share \in 0..MaxShares /\ Room \in 0..MaxShares
  BY Numbers DEF TypeInv, ViewTypes, Room
<1>2. HostWays'
  BY <1>1, TellHostTypes DEF RequestShareControl, StopButton, StopByScript, RequestRoomShareStop,
     MsgTypes
<1>3. /\ requests < MaxRequests /\ requests' = requests + 1
      /\ UNCHANGED <<hostVars, commands, daemonVars, viewerVars, toViewer, inputs, leaves, sent, granted>>
  BY DEF RequestShareControl, StopButton, StopByScript, RequestRoomShareStop
<1>4. BoundTypes'
  BY <1>3, Numbers DEF TypeInv, BoundTypes
<1> QED
  BY <1>2, <1>3, <1>4, ViewerStepTypes, SameWays, SameLook DEF viewerVars

LEMMA EndControlTypes == ASSUME TypeInv, NEW v \in Viewers, EndControl(v) PROVE TypeInv'
<1>1. view[v].share \in 0..MaxShares
  BY DEF TypeInv, ViewTypes
<1>2. HostWays'
  BY <1>1, TellHostTypes DEF EndControl, DisableShareControl, MsgTypes
<1> QED
  BY <1>2, SetCtrlTypes, ViewerStepTypes, SameWays, SameLook, SameBounds
  DEF EndControl, DisableShareControl

LEMMA OfferTypes ==
  ASSUME TypeInv, NEW v \in Viewers, NEW k \in Shares, OfferSent(v, k) PROVE TypeInv'
<1>1. SessionTypes'
  BY DEF OfferSent, TypeInv, SessionTypes
<1> QED
  BY <1>1, SetCtrlTypes, ViewerStepTypes, SameWays, SameBounds DEF OfferSent

LEMMA InputTypes == ASSUME TypeInv, NEW v \in Viewers, SendRemoteInput(v) PROVE TypeInv'
<1>1. view[v].share \in Shares
  BY DEF SendRemoteInput, ControlPanel, TypeInv, Shown, ViewShown
<1>2. InputWays'
  BY <1>1 DEF SendRemoteInput, SendInput, TypeInv, InputWays
<1>3. BoundTypes'
  BY Numbers DEF SendRemoteInput, TypeInv, BoundTypes
<1> QED
  BY <1>2, <1>3, ViewerStepTypes, SameWays, SameLook DEF SendRemoteInput, viewerVars

LEMMA ViewerReceivesTypes ==
  ASSUME TypeInv, NEW v \in Viewers, ViewerReceives(v) PROVE TypeInv'
<1> DEFINE m == Head(toViewer[v])
<1>0. /\ toViewer[v] # <<>> /\ toViewer[v] \in Seq(Messages)
      /\ toViewer' = [toViewer EXCEPT ![v] = Tail(@)]
      /\ UNCHANGED <<hostVars, commands, daemonVars, inputs, bounds, granted>>
  BY DEF ViewerReceives, TypeInv, ViewerWays
<1>1. ViewerWays' /\ InputWays' /\ BoundTypes'
  BY <1>0, SameWays, SameBounds DEF TypeInv, ViewerWays
<1>2. \A w \in Viewers :
        UNCHANGED toViewer[w] \/ (toViewer[w] # <<>> /\ toViewer'[w] = Tail(toViewer[w]))
  BY <1>0 DEF TypeInv, ViewerWays
<1>3. m \in Messages /\ (m.t = "call_invite" => m.id \in Shares)
  <2>1. 1 \in 1..Len(toViewer[v]) /\ m = toViewer[v][1]
    BY <1>0
  <2> QED
    BY <1>0, <2>1 DEF TypeInv, Shown, ViewShown
<1> DEFINE Fine == ViewTypes' /\ SessionTypes' /\ HostWays' /\ ViewShown'
<1>4. ASSUME m.t = "call_invite" PROVE Fine
  <2> DEFINE o == [share |-> m.id, ringing |-> TRUE, ctrl |-> FALSE]
  <2>1. view' = [view EXCEPT ![v] = o] /\ UNCHANGED <<joined, channel, enabling, toHost>>
    BY <1>4 DEF ViewerReceives
  <2>2. o \in [share : 0..MaxShares, ringing : BOOLEAN, ctrl : BOOLEAN] /\ o.share \in Shares
    BY <1>3, <1>4, Numbers
  <2> HIDE DEF o, m
  <2>3. ViewTypes' /\ \A w \in Viewers : view'[w] = IF w = v THEN o ELSE view[w]
    BY <2>1, <2>2 DEF TypeInv, ViewTypes
  <2> QED
    BY <2>1, <2>2, <2>3, SameWays, SameLook DEF TypeInv, Shown, ViewShown
<1>5. ASSUME m.t = "call_hangup" PROVE Fine
  <2>1. /\ view' = [view EXCEPT ![v] = NoView] /\ UNCHANGED toHost
        /\ joined' = joined \ {<<v, m.id>>} /\ channel' = channel \ {<<v, m.id>>}
        /\ enabling' = enabling \ {<<v, m.id>>}
    BY <1>5 DEF ViewerReceives
  <2>2. SessionTypes'
    BY <2>1 DEF TypeInv, SessionTypes
  <2> QED
    BY <2>1, <2>2, ClosedTypes, SameWays
<1>6. ASSUME m.t = "share_control_grant" PROVE Fine
  <2>1. UNCHANGED <<joined, toHost>>
    BY <1>6 DEF ViewerReceives
  <2>2. CASE view[v].share # NoShare
    <3>1. EnableShareControl(v)
      BY <1>6, <2>2 DEF ViewerReceives
    <3>2. Current(v) \in Sessions
      BY <2>2 DEF Current, Sessions, TypeInv, ViewTypes, NoShare, Shares
    <3>3. SessionTypes'
      BY <2>1, <3>1, <3>2 DEF EnableShareControl, TypeInv, SessionTypes
    <3> QED
      BY <2>1, <3>1, <3>3, SetCtrlTypes, SameWays, SameLook DEF EnableShareControl
  <2>3. CASE view[v].share = NoShare
    <3>1. UNCHANGED <<view, channel, enabling>>
      BY <1>6, <2>3 DEF ViewerReceives
    <3> QED
      BY <2>1, <3>1, SameWays, SameLook
  <2> QED
    BY <2>2, <2>3
<1>7. ASSUME m.t = "share_control_revoke" PROVE Fine
  <2>1. UNCHANGED <<joined, channel, enabling>>
    BY <1>7 DEF ViewerReceives
  <2>2. CASE view[v].share # NoShare
    <3>1. DisableShareControl(v)
      BY <1>7, <2>2 DEF ViewerReceives
    <3>2. view[v].share \in 0..MaxShares
      BY DEF TypeInv, ViewTypes
    <3> QED
      BY <2>1, <3>1, <3>2, SetCtrlTypes, TellHostTypes, SameLook DEF DisableShareControl, MsgTypes
  <2>3. CASE view[v].share = NoShare
    <3>1. UNCHANGED <<view, toHost>>
      BY <1>7, <2>3 DEF ViewerReceives
    <3> QED
      BY <2>1, <3>1, SameWays, SameLook
  <2> QED
    BY <2>2, <2>3
<1>8. ASSUME m.t \in {"share_control_refused", "room_share_stop_ack"} PROVE Fine
  <2>1. UNCHANGED <<viewerVars, toHost>>
    BY <1>8 DEF ViewerReceives
  <2> QED
    BY <2>1, SameWays, SameLook DEF viewerVars
<1>9. Fine
  BY <1>4, <1>5, <1>6, <1>7, <1>8 DEF ViewerReceives
<1> QED
  BY <1>0, <1>1, <1>2, <1>9, ViewerStepTypes

(* Every variable keeps its type in every step.                            *)
LEMMA TypeStep == ASSUME TypeInv, [Next]_vars PROVE TypeInv'
<1>1. CASE UNCHANGED vars
  BY <1>1, SameHost, SameDaemon, SameCommands, SameViewer, SameWays, SameBounds, QuietShown
  DEF vars, viewerVars, TypeInv
<1>2. CASE Next
  BY <1>2, StartTypes, EndRoomShareTypes, DaemonHandlesTypes, ResolveControlTypes,
     ResolveStopTypes, EndViewerTypes, RevokeTypes, HostReceivesTypes, ChannelMessageTypes,
     AcceptTypes, CloseTypes, HangupAllTypes, RequestTypes, EndControlTypes,
     ViewerReceivesTypes, InputTypes, OfferTypes, InviteTypes
  DEF Next
<1> QED
  BY <1>1, <1>2

LEMMA TypesOK == ASSUME TypeInv PROVE TypeOK
BY DEF TypeInv, TypeOK, HostTypes, OverlayTypes, DaemonTypes, CommandTypes, Commands, ViewTypes,
   SessionTypes, HostWays, ViewerWays, InputWays, BoundTypes

(* The host's page, its daemon and the viewers keep their types.           *)
THEOREM TypeCorrect == Spec => []TypeOK
<1>1. Init => TypeInv
  BY InitTypes
<1>2. TypeInv /\ [Next]_vars => TypeInv'
  BY TypeStep
<1>3. TypeInv => TypeOK
  BY TypesOK
<1> QED
  BY <1>1, <1>2, <1>3, PTL DEF Spec

-----------------------------------------------------------------------------
(* The switch *)

(* What a command sets the switch to, and what an input leaves it at.      *)
LEMMA SwitchAppend ==
  ASSUME NEW q \in Seq(Commands), NEW h, NEW c \in Commands, NEW on,
         \/ c.t = "remote_host" /\ c.on = on
         \/ c.t # "remote_host" /\ SwitchAfter(h, q, Len(q), on)
  PROVE  SwitchAfter(h, Append(q, c), Len(Append(q, c)), on)
<1> DEFINE r == Append(q, c)
<1>1. /\ Len(r) = Len(q) + 1 /\ r[Len(q) + 1] = c /\ Len(q) \in Nat
      /\ \A i \in 1..Len(q) : r[i] = q[i]
  OBVIOUS
<1> HIDE DEF r
<1>2. CASE c.t = "remote_host" /\ c.on = on
  <2>1. Len(r) \in 1..Len(r) /\ r[Len(r)].t = "remote_host" /\ r[Len(r)].on = on
    BY <1>1, <1>2
  <2>2. \A j \in (Len(r) + 1)..Len(r) : r[j].t # "remote_host"
    BY <1>1
  <2> QED
    BY <2>1, <2>2 DEF SwitchAfter, r
<1>3. CASE c.t # "remote_host" /\ SwitchAfter(h, q, Len(q), on)
  <2>1. CASE h = on /\ \A i \in 1..Len(q) : q[i].t # "remote_host"
    <3>1. \A i \in 1..Len(r) : r[i].t # "remote_host"
      BY <1>1, <1>3, <2>1
    <3> QED
      BY <2>1, <3>1 DEF SwitchAfter, r
  <2>2. CASE \E i \in 1..Len(q) :
               /\ q[i].t = "remote_host" /\ q[i].on = on
               /\ \A j \in (i + 1)..Len(q) : q[j].t # "remote_host"
    <3>1. PICK i \in 1..Len(q) :
               /\ q[i].t = "remote_host" /\ q[i].on = on
               /\ \A j \in (i + 1)..Len(q) : q[j].t # "remote_host"
      BY <2>2
    <3>2. \A j \in (i + 1)..Len(r) : r[j].t # "remote_host"
      BY <1>1, <1>3, <3>1
    <3>3. i \in 1..Len(r) /\ r[i].t = "remote_host" /\ r[i].on = on
      BY <1>1, <3>1
    <3> QED
      BY <3>2, <3>3 DEF SwitchAfter, r
  <2> QED
    BY <1>3, <2>1, <2>2 DEF SwitchAfter
<1> QED
  BY <1>2, <1>3

(* The switch depends on the commands before.                              *)
LEMMA SwitchPrefix ==
  ASSUME NEW q, NEW r, NEW h, NEW n \in Int, NEW on,
         \A i \in 1..n : q[i] = r[i], SwitchAfter(h, q, n, on)
  PROVE  SwitchAfter(h, r, n, on)
<1>1. CASE h = on /\ \A i \in 1..n : q[i].t # "remote_host"
  BY <1>1 DEF SwitchAfter
<1>2. CASE \E i \in 1..n : /\ q[i].t = "remote_host" /\ q[i].on = on
                          /\ \A j \in (i + 1)..n : q[j].t # "remote_host"
  <2>1. PICK i \in 1..n : /\ q[i].t = "remote_host" /\ q[i].on = on
                          /\ \A j \in (i + 1)..n : q[j].t # "remote_host"
    BY <1>2
  <2>2. \A j \in (i + 1)..n : r[j].t # "remote_host"
    BY <2>1
  <2> QED
    BY <2>1, <2>2 DEF SwitchAfter
<1> QED
  BY <1>1, <1>2 DEF SwitchAfter

LEMMA InputsAppend ==
  ASSUME NEW q \in Seq(Commands), NEW h, NEW c \in Commands, InputsAgree(h, q),
         c.t = "remote_host" \/ SwitchAfter(h, q, Len(q), c.on)
  PROVE  InputsAgree(h, Append(q, c))
<1> DEFINE r == Append(q, c)
<1>1. /\ Len(r) = Len(q) + 1 /\ r[Len(q) + 1] = c /\ Len(q) \in Nat
      /\ \A i \in 1..Len(q) : r[i] = q[i]
  OBVIOUS
<1> HIDE DEF r
<1>2. ASSUME NEW n \in 1..Len(r), r[n].t = "remote_input"
      PROVE  SwitchAfter(h, r, n - 1, r[n].on)
  <2>1. n - 1 \in Int /\ \A i \in 1..(n - 1) : q[i] = r[i]
    BY <1>1
  <2>2. SwitchAfter(h, q, n - 1, r[n].on)
    <3>1. CASE n \in 1..Len(q)
      BY <1>1, <1>2, <3>1 DEF InputsAgree
    <3>2. CASE n = Len(q) + 1
      BY <1>1, <1>2, <3>2
    <3> QED
      BY <1>1, <3>1, <3>2
  <2> QED
    BY <2>1, <2>2, SwitchPrefix
<1> QED
  BY <1>2 DEF InputsAgree, r

(* A command was handled: the switch is at g.                              *)
LEMMA SwitchTail ==
  ASSUME NEW q \in Seq(Commands), q # <<>>, NEW h, NEW g, NEW n \in 1..Len(q), NEW on,
         g = IF Head(q).t = "remote_host" THEN Head(q).on ELSE h,
         SwitchAfter(h, q, n, on)
  PROVE  SwitchAfter(g, Tail(q), n - 1, on)
<1> DEFINE r == Tail(q)
<1>1. /\ Len(r) = Len(q) - 1 /\ Len(q) \in Nat \ {0} /\ Head(q) = q[1]
      /\ \A i \in 1..(Len(q) - 1) : r[i] = q[i + 1]
  OBVIOUS
<1> HIDE DEF r
<1>2. CASE h = on /\ \A i \in 1..n : q[i].t # "remote_host"
  <2>1. g = on
    BY <1>1, <1>2
  <2>2. \A i \in 1..(n - 1) : r[i].t # "remote_host"
    BY <1>1, <1>2
  <2> QED
    BY <2>1, <2>2 DEF SwitchAfter, r
<1>3. CASE \E i \in 1..n : /\ q[i].t = "remote_host" /\ q[i].on = on
                          /\ \A j \in (i + 1)..n : q[j].t # "remote_host"
  <2>1. PICK i \in 1..n : /\ q[i].t = "remote_host" /\ q[i].on = on
                          /\ \A j \in (i + 1)..n : q[j].t # "remote_host"
    BY <1>3
  <2>2. ASSUME NEW j \in i..(n - 1) PROVE r[j].t # "remote_host"
    <3>1. j + 1 \in (i + 1)..n /\ j \in 1..(Len(q) - 1)
      BY <1>1, <2>1
    <3> QED
      BY <1>1, <2>1, <3>1
  <2>3. CASE i = 1
    BY <1>1, <2>1, <2>2, <2>3 DEF SwitchAfter, r
  <2>4. CASE i # 1
    <3>1. i - 1 \in 1..(n - 1) /\ r[i - 1].t = "remote_host" /\ r[i - 1].on = on
      BY <1>1, <2>1, <2>4
    <3>2. \A j \in ((i - 1) + 1)..(n - 1) : r[j].t # "remote_host"
      BY <2>2
    <3> QED
      BY <3>1, <3>2 DEF SwitchAfter, r
  <2> QED
    BY <2>3, <2>4
<1> QED
  BY <1>2, <1>3 DEF SwitchAfter

LEMMA InputsTail ==
  ASSUME NEW q \in Seq(Commands), q # <<>>, NEW h, NEW g,
         g = IF Head(q).t = "remote_host" THEN Head(q).on ELSE h,
         InputsAgree(h, q)
  PROVE  InputsAgree(g, Tail(q))
<1> SUFFICES ASSUME NEW n \in 1..Len(Tail(q)), Tail(q)[n].t = "remote_input"
             PROVE  SwitchAfter(g, Tail(q), n - 1, Tail(q)[n].on)
  BY DEF InputsAgree
<1>1. n + 1 \in 1..Len(q) /\ Tail(q)[n] = q[n + 1] /\ n \in 1..Len(q)
  OBVIOUS
<1>2. SwitchAfter(h, q, (n + 1) - 1, q[n + 1].on)
  BY <1>1 DEF InputsAgree
<1>3. SwitchAfter(h, q, n, q[n + 1].on)
  BY <1>2, <1>1
<1> QED
  BY <1>1, <1>3, SwitchTail

(* The steps that touch the controllers.                                   *)
LEMMA SwitchSame ==
  ASSUME SwitchInv, UNCHANGED <<commands, daemonVars>>, ctrl' = {} <=> ctrl = {}
  PROVE  SwitchInv'
<1>1. (ctrl # {}) = (ctrl' # {})
  OBVIOUS
<1>2. SwitchFollowsControllers'
  BY <1>1 DEF SwitchInv, SwitchFollowsControllers, daemonVars
<1> QED
  BY <1>2 DEF SwitchInv, InjectedUnderControl, daemonVars

LEMMA SwitchSet ==
  ASSUME CommandTypes, SwitchInv, NEW on \in BOOLEAN, Switch(on), on <=> ctrl' # {},
         UNCHANGED daemonVars
  PROVE  SwitchInv'
<1> DEFINE c == [t |-> "remote_host", on |-> on]
<1>1. c \in Commands /\ c.t = "remote_host" /\ c.on = on /\ commands' = Append(commands, c)
  BY DEF Commands, Switch
<1>2. on = (ctrl' # {})
  OBVIOUS
<1> HIDE DEF c
<1>3. SwitchAfter(hosting, Append(commands, c), Len(Append(commands, c)), on)
  BY <1>1, SwitchAppend DEF CommandTypes
<1>4. InputsAgree(hosting, Append(commands, c))
  BY <1>1, InputsAppend DEF CommandTypes, SwitchInv
<1>5. SwitchFollowsControllers'
  BY <1>1, <1>2, <1>3 DEF SwitchFollowsControllers, daemonVars
<1> QED
  BY <1>1, <1>4, <1>5 DEF SwitchInv, InjectedUnderControl, daemonVars

LEMMA SwitchInput ==
  ASSUME CommandTypes, SwitchInv, NEW s \in Sessions, commands' = Append(commands, Input(s)),
         UNCHANGED <<ctrl, daemonVars>>
  PROVE  SwitchInv'
<1> DEFINE on == ctrl # {}
           c == Input(s)
<1>1. c \in Commands /\ c.t = "remote_input" /\ c.on = on
  BY DEF Input, Commands
<1>2. SwitchAfter(hosting, commands, Len(commands), on)
  BY DEF SwitchInv, SwitchFollowsControllers
<1>3. commands' = Append(commands, c)
  OBVIOUS
<1> HIDE DEF on, c
<1>4. SwitchAfter(hosting, Append(commands, c), Len(Append(commands, c)), on)
  BY <1>1, <1>2, SwitchAppend DEF CommandTypes
<1>5. InputsAgree(hosting, Append(commands, c))
  BY <1>1, <1>2, InputsAppend DEF CommandTypes, SwitchInv
<1>6. SwitchFollowsControllers'
  BY <1>3, <1>4 DEF SwitchFollowsControllers, daemonVars, on
<1> QED
  BY <1>3, <1>5, <1>6 DEF SwitchInv, InjectedUnderControl, daemonVars

LEMMA SwitchHandles == ASSUME CommandTypes, SwitchInv, DaemonHandles PROVE SwitchInv'
<1> DEFINE c == Head(commands)
<1>1. /\ commands \in Seq(Commands) /\ commands # <<>> /\ commands' = Tail(commands)
      /\ c = commands[1] /\ c \in Commands /\ Len(commands) \in 1..Len(commands)
      /\ Len(Tail(commands)) = Len(commands) - 1 /\ 1 \in 1..Len(commands)
      /\ UNCHANGED ctrl
  BY DEF CommandTypes, DaemonHandles, hostVars
<1>2. hosting' = IF c.t = "remote_host" THEN c.on ELSE hosting
  BY DEF DaemonHandles
<1>3. SwitchAfter(hosting', Tail(commands), Len(commands) - 1, ctrl # {})
  <2> DEFINE on == ctrl # {}
  <2>1. SwitchAfter(hosting, commands, Len(commands), on)
    BY DEF SwitchInv, SwitchFollowsControllers
  <2> HIDE DEF on
  <2>2. SwitchAfter(hosting', Tail(commands), Len(commands) - 1, on)
    BY <1>1, <1>2, <2>1, SwitchTail
  <2> QED
    BY <2>2 DEF on
<1>4. InputsAgree(hosting', Tail(commands))
  BY <1>1, <1>2, InputsTail DEF SwitchInv
<1>5. InjectedUnderControl'
  <2>1. CASE c.t = "remote_host"
    BY <2>1 DEF DaemonHandles, SwitchInv, InjectedUnderControl
  <2>2. CASE c.t # "remote_host"
    <3>1. c.t = "remote_input"
      BY <1>1, <2>2 DEF Commands
    <3>2. SwitchAfter(hosting, commands, 1 - 1, c.on)
      BY <1>1, <3>1 DEF SwitchInv, InputsAgree
    <3>3. hosting = c.on
      BY <3>2 DEF SwitchAfter
    <3>4. verdicts' = verdicts \cup {[from |-> c.from, on |-> c.on, injected |-> hosting]}
      BY <2>2 DEF DaemonHandles
    <3> QED
      BY <3>3, <3>4 DEF SwitchInv, InjectedUnderControl
  <2> QED
    BY <2>1, <2>2
<1>6. SwitchFollowsControllers'
  BY <1>1, <1>3 DEF SwitchFollowsControllers
<1> QED
  BY <1>1, <1>4, <1>5, <1>6 DEF SwitchInv

(* A controller was taken out.                                             *)
LEMMA SwitchDisarm ==
  ASSUME CommandTypes, SwitchInv, NEW v, ctrl' = ctrl \ {v}, DisarmIfLast(ctrl \ {v}),
         UNCHANGED daemonVars
  PROVE  SwitchInv'
<1>1. CASE ctrl \ {v} = {}
  BY <1>1, SwitchSet DEF DisarmIfLast
<1>2. CASE ctrl \ {v} # {}
  BY <1>2, SwitchSame DEF DisarmIfLast
<1> QED
  BY <1>1, <1>2

LEMMA SwitchInit == ASSUME Init PROVE SwitchInv
<1>1. hosting = (ctrl # {}) /\ commands = <<>> /\ verdicts = {} /\ Len(<<>>) = 0
  BY DEF Init
<1> QED
  BY <1>1 DEF SwitchInv, SwitchFollowsControllers, InputsAgree, InjectedUnderControl, SwitchAfter

LEMMA SwitchReceives ==
  ASSUME CommandTypes, SwitchInv, NEW v \in Viewers, HostReceives(v) PROVE SwitchInv'
<1> DEFINE m == Head(toHost[v])
<1>0. UNCHANGED daemonVars
  BY DEF HostReceives
<1>1. CASE OnControlRequest(v) \/ OnStopRequest(v, m.id)
  BY <1>0, <1>1, SwitchSame DEF OnControlRequest, OnStopRequest
<1>2. CASE OnRelease(v)
  BY <1>0, <1>2, SwitchDisarm, SwitchSame DEF OnRelease
<1>3. CASE OnHangup(v, m.id)
  <2>1. \/ UNCHANGED <<commands, ctrl>>
        \/ Switch(FALSE) /\ ctrl' = {}
    BY <1>3 DEF OnHangup, EndShare
  <2> QED
    BY <1>0, <2>1, SwitchSame, SwitchSet
<1> QED
  BY <1>1, <1>2, <1>3 DEF HostReceives

(* The switch follows in every step.                                       *)
LEMMA SwitchStep == ASSUME TypeInv, SwitchInv, [Next]_vars PROVE SwitchInv'
<1>0. CommandTypes
  BY DEF TypeInv
<1>1. CASE UNCHANGED <<commands, daemonVars, ctrl>>
  BY <1>1, SwitchSame
<1>2. CASE EndRoomShare
  BY <1>0, <1>2, SwitchSet DEF EndRoomShare, EndShare
<1>3. ASSUME NEW approve \in BOOLEAN, ResolveShareControlRequest(approve) PROVE SwitchInv'
  <2>1. \/ UNCHANGED <<commands, daemonVars, ctrl>>
        \/ Switch(TRUE) /\ ctrl' # {} /\ UNCHANGED daemonVars
    BY <1>3 DEF ResolveShareControlRequest
  <2> QED
    BY <1>0, <2>1, SwitchSame, SwitchSet
<1>4. ASSUME NEW approve \in BOOLEAN, ResolveRoomShareStopRequest(approve) PROVE SwitchInv'
  <2>1. \/ UNCHANGED <<commands, daemonVars, ctrl>>
        \/ Switch(FALSE) /\ ctrl' = {} /\ UNCHANGED daemonVars
    BY <1>4 DEF ResolveRoomShareStopRequest, EndShare
  <2> QED
    BY <1>0, <2>1, SwitchSame, SwitchSet
<1>5. ASSUME NEW v \in Viewers, EndRoomShareViewer(v) PROVE SwitchInv'
  <2>1. UNCHANGED daemonVars
    BY <1>5 DEF EndRoomShareViewer
  <2>2. \/ Switch(FALSE) /\ ctrl' = {}
        \/ ctrl' = ctrl \ {v} /\ DisarmIfLast(ctrl \ {v})
    BY <1>5 DEF EndRoomShareViewer, EndShare
  <2> QED
    BY <1>0, <2>1, <2>2, SwitchDisarm, SwitchSet
<1>6. ASSUME NEW v \in Viewers, RevokeShareControl(v) PROVE SwitchInv'
  BY <1>0, <1>6, SwitchDisarm DEF RevokeShareControl
<1>7. ASSUME NEW v \in Viewers, HostReceives(v) PROVE SwitchInv'
  BY <1>0, <1>7, SwitchReceives
<1>8. ASSUME NEW v \in Viewers, OnChannelMessage(v) PROVE SwitchInv'
  <2>1. UNCHANGED <<ctrl, daemonVars>> /\ calls \subseteq Sessions
    BY <1>8 DEF OnChannelMessage, hostVars, TypeInv, HostTypes
  <2>2. UNCHANGED commands \/ \E s \in Sessions : commands' = Append(commands, Input(s))
    BY <1>8, <2>1 DEF OnChannelMessage
  <2> QED
    BY <1>0, <2>1, <2>2, SwitchInput, SwitchSame
<1>9. CASE DaemonHandles
  BY <1>0, <1>9, SwitchHandles
<1>10. ASSUME StartRoomShare PROVE UNCHANGED <<commands, daemonVars, ctrl>>
  BY <1>10 DEF StartRoomShare
<1>11. ASSUME NEW v \in Viewers,
              \/ AcceptIncomingCall(v) \/ CloseView(v) \/ HangupAll(v) \/ RequestShareControl(v)
              \/ StopButton(v) \/ StopByScript(v) \/ EndControl(v) \/ ViewerReceives(v)
              \/ SendRemoteInput(v) \/ \E k \in Shares : OfferSent(v, k) \/ InviteNext(v, k)
       PROVE  UNCHANGED <<commands, daemonVars, ctrl>>
  BY <1>11 DEF hostVars, AcceptIncomingCall, CloseView, HangupAll, RequestShareControl, StopButton,
     StopByScript, RequestRoomShareStop, EndControl, ViewerReceives, SendRemoteInput, OfferSent,
     InviteNext
<1>12. ASSUME UNCHANGED vars PROVE UNCHANGED <<commands, daemonVars, ctrl>>
  BY <1>12 DEF vars, hostVars
<1> QED
  BY <1>1, <1>2, <1>3, <1>4, <1>5, <1>6, <1>7, <1>8, <1>9, <1>10, <1>11, <1>12 DEF Next

(* The daemon's one switch is on, as soon as it has handled what is on its *)
(* way to it, if and only if the host's page has any controller at all.    *)
THEOREM SwitchIsRight == Spec => []SwitchFollowsControllers
<1>1. Init => TypeInv /\ SwitchInv
  BY InitTypes, SwitchInit
<1>2. TypeInv /\ SwitchInv /\ [Next]_vars => TypeInv' /\ SwitchInv'
  BY TypeStep, SwitchStep
<1>3. SwitchInv => SwitchFollowsControllers
  BY DEF SwitchInv
<1> QED
  BY <1>1, <1>2, <1>3, PTL DEF Spec

-----------------------------------------------------------------------------
(* The ways *)

LEMMA QuietWay ==
  ASSUME NEW q \in Seq(Messages), NEW r, Quiet(q, r), NEW k, NEW t
  PROVE  /\ Invited(r, k) <=> Invited(q, k)
         /\ InvitedOnce(q, k) => InvitedOnce(r, k)
         /\ GrantBehind(q, k) => GrantBehind(r, k)
         /\ Has(q, t) => Has(r, t)
<1>1. /\ Len(q) \in Nat /\ Len(r) \in Nat /\ Len(q) <= Len(r)
      /\ \A n \in 1..Len(q) : r[n] = q[n] /\ n \in 1..Len(r)
  BY DEF Quiet
<1>2. \A n \in 1..Len(r) : InviteAt(r, n, k) => n \in 1..Len(q) /\ InviteAt(q, n, k)
  BY <1>1 DEF InviteAt, Quiet
<1>3. \A n \in 1..Len(q) : InviteAt(q, n, k) => n \in 1..Len(r) /\ InviteAt(r, n, k)
  BY <1>1 DEF InviteAt
<1>4. Invited(r, k) <=> Invited(q, k)
  BY <1>2, <1>3 DEF Invited
<1>5. InvitedOnce(q, k) => InvitedOnce(r, k)
  BY <1>2 DEF InvitedOnce
<1>6. ASSUME GrantBehind(q, k) PROVE GrantBehind(r, k)
  <2>1. SUFFICES ASSUME NEW m \in 1..Len(r), InviteAt(r, m, k)
                 PROVE  \E n \in (m + 1)..Len(r) : r[n].t = "share_control_grant"
    BY DEF GrantBehind
  <2>2. PICK n \in (m + 1)..Len(q) : q[n].t = "share_control_grant"
    BY <1>2, <1>6, <2>1 DEF GrantBehind
  <2>3. n \in (m + 1)..Len(r) /\ r[n] = q[n]
    BY <1>1, <1>2, <2>1
  <2> QED
    BY <2>2, <2>3
<1>7. Has(q, t) => Has(r, t)
  BY <1>1 DEF Has
<1> QED
  BY <1>4, <1>5, <1>6, <1>7

LEMMA TailWay ==
  ASSUME NEW q \in Seq(Messages), q # <<>>, NEW k, NEW t
  PROVE  /\ Invited(Tail(q), k) => Invited(q, k)
         /\ Head(q).t = "call_invite" => Invited(q, Head(q).id)
         /\ Head(q).t = "call_invite" /\ Head(q).id = k /\ InvitedOnce(q, k)
              => ~ Invited(Tail(q), k)
         /\ InvitedOnce(q, k) => InvitedOnce(Tail(q), k)
         /\ GrantBehind(q, k) => GrantBehind(Tail(q), k)
         /\ Head(q).t = "call_invite" /\ Head(q).id = k /\ GrantBehind(q, k)
              => Has(Tail(q), "share_control_grant")
         /\ Head(q).t # t /\ Has(q, t) => Has(Tail(q), t)
<1> DEFINE r == Tail(q)
<1>1. /\ Len(q) \in Nat \ {0} /\ Len(r) = Len(q) - 1 /\ Head(q) = q[1]
      /\ \A n \in 1..(Len(q) - 1) : r[n] = q[n + 1]
  OBVIOUS
<1> HIDE DEF r
<1>2. \A n \in 1..Len(r) : InviteAt(r, n, k) => n + 1 \in 1..Len(q) /\ InviteAt(q, n + 1, k)
  BY <1>1 DEF InviteAt
<1>3. \A n \in 2..Len(q) : n - 1 \in 1..Len(r) /\ q[n] = r[n - 1]
  BY <1>1
<1>4. 1 \in 1..Len(q)
  BY <1>1
<1>5. Invited(r, k) => Invited(q, k)
  BY <1>2 DEF Invited
<1>6. Head(q).t = "call_invite" => Invited(q, Head(q).id)
  BY <1>1, <1>4 DEF Invited, InviteAt
<1>7. Head(q).t = "call_invite" /\ Head(q).id = k /\ InvitedOnce(q, k) => ~ Invited(r, k)
  <2>1. ASSUME InviteAt(q, 1, k), InvitedOnce(q, k), NEW n \in 1..Len(r), InviteAt(r, n, k)
        PROVE  FALSE
    <3>1. n + 1 = 1
      BY <1>2, <1>4, <2>1 DEF InvitedOnce
    <3> QED
      BY <1>1, <3>1
  <2> QED
    BY <1>1, <2>1 DEF Invited, InviteAt
<1>8. InvitedOnce(q, k) => InvitedOnce(r, k)
  <2>1. ASSUME InvitedOnce(q, k), NEW m \in 1..Len(r), NEW n \in 1..Len(r),
               InviteAt(r, m, k), InviteAt(r, n, k)
        PROVE  m = n
    <3>1. m + 1 = n + 1
      BY <1>2, <2>1 DEF InvitedOnce
    <3> QED
      BY <3>1
  <2> QED
    BY <2>1 DEF InvitedOnce
<1>9. ASSUME GrantBehind(q, k), NEW m \in 0..Len(r), InviteAt(q, m + 1, k), m + 1 \in 1..Len(q)
      PROVE  \E n \in (m + 1)..Len(r) : r[n].t = "share_control_grant"
  <2>1. PICK n \in ((m + 1) + 1)..Len(q) : q[n].t = "share_control_grant"
    BY <1>9 DEF GrantBehind
  <2>2. n \in 2..Len(q) /\ n - 1 \in (m + 1)..Len(r)
    BY <1>1, <2>1
  <2> QED
    BY <1>3, <2>1, <2>2
<1>10. GrantBehind(q, k) => GrantBehind(r, k)
  <2>1. ASSUME GrantBehind(q, k), NEW m \in 1..Len(r), InviteAt(r, m, k)
        PROVE  \E n \in (m + 1)..Len(r) : r[n].t = "share_control_grant"
    BY <1>1, <1>2, <1>9, <2>1
  <2> QED
    BY <2>1 DEF GrantBehind
<1>11. Head(q).t = "call_invite" /\ Head(q).id = k /\ GrantBehind(q, k)
         => Has(r, "share_control_grant")
  <2>1. ASSUME InviteAt(q, 1, k), GrantBehind(q, k) PROVE Has(r, "share_control_grant")
    <3>1. 0 \in 0..Len(r) /\ 0 + 1 \in 1..Len(q) /\ InviteAt(q, 0 + 1, k)
      BY <1>1, <2>1
    <3>2. \E n \in (0 + 1)..Len(r) : r[n].t = "share_control_grant"
      BY <1>9, <2>1, <3>1
    <3> QED
      BY <3>2 DEF Has
  <2> QED
    BY <1>1, <2>1 DEF InviteAt
<1>12. Head(q).t # t /\ Has(q, t) => Has(r, t)
  BY <1>1, <1>3 DEF Has
<1> QED
  BY <1>5, <1>6, <1>7, <1>8, <1>10, <1>11, <1>12 DEF r

LEMMA InviteWay ==
  ASSUME NEW q \in Seq(Messages), NEW c \in Messages, c.t = "call_invite", NEW k, NEW t
  PROVE  /\ Invited(Append(q, c), k) <=> Invited(q, k) \/ k = c.id
         /\ InvitedOnce(q, k) /\ ~ Invited(q, c.id) => InvitedOnce(Append(q, c), k)
         /\ GrantBehind(q, k) /\ k # c.id => GrantBehind(Append(q, c), k)
         /\ Has(q, t) => Has(Append(q, c), t)
<1> DEFINE r == Append(q, c)
<1>1. /\ Len(r) = Len(q) + 1 /\ r[Len(q) + 1] = c /\ Len(q) \in Nat
      /\ \A i \in 1..Len(q) : r[i] = q[i]
  OBVIOUS
<1> HIDE DEF r
<1>2. \A n \in 1..Len(r) : InviteAt(r, n, k) =>
        (n \in 1..Len(q) /\ InviteAt(q, n, k)) \/ (n = Len(q) + 1 /\ k = c.id)
  BY <1>1 DEF InviteAt
<1>3. \A n \in 1..Len(q) : InviteAt(q, n, k) => n \in 1..Len(r) /\ InviteAt(r, n, k)
  BY <1>1 DEF InviteAt
<1>4. Len(q) + 1 \in 1..Len(r) /\ InviteAt(r, Len(q) + 1, c.id)
  BY <1>1 DEF InviteAt
<1>5. Invited(r, k) <=> Invited(q, k) \/ k = c.id
  BY <1>2, <1>3, <1>4 DEF Invited
<1>6. InvitedOnce(q, k) /\ ~ Invited(q, c.id) => InvitedOnce(r, k)
  BY <1>2 DEF InvitedOnce, Invited
<1>7. ASSUME GrantBehind(q, k), k # c.id PROVE GrantBehind(r, k)
  <2>1. SUFFICES ASSUME NEW m \in 1..Len(r), InviteAt(r, m, k)
                 PROVE  \E n \in (m + 1)..Len(r) : r[n].t = "share_control_grant"
    BY DEF GrantBehind
  <2>2. m \in 1..Len(q) /\ InviteAt(q, m, k)
    BY <1>2, <1>7, <2>1
  <2>3. PICK n \in (m + 1)..Len(q) : q[n].t = "share_control_grant"
    BY <1>7, <2>2 DEF GrantBehind
  <2>4. n \in (m + 1)..Len(r) /\ r[n] = q[n]
    BY <1>1, <2>2
  <2> QED
    BY <2>3, <2>4
<1>8. Has(q, t) => Has(r, t)
  BY <1>1 DEF Has
<1> QED
  BY <1>5, <1>6, <1>7, <1>8 DEF r

(* The host takes the first message off a way.                             *)
LEMMA HostWayTail ==
  ASSUME NEW q \in Seq(Messages), q # <<>>, NEW k, NEW t
  PROVE  /\ HungUp(Tail(q), k) => HungUp(q, k)
         /\ Head(q).t = "call_hangup" => HungUp(q, Head(q).id)
         /\ Head(q).t # t /\ Has(q, t) => Has(Tail(q), t)
<1>1. /\ Len(q) \in Nat \ {0} /\ Len(Tail(q)) = Len(q) - 1 /\ Head(q) = q[1]
      /\ \A n \in 1..(Len(q) - 1) : Tail(q)[n] = q[n + 1]
      /\ \A n \in 2..Len(q) : n - 1 \in 1..(Len(q) - 1) /\ Tail(q)[n - 1] = q[n]
  OBVIOUS
<1>2. HungUp(Tail(q), k) => HungUp(q, k)
  BY <1>1 DEF HungUp
<1>3. Head(q).t = "call_hangup" => HungUp(q, Head(q).id)
  BY <1>1 DEF HungUp
<1>4. Head(q).t # t /\ Has(q, t) => Has(Tail(q), t)
  BY <1>1 DEF Has
<1> QED
  BY <1>2, <1>3, <1>4

(* A viewer puts a message on his way.                                     *)
LEMMA HostWayAppend ==
  ASSUME NEW q \in Seq(Messages), NEW c \in Messages, NEW k, NEW t
  PROVE  /\ HungUp(Append(q, c), k) <=> HungUp(q, k) \/ (c.t = "call_hangup" /\ c.id = k)
         /\ Has(Append(q, c), t) <=> Has(q, t) \/ c.t = t
<1> DEFINE r == Append(q, c)
<1>1. /\ Len(r) = Len(q) + 1 /\ r[Len(q) + 1] = c /\ Len(q) \in Nat
      /\ \A i \in 1..Len(q) : r[i] = q[i]
  OBVIOUS
<1> HIDE DEF r
<1>2. \A n \in 1..Len(r) : n \in 1..Len(q) \/ n = Len(q) + 1
  BY <1>1
<1>3. Len(q) + 1 \in 1..Len(r) /\ \A n \in 1..Len(q) : n \in 1..Len(r)
  BY <1>1
<1>4. HungUp(r, k) <=> HungUp(q, k) \/ (c.t = "call_hangup" /\ c.id = k)
  BY <1>1, <1>2, <1>3 DEF HungUp
<1>5. Has(r, t) <=> Has(q, t) \/ c.t = t
  BY <1>1, <1>2, <1>3 DEF Has
<1> QED
  BY <1>4, <1>5 DEF r

LEMMA HostWayConcat ==
  ASSUME NEW q \in Seq(Messages), NEW p \in Seq(Messages), NEW k, NEW t
  PROVE  /\ HungUp(q \o p, k) <=> HungUp(q, k) \/ HungUp(p, k)
         /\ Has(q, t) => Has(q \o p, t)
<1> DEFINE r == q \o p
<1>1. /\ Len(r) = Len(q) + Len(p) /\ Len(q) \in Nat /\ Len(p) \in Nat
      /\ \A i \in 1..Len(q) : r[i] = q[i]
      /\ \A i \in 1..Len(p) : r[Len(q) + i] = p[i]
  OBVIOUS
<1> HIDE DEF r
<1>2. \A n \in 1..Len(r) :
        n \in 1..Len(q) \/ (n - Len(q) \in 1..Len(p) /\ r[n] = p[n - Len(q)])
  <2>1. SUFFICES ASSUME NEW n \in 1..Len(r), n \notin 1..Len(q)
                 PROVE  n - Len(q) \in 1..Len(p) /\ r[n] = p[n - Len(q)]
    OBVIOUS
  <2>2. n - Len(q) \in 1..Len(p) /\ Len(q) + (n - Len(q)) = n
    BY <1>1, <2>1
  <2> QED
    BY <1>1, <2>2
<1>3. /\ \A n \in 1..Len(q) : n \in 1..Len(r)
      /\ \A n \in 1..Len(p) : Len(q) + n \in 1..Len(r)
  BY <1>1
<1>4. HungUp(r, k) => HungUp(q, k) \/ HungUp(p, k)
  BY <1>1, <1>2 DEF HungUp
<1>5. HungUp(q, k) \/ HungUp(p, k) => HungUp(r, k)
  BY <1>1, <1>3 DEF HungUp
<1>6. Has(q, t) => Has(r, t)
  BY <1>1, <1>3 DEF Has
<1> QED
  BY <1>4, <1>5, <1>6 DEF r

-----------------------------------------------------------------------------
(* Invitations and grants *)

LEMMA InitPanel == ASSUME Init PROVE InviteInv /\ PanelInv
<1>1. \A k : ~ Invited(<<>>, k) /\ InvitedOnce(<<>>, k) /\ ~ HungUp(<<>>, k)
  BY DEF Invited, InvitedOnce, HungUp
<1>2. \A v \in Viewers : toViewer[v] = <<>> /\ toHost[v] = <<>> /\ view[v].share = 0
  BY DEF Init, NoView, NoShare
<1>3. InviteInv
  BY <1>1, <1>2, Numbers DEF Init, InviteInv, NoShare
<1>4. PanelInv
  BY <1>1, <1>2 DEF Init, PanelInv, ControllerHasPanel
<1> QED
  BY <1>3, <1>4

(* A step of the host: nobody is asked twice, and who views or was granted *)
(* was asked.                                                              *)
LEMMA InviteHost ==
  ASSUME TypeInv, InviteInv, HostQuiet, UNCHANGED viewerVars, share' <= started',
         \A v \in Viewers, k \in Shares :
           /\ Asked(v, k) => k <= started' /\ v \notin inviting'[k]
           /\ v \in inviting'[k] => k <= started'
           /\ v \in viewers'[k] \/ <<v, k>> \in granted' => k <= started' /\ v \notin inviting'[k]
  PROVE  InviteInv'
<1>1. ASSUME NEW v \in Viewers, NEW k \in Shares
      PROVE  /\ Invited(toViewer'[v], k) <=> Invited(toViewer[v], k)
             /\ InvitedOnce(toViewer[v], k) => InvitedOnce(toViewer'[v], k)
  BY QuietWay DEF HostQuiet, TypeInv, ViewerWays
<1> QED
  BY <1>1 DEF InviteInv, Asked, viewerVars

(* A step of the host: a controller had the panel before him, or is behind *)
(* or past the share, or was granted control just now.                     *)
LEMMA PanelHost ==
  ASSUME TypeInv, TypeInv', PanelInv, HostQuiet, UNCHANGED viewerVars,
         \A v \in Viewers, k \in Shares :
           /\ Asked(v, k) => k <= started' /\ v \notin inviting'[k]
           /\ HungUp(toHost'[v], k) => HungUp(toHost[v], k),
         \A v \in ctrl' : share' # NoShare /\ <<v, share'>> \in granted' =>
           \/ /\ v \in ctrl /\ share' = share /\ <<v, share>> \in granted
              /\ v \notin viewers'[share] => v \notin viewers[share] \/ Past(v, share)
              /\ Has(toHost[v], "share_control_release") =>
                   Has(toHost'[v], "share_control_release") \/ Past(v, share)
           \/ /\ v \in viewers'[share'] /\ GrantBehind(toViewer'[v], share')
              /\ Has(toViewer'[v], "share_control_grant")
  PROVE  PanelInv'
<1>1. ASSUME NEW v \in Viewers, NEW k \in Shares, Past(v, k)
      PROVE  /\ k <= started' /\ v \notin inviting'[k] /\ ~ Invited(toViewer'[v], k)
             /\ view'[v].share # k
  <2>1. Invited(toViewer'[v], k) <=> Invited(toViewer[v], k)
    BY QuietWay DEF HostQuiet, TypeInv, ViewerWays
  <2> QED
    BY <1>1, <2>1 DEF Past, viewerVars
<1>2. \A v \in Viewers, k \in Shares : HungUp(toHost'[v], k) => Past(v, k)'
  <2>1. SUFFICES ASSUME NEW v \in Viewers, NEW k \in Shares, HungUp(toHost'[v], k)
                 PROVE  Past(v, k)'
    OBVIOUS
  <2>2. Past(v, k)
    BY <2>1 DEF PanelInv
  <2> QED
    BY <1>1, <2>2 DEF Past, Asked
<1>3. ASSUME NEW v \in ctrl', share' # NoShare, <<v, share'>> \in granted'
      PROVE  /\ v \notin viewers'[share'] =>
                  /\ share' <= started' /\ v \notin inviting'[share']
                  /\ ~ Invited(toViewer'[v], share') /\ view'[v].share # share'
             /\ GrantBehind(toViewer'[v], share')
             /\ view'[v].share = share' =>
                  \/ view'[v].ctrl \/ <<v, view'[v].share>> \in enabling'
                  \/ Has(toViewer'[v], "share_control_grant")
                  \/ Has(toHost'[v], "share_control_release")
  <2>0. v \in Viewers /\ share' \in Shares
    BY <1>3 DEF TypeInv, HostTypes, Sessions
  <2>1. CASE /\ v \in viewers'[share'] /\ GrantBehind(toViewer'[v], share')
             /\ Has(toViewer'[v], "share_control_grant")
    BY <2>1
  <2>2. CASE /\ v \in ctrl /\ share' = share /\ <<v, share>> \in granted
             /\ v \notin viewers'[share] => v \notin viewers[share] \/ Past(v, share)
             /\ Has(toHost[v], "share_control_release") =>
                  Has(toHost'[v], "share_control_release") \/ Past(v, share)
    <3>1. /\ v \notin viewers[share] => Past(v, share)
          /\ GrantBehind(toViewer[v], share)
      BY <1>3, <2>2 DEF PanelInv
    <3>2. v \notin viewers'[share] => Past(v, share)
      BY <2>2, <3>1
    <3>3. GrantBehind(toViewer'[v], share')
      BY <2>0, <2>2, <3>1, QuietWay DEF HostQuiet, TypeInv, ViewerWays
    <3>4. Past(v, share) => /\ share' <= started' /\ v \notin inviting'[share']
                            /\ ~ Invited(toViewer'[v], share') /\ view'[v].share # share'
      BY <1>1, <2>0, <2>2
    <3>5. view[v].share = share =>
            \/ view[v].ctrl \/ <<v, view[v].share>> \in enabling
            \/ Has(toViewer[v], "share_control_grant") \/ Has(toHost[v], "share_control_release")
      BY <1>3, <2>2 DEF PanelInv, ControllerHasPanel, Current
    <3>6. Has(toViewer[v], "share_control_grant") => Has(toViewer'[v], "share_control_grant")
      BY <2>0, QuietWay DEF HostQuiet, TypeInv, ViewerWays
    <3>7. UNCHANGED <<view, enabling>>
      BY DEF viewerVars
    <3> QED
      BY <2>2, <3>2, <3>3, <3>4, <3>5, <3>6, <3>7
  <2> QED
    BY <1>3, <2>1, <2>2
<1>4. ControllerHasPanel'
  <2>1. \A v \in ctrl' : <<v, share'>> \in granted' => share' # NoShare
    BY Numbers DEF TypeInv, HostTypes, Sessions, NoShare
  <2> QED
    BY <1>3, <2>1 DEF ControllerHasPanel, Current
<1> QED
  BY <1>2, <1>3, <1>4 DEF PanelInv, Past, Asked

(* The steps of the host that leave nobody more in control, view or be     *)
(* granted than was before.                                                *)
LEMMA HostPanel ==
  ASSUME TypeInv, TypeInv', InviteInv, PanelInv, HostQuiet,
         UNCHANGED <<started, inviting, viewerVars, granted>>,
         \A v \in Viewers, k \in Shares :
           /\ HungUp(toHost'[v], k) => HungUp(toHost[v], k)
           /\ v \in viewers'[k] => v \in viewers[k],
         share' \in {share, NoShare}, ctrl' \subseteq ctrl,
         \A v \in ctrl' : share' # NoShare /\ <<v, share>> \in granted =>
           /\ v \notin viewers'[share] => v \notin viewers[share] \/ Past(v, share)
           /\ Has(toHost[v], "share_control_release") =>
                Has(toHost'[v], "share_control_release") \/ Past(v, share)
  PROVE  InviteInv' /\ PanelInv'
<1>1. share' <= started'
  BY DEF InviteInv, TypeInv, HostTypes, NoShare
<1>2. InviteInv'
  BY <1>1, InviteHost DEF InviteInv, Asked
<1>3. PanelInv'
  BY PanelHost DEF Asked
<1> QED
  BY <1>2, <1>3

LEMMA StartPanel ==
  ASSUME TypeInv, TypeInv', InviteInv, PanelInv, HostQuiet, StartRoomShare
  PROVE  InviteInv' /\ PanelInv'
<1>1. /\ started \in Nat /\ started' = started + 1 /\ share' = started + 1
      /\ inviting' = [inviting EXCEPT ![started + 1] = Viewers]
      /\ UNCHANGED <<viewers, ctrl, granted, viewerVars, toHost>>
  BY Numbers DEF StartRoomShare, TypeInv, HostTypes
<1>2. /\ Shares \subseteq Nat
      /\ \A k \in Shares : inviting'[k] = IF k = started + 1 THEN Viewers ELSE inviting[k]
  BY <1>1, Numbers DEF TypeInv, HostTypes
<1>3. ASSUME NEW v \in Viewers, NEW k \in Shares
      PROVE  /\ Asked(v, k) => k <= started' /\ v \notin inviting'[k]
             /\ v \in inviting'[k] => k <= started'
             /\ v \in viewers'[k] \/ <<v, k>> \in granted' => k <= started' /\ v \notin inviting'[k]
  BY <1>1, <1>2 DEF InviteInv, Asked
<1>4. \A v \in Viewers : <<v, share'>> \notin granted'
  <2>1. \A v \in Viewers, k \in Shares : <<v, k>> \in granted => k <= started
    BY DEF InviteInv, Asked
  <2>2. granted \subseteq Sessions
    BY DEF TypeInv, HostTypes
  <2> QED
    BY <1>1, <2>1, <2>2 DEF Sessions
<1>5. InviteInv'
  BY <1>1, <1>3, InviteHost
<1>6. PanelInv'
  <2>1. \A v \in ctrl' : v \in Viewers
    BY DEF TypeInv, HostTypes
  <2> QED
    BY <1>1, <1>3, <1>4, <2>1, PanelHost
<1> QED
  BY <1>5, <1>6

LEMMA ResolveControlPanel ==
  ASSUME TypeInv, TypeInv', InviteInv, PanelInv, HostQuiet, NEW approve \in BOOLEAN,
         ResolveShareControlRequest(approve)
  PROVE  InviteInv' /\ PanelInv'
<1>0. /\ UNCHANGED <<started, inviting, viewers, share, viewerVars, toHost>>
      /\ ctrlReq \in viewers[share] /\ share \in Shares
  BY DEF ResolveShareControlRequest, IsViewer, Watching, TypeInv, HostTypes, NoShare, Shares
<1>1. CASE ~ approve
  <2>1. UNCHANGED <<ctrl, granted>>
    BY <1>1 DEF ResolveShareControlRequest
  <2> QED
    BY <1>0, <2>1, HostPanel
<1>2. CASE approve
  <2>1. /\ ctrl' = ctrl \cup {ctrlReq} /\ granted' = granted \cup {<<ctrlReq, share>>}
        /\ toViewer' = Told({ctrlReq}, Msg("share_control_grant", share))
    BY <1>2 DEF ResolveShareControlRequest, Answer
  <2>2. ctrlReq \in Viewers
    BY <1>0 DEF TypeInv, HostTypes
  <2> DEFINE v == ctrlReq
             g == Msg("share_control_grant", share)
  <2>3. toViewer'[v] = Append(toViewer[v], g) /\ toViewer[v] \in Seq(Messages) /\ g \in Messages
        /\ g.t = "share_control_grant"
    <3>1. g \in Messages /\ g.t = "share_control_grant"
      BY MessageTypes DEF TypeInv, HostTypes, MsgTypes
    <3> HIDE DEF g
    <3>2. ViewerWays /\ toViewer[v] \in Seq(Messages)
      BY <2>2 DEF TypeInv, ViewerWays
    <3>3. toViewer' = Told({v}, g)
      BY <2>1 DEF g
    <3>4. Told({v}, g)[v] = Append(toViewer[v], g)
      BY <2>2, <3>1, <3>2, ToldType
    <3> QED
      BY <3>1, <3>2, <3>3, <3>4
  <2> HIDE DEF g, v
  <2>4. /\ Len(toViewer'[v]) = Len(toViewer[v]) + 1 /\ Len(toViewer[v]) \in Nat
        /\ toViewer'[v][Len(toViewer[v]) + 1] = g
    BY <2>3
  <2>5. Has(toViewer'[v], "share_control_grant")
    BY <2>3, <2>4 DEF Has
  <2>6. GrantBehind(toViewer'[v], share)
    <3>1. Quiet(toViewer[v], toViewer'[v])
      BY <2>2 DEF HostQuiet, v
    <3>2. \A m \in 1..Len(toViewer'[v]) : InviteAt(toViewer'[v], m, share) => m \in 1..Len(toViewer[v])
      BY <2>3, <2>4 DEF InviteAt
    <3>3. \A m \in 1..Len(toViewer[v]) : Len(toViewer[v]) + 1 \in (m + 1)..Len(toViewer'[v])
      BY <2>4
    <3> QED
      BY <2>3, <2>4, <3>2, <3>3 DEF GrantBehind
  <2>7. ASSUME NEW w \in Viewers, NEW k \in Shares
        PROVE  w \in viewers'[k] \/ <<w, k>> \in granted' => Asked(w, k)
    BY <1>0, <2>1 DEF InviteInv
  <2>8. InviteInv'
    BY <1>0, <2>7, InviteHost DEF InviteInv, Asked
  <2>9. ASSUME NEW w \in ctrl', <<w, share'>> \in granted', w # v
        PROVE  w \in ctrl /\ <<w, share>> \in granted
    BY <1>0, <2>1, <2>9 DEF v
  <2>10. v \in viewers'[share'] /\ GrantBehind(toViewer'[v], share')
    BY <1>0, <2>6 DEF v
  <2>11. PanelInv'
    BY <1>0, <2>5, <2>9, <2>10, PanelHost DEF Asked
  <2> QED
    BY <2>8, <2>11
<1> QED
  BY <1>1, <1>2

LEMMA HostReceivesPanel ==
  ASSUME TypeInv, TypeInv', InviteInv, PanelInv, HostQuiet, NEW v \in Viewers, HostReceives(v)
  PROVE  InviteInv' /\ PanelInv'
<1> DEFINE m == Head(toHost[v])
           R == "share_control_release"
<1>0. /\ UNCHANGED <<started, inviting, viewerVars, granted>>
      /\ toHost[v] \in Seq(Messages) /\ toHost[v] # <<>>
      /\ \A w \in Viewers : toHost'[w] = IF w = v THEN Tail(toHost[v]) ELSE toHost[w]
  BY DEF HostReceives, TypeInv, HostWays
<1>1. \A w \in Viewers, k \in Shares : HungUp(toHost'[w], k) => HungUp(toHost[w], k)
  <2>1. \A k \in Shares : HungUp(Tail(toHost[v]), k) => HungUp(toHost[v], k)
    BY <1>0, HostWayTail
  <2> QED
    BY <1>0, <2>1
<1>2. \A w \in Viewers : w # v \/ m.t # R => (Has(toHost[w], R) => Has(toHost'[w], R))
  BY <1>0, HostWayTail
<1>3. ctrl \subseteq Viewers /\ share \in 0..MaxShares
  BY DEF TypeInv, HostTypes
<1>4. CASE m.t = "share_control_request" /\ OnControlRequest(v)
  <2>1. UNCHANGED <<share, viewers, ctrl>> /\ m.t # R
    BY <1>4 DEF OnControlRequest
  <2> HIDE DEF m, R
  <2> QED
    BY <1>0, <1>1, <1>2, <1>3, <2>1, HostPanel DEF R
<1>5. CASE m.t = R /\ OnRelease(v)
  <2>1. UNCHANGED <<share, viewers>>
    BY <1>5 DEF OnRelease
  <2>2. CASE IsViewer(v)
    <3>1. ctrl' = ctrl \ {v}
      BY <1>5, <2>2 DEF OnRelease
    <3>2. \A w \in ctrl' : Has(toHost[w], R) => Has(toHost'[w], R)
      BY <1>2, <1>3, <3>1
    <3> QED
      BY <1>0, <1>1, <2>1, <3>1, <3>2, HostPanel
  <2>3. CASE ~ IsViewer(v)
    <3>1. ctrl' = ctrl
      BY <1>5, <2>3 DEF OnRelease
    <3>2. share # NoShare => v \notin viewers[share]
      BY <2>3 DEF IsViewer, Watching
    <3>3. v \in ctrl /\ share # NoShare /\ <<v, share>> \in granted => Past(v, share)
      BY <3>2 DEF PanelInv
    <3>4. \A w \in ctrl' : w # v => (Has(toHost[w], R) => Has(toHost'[w], R))
      BY <1>2, <1>3, <3>1
    <3> HIDE DEF m
    <3> QED
      BY <1>0, <1>1, <2>1, <3>1, <3>3, <3>4, HostPanel
  <2> QED
    BY <2>2, <2>3
<1>6. CASE m.t = "room_share_stop_request" /\ OnStopRequest(v, m.id)
  <2>1. UNCHANGED <<share, viewers, ctrl>> /\ m.t # R
    BY <1>6 DEF OnStopRequest
  <2> HIDE DEF m, R
  <2> QED
    BY <1>0, <1>1, <1>2, <1>3, <2>1, HostPanel DEF R
<1>7. CASE m.t = "call_hangup" /\ OnHangup(v, m.id)
  <2> DEFINE k == m.id
  <2>1. HungUp(toHost[v], k) /\ m.t # R
    BY <1>0, <1>7, HostWayTail
  <2>2. \/ ctrl' = {} /\ share' = NoShare
        \/ UNCHANGED <<share, ctrl>>
    BY <1>7 DEF OnHangup, EndShare
  <2>3. \/ UNCHANGED viewers
        \/ share = k /\ viewers' = [viewers EXCEPT ![k] = Watching \ {v}]
    BY <1>7 DEF OnHangup
  <2> HIDE DEF m, k
  <2>4. \A w \in Viewers, j \in Shares : w \in viewers'[j] => w \in viewers[j]
    <3>1. share \in Shares => Watching = viewers[share]
      BY Numbers DEF Watching, NoShare
    <3>2. viewers \in [Shares -> SUBSET Viewers]
      BY DEF TypeInv, HostTypes
    <3> QED
      BY <2>3, <3>1, <3>2
  <2>5. ASSUME NEW w \in ctrl', share' # NoShare, w \notin viewers'[share]
        PROVE  w \notin viewers[share] \/ Past(w, share)
    <3>1. share \in Shares /\ w \in Viewers
      BY <1>3, <2>2, <2>5 DEF Shares, NoShare
    <3>2. CASE UNCHANGED viewers
      BY <2>5, <3>2
    <3>3. CASE share = k /\ viewers' = [viewers EXCEPT ![k] = Watching \ {v}]
      <4>1. viewers'[share] = viewers[share] \ {v}
        BY <3>1, <3>3, Numbers DEF Watching, NoShare, TypeInv, HostTypes
      <4>2. Past(v, share)
        BY <2>1, <3>1, <3>3 DEF PanelInv
      <4> QED
        BY <2>5, <4>1, <4>2
    <3> QED
      BY <2>3, <3>2, <3>3
  <2>6. share' \in {share, NoShare} /\ ctrl' \subseteq ctrl
    BY <2>2
  <2> HIDE DEF R
  <2>7. \A w \in ctrl' : Has(toHost[w], R) => Has(toHost'[w], R)
    BY <1>2, <1>3, <2>1, <2>6
  <2> QED
    BY <1>0, <1>1, <2>4, <2>5, <2>6, <2>7, HostPanel DEF R
<1> QED
  BY <1>4, <1>5, <1>6, <1>7 DEF HostReceives

(* The steps of the host that end a share or a session, or take control    *)
(* back.                                                                   *)
LEMMA EndingPanel ==
  ASSUME TypeInv, TypeInv', InviteInv, PanelInv, HostQuiet,
         UNCHANGED <<started, inviting, viewerVars, granted, toHost>>,
         \/ ctrl' = {} /\ share' = NoShare
         \/ UNCHANGED <<share, viewers>> /\ ctrl' \subseteq ctrl
         \/ \E v \in Viewers : share' = share /\ ctrl' = ctrl \ {v}
                              /\ \A w \in Viewers : w # v /\ share # NoShare =>
                                     (w \in viewers[share] => w \in viewers'[share]),
         \A w \in Viewers, k \in Shares : w \in viewers'[k] => w \in viewers[k]
  PROVE  InviteInv' /\ PanelInv'
<1>1. ctrl \subseteq Viewers
  BY DEF TypeInv, HostTypes
<1> QED
  BY <1>1, HostPanel

LEMMA EndsPanel ==
  ASSUME TypeInv, TypeInv', InviteInv, PanelInv, HostQuiet,
         \/ EndRoomShare \/ DaemonHandles
         \/ \E approve \in BOOLEAN : ResolveRoomShareStopRequest(approve)
         \/ \E v \in Viewers : RevokeShareControl(v) \/ OnChannelMessage(v)
  PROVE  InviteInv' /\ PanelInv'
<1> DEFINE Less == /\ UNCHANGED <<started, inviting, viewerVars, granted, toHost, viewers>>
                   /\ \/ ctrl' = {} /\ share' = NoShare
                      \/ UNCHANGED share /\ ctrl' \subseteq ctrl
<1>1. Less
  <2>1. ASSUME EndRoomShare PROVE Less
    BY <2>1 DEF EndRoomShare, EndShare
  <2>2. ASSUME DaemonHandles PROVE Less
    BY <2>2 DEF DaemonHandles, hostVars
  <2>3. ASSUME NEW approve \in BOOLEAN, ResolveRoomShareStopRequest(approve) PROVE Less
    BY <2>3 DEF ResolveRoomShareStopRequest, EndShare
  <2>4. ASSUME NEW v \in Viewers, RevokeShareControl(v) PROVE Less
    BY <2>4 DEF RevokeShareControl
  <2>5. ASSUME NEW v \in Viewers, OnChannelMessage(v) PROVE Less
    BY <2>5 DEF OnChannelMessage, hostVars
  <2> QED
    BY <2>1, <2>2, <2>3, <2>4, <2>5
<1> QED
  BY <1>1, EndingPanel

LEMMA EndViewerPanel ==
  ASSUME TypeInv, TypeInv', InviteInv, PanelInv, HostQuiet, NEW v \in Viewers,
         EndRoomShareViewer(v)
  PROVE  InviteInv' /\ PanelInv'
<1>1. /\ UNCHANGED <<started, inviting, viewerVars, granted, toHost>>
      /\ \/ ctrl' = {} /\ share' = NoShare
         \/ share' = share /\ ctrl' = ctrl \ {v}
      /\ viewers' = [viewers EXCEPT ![share] = Watching \ {v}] /\ v \in Watching
  BY DEF EndRoomShareViewer, EndShare, RemoveButton
<1>2. /\ \A w \in Viewers, k \in Shares : w \in viewers'[k] => w \in viewers[k]
      /\ \A w \in Viewers : w # v => (w \in viewers[share] => w \in viewers'[share])
  <2>1. share \in Shares /\ Watching = viewers[share] /\ viewers \in [Shares -> SUBSET Viewers]
    BY <1>1 DEF Watching, NoShare, Shares, TypeInv, HostTypes
  <2> QED
    BY <1>1, <2>1
<1> QED
  BY <1>1, <1>2, EndingPanel

LEMMA InvitePanel ==
  ASSUME TypeInv, TypeInv', InviteInv, PanelInv, NEW v \in Viewers, NEW k \in Shares,
         InviteNext(v, k)
  PROVE  InviteInv' /\ PanelInv'
<1> DEFINE c == Msg("call_invite", k)
<1>1. c \in Messages /\ c.id = k /\ c.t = "call_invite"
  BY Numbers, MessageTypes DEF MsgTypes
<1>2. /\ UNCHANGED <<share, started, ctrl, toHost, viewerVars, granted>>
      /\ \A w \in Viewers, j \in Shares : w \in viewers'[j] <=> w \in viewers[j] \/ (w = v /\ j = k)
      /\ \A w \in Viewers, j \in Shares : w \in inviting'[j] <=> w \in inviting[j] /\ ~ (w = v /\ j = k)
      /\ v \in inviting[k]
  BY DEF InviteNext, TypeInv, HostTypes
<1>3. \A w \in Viewers : /\ toViewer[w] \in Seq(Messages)
                        /\ toViewer'[w] = IF w = v THEN Append(toViewer[w], c) ELSE toViewer[w]
  <2>1. ViewerWays /\ toViewer' = Told({v}, c)
    BY DEF TypeInv, InviteNext
  <2> HIDE DEF c
  <2>2. \A w \in Viewers : Told({v}, c)[w] = IF w \in {v} THEN Append(toViewer[w], c) ELSE toViewer[w]
    BY <1>1, <2>1, ToldType
  <2> QED
    BY <2>1, <2>2 DEF ViewerWays
<1> HIDE DEF c
<1>4. ~ Asked(v, k) /\ k <= started /\ ~ Invited(toViewer[v], k)
  BY <1>2 DEF InviteInv, Asked
<1>5. ASSUME NEW w \in Viewers, NEW j \in Shares
      PROVE  /\ Invited(toViewer'[w], j) <=> Invited(toViewer[w], j) \/ (w = v /\ j = k)
             /\ InvitedOnce(toViewer[w], j) => InvitedOnce(toViewer'[w], j)
             /\ GrantBehind(toViewer[w], j) /\ ~ (w = v /\ j = k) => GrantBehind(toViewer'[w], j)
             /\ Has(toViewer[w], "share_control_grant") => Has(toViewer'[w], "share_control_grant")
  <2>1. CASE w = v
    <3>1. toViewer[v] \in Seq(Messages) /\ toViewer'[v] = Append(toViewer[v], c)
      BY <1>3
    <3> DEFINE q == toViewer[v]
               t == "share_control_grant"
    <3>2. q \in Seq(Messages)
      BY <3>1
    <3> HIDE DEF q, t
    <3>3. /\ Invited(Append(q, c), j) <=> Invited(q, j) \/ j = c.id
          /\ InvitedOnce(q, j) /\ ~ Invited(q, c.id) => InvitedOnce(Append(q, c), j)
          /\ GrantBehind(q, j) /\ j # c.id => GrantBehind(Append(q, c), j)
          /\ Has(q, t) => Has(Append(q, c), t)
      BY <1>1, <3>2, InviteWay
    <3> QED
      BY <1>1, <1>4, <2>1, <3>1, <3>3 DEF q, t
  <2>2. CASE w # v
    BY <1>3, <2>2
  <2> QED
    BY <2>1, <2>2
<1>6. InviteInv'
  BY <1>2, <1>4, <1>5 DEF InviteInv, Asked, viewerVars
<1>7. ASSUME NEW w \in Viewers, NEW j \in Shares, Past(w, j)
      PROVE  j <= started' /\ w \notin inviting'[j] /\ ~ Invited(toViewer'[w], j) /\ view'[w].share # j
  BY <1>2, <1>4, <1>5, <1>7 DEF Past, Asked, viewerVars
<1>8. \A w \in Viewers, j \in Shares : HungUp(toHost'[w], j) => Past(w, j)'
  <2>1. SUFFICES ASSUME NEW w \in Viewers, NEW j \in Shares, HungUp(toHost'[w], j)
                 PROVE  Past(w, j)'
    OBVIOUS
  <2>2. Past(w, j)
    BY <1>2, <2>1 DEF PanelInv
  <2> QED
    BY <1>7, <2>2 DEF Past, Asked
<1>9. ASSUME NEW w \in ctrl, share # NoShare, <<w, share>> \in granted
      PROVE  /\ w \notin viewers'[share] =>
                  /\ share <= started' /\ w \notin inviting'[share]
                  /\ ~ Invited(toViewer'[w], share) /\ view'[w].share # share
             /\ GrantBehind(toViewer'[w], share)
  <2>1. w \in Viewers /\ share \in Shares
    BY <1>9 DEF TypeInv, HostTypes, Sessions
  <2>2. ~ (w = v /\ share = k)
    BY <1>4, <1>9, <2>1 DEF InviteInv
  <2>3. /\ w \notin viewers[share] => Past(w, share)
        /\ GrantBehind(toViewer[w], share)
    BY <1>9 DEF PanelInv
  <2> QED
    BY <1>2, <1>5, <1>7, <2>1, <2>2, <2>3
<1>10. ControllerHasPanel'
  <2>1. ctrl \subseteq Viewers /\ UNCHANGED <<view, enabling, toHost, ctrl, share, granted>>
    BY <1>2 DEF TypeInv, HostTypes, viewerVars
  <2>2. \A w \in Viewers :
          Has(toViewer[w], "share_control_grant") => Has(toViewer'[w], "share_control_grant")
    BY <1>5
  <2>3. ControllerHasPanel
    BY DEF PanelInv
  <2> QED
    BY <2>1, <2>2, <2>3 DEF ControllerHasPanel, Current
<1> QED
  BY <1>2, <1>6, <1>8, <1>9, <1>10 DEF PanelInv, Past, Asked

(* A viewer takes his first message, or none: what he is asked and told.   *)
LEMMA ViewerWay ==
  ASSUME TypeInv, InviteInv, NEW v \in Viewers,
         UNCHANGED toViewer[v] \/ (toViewer[v] # <<>> /\ toViewer'[v] = Tail(toViewer[v])),
         NEW k \in Shares
  PROVE  /\ Invited(toViewer'[v], k) => Invited(toViewer[v], k)
         /\ InvitedOnce(toViewer'[v], k)
         /\ GrantBehind(toViewer[v], k) => GrantBehind(toViewer'[v], k)
<1>1. toViewer[v] \in Seq(Messages) /\ InvitedOnce(toViewer[v], k)
  BY DEF TypeInv, ViewerWays, InviteInv
<1> QED
  BY <1>1, TailWay

(* A step of a viewer: he looks at the share he looked at, at none, or at  *)
(* the one he was invited to; he hangs up what he joined.                  *)
LEMMA PanelViewer ==
  ASSUME TypeInv, InviteInv, PanelInv,
         UNCHANGED <<share, started, inviting, viewers, ctrl, granted>>,
         \A v \in Viewers :
           UNCHANGED toViewer[v] \/ (toViewer[v] # <<>> /\ toViewer'[v] = Tail(toViewer[v])),
         \A v \in Viewers, k \in Shares :
           /\ view'[v].share = k => \/ view[v].share = k
                                    \/ Invited(toViewer[v], k) /\ ~ Invited(toViewer'[v], k)
           /\ <<v, k>> \in joined' => view[v].share = k \/ <<v, k>> \in joined
           /\ HungUp(toHost'[v], k) =>
                HungUp(toHost[v], k) \/ (<<v, k>> \in joined /\ view'[v].share # k),
         ControllerHasPanel'
  PROVE  InviteInv' /\ PanelInv'
<1>1. ASSUME NEW v \in Viewers, NEW k \in Shares
      PROVE  /\ Invited(toViewer'[v], k) => Invited(toViewer[v], k)
             /\ InvitedOnce(toViewer'[v], k)
             /\ GrantBehind(toViewer[v], k) => GrantBehind(toViewer'[v], k)
  BY ViewerWay
<1>2. InviteInv'
  BY <1>1 DEF InviteInv, Asked
<1>3. ASSUME NEW v \in Viewers, NEW k \in Shares, Past(v, k)
      PROVE  /\ k <= started' /\ v \notin inviting'[k] /\ ~ Invited(toViewer'[v], k)
             /\ view'[v].share # k
  BY <1>1, <1>3 DEF Past, Asked
<1>4. \A v \in Viewers, k \in Shares : HungUp(toHost'[v], k) => Past(v, k)'
  <2>1. SUFFICES ASSUME NEW v \in Viewers, NEW k \in Shares, HungUp(toHost'[v], k)
                 PROVE  Past(v, k)'
    OBVIOUS
  <2>2. CASE HungUp(toHost[v], k)
    <3>1. Past(v, k)
      BY <2>2 DEF PanelInv
    <3> QED
      BY <1>3, <3>1 DEF Past, Asked
  <2>3. CASE <<v, k>> \in joined /\ view'[v].share # k
    <3>1. k <= started /\ v \notin inviting[k] /\ ~ Invited(toViewer[v], k)
      BY <2>3 DEF InviteInv, Asked
    <3>2. ~ Invited(toViewer'[v], k)
      BY <1>1, <3>1
    <3> QED
      BY <2>3, <3>1, <3>2 DEF Past, Asked
  <2> QED
    BY <2>1, <2>2, <2>3
<1>5. ASSUME NEW v \in ctrl, share # NoShare, <<v, share>> \in granted
      PROVE  /\ v \notin viewers[share] =>
                  /\ share <= started' /\ v \notin inviting'[share]
                  /\ ~ Invited(toViewer'[v], share) /\ view'[v].share # share
             /\ GrantBehind(toViewer'[v], share)
  <2>1. v \in Viewers /\ share \in Shares
    BY <1>5 DEF TypeInv, HostTypes, Sessions
  <2>2. /\ v \notin viewers[share] => Past(v, share)
        /\ GrantBehind(toViewer[v], share)
    BY <1>5 DEF PanelInv
  <2> QED
    BY <1>1, <1>3, <2>1, <2>2
<1> QED
  BY <1>2, <1>4, <1>5 DEF PanelInv, Past, Asked

(* Only viewer v did something.                                            *)
LEMMA PanelOf ==
  ASSUME TypeInv, PanelInv, NEW v \in Viewers, UNCHANGED <<share, ctrl, granted>>,
         \A w \in Viewers : w # v =>
           /\ UNCHANGED <<view[w], toViewer[w], toHost[w]>>
           /\ \A k : <<w, k>> \in enabling => <<w, k>> \in enabling',
         v \in ctrl /\ <<v, share>> \in granted /\ view'[v].share = share =>
           \/ view'[v].ctrl \/ <<v, share>> \in enabling'
           \/ Has(toViewer'[v], "share_control_grant") \/ Has(toHost'[v], "share_control_release")
  PROVE  ControllerHasPanel'
<1>1. ASSUME NEW w \in ctrl, <<w, share>> \in granted, view'[w].share = share
      PROVE  \/ view'[w].ctrl \/ <<w, share>> \in enabling'
             \/ Has(toViewer'[w], "share_control_grant")
             \/ Has(toHost'[w], "share_control_release")
  <2>1. CASE w = v
    BY <1>1, <2>1
  <2>2. CASE w # v
    <3>1. w \in Viewers
      BY DEF TypeInv, HostTypes
    <3>2. UNCHANGED <<view[w], toViewer[w], toHost[w]>>
      BY <2>2, <3>1
    <3>3. \/ view[w].ctrl \/ <<w, share>> \in enabling
          \/ Has(toViewer[w], "share_control_grant") \/ Has(toHost[w], "share_control_release")
      BY <1>1, <3>2 DEF PanelInv, ControllerHasPanel, Current
    <3>4. <<w, share>> \in enabling => <<w, share>> \in enabling'
      BY <2>2, <3>1
    <3> QED
      BY <3>2, <3>3, <3>4
  <2> QED
    BY <2>1, <2>2
<1> QED
  BY <1>1 DEF ControllerHasPanel, Current

(* A viewer that looks at the share and is in control has the panel, or    *)
(* something is under way.                                                 *)
LEMMA PanelThere ==
  ASSUME PanelInv, NEW v \in ctrl, <<v, share>> \in granted, view[v].share = share
  PROVE  \/ view[v].ctrl \/ <<v, share>> \in enabling
         \/ Has(toViewer[v], "share_control_grant") \/ Has(toHost[v], "share_control_release")
BY DEF PanelInv, ControllerHasPanel, Current

LEMMA NoShareNotGranted ==
  ASSUME TypeInv, NEW v PROVE <<v, NoShare>> \notin granted
BY Numbers DEF TypeInv, HostTypes, Sessions, NoShare

LEMMA AcceptPanel ==
  ASSUME TypeInv, InviteInv, PanelInv, NEW v \in Viewers, AcceptIncomingCall(v)
  PROVE  InviteInv' /\ PanelInv'
<1>1. UNCHANGED <<share, started, inviting, viewers, ctrl, granted, toViewer, toHost, enabling>>
  BY DEF AcceptIncomingCall, hostVars
<1>2. \A w \in Viewers : view'[w].share = view[w].share /\ view'[w].ctrl = view[w].ctrl
                        /\ (w # v => UNCHANGED view[w])
  BY DEF AcceptIncomingCall, TypeInv, ViewTypes
<1>3. \A w \in Viewers, k \in Shares : <<w, k>> \in joined' => view[w].share = k \/ <<w, k>> \in joined
  BY DEF AcceptIncomingCall, Current
<1>4. ControllerHasPanel'
  BY <1>1, <1>2, PanelThere, PanelOf
<1> QED
  BY <1>1, <1>2, <1>3, <1>4, PanelViewer

(* He closes the overlay.                                                  *)
LEMMA ClosedPanel ==
  ASSUME TypeInv, PanelInv, NEW v \in Viewers, UNCHANGED <<share, ctrl, granted>>,
         view' = [view EXCEPT ![v] = NoView],
         \A w \in Viewers : w # v =>
           /\ UNCHANGED <<toViewer[w], toHost[w]>>
           /\ \A k : <<w, k>> \in enabling => <<w, k>> \in enabling'
  PROVE  /\ ControllerHasPanel'
         /\ \A w \in Viewers, k \in Shares :
              view'[w].share = k => view[w].share = k /\ w # v
<1>1. view'[v].share = NoShare /\ \A w \in Viewers : w # v => view'[w] = view[w]
  BY DEF TypeInv, ViewTypes, NoView
<1>2. <<v, NoShare>> \notin granted
  BY NoShareNotGranted
<1>3. ControllerHasPanel'
  BY <1>1, <1>2, PanelOf
<1> QED
  BY <1>1, <1>3, Numbers DEF NoShare

LEMMA ClosePanel ==
  ASSUME TypeInv, InviteInv, PanelInv, NEW v \in Viewers, CloseView(v)
  PROVE  InviteInv' /\ PanelInv'
<1>1. /\ UNCHANGED <<share, started, inviting, viewers, ctrl, granted, toViewer, toHost, enabling,
                     joined>>
      /\ view' = [view EXCEPT ![v] = NoView]
  BY DEF CloseView, hostVars
<1>2. /\ ControllerHasPanel'
      /\ \A w \in Viewers, k \in Shares : view'[w].share = k => view[w].share = k /\ w # v
  BY <1>1, ClosedPanel
<1> QED
  BY <1>1, <1>2, PanelViewer

LEMMA HangupAllPanel ==
  ASSUME TypeInv, InviteInv, PanelInv, NEW v \in Viewers, HangupAll(v)
  PROVE  InviteInv' /\ PanelInv'
<1> DEFINE M == {Msg("call_hangup", k) : k \in {k \in Shares : <<v, k>> \in joined}}
           p == SetToSeq(M)
<1>1. /\ UNCHANGED <<share, started, inviting, viewers, ctrl, granted, toViewer>>
      /\ view' = [view EXCEPT ![v] = NoView]
      /\ joined' \subseteq joined
      /\ \A w \in Viewers : \A k : w # v => (<<w, k>> \in enabling => <<w, k>> \in enabling')
      /\ toHost' = [toHost EXCEPT ![v] = @ \o p]
  BY DEF HangupAll, hostVars
<1>2. p \in Seq(M) /\ M \subseteq Messages
  BY HangupMessages
<1>3. \A c \in M : \E k \in Shares : c.id = k /\ <<v, k>> \in joined
  BY DEF Msg
<1> HIDE DEF M
<1>4. p \in Seq(Messages) /\ \A n \in 1..Len(p) : p[n] \in M
  BY <1>2
<1> HIDE DEF p
<1>5. \A k \in Shares : HungUp(p, k) => <<v, k>> \in joined
  BY <1>3, <1>4 DEF HungUp
<1>6. \A w \in Viewers : toHost[w] \in Seq(Messages) /\ toHost'[w] = IF w = v THEN toHost[v] \o p ELSE toHost[w]
  BY <1>1 DEF TypeInv, HostWays
<1>7. /\ ControllerHasPanel'
      /\ \A w \in Viewers, k \in Shares : view'[w].share = k => view[w].share = k /\ w # v
  BY <1>1, <1>6, ClosedPanel
<1>8. \A w \in Viewers, k \in Shares : HungUp(toHost'[w], k) =>
        HungUp(toHost[w], k) \/ (<<w, k>> \in joined /\ view'[w].share # k)
  <2>1. toHost[v] \in Seq(Messages) /\ toHost'[v] = toHost[v] \o p
    BY <1>6
  <2>2. \A k \in Shares : HungUp(toHost[v] \o p, k) <=> HungUp(toHost[v], k) \/ HungUp(p, k)
    BY <1>4, <2>1, HostWayConcat
  <2> QED
    BY <1>5, <1>6, <1>7, <2>1, <2>2
<1> QED
  BY <1>1, <1>7, <1>8, PanelViewer

(* He asks for something.                                                  *)
LEMMA AskPanel ==
  ASSUME TypeInv, InviteInv, PanelInv, NEW v \in Viewers,
         RequestShareControl(v) \/ StopButton(v) \/ StopByScript(v)
  PROVE  InviteInv' /\ PanelInv'
<1>1. /\ UNCHANGED <<share, started, inviting, viewers, ctrl, granted, toViewer, view, enabling, joined>>
      /\ \E t \in {"share_control_request", "room_share_stop_request"}, k \in {view[v].share, Room} :
           Tell(v, Msg(t, k))
  BY DEF RequestShareControl, StopButton, StopByScript, RequestRoomShareStop, hostVars, viewerVars
<1>2. PICK t \in {"share_control_request", "room_share_stop_request"}, k \in {view[v].share, Room} :
        Tell(v, Msg(t, k))
  BY <1>1
<1> DEFINE c == Msg(t, k)
<1>3. c \in Messages /\ c.t # "call_hangup"
  BY Numbers, MessageTypes DEF TypeInv, ViewTypes, Room, MsgTypes
<1>4. \A w \in Viewers : toHost[w] \in Seq(Messages) /\ toHost'[w] = IF w = v THEN Append(toHost[v], c) ELSE toHost[w]
  BY <1>2 DEF Tell, TypeInv, HostWays
<1> HIDE DEF c
<1>5. toHost[v] \in Seq(Messages) /\ toHost'[v] = Append(toHost[v], c)
  BY <1>4
<1>6. /\ \A j : HungUp(Append(toHost[v], c), j) <=> HungUp(toHost[v], j)
      /\ \A t0 : Has(toHost[v], t0) => Has(Append(toHost[v], c), t0)
  BY <1>3, <1>5, HostWayAppend
<1>7. \A w \in Viewers, j \in Shares : HungUp(toHost'[w], j) => HungUp(toHost[w], j)
  BY <1>4, <1>5, <1>6
<1>8. Has(toHost[v], "share_control_release") => Has(toHost'[v], "share_control_release")
  BY <1>5, <1>6
<1>9. ControllerHasPanel'
  BY <1>1, <1>4, <1>8, PanelThere, PanelOf
<1> QED
  BY <1>1, <1>7, <1>9, PanelViewer

LEMMA SetCtrlView ==
  ASSUME TypeInv, NEW v \in Viewers, NEW on \in BOOLEAN, SetCtrl(v, on)
  PROVE  /\ \A w \in Viewers : view'[w].share = view[w].share /\ (w # v => view'[w] = view[w])
         /\ view'[v].ctrl <=> on /\ view[v].share # NoShare
BY DEF SetCtrl, TypeInv, ViewTypes

(* Control is given back: the host is told.                                *)
LEMMA DisablePanel ==
  ASSUME TypeInv, InviteInv, PanelInv, NEW v \in Viewers, DisableShareControl(v),
         UNCHANGED <<share, started, inviting, viewers, ctrl, granted, enabling, joined>>,
         \A w \in Viewers :
           UNCHANGED toViewer[w]
           \/ (w = v /\ toViewer[w] # <<>> /\ toViewer'[w] = Tail(toViewer[w]))
  PROVE  InviteInv' /\ PanelInv'
<1> DEFINE c == Msg("share_control_release", view[v].share)
<1>1. c \in Messages /\ c.t = "share_control_release"
  BY MessageTypes DEF TypeInv, ViewTypes, MsgTypes
<1>2. \A w \in Viewers : toHost[w] \in Seq(Messages) /\ toHost'[w] = IF w = v THEN Append(toHost[v], c) ELSE toHost[w]
  BY DEF DisableShareControl, Tell, TypeInv, HostWays
<1> HIDE DEF c
<1>3. toHost[v] \in Seq(Messages) /\ toHost'[v] = Append(toHost[v], c)
  BY <1>2
<1>4. /\ \A j : HungUp(Append(toHost[v], c), j) <=> HungUp(toHost[v], j)
      /\ Has(Append(toHost[v], c), "share_control_release")
  BY <1>1, <1>3, HostWayAppend
<1>5. \A w \in Viewers, j \in Shares : HungUp(toHost'[w], j) => HungUp(toHost[w], j)
  BY <1>2, <1>3, <1>4
<1>6. Has(toHost'[v], "share_control_release")
  BY <1>3, <1>4
<1>7. \A w \in Viewers : view'[w].share = view[w].share /\ (w # v => view'[w] = view[w])
  BY SetCtrlView DEF DisableShareControl
<1>8. ControllerHasPanel'
  BY <1>2, <1>6, <1>7, PanelOf
<1> QED
  BY <1>5, <1>7, <1>8, PanelViewer

LEMMA EndControlPanel ==
  ASSUME TypeInv, InviteInv, PanelInv, NEW v \in Viewers, EndControl(v)
  PROVE  InviteInv' /\ PanelInv'
<1>1. /\ UNCHANGED <<share, started, inviting, viewers, ctrl, granted, enabling, joined, toViewer>>
      /\ DisableShareControl(v)
  BY DEF EndControl, hostVars
<1> QED
  BY <1>1, DisablePanel

LEMMA OfferPanel ==
  ASSUME TypeInv, InviteInv, PanelInv, NEW v \in Viewers, NEW k \in Shares, OfferSent(v, k)
  PROVE  InviteInv' /\ PanelInv'
<1>1. /\ UNCHANGED <<share, started, inviting, viewers, ctrl, granted, joined, toViewer, toHost>>
      /\ SetCtrl(v, TRUE) /\ enabling' = enabling \ {<<v, k>>}
  BY DEF OfferSent, hostVars
<1>2. /\ \A w \in Viewers : view'[w].share = view[w].share /\ (w # v => view'[w] = view[w])
      /\ view'[v].ctrl <=> view[v].share # NoShare
  BY <1>1, SetCtrlView
<1>3. <<v, NoShare>> \notin granted
  BY NoShareNotGranted
<1>4. ControllerHasPanel'
  BY <1>1, <1>2, <1>3, PanelOf
<1> QED
  BY <1>1, <1>2, <1>4, PanelViewer

LEMMA InputPanel ==
  ASSUME TypeInv, InviteInv, PanelInv, NEW v \in Viewers, SendRemoteInput(v)
  PROVE  InviteInv' /\ PanelInv'
<1>1. UNCHANGED <<share, started, inviting, viewers, ctrl, granted, joined, toViewer, toHost, view,
                  enabling>>
  BY DEF SendRemoteInput, hostVars, viewerVars
<1>2. ControllerHasPanel'
  BY <1>1 DEF PanelInv, ControllerHasPanel, Current
<1> QED
  BY <1>1, <1>2, PanelViewer

(* A viewer hears from the host.                                           *)
LEMMA ViewerReceivesPanel ==
  ASSUME TypeInv, InviteInv, PanelInv, NEW v \in Viewers, ViewerReceives(v)
  PROVE  InviteInv' /\ PanelInv'
<1> DEFINE q == toViewer[v]
           m == Head(q)
           G == "share_control_grant"
<1>0. /\ UNCHANGED <<share, started, inviting, viewers, ctrl, granted>>
      /\ q # <<>> /\ q \in Seq(Messages) /\ toViewer'[v] = Tail(q)
      /\ \A w \in Viewers : w # v => toViewer'[w] = toViewer[w]
  BY DEF ViewerReceives, TypeInv, ViewerWays, hostVars
<1>1. \A w \in Viewers :
        UNCHANGED toViewer[w] \/ (w = v /\ toViewer[w] # <<>> /\ toViewer'[w] = Tail(toViewer[w]))
  BY <1>0
<1>2. m.t # G => (Has(q, G) => Has(Tail(q), G))
  BY <1>0, TailWay
<1>3. <<v, NoShare>> \notin granted
  BY NoShareNotGranted
<1>4. ASSUME m.t = "call_invite" PROVE InviteInv' /\ PanelInv'
  <2>1. /\ view' = [view EXCEPT ![v] = [share |-> m.id, ringing |-> TRUE, ctrl |-> FALSE]]
        /\ UNCHANGED <<joined, enabling, toHost>>
    BY <1>4 DEF ViewerReceives
  <2>2. view'[v].share = m.id /\ \A w \in Viewers : w # v => view'[w] = view[w]
    BY <2>1 DEF TypeInv, ViewTypes
  <2>3. Invited(q, m.id) /\ m.id \in Shares
    <3>1. 1 \in 1..Len(q) /\ m = q[1]
      BY <1>0
    <3> QED
      BY <1>0, <1>4, <3>1, TailWay DEF TypeInv, Shown
  <2>4. ~ Invited(Tail(q), m.id)
    <3>1. InvitedOnce(q, m.id)
      BY <2>3 DEF InviteInv
    <3> QED
      BY <1>0, <1>4, <3>1, TailWay
  <2>5. v \in ctrl /\ <<v, share>> \in granted /\ m.id = share => Has(Tail(q), G)
    <3>1. v \in ctrl /\ <<v, share>> \in granted => GrantBehind(q, share)
      BY <1>3 DEF PanelInv
    <3>2. m.id = share /\ GrantBehind(q, share) => Has(Tail(q), G)
      BY <1>0, <1>4, TailWay
    <3> QED
      BY <3>1, <3>2
  <2> HIDE DEF m, q, G
  <2>6. ControllerHasPanel'
    BY <1>0, <2>1, <2>2, <2>5, PanelOf DEF G
  <2> QED
    BY <1>0, <1>1, <2>1, <2>2, <2>3, <2>4, <2>6, PanelViewer DEF q
<1>5. ASSUME m.t = "call_hangup" PROVE InviteInv' /\ PanelInv'
  <2>1. /\ view' = [view EXCEPT ![v] = NoView] /\ UNCHANGED toHost
        /\ joined' \subseteq joined /\ enabling' = enabling \ {<<v, m.id>>}
    BY <1>5 DEF ViewerReceives
  <2>2. /\ ControllerHasPanel'
        /\ \A w \in Viewers, k \in Shares : view'[w].share = k => view[w].share = k /\ w # v
    BY <1>0, <2>1, ClosedPanel
  <2> HIDE DEF m, q, G
  <2> QED
    BY <1>0, <1>1, <2>1, <2>2, PanelViewer DEF q
<1>6. ASSUME m.t = "share_control_grant" PROVE InviteInv' /\ PanelInv'
  <2>1. UNCHANGED <<joined, toHost>>
    BY <1>6 DEF ViewerReceives
  <2>2. CASE view[v].share # NoShare
    <3>1. EnableShareControl(v)
      BY <1>6, <2>2 DEF ViewerReceives
    <3>2. CASE HasChannel(v)
      <4>1. SetCtrl(v, TRUE) /\ UNCHANGED enabling
        BY <3>1, <3>2 DEF EnableShareControl
      <4>2. /\ \A w \in Viewers : view'[w].share = view[w].share /\ (w # v => view'[w] = view[w])
            /\ view'[v].ctrl
        BY <2>2, <4>1, SetCtrlView
      <4> HIDE DEF m, q, G
      <4>3. ControllerHasPanel'
        BY <1>0, <2>1, <4>1, <4>2, PanelOf
      <4> QED
        BY <1>0, <1>1, <2>1, <4>2, <4>3, PanelViewer DEF q
    <3>3. CASE ~ HasChannel(v)
      <4>1. UNCHANGED view /\ enabling' = enabling \cup {<<v, view[v].share>>}
        BY <3>1, <3>3 DEF EnableShareControl, Current
      <4> HIDE DEF m, q, G
      <4>2. ControllerHasPanel'
        BY <1>0, <2>1, <4>1, PanelOf
      <4> QED
        BY <1>0, <1>1, <2>1, <4>1, <4>2, PanelViewer DEF q
    <3> QED
      BY <3>2, <3>3
  <2>3. CASE view[v].share = NoShare
    <3>1. UNCHANGED <<view, enabling>>
      BY <1>6, <2>3 DEF ViewerReceives
    <3> HIDE DEF m, q, G
    <3>2. ControllerHasPanel'
      BY <1>0, <1>3, <2>1, <2>3, <3>1, PanelOf
    <3> QED
      BY <1>0, <1>1, <2>1, <3>1, <3>2, PanelViewer DEF q
  <2> QED
    BY <2>2, <2>3
<1>7. ASSUME m.t = "share_control_revoke" PROVE InviteInv' /\ PanelInv'
  <2>1. UNCHANGED <<joined, enabling>> /\ m.t # G
    BY <1>7 DEF ViewerReceives
  <2>2. CASE view[v].share # NoShare
    <3>1. DisableShareControl(v)
      BY <1>7, <2>2 DEF ViewerReceives
    <3> HIDE DEF m, q, G
    <3> QED
      BY <1>0, <1>1, <2>1, <3>1, DisablePanel
  <2>3. CASE view[v].share = NoShare
    <3>1. UNCHANGED <<view, toHost>>
      BY <1>7, <2>3 DEF ViewerReceives
    <3> HIDE DEF m, q, G
    <3>2. ControllerHasPanel'
      BY <1>0, <1>3, <2>1, <2>3, <3>1, PanelOf
    <3> QED
      BY <1>0, <1>1, <2>1, <3>1, <3>2, PanelViewer DEF q
  <2> QED
    BY <2>2, <2>3
<1>8. ASSUME m.t \in {"share_control_refused", "room_share_stop_ack"} PROVE InviteInv' /\ PanelInv'
  <2>1. UNCHANGED <<view, enabling, joined, toHost>> /\ m.t # G
    BY <1>8 DEF ViewerReceives, viewerVars
  <2>2. Has(q, G) => Has(toViewer'[v], G)
    BY <1>0, <1>2, <2>1
  <2> HIDE DEF m
  <2>3. ControllerHasPanel'
    BY <1>0, <2>1, <2>2, PanelThere, PanelOf
  <2> HIDE DEF q
  <2> QED
    BY <1>0, <1>1, <2>1, <2>3, PanelViewer DEF q
<1> QED
  BY <1>4, <1>5, <1>6, <1>7, <1>8 DEF ViewerReceives

(* Invitations and grants stay in order in every step.                     *)
LEMMA PanelStep == ASSUME TypeInv, InviteInv, PanelInv, [Next]_vars PROVE InviteInv' /\ PanelInv'
<1>0. TypeInv'
  BY TypeStep
<1>1. CASE UNCHANGED vars
  BY <1>1 DEF vars, hostVars, viewerVars, InviteInv, PanelInv, Past, Asked, ControllerHasPanel, Current
<1>2. ASSUME \/ StartRoomShare \/ EndRoomShare \/ DaemonHandles
             \/ \E approve \in BOOLEAN :
                  ResolveShareControlRequest(approve) \/ ResolveRoomShareStopRequest(approve)
      PROVE  InviteInv' /\ PanelInv'
  BY <1>0, <1>2, StartTypes, EndRoomShareTypes, DaemonHandlesTypes, ResolveControlTypes,
     ResolveStopTypes, StartPanel, EndsPanel, ResolveControlPanel
<1>3. ASSUME NEW v \in Viewers,
             EndRoomShareViewer(v) \/ RevokeShareControl(v) \/ HostReceives(v) \/ OnChannelMessage(v)
      PROVE  InviteInv' /\ PanelInv'
  BY <1>0, <1>3, EndViewerTypes, RevokeTypes, HostReceivesTypes, ChannelMessageTypes,
     EndViewerPanel, EndsPanel, HostReceivesPanel
<1>4. ASSUME NEW v \in Viewers,
             \/ AcceptIncomingCall(v) \/ CloseView(v) \/ HangupAll(v) \/ RequestShareControl(v)
             \/ StopButton(v) \/ StopByScript(v) \/ EndControl(v) \/ ViewerReceives(v)
             \/ SendRemoteInput(v) \/ \E k \in Shares : OfferSent(v, k) \/ InviteNext(v, k)
      PROVE  InviteInv' /\ PanelInv'
  BY <1>0, <1>4, AcceptPanel, ClosePanel, HangupAllPanel, AskPanel, EndControlPanel, OfferPanel,
     InvitePanel, InputPanel, ViewerReceivesPanel
<1> QED
  BY <1>1, <1>2, <1>3, <1>4 DEF Next

-----------------------------------------------------------------------------
(* Who is allowed *)

(* A way q goes on as r: neither an invitation nor a grant is put on it.   *)
Plain(q, r) ==
  /\ r \in Seq(Messages) /\ Len(q) <= Len(r)
  /\ \A n \in 1..Len(q) : r[n] = q[n]
  /\ \A n \in (Len(q) + 1)..Len(r) : r[n].t \notin {"call_invite", "share_control_grant"}

LEMMA PlainSame == ASSUME NEW q \in Seq(Messages) PROVE Plain(q, q)
BY DEF Plain

LEMMA PlainAppend ==
  ASSUME NEW q \in Seq(Messages), NEW r, Plain(q, r), NEW m \in Messages,
         m.t \notin {"call_invite", "share_control_grant"}
  PROVE  Plain(q, Append(r, m))
<1>1. /\ Append(r, m) \in Seq(Messages) /\ Len(Append(r, m)) = Len(r) + 1
      /\ \A n \in 1..Len(r) : Append(r, m)[n] = r[n]
      /\ Append(r, m)[Len(r) + 1] = m
  BY DEF Plain
<1>2. Len(q) \in Nat /\ Len(r) \in Nat
  BY DEF Plain
<1> QED
  BY <1>1, <1>2 DEF Plain

(* What the host tells its viewers beside invitations and grants.          *)
LEMMA ToldPlain ==
  ASSUME TypeInv, NEW vs,
         NEW t \in {"call_hangup", "share_control_refused", "share_control_revoke",
                    "room_share_stop_ack"}
  PROVE  /\ Told(vs, Msg(t, share)) \in [Viewers -> Seq(Messages)]
         /\ \A v \in Viewers : Plain(toViewer[v], Told(vs, Msg(t, share))[v])
<1> DEFINE m == Msg(t, share)
<1>1. m \in Messages /\ m.t \notin {"call_invite", "share_control_grant"}
  BY MessageTypes DEF TypeInv, HostTypes, MsgTypes
<1> HIDE DEF m
<1>2. ASSUME NEW v \in Viewers PROVE Plain(toViewer[v], Told(vs, m)[v])
  <2>1. toViewer[v] \in Seq(Messages)
    BY DEF TypeInv, ViewerWays
  <2>2. Plain(toViewer[v], toViewer[v]) /\ Plain(toViewer[v], Append(toViewer[v], m))
    BY <1>1, <2>1, PlainSame, PlainAppend
  <2> QED
    BY <1>1, <2>2, ToldType DEF TypeInv
<1>3. Told(vs, m) \in [Viewers -> Seq(Messages)]
  BY <1>1, ToldType DEF TypeInv
<1> QED
  BY <1>2, <1>3 DEF m

LEMMA HangupsPlain ==
  ASSUME TypeInv, NEW told \in [Viewers -> Seq(Messages)], NEW W,
         \A v \in Viewers : Plain(toViewer[v], told[v])
  PROVE  \A v \in Viewers : Plain(toViewer[v], Hangups(told, W, Msg("call_hangup", share))[v])
<1> DEFINE m == Msg("call_hangup", share)
<1>1. m \in Messages /\ m.t \notin {"call_invite", "share_control_grant"}
  BY MessageTypes DEF TypeInv, HostTypes, MsgTypes
<1> HIDE DEF m
<1>2. ASSUME NEW v \in Viewers PROVE Plain(toViewer[v], Hangups(told, W, m)[v])
  <2>1. toViewer[v] \in Seq(Messages) /\ told[v] \in Seq(Messages)
    BY DEF TypeInv, ViewerWays
  <2>2. CASE v \in W
    <3>1. Hangups(told, W, m)[v] = told[v] \o <<m>>
      BY <2>2 DEF Hangups
    <3>2. told[v] \o <<m>> = Append(told[v], m)
      BY <2>1
    <3> QED
      BY <1>1, <2>1, <3>1, <3>2, PlainAppend
  <2>3. CASE v \notin W
    <3>1. Hangups(told, W, m)[v] = told[v] \o <<>>
      BY <2>3 DEF Hangups
    <3>2. told[v] \o <<>> = told[v]
      BY <2>1
    <3> QED
      BY <3>1, <3>2
  <2> QED
    BY <2>2, <2>3
<1> QED
  BY <1>2 DEF m

LEMMA FitPlain ==
  ASSUME NEW g, NEW h, g \subseteq h, NEW v, NEW j \in Int, NEW i \in Int, i <= j,
         NEW q \in Seq(Messages), NEW r, Plain(q, r), Fit(g, v, j, q)
  PROVE  Fit(h, v, i, r)
<1>1. /\ Len(q) \in Nat /\ Len(r) \in Nat /\ Len(q) <= Len(r)
      /\ \A n \in 1..Len(q) : r[n] = q[n]
      /\ \A n \in (Len(q) + 1)..Len(r) : r[n].t \notin {"call_invite", "share_control_grant"}
  BY DEF Plain
<1>2. \A n \in 1..Len(q) : q[n].id \in Int
  <2>1. SUFFICES ASSUME NEW n \in 1..Len(q) PROVE q[n].id \in Int
    OBVIOUS
  <2>2. q[n] \in Messages
    OBVIOUS
  <2> QED
    BY <2>2, Numbers DEF Messages
<1>3. \A n \in 1..Len(r) : r[n].t \in {"call_invite", "share_control_grant"} => n \in 1..Len(q)
  <2>1. \A n \in 1..Len(r) : n \in 1..Len(q) \/ n \in (Len(q) + 1)..Len(r)
    BY <1>1
  <2> QED
    BY <1>1, <2>1
<1>4. ASSUME NEW n \in 1..Len(r), r[n].t = "share_control_grant"
      PROVE  <<v, r[n].id>> \in h /\ i <= r[n].id
  BY <1>1, <1>2, <1>3, <1>4 DEF Fit
<1>5. ASSUME NEW m \in 1..Len(r), NEW n \in 1..Len(r), m < n,
             r[m].t = "call_invite", r[n].t = "share_control_grant"
      PROVE  r[m].id <= r[n].id
  BY <1>1, <1>2, <1>3, <1>5 DEF Fit
<1> QED
  BY <1>4, <1>5 DEF Fit

(* The viewer reads the first message; an invitation has him look at its   *)
(* share.                                                                  *)
LEMMA FitTail ==
  ASSUME NEW g, NEW v, NEW j, NEW i, NEW q \in Seq(Messages), q # <<>>, Fit(g, v, j, q),
         i = j \/ (Head(q).t = "call_invite" /\ i = Head(q).id)
  PROVE  Fit(g, v, i, Tail(q))
<1> DEFINE r == Tail(q)
<1>1. /\ Len(q) \in Nat \ {0} /\ Len(r) = Len(q) - 1 /\ Head(q) = q[1]
      /\ \A n \in 1..Len(r) : r[n] = q[n + 1] /\ n + 1 \in 1..Len(q) /\ 1 < n + 1
      /\ 1 \in 1..Len(q)
  OBVIOUS
<1> HIDE DEF r
<1>2. ASSUME NEW n \in 1..Len(r), r[n].t = "share_control_grant"
      PROVE  <<v, r[n].id>> \in g /\ i <= r[n].id
  BY <1>1, <1>2 DEF Fit
<1>3. ASSUME NEW m \in 1..Len(r), NEW n \in 1..Len(r), m < n,
             r[m].t = "call_invite", r[n].t = "share_control_grant"
      PROVE  r[m].id <= r[n].id
  <2>1. m + 1 < n + 1
    BY <1>3
  <2> QED
    BY <1>1, <1>3, <2>1 DEF Fit
<1> QED
  BY <1>2, <1>3 DEF Fit, r

(* A grant of share k is put on the way, when no invitation on it, nor     *)
(* what the viewer looks at, is of a later one.                            *)
LEMMA FitGrant ==
  ASSUME NEW g, NEW v, NEW j \in Int, NEW k \in Int, NEW q \in Seq(Messages), Fit(g, v, j, q),
         NEW c \in Messages, c.t = "share_control_grant", c.id = k,
         j <= k, \A n \in 1..Len(q) : q[n].t = "call_invite" => q[n].id <= k
  PROVE  Fit(g \cup {<<v, k>>}, v, j, Append(q, c))
<1> DEFINE r == Append(q, c)
<1>1. /\ Len(q) \in Nat /\ Len(r) = Len(q) + 1 /\ r[Len(q) + 1] = c
      /\ \A n \in 1..Len(q) : r[n] = q[n]
      /\ \A n \in 1..Len(r) : n \in 1..Len(q) \/ n = Len(q) + 1
  OBVIOUS
<1> HIDE DEF r
<1>2. ASSUME NEW n \in 1..Len(r), r[n].t = "share_control_grant"
      PROVE  <<v, r[n].id>> \in g \cup {<<v, k>>} /\ j <= r[n].id
  BY <1>1, <1>2 DEF Fit
<1>3. ASSUME NEW m \in 1..Len(r), NEW n \in 1..Len(r), m < n,
             r[m].t = "call_invite", r[n].t = "share_control_grant"
      PROVE  r[m].id <= r[n].id
  <2>1. m \in 1..Len(q)
    BY <1>1, <1>3
  <2> QED
    BY <1>1, <1>3, <2>1 DEF Fit
<1> QED
  BY <1>2, <1>3 DEF Fit, r

(* An invitation has no grant behind it when it is put on the way.         *)
LEMMA FitInvite ==
  ASSUME NEW g, NEW v, NEW j, NEW q \in Seq(Messages), Fit(g, v, j, q),
         NEW c \in Messages, c.t = "call_invite"
  PROVE  Fit(g, v, j, Append(q, c))
<1> DEFINE r == Append(q, c)
<1>1. /\ Len(q) \in Nat /\ Len(r) = Len(q) + 1 /\ r[Len(q) + 1] = c
      /\ \A n \in 1..Len(q) : r[n] = q[n]
      /\ \A n \in 1..Len(r) : n \in 1..Len(q) \/ n = Len(q) + 1
  OBVIOUS
<1> HIDE DEF r
<1>2. ASSUME NEW n \in 1..Len(r), r[n].t = "share_control_grant"
      PROVE  n \in 1..Len(q) /\ r[n] = q[n]
  BY <1>1, <1>2
<1>3. ASSUME NEW m \in 1..Len(r), NEW n \in 1..Len(r), m < n,
             r[m].t = "call_invite", r[n].t = "share_control_grant"
      PROVE  r[m].id <= r[n].id
  <2>1. n \in 1..Len(q) /\ r[n] = q[n]
    BY <1>2, <1>3
  <2>2. m \in 1..Len(q) /\ r[m] = q[m]
    BY <1>1, <1>3, <2>1
  <2> QED
    BY <1>3, <2>1, <2>2 DEF Fit
<1> QED
  BY <1>2, <1>3 DEF Fit, r

-----------------------------------------------------------------------------
(* From grants to inputs *)

LEMMA AllowedLater ==
  ASSUME granted \subseteq granted' PROVE \A s : AllowedSince(s) => AllowedSince(s)'
BY DEF AllowedSince

LEMMA AllowedInit == ASSUME Init PROVE AllowedInv
<1>1. ShareIsLast /\ GrantsFit
  BY DEF Init, ShareIsLast, GrantsFit, Fit
<1>2. SessionsAllowed /\ CommandsAllowed /\ VerdictsAllowed
  BY DEF Init, SessionsAllowed, CommandsAllowed, VerdictsAllowed
<1> QED
  BY <1>1, <1>2 DEF AllowedInv

(* The daemon's part in a step of the others: a command may be put on the  *)
(* way that sets the switch or comes from a viewer who is allowed.         *)
LEMMA CommandsStep ==
  ASSUME CommandTypes, AllowedInv, granted \subseteq granted', UNCHANGED verdicts,
         \/ UNCHANGED commands
         \/ \E c \in Commands :
              /\ commands' = Append(commands, c)
              /\ c.t = "remote_input" => AllowedSince(c.from)
  PROVE  CommandsAllowed' /\ VerdictsAllowed'
<1>1. VerdictsAllowed'
  BY AllowedLater DEF AllowedInv, VerdictsAllowed
<1>2. ASSUME NEW n \in 1..Len(commands'), commands'[n].t = "remote_input"
      PROVE  AllowedSince(commands'[n].from)
  <2>1. CASE UNCHANGED commands
    BY <1>2, <2>1 DEF AllowedInv, CommandsAllowed
  <2>2. ASSUME NEW c \in Commands, commands' = Append(commands, c),
               c.t = "remote_input" => AllowedSince(c.from)
        PROVE  AllowedSince(commands'[n].from)
    <3>1. \/ n \in 1..Len(commands) /\ commands'[n] = commands[n]
          \/ commands'[n] = c
      BY <1>2, <2>2 DEF CommandTypes
    <3> QED
      BY <1>2, <2>2, <3>1 DEF AllowedInv, CommandsAllowed
  <2> QED
    BY <2>1, <2>2
<1>3. CommandsAllowed'
  BY <1>2, AllowedLater DEF CommandsAllowed
<1> QED
  BY <1>1, <1>3

LEMMA SessionsStep ==
  ASSUME AllowedInv, granted \subseteq granted', channel' \subseteq channel, UNCHANGED inputs
  PROVE  SessionsAllowed'
BY AllowedLater DEF AllowedInv, SessionsAllowed

(* A step of the host's page that tells viewers neither of an invitation   *)
(* nor of a grant.                                                         *)
LEMMA HostAllowed ==
  ASSUME TypeInv, AllowedInv, UNCHANGED <<viewerVars, inputs, verdicts, granted, started>>,
         share' \in {share, NoShare},
         \A v \in Viewers : Plain(toViewer[v], toViewer'[v]),
         UNCHANGED commands \/ \E on \in BOOLEAN : Switch(on)
  PROVE  AllowedInv'
<1>1. ASSUME NEW v \in Viewers PROVE Fit(granted, v, view[v].share, toViewer'[v])
  <2>1. view[v].share \in Int /\ toViewer[v] \in Seq(Messages)
    BY DEF TypeInv, ViewTypes, ViewerWays
  <2>2. Fit(granted, v, view[v].share, toViewer[v]) /\ Plain(toViewer[v], toViewer'[v])
    BY DEF AllowedInv, GrantsFit
  <2> QED
    BY <2>1, <2>2, FitPlain
<1>2. GrantsFit'
  BY <1>1 DEF GrantsFit, viewerVars
<1>3. UNCHANGED commands \/ \E c \in Commands :
        commands' = Append(commands, c) /\ (c.t = "remote_input" => AllowedSince(c.from))
  <2>1. ASSUME NEW on \in BOOLEAN, Switch(on)
        PROVE  \E c \in Commands :
                 commands' = Append(commands, c) /\ (c.t = "remote_input" => AllowedSince(c.from))
    <3>1. [t |-> "remote_host", on |-> on] \in Commands
      BY DEF Commands
    <3> QED
      BY <2>1, <3>1 DEF Switch
  <2> QED
    BY <2>1
<1>4. CommandsAllowed' /\ VerdictsAllowed' /\ SessionsAllowed'
  BY <1>3, CommandsStep, SessionsStep DEF TypeInv, viewerVars
<1>5. ShareIsLast'
  BY DEF AllowedInv, ShareIsLast
<1> QED
  BY <1>2, <1>4, <1>5 DEF AllowedInv

(* endRoomShare and what disarms.                                          *)
LEMMA EndShareAllowed ==
  ASSUME TypeInv, AllowedInv, NEW gone, NEW told \in [Viewers -> Seq(Messages)],
         \A v \in Viewers : Plain(toViewer[v], told[v]), EndShare(gone, told),
         UNCHANGED <<viewerVars, inputs, verdicts, granted, started>>
  PROVE  AllowedInv'
<1>1. toViewer' = Hangups(told, Watching \ gone, Msg("call_hangup", share))
  BY DEF EndShare, Hangups
<1>2. \A v \in Viewers : Plain(toViewer[v], toViewer'[v])
  BY <1>1, HangupsPlain
<1> QED
  BY <1>2, HostAllowed DEF EndShare

LEMMA WaysPlain ==
  ASSUME TypeInv
  PROVE  /\ toViewer \in [Viewers -> Seq(Messages)]
         /\ \A v \in Viewers : Plain(toViewer[v], toViewer[v])
BY PlainSame DEF TypeInv, ViewerWays

LEMMA HostEndsAllowed ==
  ASSUME TypeInv, AllowedInv, NEW approve \in BOOLEAN,
         EndRoomShare \/ ResolveRoomShareStopRequest(approve)
  PROVE  AllowedInv'
<1>1. CASE EndRoomShare
  BY <1>1, WaysPlain, EndShareAllowed DEF EndRoomShare, daemonVars
<1>2. CASE ResolveRoomShareStopRequest(approve)
  <2> DEFINE ack == Told({stopReq}, Msg("room_share_stop_ack", share))
  <2>1. ack \in [Viewers -> Seq(Messages)] /\ \A v \in Viewers : Plain(toViewer[v], ack[v])
    BY ToldPlain
  <2>2. /\ UNCHANGED <<viewerVars, inputs, verdicts, granted, started>>
        /\ \/ EndShare({}, ack)
           \/ toViewer' = ack /\ UNCHANGED <<share, commands>>
    BY <1>2 DEF ResolveRoomShareStopRequest, daemonVars
  <2> HIDE DEF ack
  <2> QED
    BY <2>1, <2>2, EndShareAllowed, HostAllowed
<1> QED
  BY <1>1, <1>2

LEMMA TakenAllowed ==
  ASSUME TypeInv, AllowedInv, NEW v \in Viewers, EndRoomShareViewer(v) \/ RevokeShareControl(v)
  PROVE  AllowedInv'
<1>1. CASE EndRoomShareViewer(v)
  <2> DEFINE told == Told({v}, Msg("call_hangup", share))
  <2>1. told \in [Viewers -> Seq(Messages)] /\ \A w \in Viewers : Plain(toViewer[w], told[w])
    BY ToldPlain
  <2>2. /\ UNCHANGED <<viewerVars, inputs, verdicts, granted, started>>
        /\ \/ EndShare({v}, told)
           \/ toViewer' = told /\ UNCHANGED share /\ DisarmIfLast(ctrl \ {v})
    BY <1>1 DEF EndRoomShareViewer, daemonVars
  <2> HIDE DEF told
  <2> QED
    BY <2>1, <2>2, EndShareAllowed, HostAllowed DEF DisarmIfLast
<1>2. CASE RevokeShareControl(v)
  <2>1. \A w \in Viewers : Plain(toViewer[w], Told({v}, Msg("share_control_revoke", share))[w])
    BY ToldPlain
  <2> QED
    BY <1>2, <2>1, HostAllowed DEF RevokeShareControl, DisarmIfLast, daemonVars
<1> QED
  BY <1>1, <1>2

LEMMA ReceivesAllowed ==
  ASSUME TypeInv, AllowedInv, NEW v \in Viewers, HostReceives(v) PROVE AllowedInv'
<1> DEFINE m == Head(toHost[v])
<1>0. UNCHANGED <<viewerVars, inputs, verdicts, granted, started>>
  BY DEF HostReceives, daemonVars
<1>1. CASE OnControlRequest(v) \/ OnStopRequest(v, m.id) \/ OnRelease(v)
  <2>1. UNCHANGED <<share, toViewer>> /\ (UNCHANGED commands \/ Switch(FALSE))
    BY <1>1 DEF OnControlRequest, OnStopRequest, OnRelease, DisarmIfLast
  <2> QED
    BY <1>0, <2>1, WaysPlain, HostAllowed
<1>2. CASE OnHangup(v, m.id)
  <2>1. EndShare({v}, toViewer) \/ UNCHANGED <<share, toViewer, commands>>
    BY <1>2 DEF OnHangup
  <2> QED
    BY <1>0, <2>1, WaysPlain, EndShareAllowed, HostAllowed
<1> QED
  BY <1>1, <1>2 DEF HostReceives

(* What a viewer looks at, or is invited to, is a share that was started.  *)
LEMMA NoneIsLater ==
  ASSUME TypeInv, InviteInv, NEW v \in Viewers
  PROVE  /\ view[v].share <= started
         /\ \A n \in 1..Len(toViewer[v]) :
              toViewer[v][n].t = "call_invite" => toViewer[v][n].id <= started
<1>1. view[v].share <= started
  <2>1. view[v].share \in 0..MaxShares /\ started \in 0..MaxShares
    BY DEF TypeInv, ViewTypes, HostTypes
  <2>2. CASE view[v].share = 0
    BY <2>1, <2>2, Numbers
  <2>3. CASE view[v].share \in Shares
    BY <2>3 DEF InviteInv, Asked
  <2> QED
    BY <2>1, <2>2, <2>3, Numbers DEF Shares
<1>2. ASSUME NEW n \in 1..Len(toViewer[v]), toViewer[v][n].t = "call_invite"
      PROVE  toViewer[v][n].id <= started
  <2>1. toViewer[v][n].id \in Shares
    BY <1>2 DEF TypeInv, Shown
  <2>2. Invited(toViewer[v], toViewer[v][n].id)
    BY <1>2 DEF Invited, InviteAt
  <2> QED
    BY <2>1, <2>2 DEF InviteInv, Asked
<1> QED
  BY <1>1, <1>2

LEMMA ResolveAllowed ==
  ASSUME TypeInv, InviteInv, AllowedInv, NEW approve \in BOOLEAN,
         ResolveShareControlRequest(approve)
  PROVE  AllowedInv'
<1>0. /\ UNCHANGED <<viewerVars, inputs, verdicts, started, share>>
      /\ ctrlReq \in Viewers /\ share \in Shares
  BY DEF ResolveShareControlRequest, IsViewer, Watching, TypeInv, HostTypes, NoShare, Shares,
     daemonVars
<1>1. CASE ~ approve
  <2>1. /\ toViewer' = Told({ctrlReq}, Msg("share_control_refused", share))
        /\ UNCHANGED <<commands, granted>>
    BY <1>1 DEF ResolveShareControlRequest, Answer
  <2>2. \A v \in Viewers :
          Plain(toViewer[v], Told({ctrlReq}, Msg("share_control_refused", share))[v])
    BY ToldPlain
  <2> QED
    BY <1>0, <2>1, <2>2, HostAllowed
<1>2. CASE approve
  <2> DEFINE c == Msg("share_control_grant", share)
  <2>1. /\ toViewer' = Told({ctrlReq}, c) /\ granted' = granted \cup {<<ctrlReq, share>>}
        /\ Switch(TRUE)
    BY <1>2 DEF ResolveShareControlRequest, Answer
  <2>2. c \in Messages /\ c.t = "share_control_grant" /\ c.id = share
    BY MessageTypes DEF TypeInv, HostTypes, MsgTypes
  <2> HIDE DEF c
  <2>3. share = started
    BY <1>0, Numbers DEF AllowedInv, ShareIsLast, NoShare
  <2>4. ASSUME NEW v \in Viewers PROVE Fit(granted', v, view[v].share, toViewer'[v])
    <3>1. /\ view[v].share \in Int /\ share \in Int /\ toViewer[v] \in Seq(Messages)
          /\ Fit(granted, v, view[v].share, toViewer[v])
      BY <1>0, Numbers DEF TypeInv, ViewTypes, ViewerWays, AllowedInv, GrantsFit
    <3>2. toViewer'[v] = IF v = ctrlReq THEN Append(toViewer[v], c) ELSE toViewer[v]
      BY <2>1, <2>2, ToldType DEF TypeInv
    <3>3. CASE v = ctrlReq
      <4>1. /\ view[v].share <= share
            /\ \A n \in 1..Len(toViewer[v]) :
                 toViewer[v][n].t = "call_invite" => toViewer[v][n].id <= share
        BY <2>3, NoneIsLater
      <4>2. Fit(granted \cup {<<v, share>>}, v, view[v].share, Append(toViewer[v], c))
        BY <2>2, <3>1, <4>1, FitGrant
      <4> QED
        BY <2>1, <3>2, <3>3, <4>2
    <3>4. CASE v # ctrlReq
      <4>1. Plain(toViewer[v], toViewer'[v]) /\ granted \subseteq granted'
        BY <2>1, <3>1, <3>2, <3>4, PlainSame
      <4> QED
        BY <3>1, <4>1, FitPlain
    <3> QED
      BY <3>3, <3>4
  <2>5. GrantsFit'
    BY <1>0, <2>4 DEF GrantsFit, viewerVars
  <2>6. \E d \in Commands :
          commands' = Append(commands, d) /\ (d.t = "remote_input" => AllowedSince(d.from))
    <3>1. [t |-> "remote_host", on |-> TRUE] \in Commands
      BY DEF Commands
    <3> QED
      BY <2>1, <3>1 DEF Switch
  <2>7. CommandsAllowed' /\ VerdictsAllowed' /\ SessionsAllowed'
    BY <1>0, <2>1, <2>6, CommandsStep, SessionsStep DEF TypeInv, viewerVars
  <2>8. ShareIsLast'
    BY <1>0 DEF AllowedInv, ShareIsLast
  <2> QED
    BY <2>5, <2>7, <2>8 DEF AllowedInv
<1> QED
  BY <1>1, <1>2

LEMMA StartAllowed == ASSUME TypeInv, AllowedInv, StartRoomShare PROVE AllowedInv'
<1>1. /\ share' = started' /\ UNCHANGED <<view, toViewer, granted, channel, inputs, commands, verdicts>>
  BY DEF StartRoomShare, viewerVars, daemonVars
<1>2. ShareIsLast' /\ GrantsFit'
  BY <1>1 DEF ShareIsLast, AllowedInv, GrantsFit
<1>3. CommandsAllowed' /\ VerdictsAllowed' /\ SessionsAllowed'
  BY <1>1, CommandsStep, SessionsStep DEF TypeInv
<1> QED
  BY <1>2, <1>3 DEF AllowedInv

LEMMA InviteAllowed ==
  ASSUME TypeInv, AllowedInv, NEW v \in Viewers, NEW k \in Shares, InviteNext(v, k)
  PROVE  AllowedInv'
<1> DEFINE c == Msg("call_invite", k)
<1>1. /\ toViewer' = Told({v}, c)
      /\ UNCHANGED <<share, started, view, granted, channel, inputs, commands, verdicts>>
  BY DEF InviteNext, viewerVars, daemonVars
<1>2. c \in Messages /\ c.t = "call_invite"
  BY Numbers, MessageTypes DEF MsgTypes
<1> HIDE DEF c
<1>3. ASSUME NEW w \in Viewers PROVE Fit(granted, w, view[w].share, toViewer'[w])
  <2>1. toViewer[w] \in Seq(Messages) /\ Fit(granted, w, view[w].share, toViewer[w])
    BY DEF TypeInv, ViewerWays, AllowedInv, GrantsFit
  <2>2. toViewer'[w] = IF w = v THEN Append(toViewer[w], c) ELSE toViewer[w]
    BY <1>1, <1>2, ToldType DEF TypeInv
  <2> QED
    BY <1>2, <2>1, <2>2, FitInvite
<1>4. ShareIsLast' /\ GrantsFit'
  BY <1>1, <1>3 DEF ShareIsLast, AllowedInv, GrantsFit
<1>5. CommandsAllowed' /\ VerdictsAllowed' /\ SessionsAllowed'
  BY <1>1, CommandsStep, SessionsStep DEF TypeInv
<1> QED
  BY <1>4, <1>5 DEF AllowedInv

(* An input reaches the page, and its daemon.                              *)
LEMMA ChannelMessageAllowed ==
  ASSUME TypeInv, AllowedInv, NEW v \in Viewers, OnChannelMessage(v) PROVE AllowedInv'
<1> DEFINE s == <<v, Head(inputs[v])>>
<1>1. /\ UNCHANGED <<share, started, view, toViewer, granted, channel, verdicts>>
      /\ inputs[v] # <<>> /\ inputs[v] \in Seq(Shares)
      /\ inputs' = [inputs EXCEPT ![v] = Tail(@)]
      /\ UNCHANGED commands \/ (s \in calls /\ commands' = Append(commands, Input(s)))
  BY DEF OnChannelMessage, TypeInv, InputWays, hostVars, daemonVars, viewerVars
<1>2. AllowedSince(s)
  <2>1. 1 \in 1..Len(inputs[v]) /\ Head(inputs[v]) = inputs[v][1]
    BY <1>1
  <2> QED
    BY <2>1 DEF AllowedInv, SessionsAllowed
<1>3. s \in calls => Input(s) \in Commands /\ Input(s).from = s
  BY DEF Input, Commands, TypeInv, HostTypes
<1> HIDE DEF s
<1>4. CommandsAllowed' /\ VerdictsAllowed'
  BY <1>1, <1>2, <1>3, CommandsStep DEF TypeInv
<1>5. ASSUME NEW w \in Viewers, NEW n \in 1..Len(inputs'[w]) PROVE AllowedSince(<<w, inputs'[w][n]>>)
  <2>1. CASE w = v
    <3>1. inputs'[w] = Tail(inputs[v])
      BY <1>1, <2>1 DEF TypeInv, InputWays
    <3>2. \A i \in 1..Len(Tail(inputs[v])) :
            i + 1 \in 1..Len(inputs[v]) /\ Tail(inputs[v])[i] = inputs[v][i + 1]
      BY <1>1
    <3>3. n + 1 \in 1..Len(inputs[v]) /\ inputs'[w][n] = inputs[v][n + 1]
      BY <1>5, <3>1, <3>2
    <3> QED
      BY <2>1, <3>3 DEF AllowedInv, SessionsAllowed
  <2>2. CASE w # v
    <3>1. inputs'[w] = inputs[w]
      BY <1>1, <2>2 DEF TypeInv, InputWays
    <3> QED
      BY <1>5, <3>1 DEF AllowedInv, SessionsAllowed
  <2> QED
    BY <2>1, <2>2
<1>6. SessionsAllowed'
  BY <1>1, <1>5, AllowedLater DEF AllowedInv, SessionsAllowed
<1>7. ShareIsLast' /\ GrantsFit'
  BY <1>1 DEF ShareIsLast, AllowedInv, GrantsFit
<1> QED
  BY <1>4, <1>6, <1>7 DEF AllowedInv

LEMMA DaemonHandlesAllowed == ASSUME TypeInv, AllowedInv, DaemonHandles PROVE AllowedInv'
<1> DEFINE c == Head(commands)
<1>1. /\ UNCHANGED <<share, started, view, toViewer, granted, channel, inputs>>
      /\ commands # <<>> /\ commands \in Seq(Commands) /\ commands' = Tail(commands)
      /\ 1 \in 1..Len(commands) /\ c = commands[1] /\ c \in Commands
      /\ \A n \in 1..Len(Tail(commands)) :
           n + 1 \in 1..Len(commands) /\ Tail(commands)[n] = commands[n + 1]
  BY DEF DaemonHandles, TypeInv, CommandTypes, hostVars, viewerVars
<1>2. CommandsAllowed'
  BY <1>1, AllowedLater DEF AllowedInv, CommandsAllowed
<1>3. VerdictsAllowed'
  <2>1. CASE c.t = "remote_host"
    <3>1. UNCHANGED verdicts
      BY <2>1 DEF DaemonHandles
    <3> QED
      BY <1>1, <3>1, AllowedLater DEF AllowedInv, VerdictsAllowed
  <2>2. CASE c.t # "remote_host"
    <3>1. c.t = "remote_input"
      BY <1>1, <2>2 DEF Commands
    <3>2. AllowedSince(c.from)
      BY <1>1, <3>1 DEF AllowedInv, CommandsAllowed
    <3>3. verdicts' = verdicts \cup {[from |-> c.from, on |-> c.on, injected |-> hosting]}
      BY <2>2 DEF DaemonHandles
    <3>4. ASSUME NEW x \in verdicts' PROVE AllowedSince(x.from)
      BY <3>2, <3>3, <3>4 DEF AllowedInv, VerdictsAllowed
    <3> QED
      BY <1>1, <3>4, AllowedLater DEF VerdictsAllowed
  <2> QED
    BY <2>1, <2>2
<1>4. ShareIsLast' /\ GrantsFit' /\ SessionsAllowed'
  BY <1>1, SessionsStep DEF ShareIsLast, AllowedInv, GrantsFit
<1> QED
  BY <1>2, <1>3, <1>4 DEF AllowedInv

(* A step of a viewer who reads nothing: he looks at what he looked at, or *)
(* at nothing.                                                             *)
LEMMA ViewerAllowed ==
  ASSUME TypeInv, AllowedInv, UNCHANGED <<share, started, toViewer, granted, commands, verdicts>>,
         \A v \in Viewers : view'[v].share \in {view[v].share, NoShare},
         SessionsAllowed'
  PROVE  AllowedInv'
<1>1. ASSUME NEW v \in Viewers PROVE Fit(granted, v, view'[v].share, toViewer[v])
  <2>0. view[v].share \in 0..MaxShares /\ toViewer[v] \in Seq(Messages)
    BY DEF TypeInv, ViewTypes, ViewerWays
  <2>1. /\ view[v].share \in Int /\ view'[v].share \in Int /\ view'[v].share <= view[v].share
        /\ toViewer[v] \in Seq(Messages)
    <3>1. view'[v].share = view[v].share \/ view'[v].share = 0
      BY DEF NoShare
    <3> QED
      BY <2>0, <3>1, Numbers
  <2>2. Plain(toViewer[v], toViewer[v]) /\ Fit(granted, v, view[v].share, toViewer[v])
    BY <2>1, PlainSame DEF AllowedInv, GrantsFit
  <2> QED
    BY <2>1, <2>2, FitPlain
<1>2. GrantsFit' /\ ShareIsLast'
  BY <1>1 DEF GrantsFit, AllowedInv, ShareIsLast
<1>3. CommandsAllowed' /\ VerdictsAllowed'
  BY CommandsStep DEF TypeInv
<1> QED
  BY <1>2, <1>3 DEF AllowedInv

LEMMA ViewOnlyAllowed ==
  ASSUME TypeInv, AllowedInv, NEW v \in Viewers,
         \/ AcceptIncomingCall(v) \/ CloseView(v) \/ HangupAll(v) \/ RequestShareControl(v)
         \/ StopButton(v) \/ StopByScript(v) \/ EndControl(v) \/ \E k \in Shares : OfferSent(v, k)
  PROVE  AllowedInv'
<1>1. /\ UNCHANGED <<share, started, toViewer, granted, commands, verdicts, inputs>>
      /\ channel' \subseteq channel
  BY DEF AcceptIncomingCall, CloseView, HangupAll, RequestShareControl, StopButton, StopByScript,
     RequestRoomShareStop, EndControl, OfferSent, hostVars, viewerVars, daemonVars
<1>2. \A w \in Viewers : view'[w].share \in {view[w].share, NoShare}
  <2>1. CASE UNCHANGED view
    BY <2>1
  <2>2. CASE AcceptIncomingCall(v)
    BY <2>2 DEF AcceptIncomingCall, TypeInv, ViewTypes
  <2>3. CASE view' = [view EXCEPT ![v] = NoView]
    BY <2>3 DEF TypeInv, ViewTypes, NoView
  <2>4. CASE \E on \in BOOLEAN : SetCtrl(v, on)
    BY <2>4, SetCtrlView
  <2> QED
    BY <2>1, <2>2, <2>3, <2>4 DEF CloseView, HangupAll, RequestShareControl, StopButton,
       StopByScript, RequestRoomShareStop, EndControl, DisableShareControl, OfferSent, viewerVars
<1>3. SessionsAllowed'
  BY <1>1, SessionsStep
<1> QED
  BY <1>1, <1>2, <1>3, ViewerAllowed

(* An input is sent over the channel of the session the viewer looks at.   *)
LEMMA InputAllowed ==
  ASSUME TypeInv, AllowedInv, NEW v \in Viewers, SendRemoteInput(v) PROVE AllowedInv'
<1>1. /\ UNCHANGED <<share, started, toViewer, granted, commands, verdicts, view, channel>>
      /\ inputs' = [inputs EXCEPT ![v] = Append(@, view[v].share)]
      /\ <<v, view[v].share>> \in channel
  BY DEF SendRemoteInput, SendInput, HasChannel, Current, hostVars, viewerVars, daemonVars
<1>2. AllowedSince(<<v, view[v].share>>)
  BY <1>1 DEF AllowedInv, SessionsAllowed
<1>3. ASSUME NEW w \in Viewers, NEW n \in 1..Len(inputs'[w]) PROVE AllowedSince(<<w, inputs'[w][n]>>)
  <2>1. inputs[w] \in Seq(Shares) /\ view[v].share \in Shares
    BY <1>1 DEF TypeInv, InputWays, SessionTypes, Sessions
  <2>2. inputs'[w] = IF w = v THEN Append(inputs[w], view[v].share) ELSE inputs[w]
    BY <1>1 DEF TypeInv, InputWays
  <2>3. \/ n \in 1..Len(inputs[w]) /\ inputs'[w][n] = inputs[w][n]
        \/ w = v /\ inputs'[w][n] = view[v].share
    BY <1>3, <2>1, <2>2
  <2> QED
    BY <1>2, <2>3 DEF AllowedInv, SessionsAllowed
<1>4. SessionsAllowed'
  BY <1>1, <1>3, AllowedLater DEF AllowedInv, SessionsAllowed
<1> QED
  BY <1>1, <1>4, ViewerAllowed

LEMMA ViewerReceivesAllowed ==
  ASSUME TypeInv, AllowedInv, NEW v \in Viewers, ViewerReceives(v) PROVE AllowedInv'
<1> DEFINE q == toViewer[v]
           m == Head(q)
<1>1. /\ UNCHANGED <<share, started, granted, commands, verdicts, inputs>>
      /\ q # <<>> /\ q \in Seq(Messages) /\ toViewer'[v] = Tail(q)
      /\ \A w \in Viewers : w # v => toViewer'[w] = toViewer[w]
      /\ 1 \in 1..Len(q) /\ m = q[1]
  BY DEF ViewerReceives, TypeInv, ViewerWays, hostVars, daemonVars
<1>2. /\ \A w \in Viewers : w # v => view'[w] = view[w]
      /\ \/ view'[v].share \in {view[v].share, NoShare}
         \/ m.t = "call_invite" /\ view'[v].share = m.id
  <2>1. CASE UNCHANGED view
    BY <2>1
  <2>2. CASE m.t = "call_invite" /\ view' = [view EXCEPT ![v] = [share |-> m.id, ringing |-> TRUE, ctrl |-> FALSE]]
    BY <2>2 DEF TypeInv, ViewTypes
  <2>3. CASE view' = [view EXCEPT ![v] = NoView]
    BY <2>3 DEF TypeInv, ViewTypes, NoView
  <2>4. CASE \E on \in BOOLEAN : SetCtrl(v, on)
    BY <2>4, SetCtrlView
  <2> QED
    BY <2>1, <2>2, <2>3, <2>4 DEF ViewerReceives, EnableShareControl, DisableShareControl, viewerVars
<1>3. Fit(granted, v, view[v].share, q)
  BY DEF AllowedInv, GrantsFit
<1>4. \/ channel' \subseteq channel
      \/ m.t = "share_control_grant" /\ channel' = channel \cup {<<v, view[v].share>>}
  BY DEF ViewerReceives, EnableShareControl, Current, viewerVars
<1>5. m.t = "share_control_grant" => AllowedSince(<<v, view[v].share>>)
  <2>1. SUFFICES ASSUME m.t = "share_control_grant" PROVE AllowedSince(<<v, view[v].share>>)
    OBVIOUS
  <2>2. <<v, m.id>> \in granted /\ view[v].share <= m.id
    BY <1>1, <1>3, <2>1 DEF Fit
  <2>3. m.id \in 0..MaxShares /\ view[v].share \in 0..MaxShares
    <3>1. m \in Messages
      BY <1>1
    <3> QED
      BY <3>1 DEF Messages, TypeInv, ViewTypes
  <2>4. m.id \in view[v].share..MaxShares
    BY <2>2, <2>3, Numbers
  <2> QED
    BY <2>2, <2>4 DEF AllowedSince
<1>6. SessionsAllowed'
  <2>1. ASSUME NEW s \in channel' PROVE AllowedSince(s)
    BY <1>4, <1>5, <2>1 DEF AllowedInv, SessionsAllowed
  <2> QED
    BY <1>1, <2>1, AllowedLater DEF AllowedInv, SessionsAllowed
<1>7. ASSUME NEW w \in Viewers PROVE Fit(granted, w, view'[w].share, toViewer'[w])
  <2>1. CASE w # v
    BY <1>1, <1>2, <2>1 DEF AllowedInv, GrantsFit
  <2>2. CASE /\ w = v
             /\ \/ view'[v].share = view[v].share
                \/ m.t = "call_invite" /\ view'[v].share = m.id
    BY <1>1, <1>3, <2>2, FitTail
  <2>3. CASE w = v /\ view'[v].share = NoShare
    <3>2. view[v].share \in Int /\ NoShare \in Int /\ NoShare <= view[v].share
      <4>1. view[v].share \in 0..MaxShares
        BY DEF TypeInv, ViewTypes
      <4> QED
        BY <4>1, Numbers DEF NoShare
    <3> HIDE DEF q, m
    <3>1. Fit(granted, v, view[v].share, Tail(q)) /\ Tail(q) \in Seq(Messages)
      BY <1>1, <1>3, FitTail
    <3>3. Plain(Tail(q), Tail(q))
      BY <3>1, PlainSame
    <3>4. Fit(granted, v, NoShare, Tail(q))
      BY <3>1, <3>2, <3>3, FitPlain
    <3> QED
      BY <1>1, <2>3, <3>4
  <2> QED
    BY <1>2, <2>1, <2>2, <2>3
<1>8. GrantsFit' /\ ShareIsLast'
  BY <1>1, <1>7 DEF GrantsFit, AllowedInv, ShareIsLast
<1>9. CommandsAllowed' /\ VerdictsAllowed'
  BY <1>1, CommandsStep DEF TypeInv
<1> QED
  BY <1>6, <1>8, <1>9 DEF AllowedInv

(* Only who is allowed has a channel, in every step.                       *)
LEMMA AllowedStep == ASSUME TypeInv, InviteInv, AllowedInv, [Next]_vars PROVE AllowedInv'
<1>1. CASE UNCHANGED vars
  <2>1. /\ UNCHANGED <<share, started, toViewer, granted, commands, verdicts, view, inputs>>
        /\ channel' \subseteq channel
    BY <1>1 DEF vars, hostVars, viewerVars, daemonVars
  <2> QED
    BY <2>1, SessionsStep, ViewerAllowed
<1>2. ASSUME \/ StartRoomShare \/ EndRoomShare \/ DaemonHandles
             \/ \E approve \in BOOLEAN :
                  ResolveShareControlRequest(approve) \/ ResolveRoomShareStopRequest(approve)
      PROVE  AllowedInv'
  BY <1>2, StartAllowed, HostEndsAllowed, DaemonHandlesAllowed, ResolveAllowed
<1>3. ASSUME NEW v \in Viewers,
             EndRoomShareViewer(v) \/ RevokeShareControl(v) \/ HostReceives(v) \/ OnChannelMessage(v)
      PROVE  AllowedInv'
  BY <1>3, TakenAllowed, ReceivesAllowed, ChannelMessageAllowed
<1>4. ASSUME NEW v \in Viewers,
             \/ AcceptIncomingCall(v) \/ CloseView(v) \/ HangupAll(v) \/ RequestShareControl(v)
             \/ StopButton(v) \/ StopByScript(v) \/ EndControl(v) \/ ViewerReceives(v)
             \/ SendRemoteInput(v) \/ \E k \in Shares : OfferSent(v, k) \/ InviteNext(v, k)
      PROVE  AllowedInv'
  BY <1>4, ViewOnlyAllowed, ViewerReceivesAllowed, InputAllowed, InviteAllowed
<1> QED
  BY <1>1, <1>2, <1>3, <1>4 DEF Next

(* The inductive invariant.                                                *)
THEOREM Invariance == Spec => []Inv
<1>1. Init => Inv
  BY InitTypes, SwitchInit, InitPanel, AllowedInit DEF Inv
<1>2. Inv /\ [Next]_vars => Inv'
  BY TypeStep, SwitchStep, PanelStep, AllowedStep DEF Inv
<1> QED
  BY <1>1, <1>2, PTL DEF Spec

(* What is injected came over a session whose viewer the host allowed to   *)
(* control since the share began, and while someone, not necessarily he,   *)
(* was in control.                                                         *)
THEOREM InjectionIsRight == Spec => []InjectedOnlyIfAllowed
<1>1. Inv => InjectedOnlyIfAllowed
  BY DEF Inv, SwitchInv, InjectedUnderControl, AllowedInv, VerdictsAllowed, InjectedOnlyIfAllowed
<1> QED
  BY <1>1, Invariance, PTL

(* A viewer that the host holds for a controller, and that looks at the    *)
(* host's share, has the control panel, or will get it, or has given it    *)
(* back.                                                                   *)
THEOREM PanelIsThere == Spec => []ControllerHasPanel
<1>1. Inv => ControllerHasPanel
  BY DEF Inv, PanelInv
<1> QED
  BY <1>1, Invariance, PTL

=============================================================================
