-------------------------------- MODULE Rooms --------------------------------
(***************************************************************************)
(* Rooms of localim: the member table every daemon keeps                   *)
(* (native/core/session/room_manager.cc) and the room signals between the  *)
(* daemons (room requests of Daemon::Dispatch, FanOutRoomSync and          *)
(* HandleInboundRoomSignal of daemon.cc).  The owner is the root of the    *)
(* mesh: it alone changes the table for all and sends it to the members it *)
(* has in its peer registry.                                               *)
(*                                                                         *)
(* Rooms are independent, so one is modelled, created by Owner.  Signals   *)
(* between two daemons arrive in order or not at all (see PeerLink).       *)
(*                                                                         *)
(* No name is one of Presence, so that Tables_proofs can extend both.      *)
(***************************************************************************)
EXTENDS Naturals, Sequences, Functions

CONSTANTS
  Daemon,       \* the daemons
  Owner,        \* the daemon that creates the room
  MaxRequests,  \* bound on requests of the WebUIs
  MaxLost     \* bound on signals lost and peers forgotten

ASSUME RoomsAssumption ==
  Owner \in Daemon /\ {MaxRequests, MaxLost} \subseteq Nat

VARIABLES
  known,     \* the daemons whose rooms_ has the room
  members,   \* members[d]: Room.members at d
  seq,       \* Room.seq
  sees,      \* sees[d]: the devices in peers_ of d
  net,       \* net[a][b]: room signals from a to b
  missed,    \* the devices that were not sent the owner's present table
  requests, lost

roomVars == <<known, members, seq, sees, net, missed, requests, lost>>

Table(S) == [m |-> "sync", members |-> S, member |-> Owner]
Joined(d) == [m |-> "member_joined", members |-> {}, member |-> d]
Left(d) == [m |-> "member_left", members |-> {}, member |-> d]

RoomsInit ==
  /\ known = {}
  /\ members = [d \in Daemon |-> {}]
  /\ seq = [d \in Daemon |-> 0]
  /\ sees = [d \in Daemon |-> Daemon \ {d}]
  /\ net = [a \in Daemon |-> [b \in Daemon |-> <<>>]]
  /\ missed = Daemon
  /\ requests = 0
  /\ lost = 0

------------------------------------------------------------------------------
Request(d) == requests < MaxRequests /\ requests' = requests + 1

(***************************************************************************)
(* FanOutRoomSync of the owner's new table S to its members in the peer    *)
(* registry, after the signals first[d], on the channels base.  A daemon   *)
(* that was not sent S has missed it.                                      *)
(***************************************************************************)
FanOutRoomSync(base, peers, S, exclude, first) ==
  LET reached == (S \cap peers) \ {Owner, exclude}
      added == [d \in Daemon |->
                  IF d \in reached THEN Append(first[d], Table(S))
                  ELSE first[d]]
  IN  /\ net' = [base EXCEPT ![Owner] = [d \in Daemon |-> @[d] \o added[d]]]
      /\ missed' = {d \in Daemon : Table(S) \notin Range(added[d])}

NoSignal == [d \in Daemon |-> <<>>]

(* The only signal is s, to b, if a has b in its peer registry.            *)
SignalIfSeen(a, b, s) ==
  [d \in Daemon |-> IF d = b /\ b \in sees[a] THEN <<s>> ELSE <<>>]

------------------------------------------------------------------------------
(* Requests of the WebUI (Daemon::Dispatch, ns "room"). *)

Create ==
  /\ Request(Owner) /\ seq[Owner] = 0
  /\ known' = known \cup {Owner}
  /\ members' = [members EXCEPT ![Owner] = {Owner}]
  /\ seq' = [seq EXCEPT ![Owner] = 1]
  /\ missed' = Daemon
  /\ UNCHANGED <<sees, net, lost>>

(* join: only a room the daemon knows; another owner is asked to register. *)
Join(d) ==
  /\ Request(d) /\ d \in known
  /\ members' = [members EXCEPT ![d] = @ \cup {d}]
  /\ seq' = [seq EXCEPT ![d] = @ + 1]
  /\ IF d # Owner /\ Owner \in sees[d]
     THEN net' = [net EXCEPT ![d][Owner] = Append(@, Joined(d))]
     ELSE UNCHANGED net
  /\ missed' = IF d = Owner /\ d \notin members[d] THEN Daemon ELSE missed
  /\ UNCHANGED <<known, sees, lost>>

(* RoomManager::Leave forgets a room that has no member left.              *)
LeaveRoom(d) ==
  /\ members' = [members EXCEPT ![d] = @ \ {d}]
  /\ known' = IF members[d] \ {d} = {} THEN known \ {d} ELSE known

(* leave: the owner tells the rest, another member tells nobody. *)
Leave(d) ==
  LET rest == members[d] \ {d}
  IN  /\ Request(d) /\ d \in known
      /\ LeaveRoom(d)
      /\ IF d = Owner
         THEN FanOutRoomSync(net, sees[d], rest, Owner, NoSignal)
         ELSE missed' = missed \cup {d} /\ UNCHANGED net
      /\ UNCHANGED <<seq, sees, lost>>

(* invite, at the owner. *)
Invite(t) ==
  LET S == members[Owner] \cup {t}
  IN  /\ Request(Owner) /\ Owner \in known /\ t # Owner
      /\ members' = [members EXCEPT ![Owner] = S]
      /\ seq' = [seq EXCEPT ![Owner] = @ + 1]
      /\ FanOutRoomSync(net, sees[Owner], S, t,
                        SignalIfSeen(Owner, t, Table(S)))
      /\ UNCHANGED <<known, sees, lost>>

(* kick, at the owner: the target is told that it has left. *)
Kick(t) ==
  LET S == members[Owner] \ {t}
  IN  /\ Request(Owner) /\ Owner \in known
      /\ members' = [members EXCEPT ![Owner] = S]
      /\ seq' = [seq EXCEPT ![Owner] = @ + 1]
      /\ FanOutRoomSync(net, sees[Owner], S, t,
                        SignalIfSeen(Owner, t, Left(t)))
      /\ UNCHANGED <<known, sees, lost>>

------------------------------------------------------------------------------
(* Mutant: the imported table is added to the present one. *)
UpsertMerges(old, imported) == old \cup imported

(* RoomManager::Upsert replaces the table by the imported one. *)
Upsert(old, imported) == imported

(***************************************************************************)
(* HandleInboundRoomSignal at b: the next signal from a.  OnHubMessage has *)
(* put a into the registry of b.                                           *)
(***************************************************************************)
HandleInboundRoomSignal(a, b) ==
  LET s == Head(net[a][b])
      S == members[b] \cup {s.member}
      rest == [net EXCEPT ![a][b] = Tail(@)]
  IN  /\ net[a][b] # <<>>
      /\ sees' = [sees EXCEPT ![b] = @ \cup {a}]
      /\ \/ /\ s.m = "member_left" /\ b \in known
            /\ LeaveRoom(b)
            /\ net' = rest
            /\ UNCHANGED <<seq, missed>>
         \/ /\ s.m = "member_joined" /\ b = Owner /\ b \in known
            /\ members' = [members EXCEPT ![b] = S]
            /\ seq' = IF s.member \in members[b] THEN seq
                      ELSE [seq EXCEPT ![b] = @ + 1]
            /\ FanOutRoomSync(rest, sees[b] \cup {a}, S, Owner, NoSignal)
            /\ UNCHANGED known
         \/ /\ s.m = "sync"
            /\ known' = known \cup {b}
            /\ members' = [members EXCEPT ![b] = Upsert(@, s.members)]
            /\ seq' = [seq EXCEPT ![b] = IF b \in known THEN @ + 1 ELSE 1]
            /\ net' = rest
            /\ UNCHANGED missed
         \/ /\ \/ s.m = "member_left" /\ b \notin known
               \/ s.m = "member_joined" /\ (b # Owner \/ b \notin known)
            /\ net' = rest
            /\ UNCHANGED <<known, members, seq, missed>>
      /\ UNCHANGED <<requests, lost>>

HasTable(q) == \E s \in Range(q) : s.m = "sync"

(* The transport gives up a signal (see PeerLink). *)
LoseSignal(a, b) ==
  /\ net[a][b] # <<>>
  /\ lost < MaxLost /\ lost' = lost + 1
  /\ net' = [net EXCEPT ![a][b] = Tail(@)]
  /\ missed' = IF a = Owner /\ ~HasTable(Tail(net[a][b]))
               THEN missed \cup {b} ELSE missed
  /\ UNCHANGED <<known, members, seq, sees, requests>>

(* The peer registry forgets a peer and finds it again (see Presence). *)
LosePeer(a, b) ==
  /\ b \in sees[a]
  /\ lost < MaxLost /\ lost' = lost + 1
  /\ sees' = [sees EXCEPT ![a] = @ \ {b}]
  /\ UNCHANGED <<known, members, seq, net, missed, requests>>

FindPeer(a, b) ==
  /\ a # b /\ b \notin sees[a]
  /\ sees' = [sees EXCEPT ![a] = @ \cup {b}]
  /\ UNCHANGED <<known, members, seq, net, missed, requests, lost>>

Requests ==
  \/ Create
  \/ \E d \in Daemon : Join(d) \/ Leave(d) \/ Invite(d) \/ Kick(d)

Network ==
  \E a, b \in Daemon :
     \/ HandleInboundRoomSignal(a, b)
     \/ LoseSignal(a, b)
     \/ LosePeer(a, b)
     \/ FindPeer(a, b)

RoomsNext == Requests \/ Network

RoomsSpec == RoomsInit /\ [][RoomsNext]_roomVars

------------------------------------------------------------------------------
(* Properties. *)

Signal == [m : {"sync", "member_joined", "member_left"},
           members : SUBSET Daemon, member : Daemon]

(* Tables, registries and signals hold what their types say. *)
RoomsTypeOK ==
  /\ known \in SUBSET Daemon
  /\ members \in [Daemon -> SUBSET Daemon]
  /\ seq \in [Daemon -> Nat]
  /\ sees \in [Daemon -> SUBSET Daemon]
  /\ net \in [Daemon -> [Daemon -> Seq(Signal)]]
  /\ missed \in SUBSET Daemon
  /\ requests \in 0..MaxRequests
  /\ lost \in 0..MaxLost

(* Every daemon that was sent the owner's present table has it or gets it  *)
(* as the last signal on its way, however joins, invitations, kicks and    *)
(* lost signals of before interleave: a table that is missed is made good  *)
(* by the next one (FanOutRoomSync sends whole tables, Upsert replaces).   *)
MeshAgrees ==
  \A d \in Daemon \ (missed \cup {Owner}) :
     LET q == net[Owner][d]
     IN  /\ d \in members[Owner]
         /\ IF q = <<>> THEN members[d] = members[Owner]
            ELSE q[Len(q)] = Table(members[Owner])

(* daemon.cc 772: a daemon that was kicked removes the room.               *)
KickedForgetsRoom ==
  [][\A a, b \in Daemon :
       (HandleInboundRoomSignal(a, b) /\ Head(net[a][b]).m = "member_left")
          => b \notin known']_roomVars
=============================================================================
