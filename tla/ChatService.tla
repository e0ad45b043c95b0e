------------------------------ MODULE ChatService ------------------------------
(***************************************************************************)
(* What one-to-one chat promises its users, whatever the transport does:   *)
(* the receiver's ledger is the sender's messages in the order they were   *)
(* accepted, possibly with gaps and never twice, and a message is shown as *)
(* delivered only when it is in the receiver's ledger.  PeerLink refines   *)
(* this specification.                                                     *)
(***************************************************************************)
EXTENDS Naturals, Sequences

CONSTANT Device    \* the daemons

VARIABLES
  accepted,   \* accepted[a][b]: how many messages a accepted for b
  stored,     \* stored[b][a]: those in b's ledger, oldest first
  delivered   \* delivered[a][b]: those a's user sees as delivered

vars == <<accepted, stored, delivered>>

Init ==
  /\ accepted = [a \in Device |-> [b \in Device |-> 0]]
  /\ stored = [a \in Device |-> [b \in Device |-> <<>>]]
  /\ delivered = [a \in Device |-> [b \in Device |-> {}]]

Accept(a, b) ==
  /\ a # b
  /\ accepted' = [accepted EXCEPT ![a][b] = @ + 1]
  /\ UNCHANGED <<stored, delivered>>

(* n reaches the ledger of b: after every message stored before it. *)
Store(a, b, n) ==
  /\ n \in 1..accepted[a][b]
  /\ \A i \in 1..Len(stored[b][a]) : stored[b][a][i] < n
  /\ stored' = [stored EXCEPT ![b][a] = Append(@, n)]
  /\ UNCHANGED <<accepted, delivered>>

Deliver(a, b, n) ==
  /\ \E i \in 1..Len(stored[b][a]) : stored[b][a][i] = n
  /\ delivered' = [delivered EXCEPT ![a][b] = @ \cup {n}]
  /\ UNCHANGED <<accepted, stored>>

Next ==
  \E a, b \in Device :
     \/ Accept(a, b)
     \/ \E n \in 1..accepted[a][b] : Store(a, b, n) \/ Deliver(a, b, n)

Spec == Init /\ [][Next]_vars
=============================================================================
