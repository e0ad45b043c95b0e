------------------------------ MODULE FrameLink ------------------------------
(***************************************************************************)
(* What a WebSocket connection promises to whoever sends over it: frames   *)
(* come whole, in order and once, until the connection is over or has lost *)
(* a part of one.  The other modules use connections as such queues.       *)
(***************************************************************************)
EXTENDS Naturals, Sequences

CONSTANTS Conns, Frames

VARIABLES
  sent,      \* sent[c]: the frames handed to the connection
  arrived,   \* arrived[c]: those the receiver was given
  over,      \* the connections from which nothing more comes
  torn       \* those that have lost a part of a frame

vars == <<sent, arrived, over, torn>>

Init ==
  /\ sent = [c \in Conns |-> <<>>]
  /\ arrived = [c \in Conns |-> <<>>]
  /\ over = {} /\ torn = {}

Send(c, f) ==
  /\ sent' = [sent EXCEPT ![c] = Append(@, f)]
  /\ UNCHANGED <<arrived, over, torn>>

\* The next frame comes.
Arrive(c) ==
  /\ c \notin over \cup torn
  /\ Len(arrived[c]) < Len(sent[c])
  /\ arrived' = [arrived EXCEPT ![c] = Append(@, sent[c][Len(@) + 1])]
  /\ UNCHANGED <<sent, over, torn>>

End(c) ==
  /\ over' = over \cup {c}
  /\ UNCHANGED <<sent, arrived, torn>>

\* A part of a frame is lost, and what comes from then on is not what was sent.
Tear(c) ==
  /\ torn' = torn \cup {c}
  /\ UNCHANGED <<sent, arrived, over>>

Garble(c) ==
  /\ c \in torn \ over
  /\ arrived' = [arrived EXCEPT ![c] = arrived'[c]]
  /\ UNCHANGED <<sent, over, torn>>

Next ==
  \E c \in Conns :
    \/ Arrive(c) \/ End(c) \/ Tear(c) \/ Garble(c)
    \/ \E f \in Frames : Send(c, f)

Spec == Init /\ [][Next]_vars
=============================================================================
