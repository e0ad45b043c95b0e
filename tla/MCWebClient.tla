---------------------------- MODULE MCWebClient ----------------------------
(* One peer that writes to the user and gets an answer, and a message to the room. *)
EXTENDS WebClient, TLC

CONSTANTS p, in, out, inRoom

MCAuthor == in :> p @@ out :> Daemon @@ inRoom :> p
MCDest == in :> Daemon @@ out :> p @@ inRoom :> Room
=============================================================================
