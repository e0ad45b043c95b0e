------------------------------- MODULE MCCalls -------------------------------
(* B is called by A, which also sends it a file, and C shares its screen with it. *)
EXTENDS Calls, TLC

CONSTANTS A, B, C, voice, share, file

MCFrom == voice :> A @@ share :> C @@ file :> A
MCTo == voice :> B @@ share :> B @@ file :> B
MCMode == voice :> "voice" @@ share :> "share" @@ file :> "file"
=============================================================================
