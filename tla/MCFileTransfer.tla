---------------------------- MODULE MCFileTransfer ----------------------------
(* One file of up to three chunks, its first session and one that resumes it. *)
EXTENDS FileTransfer
=============================================================================
