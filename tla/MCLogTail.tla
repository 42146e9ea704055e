----------------------------- MODULE MCLogTail -----------------------------
(* Constants for checking LogTail. *)
EXTENDS LogTail
=============================================================================
