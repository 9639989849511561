----------------------------- MODULE MC_Speech ------------------------------
(* Calls of every kind one after the other; see README.md. *)
EXTENDS Speech
=============================================================================
