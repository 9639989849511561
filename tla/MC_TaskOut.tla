----------------------------- MODULE MC_TaskOut -----------------------------
(* Three commands and a road of two frames; see README.md. *)
EXTENDS TaskOut
=============================================================================
