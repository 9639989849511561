----------------------------- MODULE MC_KeyPad -----------------------------
(* The key pad with its timer on a small board. *)
EXTENDS KeyPad

MCIntervals == {Interval}
=============================================================================
