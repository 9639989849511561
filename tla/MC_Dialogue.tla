---------------------------- MODULE MC_Dialogue -----------------------------
(* Two garages and a camera; see README.md. *)
EXTENDS Dialogue

MCOther == {[from |-> 2, type |-> 1, layer |-> 2]}
=============================================================================
