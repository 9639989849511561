------------------------------ MODULE MC_Lamp ------------------------------
(* The lamp with its four levels; see README.md. *)
EXTENDS Lamp
=============================================================================
