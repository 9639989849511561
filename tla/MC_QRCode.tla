----------------------------- MODULE MC_QRCode ------------------------------
(* Expressions of one- and two-digit numbers; see README.md. *)
EXTENDS QRCode
=============================================================================
