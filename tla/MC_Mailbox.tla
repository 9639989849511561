----------------------------- MODULE MC_Mailbox -----------------------------
(* An outgoing mailbox with a few short messages; see README.md. *)
EXTENDS Mailbox
=============================================================================
