----------------------------- MODULE MC_Motion -----------------------------
(* The moves over a small code disc; see README.md.  The first distance is *)
(* one at which a poll may be torn as far behind it as can be, the second  *)
(* one that a torn reading may pass by a whole byte too early.             *)
EXTENDS Motion

MCDistances == {2 * Base - (Lag + 3), 2 * Base - 1}
=============================================================================
