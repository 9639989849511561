------------------------------- MODULE Metro -------------------------------
(***************************************************************************)
(* The millisecond timer of the libraries (Metro/Metro.cpp).               *)
(*                                                                         *)
(* millis() is an unsigned counter modulo M (2^32 on the board).  check()  *)
(* says whether a whole interval went by since previous_millis and, as     *)
(* NOCATCH-UP is not defined, then moves previous_millis on by ONE         *)
(* interval: an owner that was late finds the missed ticks still due and   *)
(* gets them back to back.                                                 *)
(***************************************************************************)
EXTENDS Integers

CONSTANTS
  M,         \* millis() counts modulo M
  Intervals, \* the intervals the owner of the timer may set
  Lag        \* the owner lets at most Lag milliseconds pile up

ASSUME MetroAssumption == /\ M \in Nat \ {0}
                          /\ Lag \in Nat
                          /\ Lag < M
                          /\ Intervals \subseteq 0..Lag
                          /\ Intervals # {}

VARIABLES
  now,       \* millis()
  previous,  \* previous_millis
  interval,  \* interval_millis
  debt       \* history: the true time since the last tick was due

metroVars == <<now, previous, interval, debt>>

(***************************************************************************)
(* A global timer starts with previous_millis zero, as millis() does.      *)
(***************************************************************************)
MetroInit ==
  /\ now = 0
  /\ previous = 0
  /\ interval \in Intervals
  /\ debt = 0

(***************************************************************************)
(* The comparison of check(), in unsigned arithmetic; before it the same   *)
(* test written as a comparison of instants, which a wrap of millis()      *)
(* upsets.                                                                 *)
(***************************************************************************)
DueByInstant(n, p, i) == n >= p + i
Due(n, p, i) == (n - p) % M >= i

(***************************************************************************)
(* check() returning 1.  An interval of zero is always due and catches up  *)
(* at once.  The variant before it forgets to move previous_millis.         *)
(***************************************************************************)
TakeTickStuck ==
  /\ Due(now, previous, interval)
  /\ previous' = previous
  /\ debt' = IF interval = 0 THEN 0 ELSE debt - interval
  /\ UNCHANGED <<now, interval>>

TakeTick ==
  /\ interval = 0 \/ Due(now, previous, interval)
  /\ previous' = IF interval = 0 THEN now ELSE (previous + interval) % M
  /\ debt' = IF interval = 0 THEN 0 ELSE debt - interval
  /\ UNCHANGED <<now, interval>>

(***************************************************************************)
(* check() returning 0.                                                    *)
(***************************************************************************)
NoTick ==
  /\ interval # 0
  /\ ~Due(now, previous, interval)
  /\ UNCHANGED metroVars

(***************************************************************************)
(* interval(i) keeps previous_millis: what piled up under the old interval *)
(* is judged by the new one.  reset() starts over.                         *)
(***************************************************************************)
SetInterval(i) ==
  /\ interval' = i
  /\ UNCHANGED <<now, previous, debt>>

Reset ==
  /\ previous' = now
  /\ debt' = 0
  /\ UNCHANGED <<now, interval>>

(***************************************************************************)
(* One millisecond goes by.  Lag bounds how late the owner may be.         *)
(***************************************************************************)
Elapse ==
  /\ debt < Lag
  /\ now' = (now + 1) % M
  /\ debt' = debt + 1
  /\ UNCHANGED <<previous, interval>>

MetroNext ==
  \/ TakeTick
  \/ NoTick
  \/ Reset
  \/ Elapse
  \/ \E i \in Intervals : SetInterval(i)

MetroSpec == MetroInit /\ [][MetroNext]_metroVars

-----------------------------------------------------------------------------
(* Type invariant of the timer. *)
MetroTypeOK ==
  /\ now \in 0..(M - 1)
  /\ previous \in 0..(M - 1)
  /\ interval \in Intervals
  /\ debt \in 0..Lag

(* The difference of the two counters is the true time since the last tick *)
(* was due, however often millis() has wrapped: no tick is ever early and  *)
(* none is lost while the owner is less than a full turn late.             *)
ClockIsExact == (now - previous) % M = debt
=============================================================================
