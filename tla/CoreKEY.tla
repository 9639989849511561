------------------------------ MODULE CoreKEY ------------------------------
(***************************************************************************)
(* The key scanner of the core board (CoreKEY/CoreKEY.cpp).                *)
(*                                                                         *)
(* Kwhile() runs in the sketch's loop; every KeyMetro tick it samples the  *)
(* N key pins (active low), moves one saturating counter per key and calls *)
(* Run(), which hands at most one key to the callback.  A key is "active"  *)
(* while its counter is above Hold.  Key_Rt latches the key that was       *)
(* handed over until no key is active any more.                            *)
(***************************************************************************)
EXTENDS Integers

CONSTANTS
  N,      \* number of keys (4 on the board)
  Hold,   \* a counter above it is active (8)
  Cap     \* a counter never exceeds it (12)

ASSUME KeyAssumption == /\ N \in Nat \ {0}
                        /\ Hold \in Nat \ {0}
                        /\ Cap \in Nat
                        /\ Hold < Cap

Keys == 1..N
NoKey == 0

VARIABLES
  pins,     \* the keys whose pin is low now (the fingers on the board)
  Key_cnt,  \* the debounce counters
  Key_Rt,   \* the key handed over, until all keys are inactive
  called,   \* the key the last scan passed to the callback, or NoKey
  lows,     \* history: low samples of a key since it was last at rest
  highs,    \* history: consecutive high samples of a key
  held      \* history: the key called last, while every sample since is low

vars == <<pins, Key_cnt, Key_Rt, called, lows, highs, held>>

Least(a, b) == IF a < b THEN a ELSE b

(***************************************************************************)
(* A key is at rest after Rest high samples in a row: the counter takes    *)
(* Cap - Hold of them to leave the active range and one more to be zero.   *)
(***************************************************************************)
Rest == Cap - Hold + 1

Active(cnt) == {k \in Keys : cnt[k] > Hold}

(***************************************************************************)
(* Initialization() clears the counters and the latch.                     *)
(***************************************************************************)
Init ==
  /\ pins = {}
  /\ Key_cnt = [k \in Keys |-> 0]
  /\ Key_Rt = NoKey
  /\ called = NoKey
  /\ lows = [k \in Keys |-> 0]
  /\ highs = [k \in Keys |-> Rest]
  /\ held = NoKey

(***************************************************************************)
(* The loop over the keys in Kwhile(): a high sample takes an active       *)
(* counter down by one and any other to zero, a low one takes it up.       *)
(* The two operators before it are slips in that loop, kept to see the     *)
(* properties below fail: no upper limit, and a high sample that does not  *)
(* clear a counter.                                                        *)
(***************************************************************************)
CountNoCap(cnt) ==
  [k \in Keys |-> IF k \in pins THEN Least(cnt[k] + 1, Cap + 1)
                  ELSE IF cnt[k] > Hold THEN cnt[k] - 1 ELSE 0]

CountNoClear(cnt) ==
  [k \in Keys |-> IF k \in pins THEN Least(cnt[k] + 1, Cap)
                  ELSE IF cnt[k] > 0 THEN cnt[k] - 1 ELSE 0]

Count(cnt) ==
  [k \in Keys |-> IF k \in pins THEN Least(cnt[k] + 1, Cap)
                  ELSE IF cnt[k] > Hold THEN cnt[k] - 1 ELSE 0]

(***************************************************************************)
(* Check(): the first active key, unless one is latched already.  The two  *)
(* variants before it forget to drop the latch, and compare the latch with *)
(* the key instead of with zero.                                           *)
(***************************************************************************)
FirstActive(cnt) ==
  IF Active(cnt) = {} THEN NoKey
  ELSE CHOOSE k \in Active(cnt) : \A j \in Active(cnt) : k <= j

CheckKeepsLatch(cnt) ==
  /\ called' = IF Key_Rt = NoKey THEN FirstActive(cnt) ELSE NoKey
  /\ Key_Rt' = IF Key_Rt = NoKey THEN FirstActive(cnt) ELSE Key_Rt

CheckPerKey(cnt) ==
  /\ called' = IF Key_Rt # FirstActive(cnt) THEN FirstActive(cnt) ELSE NoKey
  /\ Key_Rt' = FirstActive(cnt)

Check(cnt) ==
  /\ called' = IF Key_Rt = NoKey THEN FirstActive(cnt) ELSE NoKey
  /\ Key_Rt' = IF Active(cnt) = {} THEN NoKey
               ELSE IF Key_Rt = NoKey THEN FirstActive(cnt) ELSE Key_Rt

(***************************************************************************)
(* One pass of Kwhile() on a tick of KeyMetro: sample, count, Run().       *)
(***************************************************************************)
Kwhile ==
  /\ Key_cnt' = Count(Key_cnt)
  /\ Check(Key_cnt')
  /\ highs' = [k \in Keys |-> IF k \in pins THEN 0
                              ELSE Least(highs[k] + 1, Rest)]
  /\ lows' = [k \in Keys |-> IF k \in pins THEN Least(lows[k] + 1, Hold + 1)
                             ELSE IF highs[k] + 1 >= Rest THEN 0 ELSE lows[k]]
  /\ held' = IF called' # NoKey THEN called'
             ELSE IF held \in pins THEN held ELSE NoKey
  /\ UNCHANGED pins

(***************************************************************************)
(* A finger, or contact bounce, changes one pin between two scans.         *)
(***************************************************************************)
PinChange ==
  /\ \E k \in Keys : pins' = IF k \in pins THEN pins \ {k} ELSE pins \cup {k}
  /\ UNCHANGED <<Key_cnt, Key_Rt, called, lows, highs, held>>

Next == Kwhile \/ PinChange

(***************************************************************************)
(* loop() keeps calling Kwhile() and the timer keeps ticking; nothing      *)
(* obliges a finger to move.                                               *)
(***************************************************************************)
Spec == Init /\ [][Next]_vars
FairSpec == Spec /\ WF_vars(Kwhile)

-----------------------------------------------------------------------------
(* Type invariant of the scanner's variables. *)
TypeOK ==
  /\ pins \subseteq Keys
  /\ Key_cnt \in [Keys -> 0..Cap]
  /\ Key_Rt \in Keys \cup {NoKey}
  /\ called \in Keys \cup {NoKey}
  /\ lows \in [Keys -> 0..(Hold + 1)]
  /\ highs \in [Keys -> 0..Rest]
  /\ held \in Keys \cup {NoKey}

(* Noise immunity: a key is passed to the callback only if its pin was     *)
(* sampled low more than Hold times since the pin was last at rest; short  *)
(* glitches on an idle pin never add up to a key press.                    *)
NoiseImmunity ==
  called # NoKey => lows[called] > Hold

(* One call per press: while the key called last has been low in every     *)
(* sample since, a scan calls no key at all, neither it again nor another. *)
NoCallWhileHeld ==
  [][Kwhile => (held # NoKey => called' = NoKey)]_vars

(* Release: the latch is dropped exactly when no key is active, so the     *)
(* next press of any key is accepted and none is accepted before.          *)
LatchTracksActivity ==
  Key_Rt = NoKey <=> Active(Key_cnt) = {}

(* A key pressed alone on a released keypad is reported unless the finger  *)
(* leaves it first.                                                        *)
PressIsReported ==
  \A k \in Keys :
    (pins = {k} /\ Key_Rt = NoKey) ~> (Key_Rt = k \/ pins # {k})
=============================================================================
