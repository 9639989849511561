---------------------------- MODULE KeyPad_proofs ----------------------------
(***************************************************************************)
(* Proofs about the key scanner, the millisecond timer and the key pad on  *)
(* its timer, for every number of keys, every pair of thresholds           *)
(* Hold < Cap, every scan interval and every width of millis().            *)
(***************************************************************************)
EXTENDS KeyPad, FiniteSetTheorems, WellFoundedInduction, TLAPS

-----------------------------------------------------------------------------
(* THE KEY SCANNER                                                         *)

(* Every non-empty set of naturals has a least element: the intervals 1..k *)
(* of its members are finite sets, well ordered by strict inclusion.       *)
LEMMA LeastOfNaturals ==
  ASSUME NEW T, T \subseteq Nat, T # {}
  PROVE  \E k \in T : \A j \in T : k <= j
<1>. DEFINE U == {1..k : k \in T}
<1>1. U \subseteq FiniteSubsetsOf(Nat)
  <2>. SUFFICES ASSUME NEW k \in T
                PROVE  1..k \in SUBSET Nat /\ IsFiniteSet(1..k)
    BY DEF FiniteSubsetsOf
  <2>1. k \in Nat
    OBVIOUS
  <2>2. IsFiniteSet(1..k)
    BY <2>1, FS_Interval
  <2>. QED  BY <2>1, <2>2
<1>2. PICK u \in U : \A w \in U : <<w, u>> \notin StrictSubsetOrdering(Nat)
  <2>1. U # {}
    OBVIOUS
  <2>2. IsWellFoundedOn(StrictSubsetOrdering(Nat), FiniteSubsetsOf(Nat))
    BY FS_StrictSubsetOrderingWellFounded
  <2>. QED  BY <1>1, <2>1, <2>2, WFMin
<1>3. PICK k \in T : u = 1..k
  OBVIOUS
<1>4. \A j \in T : k <= j
  <2>. SUFFICES ASSUME NEW j \in T, j < k
                PROVE  FALSE
    OBVIOUS
  <2>1. 1..j \in U
    OBVIOUS
  <2>2. 1..j \subseteq 1..k /\ 1..j # 1..k
    <3>1. k \in 1..k /\ k \notin 1..j
      OBVIOUS
    <3>. QED  BY <3>1
  <2>3. <<1..j, u>> \in StrictSubsetOrdering(Nat)
    BY <2>2, <1>3 DEF StrictSubsetOrdering
  <2>. QED  BY <1>2, <2>1, <2>3
<1>. QED  BY <1>4

(* The loop of Check() that stops at the first active key does find one    *)
(* whenever some key is active.                                            *)
LEMMA FirstActiveIsActive ==
  ASSUME NEW cnt, Active(cnt) # {}
  PROVE  FirstActive(cnt) \in Active(cnt)
<1>1. Active(cnt) \subseteq Nat
  BY KeyAssumption DEF Active, Keys
<1>2. \E k \in Active(cnt) : \A j \in Active(cnt) : k <= j
  BY <1>1, LeastOfNaturals
<1>. QED
  BY <1>2 DEF FirstActive

(***************************************************************************)
(* The inductive invariant.  A counter is covered by the low samples of    *)
(* the press; after h high samples in a row it is either zero or has come  *)
(* down h steps from the top at least; the key called last is active while *)
(* it is held.                                                             *)
(***************************************************************************)
LowsCover == \A k \in Keys : lows[k] >= Least(Key_cnt[k], Hold + 1)

HighsDrain ==
  \A k \in Keys : highs[k] > 0 =>
    \/ Key_cnt[k] = 0
    \/ Key_cnt[k] >= Hold /\ Key_cnt[k] + highs[k] <= Cap

HeldIsActive == held # NoKey => held \in Active(Key_cnt)

IInv == /\ TypeOK
        /\ LatchTracksActivity
        /\ LowsCover
        /\ HighsDrain
        /\ HeldIsActive
        /\ NoiseImmunity

LEMMA InitIInv == Init => IInv
<1>. SUFFICES ASSUME Init PROVE IInv
  OBVIOUS
<1>. USE KeyAssumption DEF Init, Keys, NoKey, Rest
<1>1. TypeOK
  BY DEF TypeOK
<1>2. LatchTracksActivity
  BY DEF LatchTracksActivity, Active
<1>3. LowsCover /\ HighsDrain /\ HeldIsActive /\ NoiseImmunity
  BY DEF LowsCover, Least, HighsDrain, HeldIsActive, NoiseImmunity
<1>. QED  BY <1>1, <1>2, <1>3 DEF IInv

(* A scan keeps the inductive invariant.                                   *)
LEMMA KwhileIInv == IInv /\ Kwhile => IInv'
<1>. SUFFICES ASSUME IInv, Kwhile PROVE IInv'
  OBVIOUS
<1>. USE KeyAssumption
<1>0. /\ pins \subseteq Keys /\ pins' = pins
      /\ Key_cnt \in [Keys -> 0..Cap]
      /\ lows \in [Keys -> 0..(Hold + 1)]
      /\ highs \in [Keys -> 0..Rest]
      /\ NoKey \notin Keys
      /\ \A k \in Keys : k \in Nat
  <2>1. NoKey \notin Keys /\ \A k \in Keys : k \in Nat
    BY DEF NoKey, Keys
  <2>. QED  BY <2>1 DEF IInv, TypeOK, Kwhile
<1>1. Key_cnt' \in [Keys -> 0..Cap]
  BY <1>0 DEF Kwhile, Count, Least
<1>2. \A k \in Keys : Key_cnt'[k] =
        IF k \in pins THEN Least(Key_cnt[k] + 1, Cap)
        ELSE IF Key_cnt[k] > Hold THEN Key_cnt[k] - 1 ELSE 0
  BY DEF Kwhile, Count
<1>3. called' = NoKey \/ called' \in Active(Key_cnt')
  BY FirstActiveIsActive DEF Kwhile, Check, FirstActive
<1>4. \/ Active(Key_cnt') = {} /\ Key_Rt' = NoKey
      \/ Active(Key_cnt') # {} /\ Key_Rt' \in Keys
  <2>1. CASE Active(Key_cnt') = {}
    BY <2>1 DEF Kwhile, Check
  <2>2. CASE Active(Key_cnt') # {} /\ Key_Rt = NoKey
    BY <2>2, FirstActiveIsActive DEF Kwhile, Check, Active
  <2>3. CASE Active(Key_cnt') # {} /\ Key_Rt # NoKey
    BY <2>3 DEF Kwhile, Check, IInv, TypeOK
  <2>. QED  BY <2>1, <2>2, <2>3
<1>5. LatchTracksActivity'
  BY <1>0, <1>4 DEF LatchTracksActivity, Active
<1>6. lows' \in [Keys -> 0..(Hold + 1)] /\ highs' \in [Keys -> 0..Rest]
  BY <1>0 DEF Kwhile, Least, Rest
<1>7. LowsCover'
  <2>. SUFFICES ASSUME NEW k \in Keys
                PROVE  lows'[k] >= Least(Key_cnt'[k], Hold + 1)
    BY DEF LowsCover
  <2>1. lows[k] >= Least(Key_cnt[k], Hold + 1)
    BY DEF IInv, LowsCover
  <2>2. lows'[k] = IF k \in pins THEN Least(lows[k] + 1, Hold + 1)
                   ELSE IF highs[k] + 1 >= Rest THEN 0 ELSE lows[k]
    BY DEF Kwhile
  <2>3. /\ Key_cnt[k] \in 0..Cap /\ lows[k] \in 0..(Hold + 1)
        /\ highs[k] \in 0..Rest /\ Rest = Cap - Hold + 1
    BY <1>0 DEF Rest
  <2>4. CASE k \in pins
    BY <2>1, <2>2, <2>3, <2>4, <1>2 DEF Least
  <2>5. CASE k \notin pins /\ highs[k] + 1 >= Rest
    <3>1. Key_cnt[k] = 0 \/ Key_cnt[k] <= Hold
      BY <2>3, <2>5 DEF IInv, HighsDrain
    <3>. QED  BY <3>1, <2>2, <2>3, <2>5, <1>2 DEF Least
  <2>6. CASE k \notin pins /\ ~(highs[k] + 1 >= Rest)
    BY <2>1, <2>2, <2>3, <2>6, <1>2 DEF Least
  <2>. QED  BY <2>4, <2>5, <2>6
<1>8. HighsDrain'
  <2>. SUFFICES ASSUME NEW k \in Keys, highs'[k] > 0
                PROVE  \/ Key_cnt'[k] = 0
                       \/ Key_cnt'[k] >= Hold /\ Key_cnt'[k] + highs'[k] <= Cap
    BY DEF HighsDrain
  <2>1. highs'[k] = IF k \in pins THEN 0 ELSE Least(highs[k] + 1, Rest)
    BY DEF Kwhile
  <2>2. /\ Key_cnt[k] \in 0..Cap
        /\ highs[k] \in 0..Rest /\ Rest = Cap - Hold + 1
    BY <1>0 DEF Rest
  <2>3. k \notin pins /\ highs'[k] <= highs[k] + 1
    BY <2>1, <2>2 DEF Least
  <2>4. \/ highs[k] = 0
        \/ Key_cnt[k] = 0
        \/ Key_cnt[k] >= Hold /\ Key_cnt[k] + highs[k] <= Cap
    BY <2>2 DEF IInv, HighsDrain
  <2>. QED  BY <2>1, <2>2, <2>3, <2>4, <1>2 DEF Least
<1>9. held' = NoKey \/ held' \in Active(Key_cnt')
  <2>1. CASE called' # NoKey
    BY <2>1, <1>3 DEF Kwhile
  <2>2. CASE called' = NoKey /\ held \in pins
    <3>1. held' = held /\ held \in Keys /\ held # NoKey
      BY <2>2, <1>0 DEF Kwhile
    <3>2. Key_cnt[held] > Hold
      BY <3>1 DEF IInv, HeldIsActive, Active
    <3>3. Key_cnt'[held] > Hold
      BY <3>1, <3>2, <2>2, <1>0, <1>2 DEF Least
    <3>. QED  BY <3>1, <3>3 DEF Active
  <2>3. CASE called' = NoKey /\ held \notin pins
    BY <2>3 DEF Kwhile
  <2>. QED  BY <2>1, <2>2, <2>3
<1>10. HeldIsActive'
  BY <1>9 DEF HeldIsActive, Active
<1>11. TypeOK'
  BY <1>0, <1>1, <1>3, <1>4, <1>6, <1>9 DEF TypeOK, Active
<1>12. NoiseImmunity'
  <2>. SUFFICES ASSUME called' # NoKey PROVE lows'[called'] > Hold
    BY DEF NoiseImmunity
  <2>1. called' \in Keys /\ Key_cnt'[called'] > Hold
    BY <1>3 DEF Active
  <2>2. lows'[called'] >= Least(Key_cnt'[called'], Hold + 1)
    BY <1>7, <2>1 DEF LowsCover
  <2>. QED  BY <1>1, <1>6, <2>1, <2>2 DEF Least
<1>. QED
  BY <1>5, <1>7, <1>8, <1>10, <1>11, <1>12 DEF IInv

LEMMA NextIInv == IInv /\ [Next]_vars => IInv'
<1>. SUFFICES ASSUME IInv, [Next]_vars PROVE IInv'
  OBVIOUS
<1>1. CASE Kwhile
  BY <1>1, KwhileIInv
<1>2. CASE PinChange
  <2>1. pins' \subseteq Keys
    BY <1>2 DEF PinChange, IInv, TypeOK
  <2>. QED
    BY <1>2, <2>1 DEF PinChange, IInv, TypeOK, LatchTracksActivity, LowsCover,
       HighsDrain, HeldIsActive, NoiseImmunity, Active
<1>3. CASE UNCHANGED vars
  BY <1>3 DEF vars, IInv, TypeOK, LatchTracksActivity, LowsCover,
     HighsDrain, HeldIsActive, NoiseImmunity, Active
<1>. QED  BY <1>1, <1>2, <1>3 DEF Next

THEOREM Invariance == Spec => []IInv
<1>. QED  BY InitIInv, NextIInv, PTL DEF Spec

-----------------------------------------------------------------------------
(* The scanner's variables keep their types: a counter stays within the    *)
(* limit Kwhile() sets, whatever the fingers do.                           *)
THEOREM Typing == Spec => []TypeOK
<1>. QED  BY Invariance, PTL DEF IInv

(* Short glitches on an idle pin never add up to a key press, for every    *)
(* choice of thresholds in Kwhile() and Check().                           *)
THEOREM Noise == Spec => []NoiseImmunity
<1>. QED  BY Invariance, PTL DEF IInv

(* Check() holds a key latched exactly as long as some counter is active.  *)
THEOREM Latch == Spec => []LatchTracksActivity
<1>. QED  BY Invariance, PTL DEF IInv

(* While the key called last is held down, no scan calls any key.          *)
THEOREM OneCallPerPress == Spec => NoCallWhileHeld
<1>1. IInv /\ [Next]_vars => [Kwhile => (held # NoKey => called' = NoKey)]_vars
  BY DEF IInv, HeldIsActive, LatchTracksActivity, Kwhile, Check
<1>. QED  BY Invariance, <1>1, PTL DEF Spec, NoCallWhileHeld

-----------------------------------------------------------------------------
(* THE TIMER                                                               *)

(* Unsigned addition and subtraction of two counters.                      *)
LEMMA ModSmall ==
  ASSUME NEW x \in Int, NEW m \in Nat \ {0}, -m < x, x < m + m
  PROVE  x % m = IF x < 0 THEN x + m ELSE IF x < m THEN x ELSE x - m
  OBVIOUS

LEMMA WrapUp ==
  ASSUME NEW x \in 0..(M - 1), NEW y \in 0..M
  PROVE  (x + y) % M = IF x + y < M THEN x + y ELSE x + y - M
<1>1. M \in Nat \ {0}
  BY MetroAssumption
<1>2. CASE x + y < M
  BY <1>1, <1>2
<1>3. CASE ~(x + y < M)
  <2>1. x + y - M \in 0..(M - 1) /\ x + y = 1 * M + (x + y - M)
    BY <1>1, <1>3
  <2>. QED  BY <1>1, <1>3, <2>1
<1>. QED  BY <1>2, <1>3

(***************************************************************************)
(* The inductive invariant: now is previous plus the true delay, less one  *)
(* turn of the counter at most.                                            *)
(***************************************************************************)
Turn == now = previous + debt \/ now = previous + debt - M

MetroInv == MetroTypeOK /\ Turn

LEMMA MetroInvExact == MetroInv => ClockIsExact
<1>. SUFFICES ASSUME MetroInv PROVE ClockIsExact
  OBVIOUS
<1>1. /\ now \in 0..(M - 1) /\ previous \in 0..(M - 1)
      /\ debt \in 0..Lag /\ M \in Nat \ {0} /\ Lag \in Nat /\ Lag < M
  BY MetroAssumption DEF MetroInv, MetroTypeOK
<1>2. (now - previous) % M = IF now - previous < 0 THEN now - previous + M
                             ELSE now - previous
  <2>1. now - previous \in Int /\ -M < now - previous /\ now - previous < M + M
    BY <1>1
  <2>2. (now - previous) % M = IF now - previous < 0 THEN now - previous + M
          ELSE IF now - previous < M THEN now - previous ELSE now - previous - M
    BY <1>1, <2>1, ModSmall
  <2>. QED  BY <1>1, <2>2
<1>. QED  BY <1>1, <1>2 DEF MetroInv, Turn, ClockIsExact

LEMMA MetroInvNext == MetroInv /\ [MetroNext]_metroVars => MetroInv'
<1>. SUFFICES ASSUME MetroInv, [MetroNext]_metroVars PROVE MetroInv'
  OBVIOUS
<1>0. /\ now \in 0..(M - 1) /\ previous \in 0..(M - 1)
      /\ debt \in 0..Lag /\ interval \in Intervals /\ interval \in 0..Lag
      /\ M \in Nat \ {0} /\ Lag \in Nat /\ Lag < M
      /\ (now - previous) % M = debt
      /\ now = previous + debt \/ now = previous + debt - M
  BY MetroAssumption, MetroInvExact DEF MetroInv, MetroTypeOK, Turn, ClockIsExact
<1>1. CASE TakeTick
  <2>1. CASE interval = 0
    BY <1>0, <1>1, <2>1 DEF TakeTick, MetroInv, MetroTypeOK, Turn
  <2>2. CASE interval # 0
    <3>1. /\ debt >= interval /\ now' = now /\ interval' = interval
          /\ previous' = (previous + interval) % M
          /\ debt' = debt - interval
      BY <1>0, <1>1, <2>2 DEF TakeTick, Due
    <3>2. previous' = IF previous + interval < M THEN previous + interval
                      ELSE previous + interval - M
      BY <1>0, <3>1, WrapUp
    <3>. QED  BY <1>0, <3>1, <3>2 DEF MetroInv, MetroTypeOK, Turn
  <2>. QED  BY <2>1, <2>2
<1>2. CASE NoTick
  BY <1>0, <1>2 DEF NoTick, metroVars, MetroInv, MetroTypeOK, Turn
<1>3. CASE Reset
  BY <1>0, <1>3 DEF Reset, MetroInv, MetroTypeOK, Turn
<1>4. CASE Elapse
  <2>1. now' = (now + 1) % M /\ debt' = debt + 1 /\ debt < Lag
        /\ previous' = previous /\ interval' = interval
    BY <1>4 DEF Elapse
  <2>2. now' = IF now + 1 < M THEN now + 1 ELSE now + 1 - M
    BY <1>0, <2>1, WrapUp
  <2>. QED  BY <1>0, <2>1, <2>2 DEF MetroInv, MetroTypeOK, Turn
<1>5. CASE \E i \in Intervals : SetInterval(i)
  BY <1>0, <1>5 DEF SetInterval, MetroInv, MetroTypeOK, Turn
<1>6. CASE UNCHANGED metroVars
  BY <1>0, <1>6 DEF metroVars, MetroInv, MetroTypeOK, Turn
<1>. QED  BY <1>1, <1>2, <1>3, <1>4, <1>5, <1>6 DEF MetroNext

LEMMA MetroInvariance == MetroSpec => []MetroInv
<1>1. MetroInit => MetroInv
  BY MetroAssumption DEF MetroInit, MetroInv, MetroTypeOK, Turn
<1>. QED  BY <1>1, MetroInvNext, PTL DEF MetroSpec

-----------------------------------------------------------------------------
(* check() compares the true time since the last tick was due with the     *)
(* interval, across any number of wraps of millis() and changes of the     *)
(* interval: no tick comes early and none gets lost.                       *)
THEOREM ExactClock == MetroSpec => []ClockIsExact
<1>. QED  BY MetroInvariance, MetroInvExact, PTL

-----------------------------------------------------------------------------
(* THE KEY PAD                                                             *)
(* The key pad on its timer is a key scanner and a timer: what was proved  *)
(* of each alone holds when the loop polls the one through the other.      *)

(* Every step of the pad is a scan, a finger or no step for the scanner:   *)
(* a poll without a tick leaves it alone.                                  *)
THEOREM PadScans == PadSpec => Spec
<1>1. PadInit => Init
  BY DEF PadInit
<1>2. [PadNext]_padVars => [Next]_vars
  BY DEF PadNext, padVars, Poll, Finger, Millisecond, Next
<1>. QED  BY <1>1, <1>2, PTL DEF PadSpec, Spec

(* Every step of the pad is a tick, a millisecond or no step for the timer.*)
THEOREM PadTicks == PadSpec => MetroSpec
<1>1. PadInit => MetroInit
  BY DEF PadInit
<1>2. [PadNext]_padVars => [MetroNext]_metroVars
  BY DEF PadNext, padVars, Poll, Finger, Millisecond, NoTick, MetroNext
<1>. QED  BY <1>1, <1>2, PTL DEF PadSpec, MetroSpec

(* Polled through the timer, glitches still do not add up to a key, a held *)
(* key is still called once, and the timer still loses no tick.            *)
THEOREM PadIsSafe ==
  PadSpec => []NoiseImmunity /\ NoCallWhileHeld /\ []ClockIsExact
  BY PadScans, PadTicks, Noise, OneCallPerPress, ExactClock, PTL

-----------------------------------------------------------------------------
(***************************************************************************)
(* The inductive invariant of the debounce time: the samples counted of a  *)
(* key that were all taken on time are an interval apart, less the lateness *)
(* of the first; the time that is owed since the last tick has passed too. *)
(***************************************************************************)
Timed(k) ==
  lows[k] > 0 /\ k \notin bunched =>
    age[k] > Settled \/ age[k] > (lows[k] - 2) * Interval + debt

Debounced ==
  /\ age \in [Keys -> 0..(Settled + 1)] /\ interval = Interval
  /\ \A k \in Keys : Timed(k)

LEMMA IntervalIsPositive ==
  /\ Interval \in Nat \ {0} /\ Interval <= Lag /\ Intervals = {Interval}
  /\ Hold \in Nat \ {0} /\ Settled \in Nat
<1>1. Intervals = {Interval} /\ Interval > 0 /\ Intervals \subseteq 0..Lag /\ Lag \in Nat
  BY KeyPadAssumption, MetroAssumption
<1>2. Interval \in Nat \ {0} /\ Interval <= Lag /\ Hold \in Nat \ {0}
  BY <1>1, KeyAssumption
<1>. QED  BY <1>1, <1>2 DEF Settled

(* One more sample is one more interval.                                   *)
LEMMA OneMore ==
  ASSUME NEW n \in Int
  PROVE  (n + 1) * Interval = n * Interval + Interval /\ n * Interval \in Int
BY IntervalIsPositive

LEMMA PollDebounced ==
  ASSUME IInv, MetroInv, Debounced, TakeTick, Kwhile, Samples
  PROVE  Debounced'
<1>1. /\ Interval \in Nat \ {0} /\ interval = Interval /\ debt \in Nat /\ Settled \in Nat
      /\ age \in [Keys -> 0..(Settled + 1)] /\ lows \in [Keys -> 0..(Hold + 1)]
      /\ Hold \in Nat
  BY IntervalIsPositive, MetroAssumption
     DEF Debounced, IInv, TypeOK, MetroInv, MetroTypeOK
<1>2. debt >= Interval /\ debt' = debt - Interval /\ interval' = interval
  BY <1>1, MetroInvExact DEF TakeTick, Due, ClockIsExact
<1>3. age' = [k \in Keys |-> IF lows[k] = 0 THEN 0 ELSE age[k]]
  BY DEF Samples
<1>4. ASSUME NEW k \in Keys, lows'[k] > 0, k \notin bunched'
      PROVE  age'[k] > Settled \/ age'[k] > (lows'[k] - 2) * Interval + debt'
  <2>1. k \notin bunched /\ debt < 2 * Interval
    BY <1>1, <1>2, <1>4 DEF Samples
  <2>2. /\ lows[k] \in 0..(Hold + 1) /\ age[k] \in 0..(Settled + 1)
        /\ lows'[k] \in {0, lows[k], lows[k] + 1}
    BY <1>1 DEF Kwhile, Least
  <2>3. CASE lows[k] = 0
    <3>1. lows'[k] = 1 /\ age'[k] = 0
      BY <1>3, <1>4, <2>2, <2>3
    <3>2. (1 - 2) * Interval = -Interval
      BY <1>1
    <3>. QED  BY <1>1, <1>2, <2>1, <3>1, <3>2
  <2>4. CASE lows[k] > 0
    <3>1. age'[k] = age[k]
      BY <1>3, <2>4
    <3>2. age[k] > Settled \/ age[k] > (lows[k] - 2) * Interval + debt
      BY <2>1, <2>4 DEF Debounced, Timed
    <3>. DEFINE p == (lows[k] - 2) * Interval
                q == (lows'[k] - 2) * Interval
    <3>3. p \in Int /\ (q = p \/ q = p + Interval)
      <4>1. lows[k] - 2 \in Int
        BY <2>2
      <4>2. p \in Int /\ ((lows[k] - 2) + 1) * Interval = p + Interval
        BY <4>1, OneMore
      <4>3. lows'[k] = lows[k] \/ lows'[k] = lows[k] + 1
        BY <1>4, <2>2
      <4>4. lows'[k] = lows[k] + 1 => lows'[k] - 2 = (lows[k] - 2) + 1
        BY <2>2
      <4>. QED  BY <4>2, <4>3, <4>4
    <3>. HIDE DEF p, q
    <3>4. age[k] > p + debt => age[k] > q + debt'
      BY <1>1, <1>2, <2>2, <3>3
    <3>5. age[k] > Settled \/ age[k] > p + debt
      BY <3>2 DEF p
    <3>6. age'[k] > Settled \/ age'[k] > q + debt'
      BY <3>1, <3>4, <3>5
    <3>. QED  BY <3>6 DEF q
  <2>. QED  BY <2>2, <2>3, <2>4
<1>5. age' \in [Keys -> 0..(Settled + 1)]
  BY <1>1, <1>3
<1>. QED  BY <1>1, <1>2, <1>4, <1>5 DEF Debounced, Timed, Settled

LEMMA MillisecondDebounced ==
  ASSUME IInv, MetroInv, Debounced, Millisecond
  PROVE  Debounced'
<1>1. /\ Interval \in Nat \ {0} /\ interval = Interval /\ debt \in Nat /\ Settled \in Nat
      /\ age \in [Keys -> 0..(Settled + 1)] /\ lows \in [Keys -> 0..(Hold + 1)]
      /\ Hold \in Nat
  BY IntervalIsPositive, MetroAssumption
     DEF Debounced, IInv, TypeOK, MetroInv, MetroTypeOK
<1>2. /\ debt' = debt + 1 /\ interval' = interval /\ lows' = lows /\ bunched' = bunched
      /\ age' = [k \in Keys |-> IF lows[k] = 0 THEN 0 ELSE Least(age[k] + 1, Settled + 1)]
  BY DEF Millisecond, Elapse, vars
<1>3. ASSUME NEW k \in Keys, lows[k] > 0, k \notin bunched
      PROVE  age'[k] > Settled \/ age'[k] > (lows[k] - 2) * Interval + debt'
  <2>. DEFINE p == (lows[k] - 2) * Interval
  <2>1. p \in Int
    BY <1>1
  <2>2. age[k] > Settled \/ age[k] > p + debt
    BY <1>3 DEF Debounced, Timed
  <2>. HIDE DEF p
  <2>3. age'[k] = (IF age[k] + 1 < Settled + 1 THEN age[k] + 1 ELSE Settled + 1)
        /\ age[k] \in 0..(Settled + 1)
    BY <1>1, <1>2, <1>3 DEF Least
  <2>4. age'[k] > Settled \/ age'[k] > p + debt'
    BY <1>1, <1>2, <2>1, <2>2, <2>3
  <2>. QED  BY <2>4 DEF p
<1>4. age' \in [Keys -> 0..(Settled + 1)]
  BY <1>1, <1>2 DEF Least
<1>. QED  BY <1>1, <1>2, <1>3, <1>4 DEF Debounced, Timed, Settled

LEMMA DebouncedStep == IInv /\ MetroInv /\ Debounced /\ [PadNext]_padVars => Debounced'
<1>. SUFFICES ASSUME IInv, MetroInv, Debounced, [PadNext]_padVars PROVE Debounced'
  OBVIOUS
<1>1. CASE Poll /\ TakeTick /\ Kwhile /\ Samples
  BY <1>1, PollDebounced
<1>2. CASE Millisecond
  BY <1>2, MillisecondDebounced
<1>3. CASE UNCHANGED <<interval, debt, lows, age, bunched>>
  BY <1>3 DEF Debounced, Timed, Settled
<1>. QED
  BY <1>1, <1>2, <1>3 DEF PadNext, Poll, Finger, PinChange, NoTick, metroVars, vars, padVars

LEMMA DebouncedInvariant == PadSpec => []Debounced
<1>1. PadInit => Debounced
  BY IntervalIsPositive DEF PadInit, Init, MetroInit, Debounced, Timed
<1>. QED
  BY <1>1, DebouncedStep, PadScans, PadTicks, Invariance, MetroInvariance, PTL DEF PadSpec

(* A key whose samples were taken on time is handed to the callback only   *)
(* when more than Hold - 1 scan intervals have gone by since its first low *)
(* sample, for every interval and threshold and across wraps of millis().  *)
THEOREM DebounceTakesTime == PadSpec => []DebounceTime
<1>1. IInv /\ MetroInv /\ Debounced => DebounceTime
  <2>. SUFFICES ASSUME IInv, MetroInv, Debounced, called # NoKey, called \notin bunched
                PROVE  age[called] > Settled
    BY DEF DebounceTime
  <2>1. called \in Keys /\ lows[called] > Hold /\ lows[called] \in 0..(Hold + 1)
    BY DEF IInv, TypeOK, NoiseImmunity
  <2>2. lows[called] = Hold + 1 /\ lows[called] - 2 = Hold - 1 /\ lows[called] > 0
    BY <2>1, IntervalIsPositive
  <2>3. age[called] > Settled \/ age[called] > (Hold - 1) * Interval + debt
    BY <2>1, <2>2 DEF Debounced, Timed
  <2>4. debt \in Nat /\ Settled \in Nat /\ age[called] \in Nat
    BY <2>1, IntervalIsPositive, MetroAssumption DEF MetroInv, MetroTypeOK, Debounced
  <2>5. age[called] > Settled \/ age[called] > Settled + debt
    BY <2>3 DEF Settled
  <2>. QED  BY <2>4, <2>5
<1>. QED
  BY <1>1, DebouncedInvariant, PadScans, PadTicks, Invariance, MetroInvariance, PTL
=============================================================================
