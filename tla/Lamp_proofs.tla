---------------------------- MODULE Lamp_proofs ----------------------------
(***************************************************************************)
(* Proofs about the street lamp dialogue, for every number of levels that  *)
(* its commands can name.                                                  *)
(***************************************************************************)
EXTENDS Lamp, TLAPS

Numbers ==
  /\ pc \in {"idle", "first", "press", "read", "second", "last"}
  /\ target \in Levels /\ level \in Levels /\ origin \in Levels
  /\ i \in 0..Top /\ ght \in 0..(2 * Top) /\ gz_res \in 0..Top
  /\ pc \in {"read", "second"} => i < Top

Flags == auto \in BOOLEAN /\ dead \in BOOLEAN /\ fooled \in BOOLEAN

(***************************************************************************)
(* While the readings rise the lamp has not gone round: it is i presses    *)
(* above the level the dialogue began with.  Once they fall it is at the   *)
(* first level, or at the top with a reading that was too dark.            *)
(***************************************************************************)
Climbing ==
  /\ pc = "first" => level = origin
  /\ pc = "press" /\ ~dead => level = origin + i /\ ght \in Readings(level)
  /\ pc = "read" /\ ~dead =>
       /\ origin + i \in Levels /\ ght \in Readings(origin + i)
       /\ level = IF origin + i = Top THEN 1 ELSE origin + i + 1
  /\ pc = "second" /\ ~dead =>
       \/ level = 1 /\ ght = 2 /\ origin + i = Top
       \/ level = Top /\ ght = Dip /\ origin + i = Top - 1 /\ fooled
  /\ pc = "last" /\ ~dead =>
       /\ gz_res = origin
       /\ ~fooled => level = 1 /\ origin + i = Top

LampInv == Numbers /\ Flags /\ Climbing
-----------------------------------------------------------------------------
(* The lamp goes round.                                                    *)
LEMMA UpOne ==
  ASSUME NEW l \in Levels
  PROVE  Up(l, 1) = IF l = Top THEN 1 ELSE l + 1
<1>1. CASE l = Top
  <2>1. Top % Top = 0
    BY LampAssumption
  <2>. QED  BY <1>1, <2>1, LampAssumption DEF Up, Levels
<1>2. CASE l # Top
  <2>1. l % Top = l
    BY <1>2, LampAssumption DEF Levels
  <2>. QED  BY <1>2, <2>1, LampAssumption DEF Up, Levels
<1>. QED  BY <1>1, <1>2

LEMMA UpIsLevel ==
  ASSUME NEW l \in Levels, NEW n \in Nat
  PROVE  Up(l, n) \in Levels
<1>1. (l + n - 1) % Top \in 0..(Top - 1)
  BY LampAssumption DEF Levels
<1>. QED  BY <1>1, LampAssumption DEF Up, Levels

(* T_G() leads from the first level to any other, and from the second      *)
(* Top - 1 levels up are one down.                                         *)
LEMMA FromFirst ==
  ASSUME NEW n \in 0..(Top - 1)
  PROVE  T_G(1, n) = n + 1
<1>1. n % Top = n
  BY LampAssumption
<1>. QED  BY <1>1, LampAssumption DEF T_G, Up

LEMMA DownOne == Up(2, Top - 1) = 1
<1>1. Top % Top = 0
  BY LampAssumption
<1>. QED  BY <1>1, LampAssumption DEF Up

LEMMA T_GIsLevel ==
  ASSUME NEW l \in Levels, NEW n \in Int
  PROVE  T_G(l, n) \in Levels
<1>1. n \in 1..(Top - 1) => n \in Nat
  BY LampAssumption
<1>. QED  BY <1>1, UpIsLevel DEF T_G

(* What the sensor reads at a level.                                       *)
LEMMA Reads ==
  ASSUME NEW l \in Levels, NEW r \in Readings(l)
  PROVE  /\ r \in 0..(2 * Top)
         /\ ~dead => \/ r = 2 * l
                     \/ l = Top /\ r \in {2 * Top - 2, Dip}
BY LampAssumption DEF Readings, Levels, Dip
-----------------------------------------------------------------------------
LEMMA FlagsStep ==
  ASSUME Flags, LampNext
  PROVE  Flags' /\ dead' = dead
<1>1. (auto' = auto \/ auto' = TRUE \/ auto' = FALSE) /\ dead' = dead
  BY Zenon DEF LampNext, AutoCall, FixedCall, Get_Light, FirstRead, Press, LoopOver, ReadNext,
     SecondPress, Last
<1>2. fooled' = fooled \/ fooled' = FALSE \/ \E r : fooled' = (fooled \/ r = Dip)
  BY Zenon DEF LampNext, AutoCall, FixedCall, Get_Light, FirstRead, Press, LoopOver, ReadNext,
     SecondPress, Last, Sees
<1>3. fooled' \in BOOLEAN
  BY <1>2 DEF Flags
<1>. QED  BY <1>1, <1>3, Zenon DEF Flags

LEMMA NumbersStep ==
  ASSUME LampInv, LampNext
  PROVE  Numbers'
<1>1. Numbers
  BY DEF LampInv
<1>2. \A l \in Levels : l \in Int /\ l > 0 /\ l <= Top /\ 2 * l <= 2 * Top
  BY LampAssumption DEF Levels
<1>3. ASSUME NEW v \in (Top + 1)..(2 * Top), AutoCall(v)
      PROVE  Numbers'
  <2>1. v - Top \in Levels
    BY LampAssumption DEF Levels
  <2>. QED  BY <1>1, <1>3, <2>1 DEF Numbers, AutoCall
<1>4. ASSUME NEW v \in 0..Top, FixedCall(v)
      PROVE  Numbers'
  <2>1. T_G(level, v) \in Levels /\ 1 \in Levels
    BY <1>1, LampAssumption, T_GIsLevel DEF Numbers, Levels
  <2>. QED  BY <1>1, <1>4, <2>1 DEF Numbers, FixedCall
<1>5. CASE Get_Light \/ LoopOver
  <2>1. 1 \in Levels
    BY LampAssumption DEF Levels
  <2>. QED  BY <1>1, <1>5, <2>1 DEF Numbers, Get_Light, LoopOver
<1>6. CASE FirstRead
  <2>1. ght' \in 0..(2 * Top)
    BY <1>1, <1>6, Reads DEF Numbers, FirstRead
  <2>. QED  BY <1>1, <1>6, <2>1, LampAssumption DEF Numbers, FirstRead
<1>7. CASE Press
  <2>1. Up(level, 1) \in Levels
    BY <1>1, UpIsLevel DEF Numbers
  <2>. QED  BY <1>1, <1>7, <2>1 DEF Numbers, Press
<1>8. CASE ReadNext
  <2>1. ght' \in 0..(2 * Top)
    BY <1>1, <1>8, Reads DEF Numbers, ReadNext
  <2>2. (i' = i + 1 /\ pc' = "press") \/ (i' = i /\ pc' = "second")
    BY <1>8 DEF ReadNext
  <2>. QED  BY <1>1, <1>8, <2>1, <2>2, LampAssumption DEF Numbers, ReadNext
<1>9. CASE SecondPress
  <2>. DEFINE here == Up(level, 1)
  <2>1. here \in Levels /\ target - 1 \in Int /\ Top - 1 \in Nat
    <3>1. here \in Levels
      BY <1>1, UpIsLevel DEF Numbers
    <3>. QED  BY <1>1, <1>2, <3>1, LampAssumption DEF Numbers
  <2>2. T_G(here, target - 1) \in Levels /\ Up(here, Top - 1) \in Levels
    BY <2>1, T_GIsLevel, UpIsLevel
  <2>. HIDE DEF here
  <2>3. PICK r \in Readings(here) : Second(here, r)
    BY <1>9 DEF SecondPress, here
  <2>4. level' \in Levels /\ gz_res' \in {gz_res, Top - i, Top - (i + 1)}
    BY <2>1, <2>2, <2>3 DEF Second
  <2>5. i < Top /\ pc' = "last" /\ UNCHANGED <<target, i, ght, origin>>
    BY <1>1, <1>9 DEF SecondPress, Numbers
  <2>6. gz_res' \in 0..Top
    BY <1>1, <2>4, <2>5, LampAssumption DEF Numbers
  <2>. QED  BY <1>1, <2>4, <2>5, <2>6 DEF Numbers
<1>10. CASE Last
  <2>1. target - 1 \in Int /\ (Top - i - 1) % 256 \in Int
    BY <1>1, <1>2, LampAssumption DEF Numbers
  <2>2. level' \in Levels
    BY <1>1, <1>10, <2>1, T_GIsLevel DEF Numbers, Last
  <2>. QED  BY <1>1, <1>10, <2>2 DEF Numbers, Last
<1>. QED  BY <1>3, <1>4, <1>5, <1>6, <1>7, <1>8, <1>9, <1>10 DEF LampNext

LEMMA ClimbingStep ==
  ASSUME LampInv, LampNext
  PROVE  Climbing'
<1>1. Numbers /\ Climbing /\ dead' = dead
  BY FlagsStep DEF LampInv
<1>2. /\ Top \in 3..127 /\ i \in 0..Top
      /\ level \in 1..Top /\ origin \in 1..Top
  BY <1>1, LampAssumption DEF Numbers, Levels
<1>3. CASE \/ \E v \in (Top + 1)..(2 * Top) : AutoCall(v)
           \/ \E v \in 0..Top : FixedCall(v)
           \/ Get_Light \/ Last
  <2>1. (pc' = "first" /\ origin' = level /\ level' = level) \/ pc' = "idle"
    BY <1>3 DEF AutoCall, FixedCall, Get_Light, Last
  <2>. QED  BY <2>1 DEF Climbing
<1>4. CASE FirstRead
  <2>1. /\ pc = "first" /\ pc' = "press" /\ i' = 0 /\ ght' \in Readings(level)
        /\ level' = level /\ origin' = origin
    BY <1>4 DEF FirstRead
  <2>2. Readings(level)' = Readings(level)
    BY <1>1, <2>1 DEF Readings
  <2>. QED  BY <1>1, <1>2, <2>1, <2>2 DEF Climbing
<1>5. CASE Press
  <2>1. /\ pc = "press" /\ pc' = "read" /\ level' = Up(level, 1)
        /\ UNCHANGED <<i, ght, origin>>
    BY <1>5 DEF Press
  <2>2. level' = IF level = Top THEN 1 ELSE level + 1
    BY <1>1, <2>1, UpOne DEF Numbers
  <2>3. ~dead => origin + i = level /\ ght \in Readings(origin + i)
    BY <1>1, <2>1 DEF Climbing
  <2>4. Readings(origin + i)' = Readings(origin + i)
    BY <1>1, <2>1 DEF Readings
  <2>5. ~dead => (origin + i)' = level /\ ght' \in Readings(origin + i)'
    BY <2>1, <2>3, <2>4
  <2>. QED  BY <1>1, <1>2, <2>1, <2>2, <2>5 DEF Climbing, Levels
<1>6. CASE LoopOver
  <2>1. pc = "press" /\ pc' = "last" /\ i = Top
    BY <1>6 DEF LoopOver
  <2>2. dead
    BY <1>1, <1>2, <2>1 DEF Climbing
  <2>. QED  BY <1>1, <2>1, <2>2 DEF Climbing
<1>7. CASE ReadNext /\ ~dead
  <2>1. PICK r \in Readings(level) :
          /\ ght' = r /\ Sees(r)
          /\ IF ght <= r THEN i' = i + 1 /\ pc' = "press" ELSE i' = i /\ pc' = "second"
    BY <1>7 DEF ReadNext
  <2>2. pc = "read" /\ level' = level /\ origin' = origin
    BY <1>7 DEF ReadNext
  <2>3. /\ origin + i \in Levels /\ ght \in Readings(origin + i)
        /\ level = IF origin + i = Top THEN 1 ELSE origin + i + 1
    BY <1>1, <1>7, <2>2 DEF Climbing
  <2>4. /\ ght = 2 * (origin + i) \/ (origin + i = Top /\ ght \in {2 * Top - 2, 2 * Top - 3})
        /\ r = 2 * level \/ (level = Top /\ r \in {2 * Top - 2, 2 * Top - 3})
    BY <1>1, <1>7, <2>1, <2>3, Reads DEF Numbers, Dip
  <2>5. CASE ght <= r
    <3>1. level = origin + (i + 1)
      BY <1>2, <2>3, <2>4, <2>5
    <3>2. Readings(level)' = Readings(level)
      BY <1>1, <2>2 DEF Readings
    <3>. QED  BY <2>1, <2>2, <2>5, <3>1, <3>2 DEF Climbing
  <2>6. CASE ~(ght <= r)
    <3>1. \/ level = 1 /\ r = 2 /\ origin + i = Top
          \/ level = Top /\ r = Dip /\ origin + i = Top - 1
      BY <1>2, <2>3, <2>4, <2>6 DEF Dip
    <3>2. r = Dip => fooled'
      BY <2>1 DEF Sees
    <3>. QED  BY <2>1, <2>2, <2>6, <3>1, <3>2 DEF Climbing, Dip
  <2>. QED  BY <2>5, <2>6
<1>8. CASE ReadNext /\ dead
  <2>1. pc' \in {"press", "second"}
    BY <1>8 DEF ReadNext
  <2>. QED  BY <1>1, <1>8, <2>1 DEF Climbing
<1>9. CASE SecondPress /\ ~dead
  <2>. DEFINE here == Up(level, 1)
  <2>1. here = IF level = Top THEN 1 ELSE level + 1
    BY <1>1, UpOne DEF Numbers
  <2>2. here \in Levels
    BY <1>2, <2>1 DEF Levels
  <2>. HIDE DEF here
  <2>3. PICK r \in Readings(here) : Second(here, r) /\ Sees(r)
    BY <1>9 DEF SecondPress, here
  <2>4. /\ pc = "second" /\ pc' = "last" /\ UNCHANGED <<i, ght, origin>>
    BY <1>9 DEF SecondPress
  <2>5. r = 2 * here \/ here = Top
    BY <1>9, <2>2, <2>3, Reads
  <2>6. CASE level = 1 /\ ght = 2 /\ origin + i = Top
    <3>1. here = 2 /\ r = 4
      BY <1>2, <2>1, <2>5, <2>6
    <3>2. gz_res' = Top - i /\ level' = Up(2, Top - 1)
      BY <2>3, <2>6, <3>1 DEF Second
    <3>3. gz_res' = origin /\ level' = 1
      BY <1>2, <2>6, <3>2, DownOne
    <3>. QED  BY <2>4, <2>6, <3>3 DEF Climbing
  <2>7. CASE level = Top /\ ght = Dip /\ origin + i = Top - 1 /\ fooled
    <3>1. here = 1 /\ r = 2 /\ ght > r /\ ~(ght < r) /\ ght # r
      BY <1>2, <2>1, <2>5, <2>7 DEF Dip
    <3>2. gz_res' = Top - (i + 1)
      BY <2>3, <3>1 DEF Second
    <3>3. gz_res' = origin
      BY <1>2, <2>7, <3>2
    <3>4. fooled'
      BY <2>3, <2>7, Zenon DEF Sees
    <3>. QED  BY <2>4, <3>3, <3>4 DEF Climbing
  <2>. QED  BY <1>1, <1>9, <2>4, <2>6, <2>7 DEF Climbing
<1>10. CASE SecondPress /\ dead
  <2>1. pc' = "last"
    BY <1>10 DEF SecondPress
  <2>. QED  BY <1>1, <1>10, <2>1 DEF Climbing
<1>. QED  BY <1>3, <1>4, <1>5, <1>6, <1>7, <1>8, <1>9, <1>10 DEF LampNext

LEMMA LampInvInit == LampInit => LampInv
<1>. SUFFICES ASSUME LampInit PROVE LampInv
  OBVIOUS
<1>1. Numbers /\ Climbing
  BY LampAssumption DEF LampInit, Numbers, Climbing, Levels
<1>2. Flags
  BY Zenon DEF LampInit, Flags
<1>. QED  BY <1>1, <1>2 DEF LampInv

LEMMA LampInvStep == LampInv /\ [LampNext]_lampVars => LampInv'
<1>. SUFFICES ASSUME LampInv, [LampNext]_lampVars PROVE LampInv'
  OBVIOUS
<1>1. CASE LampNext
  BY <1>1, FlagsStep, NumbersStep, ClimbingStep DEF LampInv
<1>2. CASE UNCHANGED lampVars
  <2>1. Flags'
    BY <1>2, Zenon DEF LampInv, lampVars, Flags
  <2>2. Numbers' /\ Climbing'
    BY <1>2 DEF LampInv, lampVars, Numbers, Climbing, Readings
  <2>. QED  BY <2>1, <2>2 DEF LampInv
<1>. QED  BY <1>1, <1>2

LEMMA LampInvariant == LampSpec => []LampInv
BY LampInvInit, LampInvStep, PTL DEF LampSpec

(* The values keep their types: no press leads the lamp past its levels,   *)
(* and the level found, 4 - i or 4 - (i + 1), never falls below zero.      *)
THEOREM LampTypes == LampSpec => []LampTypeOK
<1>1. LampInv => LampTypeOK
  <2>1. Flags => {auto, dead, fooled} \subseteq BOOLEAN
    BY Zenon DEF Flags
  <2>. QED  BY <2>1 DEF LampInv, Numbers, LampTypeOK
<1>. QED  BY <1>1, LampInvariant, PTL

(* Get_Light() and Auto_T_G() find the level the lamp was at, also when    *)
(* the top level reads darker than the one below.                          *)
THEOREM LevelFound == LampSpec => []LevelIsFound
<1>1. LampInv => LevelIsFound
  BY DEF LampInv, Climbing, LevelIsFound
<1>. QED  BY <1>1, LampInvariant, PTL

(* With readings in order Auto_T_G() ends at the level asked for, and      *)
(* Get_Light() at the level the lamp was at.                               *)
THEOREM EndsAtLevel == LampSpec => Ended
<1>. DEFINE A == pc = "last" /\ ~dead =>
                   (~fooled => level' = IF auto THEN target ELSE origin)
<1>1. LampInv /\ [LampNext]_lampVars => [A]_lampVars
  <2>. SUFFICES ASSUME LampInv, LampNext, pc = "last", ~dead, ~fooled
                PROVE  level' = IF auto THEN target ELSE origin
    OBVIOUS
  <2>1. /\ level = 1 /\ origin + i = Top /\ origin \in 1..Top /\ target \in 1..Top
        /\ i \in 0..Top /\ Top \in 3..127
    BY LampAssumption DEF LampInv, Climbing, Numbers, Levels
  <2>2. Last
    BY DEF LampNext, AutoCall, FixedCall, Get_Light, FirstRead, Press, LoopOver, ReadNext,
       SecondPress
  <2>3. (Top - i - 1) % 256 = origin - 1
    BY <2>1
  <2>4. level' = T_G(1, IF auto THEN target - 1 ELSE origin - 1)
    BY <2>1, <2>2, <2>3 DEF Last
  <2>5. T_G(1, target - 1) = target /\ T_G(1, origin - 1) = origin
    <3>1. target - 1 \in 0..(Top - 1) /\ origin - 1 \in 0..(Top - 1)
      BY <2>1
    <3>. QED  BY <2>1, <3>1, FromFirst
  <2>. QED  BY <2>4, <2>5
<1>. QED  BY <1>1, LampInvariant, PTL DEF LampSpec, Ended
=============================================================================
