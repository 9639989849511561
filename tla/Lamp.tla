-------------------------------- MODULE Lamp --------------------------------
(***************************************************************************)
(* The street lamp dialogue of Drive/Drive.cpp: T_G(), Auto_T_G() and      *)
(* Get_Light().                                                            *)
(*                                                                         *)
(* The lamp (not in the repository) has the levels 1 to Top and goes round *)
(* by one, two or three levels on the three infrared commands              *)
(* HW_Dimming1..3.  The car cannot ask for the level: it presses "one up"  *)
(* until the light sensor reads less than before, which is the turn from   *)
(* the top level to the first, or, as a comment in the code warns, a       *)
(* reading of the top level taken for less than the one below; a second    *)
(* press tells the two apart.                                              *)
(***************************************************************************)
EXTENDS Integers

CONSTANT Top   \* levels of the lamp (4)

(* A level to set comes as level + Top in a uint8_t. *)
ASSUME LampAssumption == Top \in 3..127

Levels == 1..Top

VARIABLES
  pc,       \* "idle", "first", "press", "read", "second" or "last"
  auto,     \* Auto_T_G() is running, or Get_Light()
  target,   \* the level Auto_T_G() is to set
  i,        \* presses in the loop
  ght,      \* ght_buf, the reading before
  gz_res,   \* the level the lamp was found at
  level,    \* the lamp
  dead,     \* the sensor always reads the same
  origin,   \* history: the level the dialogue began with
  fooled    \* history: a reading of the top level was below the next lower

lampVars == <<pc, auto, target, i, ght, gz_res, level, dead, origin, fooled>>

LampInit ==
  /\ pc = "idle" /\ auto = FALSE /\ target = 1
  /\ i = 0 /\ ght = 0 /\ gz_res = 0
  /\ level \in Levels /\ dead \in BOOLEAN
  /\ origin = level /\ fooled = FALSE

(* The lamp goes round. *)
Up(l, n) == ((l + n - 1) % Top) + 1

(* T_G(n) knows the commands 1 to 3 only, that is 1 to Top - 1.  *)
T_G(l, n) == IF n \in 1..(Top - 1) THEN Up(l, n) ELSE l

(* Light grows with the level.  The top level may read like the one below  *)
(* it, or a little darker, never like a lower one.                         *)
Dip == 2 * Top - 3
Readings(l) ==
  IF dead THEN {0}
  ELSE {2 * l} \cup IF l = Top THEN {2 * Top - 2, Dip} ELSE {}

Sees(r) == fooled' = (fooled \/ r = Dip)

-----------------------------------------------------------------------------
(* Auto_T_G(v) for v > Top sets level v - Top; for other v it is T_G(v).   *)
(* The variant before AutoCall forgets to take Top off.                    *)
AutoCallWhole(v) ==
  /\ pc = "idle" /\ v > Top
  /\ pc' = "first" /\ auto' = TRUE /\ target' = v
  /\ origin' = level /\ fooled' = FALSE
  /\ UNCHANGED <<i, ght, gz_res, level, dead>>

AutoCall(v) ==
  /\ pc = "idle" /\ v > Top
  /\ pc' = "first" /\ auto' = TRUE /\ target' = v - Top
  /\ origin' = level /\ fooled' = FALSE
  /\ UNCHANGED <<i, ght, gz_res, level, dead>>

FixedCall(v) ==
  /\ pc = "idle" /\ v <= Top
  /\ level' = T_G(level, v)
  /\ origin' = level' /\ auto' = FALSE /\ target' = 1
  /\ UNCHANGED <<pc, i, ght, gz_res, dead, fooled>>

Get_Light ==
  /\ pc = "idle"
  /\ pc' = "first" /\ auto' = FALSE /\ target' = 1
  /\ origin' = level /\ fooled' = FALSE
  /\ UNCHANGED <<i, ght, gz_res, level, dead>>

FirstRead ==
  /\ pc = "first"
  /\ \E r \in Readings(level) : ght' = r /\ Sees(r)
  /\ i' = 0 /\ pc' = "press"
  /\ UNCHANGED <<auto, target, gz_res, level, dead, origin>>

Press ==
  /\ pc = "press" /\ i < Top
  /\ level' = Up(level, 1)
  /\ pc' = "read"
  /\ UNCHANGED <<auto, target, i, ght, gz_res, dead, origin, fooled>>

LoopOver ==
  /\ pc = "press" /\ i = Top
  /\ pc' = "last"
  /\ UNCHANGED <<auto, target, i, ght, gz_res, level, dead, origin, fooled>>

ReadNext ==
  /\ pc = "read"
  /\ \E r \in Readings(level) :
       /\ ght' = r /\ Sees(r)
       /\ IF ght <= r THEN i' = i + 1 /\ pc' = "press" ELSE i' = i /\ pc' = "second"
  /\ UNCHANGED <<auto, target, gz_res, level, dead, origin>>

(* The second press after a drop from ght.  Brighter again: this is level  *)
(* two, go round to one.  Darker: the drop was false and this is level     *)
(* one; Auto_T_G() then sets the target here, and again at the end.  The   *)
(* variants before it forget to go round, and know no false drop.          *)
SecondNoReturn(here, r) ==
  /\ gz_res' = IF ght < r THEN Top - i ELSE Top - (i + 1)
  /\ level' = here

SecondTrusting(here, r) ==
  gz_res' = Top - i /\ level' = Up(here, Top - 1)

Second(here, r) ==
  \/ ght < r /\ gz_res' = Top - i /\ level' = Up(here, Top - 1)
  \/ /\ ght > r
     /\ gz_res' = Top - (i + 1)
     /\ level' = IF auto THEN T_G(here, target - 1) ELSE here
  \/ ght = r /\ gz_res' = gz_res /\ level' = here

SecondPress ==
  /\ pc = "second"
  /\ \E r \in Readings(Up(level, 1)) : Second(Up(level, 1), r) /\ Sees(r)
  /\ pc' = "last"
  /\ UNCHANGED <<auto, target, i, ght, dead, origin>>

(* From level one to the target, or to the level found (in uint8_t: for    *)
(* i = Top the argument is 255, which T_G() ignores like 0).               *)
Last ==
  /\ pc = "last"
  /\ level' = T_G(level, IF auto THEN target - 1 ELSE (Top - i - 1) % 256)
  /\ pc' = "idle"
  /\ UNCHANGED <<auto, target, i, ght, gz_res, dead, origin, fooled>>

LampNext ==
  \/ \E v \in (Top + 1)..(2 * Top) : AutoCall(v)
  \/ \E v \in 0..Top : FixedCall(v)
  \/ Get_Light
  \/ FirstRead \/ Press \/ LoopOver \/ ReadNext \/ SecondPress \/ Last

LampSpec == LampInit /\ [][LampNext]_lampVars

-----------------------------------------------------------------------------
(* Type invariant of the dialogue. *)
LampTypeOK ==
  /\ pc \in {"idle", "first", "press", "read", "second", "last"}
  /\ {auto, dead, fooled} \subseteq BOOLEAN
  /\ target \in Levels /\ level \in Levels /\ origin \in Levels
  /\ i \in 0..Top /\ ght \in 0..(2 * Top) /\ gz_res \in 0..Top

(* With readings that are in order the dialogue leaves the lamp at the     *)
(* level asked for, or, if it was only to find the level, as it was.       *)
Ended == [][pc = "last" /\ ~dead =>
              (~fooled => level' = IF auto THEN target ELSE origin)]_lampVars

(* The level is found out even when the top level once read too dark.      *)
LevelIsFound == pc = "last" /\ ~dead => gz_res = origin

(* Auto_T_G() is automatic dimming: a working sensor, even one that takes  *)
(* the top level for darker than the one below, which the code looks out   *)
(* for, brings the lamp to the level asked for.                            *)
AutoSetsTarget == [][pc = "last" /\ auto /\ ~dead => level' = target]_lampVars
=============================================================================
