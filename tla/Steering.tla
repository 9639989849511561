------------------------------ MODULE Steering ------------------------------
(***************************************************************************)
(* Steering: Track_Adjust(), SpeedCtr() and SpeedSetOne() of               *)
(* DCMotor/DCMotor.cpp.                                                    *)
(*                                                                         *)
(* The rear row has eight sensors, bit 7 on the left; a dark sensor reads  *)
(* zero.  A picture is modelled by the set of dark sensors.  Track_Adjust()*)
(* looks at the front row only in its first case, which does what the last *)
(* one does.                                                               *)
(***************************************************************************)
EXTENDS Integers

Sensors == 0..7

(***************************************************************************)
(* The table of Track_Adjust(): what a picture adds to the speed of the    *)
(* two wheels.  The variant before it has the wheels of two rows mixed up. *)
(***************************************************************************)
Pair(l, r) == [left |-> l, right |-> r]

CorrectionsMixed(dark) ==
  CASE dark = {4}                       -> Pair(-60, 30)
    [] dark = {3}                       -> Pair(30, -60)
    [] dark \in {{4, 5}, {5}}           -> Pair(30, -80)
    [] dark \in {{5, 6}, {4, 5, 6}}     -> Pair(0, -130)
    [] dark \in {{2, 3}, {2}}           -> Pair(30, -80)
    [] dark \in {{1, 2, 3}, {1, 2}}     -> Pair(0, -130)
    [] OTHER                            -> Pair(0, 0)

Corrections(dark) ==
  CASE dark = {4}                       -> Pair(-60, 30)
    [] dark = {3}                       -> Pair(30, -60)
    [] dark \in {{4, 5}, {5}}           -> Pair(-80, 30)
    [] dark \in {{5, 6}, {4, 5, 6}}     -> Pair(-130, 0)
    [] dark \in {{6}, {5, 6, 7}}        -> Pair(-150, 0)
    [] dark \in {{7}, {6, 7}}           -> Pair(-180, 0)
    [] dark \in {{2, 3}, {2}}           -> Pair(30, -80)
    [] dark \in {{1, 2, 3}, {1, 2}}     -> Pair(0, -130)
    [] dark \in {{0, 1, 2}, {1}}        -> Pair(0, -150)
    [] dark \in {{0}, {0, 1}}           -> Pair(0, -180)
    [] OTHER                            -> Pair(0, 0)

(***************************************************************************)
(* SpeedSetOne(): the duty of the two inputs of a motor's bridge.  The     *)
(* amount goes through a uint8_t and is held between 5 and 100; zero       *)
(* brakes.  The variant before it does not take the minus off.             *)
(***************************************************************************)
Held(t) == IF t > 100 THEN 100 ELSE IF t < 5 THEN 5 ELSE t

SpeedSetOneUnsigned(s) ==
  IF s = 0 THEN [c1 |-> 100, c2 |-> 100]
  ELSE [c1 |-> Held((s % 65536) % 256), c2 |-> 0]

SpeedSetOne(s) ==
  IF s = 0 THEN [c1 |-> 100, c2 |-> 100]
  ELSE IF s > 0 THEN [c1 |-> Held(s % 256), c2 |-> 0]
  ELSE [c1 |-> 0, c2 |-> Held((-s) % 256)]

SpeedCtr(l, r) == [left |-> SpeedSetOne(l), right |-> SpeedSetOne(r)]

Track_Adjust(dark, spend) ==
  SpeedCtr(spend + Corrections(dark).left, spend + Corrections(dark).right)

(***************************************************************************)
(* What a wheel does with its inputs: the speed, negative for backward.    *)
(***************************************************************************)
Net(inputs) == inputs.c1 - inputs.c2
Turning(wheels) == Net(wheels.right) - Net(wheels.left)   \* to the left
=============================================================================
