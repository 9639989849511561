-------------------------------- MODULE Road --------------------------------
(***************************************************************************)
(* CheckRoad() of Drive/Drive.cpp: from a crossing, one move on a map      *)
(* whose columns (Alpha) and rows (Num) are two apart from crossing to     *)
(* crossing.  It is given the heading and returns the new one.             *)
(***************************************************************************)
EXTENDS Integers

Up == 1
Right == 2
Down == 3
Left == 4
Headings == 1..4

(* What the code does for a heading and a move asked for: how it turns,    *)
(* whether it tracks to the next crossing (2) or drives half the way (1),  *)
(* and the heading it returns.                                             *)
Row(Alpha, Num, turn, ride, dir) ==
  [Alpha |-> Alpha, Num |-> Num, turn |-> turn, ride |-> ride, dir |-> dir]

RowsUp ==
  { Row(-2, 0, "left", 2, Left), Row(0, -2, "none", 2, Up), Row(2, 0, "right", 2, Right),
    Row(-1, 0, "left", 1, Left), Row(0, -1, "none", 1, Up), Row(1, 0, "right", 1, Right),
    Row(0, 2, "twice", 2, Down) }

RowsRight ==
  { Row(0, -2, "left", 2, Up), Row(2, 0, "none", 2, Right), Row(0, 2, "right", 2, Down),
    Row(0, -1, "left", 1, Up), Row(1, 0, "none", 1, Right), Row(0, 1, "right", 1, Down),
    Row(-2, 0, "twice", 2, Left) }

RowsDown ==
  { Row(2, 0, "left", 2, Right), Row(0, 2, "none", 2, Down), Row(-2, 0, "right", 2, Left),
    Row(1, 0, "left", 1, Right), Row(0, 1, "none", 1, Down), Row(-1, 0, "right", 1, Left),
    Row(0, -2, "twice", 2, Up) }

RowsLeft ==
  { Row(0, 2, "left", 2, Down), Row(-2, 0, "none", 2, Left), Row(0, -2, "right", 2, Up),
    Row(0, 1, "left", 1, Down), Row(-1, 0, "none", 1, Left), Row(0, -1, "right", 1, Up),
    Row(2, 0, "twice", 2, Right) }

Rows(dir) ==
  IF dir = Up THEN RowsUp
  ELSE IF dir = Right THEN RowsRight
  ELSE IF dir = Down THEN RowsDown ELSE RowsLeft

CheckRoad(dir, Alpha, Num) == {r \in Rows(dir) : r.Alpha = Alpha /\ r.Num = Num}

-----------------------------------------------------------------------------
(* The heading after a turn, and how a ride moves the car on the map.      *)
Clockwise(dir) == IF dir = Left THEN Up ELSE dir + 1
Facing(dir, turn) ==
  IF turn = "none" THEN dir
  ELSE IF turn = "right" THEN Clockwise(dir)
  ELSE IF turn = "twice" THEN Clockwise(Clockwise(dir))
  ELSE IF dir = Up THEN Left ELSE dir - 1

Columns(dir, ride) == IF dir = Right THEN ride ELSE IF dir = Left THEN -ride ELSE 0
Lines(dir, ride) == IF dir = Down THEN ride ELSE IF dir = Up THEN -ride ELSE 0

(* Whatever row is taken, the car turns to the heading that is returned    *)
(* and gets to where it was asked to go, so that moves can be chained; no  *)
(* two rows answer the same question.                                      *)
CheckRoadArrives ==
  \A dir \in Headings : \A r \in Rows(dir) :
    /\ r.dir = Facing(dir, r.turn)
    /\ r.Alpha = Columns(r.dir, r.ride) /\ r.Num = Lines(r.dir, r.ride)
    /\ CheckRoad(dir, r.Alpha, r.Num) = {r}

(* A move along one street is done unless it is half a leg straight back.  *)
CheckRoadAnswers ==
  \A dir, way \in Headings, ride \in 1..2 :
    CheckRoad(dir, Columns(way, ride), Lines(way, ride)) # {} <=>
      ~(ride = 1 /\ way = Clockwise(Clockwise(dir)))
=============================================================================
