---------------------------- MODULE Track_proofs ----------------------------
(***************************************************************************)
(* The drive from crossing to crossing, proved for every course of legs    *)
(* IsLeg describes and for lines of one or two sensors: what the rows of   *)
(* sensors can see; the invariant, with a place on the leg for each place  *)
(* in the code; one lemma for each action; and the theorems.  Last, what   *)
(* CheckRoad() (module Road) promises its caller, for every heading.       *)
(***************************************************************************)
EXTENDS Track, Road, FiniteSetTheorems, TLAPS

(* Track_Adjust() leaves the speeds as they are at a picture of none of    *)
(* its rows, and then the car does not turn.                               *)
LEMMA NoCorrection ==
  ASSUME NEW dark, dark = {} \/ ((0 \in dark \/ 7 \in dark) /\ (3 \in dark \/ 4 \in dark))
  PROVE  Corrections(dark) = Pair(0, 0)
BY DEF Corrections

(* The pictures of a line by its middle, and what the table has for them.  *)
LEMMA Table ==
  /\ Corrections({3, 4}) = Pair(0, 0) /\ Corrections({2, 3, 4}) = Pair(0, 0)
  /\ Corrections({3, 4, 5}) = Pair(0, 0)
  /\ Corrections({3}) = Pair(30, -60) /\ Corrections({4}) = Pair(-60, 30)
  /\ Corrections({2, 3}) = Pair(30, -80) /\ Corrections({4, 5}) = Pair(-80, 30)
  /\ Corrections({1, 2, 3}) = Pair(0, -130) /\ Corrections({4, 5, 6}) = Pair(-130, 0)
<1>1. Corrections({3, 4}) = Pair(0, 0)
  <2>. DEFINE dark == {3, 4}
  <2>1. 3 \in dark /\ 4 \in dark /\ 2 \notin dark /\ 5 \notin dark /\ 6 \notin dark
    OBVIOUS
  <2>. HIDE DEF dark
  <2>2. Corrections(dark) = Pair(0, 0)
    BY <2>1 DEF Corrections
  <2>. QED
    BY <2>2 DEF dark
<1>2. Corrections({2, 3, 4}) = Pair(0, 0)
  <2>. DEFINE dark == {2, 3, 4}
  <2>1. 2 \in dark /\ 3 \in dark /\ 4 \in dark
    OBVIOUS
  <2>. HIDE DEF dark
  <2>2. Corrections(dark) = Pair(0, 0)
    BY <2>1 DEF Corrections
  <2>. QED
    BY <2>2 DEF dark
<1>3. Corrections({3, 4, 5}) = Pair(0, 0)
  <2>. DEFINE dark == {3, 4, 5}
  <2>1. 3 \in dark /\ 4 \in dark /\ 5 \in dark
    OBVIOUS
  <2>. HIDE DEF dark
  <2>2. Corrections(dark) = Pair(0, 0)
    BY <2>1 DEF Corrections
  <2>. QED
    BY <2>2 DEF dark
<1>4. Corrections({3}) = Pair(30, -60) /\ Corrections({4}) = Pair(-60, 30)
  <2>1. 3 \notin {4}
    OBVIOUS
  <2>. QED
    BY <2>1 DEF Corrections
<1>5. Corrections({2, 3}) = Pair(30, -80)
  BY DEF Corrections
<1>6. Corrections({4, 5}) = Pair(-80, 30)
  BY DEF Corrections
<1>7. Corrections({1, 2, 3}) = Pair(0, -130)
  BY DEF Corrections
<1>8. Corrections({4, 5, 6}) = Pair(-130, 0)
  BY DEF Corrections
<1>. QED
  BY <1>1, <1>2, <1>3, <1>4, <1>5, <1>6, <1>7, <1>8

(* The table pulls to the side it is meant to, at each of the speeds.  *)
LEMMA Pulls ==
  ASSUME NEW spend \in {30, 50, 70}, NEW dark
  PROVE  LET t == Turning(Track_Adjust(dark, spend)) IN
         /\ Corrections(dark) = Pair(0, 0) => t = 0
         /\ Corrections(dark) \in {Pair(30, -60), Pair(30, -80), Pair(0, -130)} => t \in Int /\ t < 0
         /\ Corrections(dark) \in {Pair(-60, 30), Pair(-80, 30), Pair(-130, 0)} => t \in Int /\ t > 0
<1>. DEFINE t == Turning(Track_Adjust(dark, spend))
<1>1. Corrections(dark) = Pair(0, 0) => t = 0
  BY DEF Turning, Net, Track_Adjust, SpeedCtr, SpeedSetOne, Held, Pair
<1>2. Corrections(dark) = Pair(30, -60) => t \in Int /\ t < 0
  BY DEF Turning, Net, Track_Adjust, SpeedCtr, SpeedSetOne, Held, Pair
<1>3. Corrections(dark) = Pair(30, -80) => t \in Int /\ t < 0
  BY DEF Turning, Net, Track_Adjust, SpeedCtr, SpeedSetOne, Held, Pair
<1>4. Corrections(dark) = Pair(0, -130) => t \in Int /\ t < 0
  BY DEF Turning, Net, Track_Adjust, SpeedCtr, SpeedSetOne, Held, Pair
<1>5. Corrections(dark) = Pair(-60, 30) => t \in Int /\ t > 0
  BY DEF Turning, Net, Track_Adjust, SpeedCtr, SpeedSetOne, Held, Pair
<1>6. Corrections(dark) = Pair(-80, 30) => t \in Int /\ t > 0
  BY DEF Turning, Net, Track_Adjust, SpeedCtr, SpeedSetOne, Held, Pair
<1>7. Corrections(dark) = Pair(-130, 0) => t \in Int /\ t > 0
  BY DEF Turning, Net, Track_Adjust, SpeedCtr, SpeedSetOne, Held, Pair
<1>. QED
  BY <1>1, <1>2, <1>3, <1>4, <1>5, <1>6, <1>7

(* The pictures of a line near the middle. *)
LEMMA Pictures ==
  /\ width = 1 => /\ at = 5 => Line = {2, 3}
                  /\ at = 6 => Line = {3}
                  /\ at = 7 => Line = {3, 4}
                  /\ at = 8 => Line = {4}
                  /\ at = 9 => Line = {4, 5}
  /\ width = 2 => /\ at = 4 => Line = {1, 2, 3}
                  /\ at = 5 => Line = {2, 3}
                  /\ at = 6 => Line = {2, 3, 4}
                  /\ at = 7 => Line = {3, 4}
                  /\ at = 8 => Line = {3, 4, 5}
                  /\ at = 9 => Line = {4, 5}
                  /\ at = 10 => Line = {4, 5, 6}
BY DEF Line, Sensors

(***************************************************************************)
(* The line is held: within this distance of the middle, a look and what   *)
(* the car does before the next one leave it there.                        *)
(***************************************************************************)
Band == 6 - width..8 + width
Somewhere == /\ width \in 1..2 /\ at \in Band /\ x \in Int
             /\ slant \in {"none", "left", "right"} /\ IsLeg(leg)

FrontLine == {k \in 0..6 : 2 * k + 1 - at \in -width..width}

LEMMA LineInBand ==
  ASSUME width \in 1..2, at \in Band
  PROVE  /\ Line \subseteq Sensors /\ Line # {} /\ 0 \notin Line /\ 7 \notin Line
         /\ 3 \in Line \/ 4 \in Line
         /\ FrontLine \subseteq 0..6 /\ FrontLine # {} /\ 0 \notin FrontLine /\ 6 \notin FrontLine
<1>1. 3 \in Line \/ 4 \in Line
  BY DEF Line, Sensors, Band
<1>2. 0 \notin Line /\ 7 \notin Line /\ Line \subseteq Sensors
  BY DEF Line, Sensors, Band
<1>3. 2 \in FrontLine \/ 3 \in FrontLine \/ 4 \in FrontLine
  BY DEF FrontLine, Band
<1>4. 0 \notin FrontLine /\ 6 \notin FrontLine /\ FrontLine \subseteq 0..6
  BY DEF FrontLine, Band
<1>. QED
  BY <1>1, <1>2, <1>3, <1>4

(* The cells of a leg, and around it. *)
LEMMA Course ==
  ASSUME IsLeg(leg)
  PROVE  LET last == Len(leg.cells)  first == leg.terrain IN
         /\ last \in Nat /\ last >= 12 /\ first \in Nat
         /\ \A p \in Int :
              /\ Cell(p) \in {"line", "white", "black"}
              /\ p \in -2..0 => Cell(p) = "black"
              /\ p \in 1..9 \/ p < -2 \/ p > last => Cell(p) = "line"
              /\ p \in last - 2..last => Cell(p) = "black"
              /\ first = 0 /\ p \in 1..last - 3 => Cell(p) # "black"
              /\ first # 0 =>
                   /\ first \in 13..last - 7 /\ last >= 42
                   /\ p \in 1..first - 4 => Cell(p) # "black"
                   /\ p \in first - 3..first - 1 => Cell(p) = "white"
                   /\ p \in first..first + 4 => Cell(p) = "black"
                   /\ p \in 39..last - 3 => Cell(p) # "black"
<1>. DEFINE last == Len(leg.cells)
            first == leg.terrain
<1>1. last \in Nat /\ last >= 12 /\ first \in Nat
  BY DEF IsLeg
<1>2. \A p \in 1..last : leg.cells[p] \in {"line", "white", "black"}
  BY DEF IsLeg
<1>3. Landing = 39
  BY DEF Landing, Cells, GO_D_X
<1>. SUFFICES ASSUME NEW p \in Int
              PROVE  /\ Cell(p) \in {"line", "white", "black"}
                     /\ p \in -2..0 => Cell(p) = "black"
                     /\ p \in 1..9 \/ p < -2 \/ p > last => Cell(p) = "line"
                     /\ p \in last - 2..last => Cell(p) = "black"
                     /\ first = 0 /\ p \in 1..last - 3 => Cell(p) # "black"
                     /\ first # 0 =>
                          /\ first \in 13..last - 7 /\ last >= 42
                          /\ p \in 1..first - 4 => Cell(p) # "black"
                          /\ p \in first - 3..first - 1 => Cell(p) = "white"
                          /\ p \in first..first + 4 => Cell(p) = "black"
                          /\ p \in 39..last - 3 => Cell(p) # "black"
  BY <1>1
<1>4. /\ p \in -2..0 => Cell(p) = "black"
      /\ p \in 1..last => Cell(p) = leg.cells[p]
      /\ p < -2 \/ p > last => Cell(p) = "line"
  BY <1>1 DEF Cell
<1>5. /\ p \in 1..9 => leg.cells[p] = "line"
      /\ p \in last - 2..last => leg.cells[p] = "black"
      /\ first = 0 /\ p \in 1..last - 3 => leg.cells[p] # "black"
  <2>1. p \in 1..9 => leg.cells[p] = "line"
    BY DEF IsLeg
  <2>2. p \in last - 2..last => leg.cells[p] = "black"
    BY DEF IsLeg
  <2>3. first = 0 /\ p \in 1..last - 3 => leg.cells[p] # "black"
    BY <1>1 DEF IsLeg
  <2>. QED
    BY <2>1, <2>2, <2>3
<1>6. first # 0 =>
           /\ first \in 13..last - 7 /\ last >= 42
           /\ p \in 1..first - 4 => leg.cells[p] # "black"
           /\ p \in first - 3..first - 1 => leg.cells[p] = "white"
           /\ p \in first..first + 4 => leg.cells[p] = "black"
           /\ p \in 39..last - 3 => leg.cells[p] # "black"
  BY <1>1, <1>3 DEF IsLeg
<1>. HIDE DEF last, first
<1>7. Cell(p) \in {"line", "white", "black"}
  BY <1>1, <1>2, <1>4
<1>8. /\ p \in 1..9 \/ p < -2 \/ p > last => Cell(p) = "line"
      /\ p \in last - 2..last => Cell(p) = "black"
      /\ first = 0 /\ p \in 1..last - 3 => Cell(p) # "black"
  BY <1>1, <1>4, <1>5
<1>9. ASSUME first # 0
      PROVE  /\ first \in 13..last - 7 /\ last >= 42
             /\ p \in 1..first - 4 => Cell(p) # "black"
             /\ p \in first - 3..first - 1 => Cell(p) = "white"
             /\ p \in first..first + 4 => Cell(p) = "black"
             /\ p \in 39..last - 3 => Cell(p) # "black"
  BY <1>1, <1>4, <1>6, <1>9
<1>. QED
  BY <1>4, <1>7, <1>8, <1>9

(* What the rows see, by the cells they are on. *)
LEMMA RowsSee ==
  ASSUME Somewhere
  PROVE  /\ Cell(x) = "line" => Rear = Line
         /\ Cell(x) = "white" => Rear = {}
         /\ Cell(x) = "black" => /\ 0 \in Rear \/ 7 \in Rear
                                 /\ Rear \in {Sensors, Line \cup {0}, Line \cup {7}}
         /\ Cell(x) = "black" /\ (~Border(x) \/ slant = "none") => Rear = Sensors
         /\ Cell(x + 1) = "line" => Front = FrontLine
         /\ Cell(x + 1) = "white" => Front = {}
         /\ Cell(x + 1) = "black" => 0 \in Front \/ 6 \in Front
         /\ Cell(x + 1) = "black" /\ (~Border(x + 1) \/ slant = "none") => Front = 0..6
         /\ Cell(x + 1) = "black" /\ ~(~Border(x + 1) \/ slant = "none")
              => Front \in {FrontLine \cup {0}, FrontLine \cup {6}}
<1>1. Cardinality(0..6) = 7 /\ Cardinality(Sensors) = 8
  <2>0. 0 \in Int /\ 6 \in Int /\ 7 \in Int
    OBVIOUS
  <2>1. Cardinality(0..6) = IF 0 > 6 THEN 0 ELSE 6 - 0 + 1
    BY <2>0, FS_Interval, Zenon
  <2>2. Cardinality(0..7) = IF 0 > 7 THEN 0 ELSE 7 - 0 + 1
    BY <2>0, FS_Interval, Zenon
  <2>. QED
    BY <2>1, <2>2 DEF Sensors
<1>. QED
  BY <1>1 DEF Somewhere, Rear, Front, FrontLine, Seen, Sensors

(* The pictures the code waits for, by the cells the rows are on. *)
LEMMA Views ==
  ASSUME Somewhere
  PROVE  /\ AllWhite <=> Cell(x) = "white" /\ Cell(x + 1) = "white"
         /\ EdgesWhite <=> Cell(x) # "black" /\ Cell(x + 1) # "black"
         /\ EdgesDark <=> Cell(x) = "black" /\ Cell(x + 1) = "black"
         /\ OnLine <=> Cell(x) = "line" /\ Cell(x + 1) = "line"
<1>1. \A p \in Int : Cell(p) \in {"line", "white", "black"}
  BY Course DEF Somewhere
<1>2. x \in Int /\ x + 1 \in Int
  BY DEF Somewhere
<1>3. {0, 7} \cap Rear = {} <=> Cell(x) # "black"
  BY <1>1, <1>2, RowsSee, LineInBand DEF Somewhere
<1>4. {0, 6} \cap Front = {} <=> Cell(x + 1) # "black"
  BY <1>1, <1>2, RowsSee, LineInBand DEF Somewhere
<1>5. Rear = {} <=> Cell(x) = "white"
  BY <1>1, <1>2, RowsSee, LineInBand DEF Somewhere
<1>6. Front = {} <=> Cell(x + 1) = "white"
  BY <1>1, <1>2, RowsSee, LineInBand DEF Somewhere
<1>7. Cell(x) \in {"line", "white", "black"} /\ Cell(x + 1) \in {"line", "white", "black"}
  BY <1>1, <1>2
<1>. QED
  BY <1>3, <1>4, <1>5, <1>6, <1>7 DEF AllWhite, EdgesWhite, EdgesDark, OnLine

(* Where CarTrack() takes a picture for a crossing or a special place. *)
LEMMA Specials ==
  ASSUME Somewhere
  PROVE  /\ Cell(x) = "black" /\ (~Border(x) \/ slant = "none") => Special
         /\ Cell(x + 1) = "black" /\ (~Border(x + 1) \/ slant = "none") => Special
         /\ Special /\ Cell(x) # "black" => /\ Cell(x + 1) = "black"
                                            /\ ~Border(x + 1) \/ slant = "none"
<1>1. \A p \in Int : Cell(p) \in {"line", "white", "black"}
  BY Course DEF Somewhere
<1>2. x \in Int /\ x + 1 \in Int
  BY DEF Somewhere
<1>. QED
  BY <1>1, <1>2, RowsSee, LineInBand DEF Somewhere, Special, Sensors

(* What a look does with the wheels, and the car with that. *)
LEMMA Steers ==
  ASSUME Somewhere, pc \in {"track", "mp"}
  PROVE  /\ Steered \in -1..1 /\ at + Steered \in Band
         /\ Followed => at + Steered - 1 \in Band /\ at + Steered + 1 \in Band
<1>. DEFINE t == Turning(Track_Adjust(Rear, Spend))
<1>1. Spend \in {30, 50, 70}
  BY DEF Spend
<1>2. Rear \subseteq Sensors
  BY RowsSee, LineInBand, Course DEF Somewhere, Sensors
<1>3. Steered = IF t > 0 THEN -1 ELSE IF t < 0 THEN 1 ELSE 0
  <2>1. \A s \in {30, 50, 70}, d \in SUBSET Sensors :
           Turned[s][d] = LET u == Turning(Track_Adjust(d, s))
                          IN  IF u > 0 THEN -1 ELSE IF u < 0 THEN 1 ELSE 0
    BY DEF Turned
  <2>2. Rear \in SUBSET Sensors
    BY <1>2
  <2>. QED
    BY <1>1, <2>1, <2>2, Zenon DEF Steered
<1>4. CASE Cell(x) # "line"
  <2>1. Rear = {} \/ ((0 \in Rear \/ 7 \in Rear) /\ (3 \in Rear \/ 4 \in Rear))
    BY <1>4, RowsSee, LineInBand, Course DEF Somewhere, Sensors
  <2>2. Corrections(Rear) = Pair(0, 0)
    BY <2>1, NoCorrection
  <2>3. t = 0
    BY <1>1, <2>2, Pulls
  <2>4. Steered = 0
    BY <1>3, <2>3
  <2>. QED
    BY <1>4, <2>4 DEF Somewhere, Followed, Band
<1>5. CASE Cell(x) = "line"
  <2>1. Rear = Line
    BY <1>5, RowsSee
  <2>2. Corrections(Line) = Pair(0, 0) => t = 0
    BY <2>1, <1>1, Pulls
  <2>3. Corrections(Line) \in {Pair(30, -60), Pair(30, -80), Pair(0, -130)} => t \in Int /\ t < 0
    BY <2>1, <1>1, Pulls
  <2>4. Corrections(Line) \in {Pair(-60, 30), Pair(-80, 30), Pair(-130, 0)} => t \in Int /\ t > 0
    BY <2>1, <1>1, Pulls
  <2>5. /\ at < 8 - width => t \in Int /\ t < 0
        /\ at > 6 + width => t \in Int /\ t > 0
        /\ at \in 8 - width..6 + width => t = 0
    <3>. HIDE DEF t
    <3>1. width \in 1..2 /\ at \in 6 - width..8 + width
      BY DEF Somewhere, Band
    <3>2. at < 8 - width => Line \in {{2, 3}, {3}, {1, 2, 3}}
      BY <3>1, Pictures
    <3>3. at > 6 + width => Line \in {{4}, {4, 5}, {4, 5, 6}}
      BY <3>1, Pictures
    <3>4. at \in 8 - width..6 + width => Line \in {{3, 4}, {2, 3, 4}, {3, 4, 5}}
      BY <3>1, Pictures
    <3>5. at < 8 - width
            => Corrections(Line) \in {Pair(30, -60), Pair(30, -80), Pair(0, -130)}
      BY <3>2, Table
    <3>6. at > 6 + width
            => Corrections(Line) \in {Pair(-60, 30), Pair(-80, 30), Pair(-130, 0)}
      BY <3>3, Table
    <3>7. at \in 8 - width..6 + width => Corrections(Line) = Pair(0, 0)
      BY <3>4, Table
    <3>. QED
      BY <2>2, <2>3, <2>4, <3>5, <3>6, <3>7
  <2>. HIDE DEF t
  <2>6. width \in 1..2 /\ at \in 6 - width..8 + width
    BY DEF Somewhere, Band
  <2>7. /\ at < 8 - width => Steered = 1
        /\ at > 6 + width => Steered = -1
        /\ at \in 8 - width..6 + width => Steered = 0
    BY <1>3, <2>5
  <2>. QED
    BY <2>6, <2>7 DEF Band
<1>. QED
  BY <1>4, <1>5

-----------------------------------------------------------------------------
(* The invariant: what the calls still to come are, and for each place in  *)
(* the code where the car can be.                                          *)
End == Len(leg.cells)
Onset == leg.terrain
Orders == {"track", "go", "left", "right", "correct"}
Follow == { <<"track", "go">>, <<"go", "left">>, <<"go", "right">>, <<"go", "track">>,
            <<"left", "left">>, <<"left", "track">>, <<"right", "track">> }
InOrder(calls) == \A k \in 1..Len(calls) - 1 : <<calls[k], calls[k + 1]>> \in Follow

Asked(what) == todo # <<>> /\ Head(todo) \in what
OnBar == x \in -3..-1 /\ (x = -3 => slant = "none")
Inside == x \in 5..6

AtRest ==
  /\ ~looked
  /\ todo = <<>> \/ Asked({"track"}) => OnBar \/ Inside
  /\ Asked({"go"}) => x \in -3..-2
  /\ Asked({"left", "right", "correct"}) => Inside

Starting == Onset = 0 /\ OnBar /\ disc = 0 /\ ~err /\ ~looked
Along ==
  /\ Onset = 0 /\ x \in 1..End - 2
  /\ disc = 0 => x <= 6
  /\ looked => x <= End - 3
ToTerrain ==
  /\ Onset \in 13..16 /\ x \in 5..Onset /\ disc \in x - 6..x - Onset + 10
  /\ x >= Onset - 1 => err
  /\ looked => x < Onset /\ (x = Onset - 2 => err)
Beyond == Onset # 0 /\ disc = 11 /\ x \in 39..End - 2 /\ (looked => x <= End - 3)

Kept == /\ at + steer \in Band
        /\ Followed => at + steer - 1 \in Band /\ at + steer + 1 \in Band

Tracking == /\ Asked({"track"}) /\ (looked => Kept)
            /\ Starting \/ Along \/ ToTerrain \/ Beyond
Leaving == Asked({"track"}) /\ Onset = 0 /\ steer = 0 /\ x \in -3..1 /\ (looked => x <= 0)
Peeking == /\ Asked({"track"}) /\ ~looked
           /\ \/ Onset = 0 /\ x \in End..End + 1 /\ (x = End => slant = "none")
              \/ Onset \in 13..16 /\ x \in Onset + 2..Onset + 3 /\ mp >= 1
Ended == Asked({"track"}) /\ ~looked /\ x \in End - 3..End - 2 /\ (x = End - 3 => slant = "none")

Mending == (Asked({"correct"}) /\ Onset = 0) \/ (Asked({"track"}) /\ Onset \in 13..16)
Aligning ==
  /\ Mending /\ ~looked
  /\ fix = 0 => IF Onset = 0 THEN Inside ELSE x \in Onset + 2..Onset + 3
  /\ fix \in {1, 3, 5, 7} => x = -1
  /\ fix \in {2, 4, 6} => x = 8
  /\ fix = 8 => x = 11 /\ Onset # 0
BackingOff == /\ Mending /\ Onset # 0 /\ fix = 0 /\ steer = 0
              /\ x \in 8..Onset + 3 /\ (looked => x >= 9)
Backing == /\ Mending /\ fix \in {0, 2, 4, 6} /\ steer = 0
           /\ x >= -1 /\ (x <= 8 \/ (Onset # 0 /\ x <= Onset - 4)) /\ (looked => x >= 0)
Pausing == /\ Mending /\ fix \in {1, 3, 5, 7} /\ (fix = 7 => Onset # 0) /\ steer = 0
           /\ x \in -1..1 /\ (looked => x <= 0)
Following == /\ Mending /\ fix \in {1, 3, 5, 7} /\ (fix = 7 => Onset # 0)
             /\ x = 1 + disc /\ disc <= Target /\ (looked => disc < Target /\ Kept)
Mended == Asked({"correct"}) /\ ~looked /\ x = -1

TurningOff ==
  /\ Asked({"left", "right"}) /\ Inside /\ passed = 0
  /\ \/ steer = -1 /\ at \in -1..8 + width /\ (looked => at >= 0)
     \/ steer = 1 /\ at \in 6 - width..15 /\ (looked => at <= 14)
TurningTo ==
  /\ Asked({"left", "right"}) /\ Inside
  /\ \/ steer = -1 /\ passed = 0 /\ at \in -4..0
     \/ steer = 1 /\ passed = 0 /\ at \in 14..18
     \/ steer = -1 /\ passed = 1 /\ at \in 8 + width..18 /\ (looked => at > 8 + width)
     \/ steer = 1 /\ passed = 1 /\ at \in -4..6 - width /\ (looked => at < 6 - width)
AtLine == Asked({"left", "right"}) /\ ~looked /\ Inside /\ passed = 1

Places ==
  /\ pc = "next" => AtRest
  /\ pc = "track" => Tracking
  /\ pc = "off" => Leaving
  /\ pc = "peek" => Peeking
  /\ pc = "ended" => Ended
  /\ pc = "fix" => Aligning
  /\ pc = "backoff" => BackingOff
  /\ pc = "back" => Backing
  /\ pc = "mpoff" => Pausing
  /\ pc = "mp" => Following
  /\ pc = "corrected" => Mended
  /\ pc = "turnoff" => TurningOff
  /\ pc = "turn" => TurningTo
  /\ pc = "turned" => AtLine

Steady == pc \notin {"turnoff", "turn"} => at \in Band

Basics ==
  /\ todo \in Seq(Orders) /\ Len(todo) <= 5 /\ InOrder(todo)
  /\ pc \in {"next", "track", "off", "peek", "fix", "back", "backoff", "mpoff", "mp",
             "turnoff", "turn", "turned", "ended", "corrected"}
  /\ fix \in 0..8 /\ x \in Int /\ at \in -4..18 /\ leg \in Courses
  /\ width \in Widths /\ slant \in {"none", "left", "right"}
  /\ disc \in 0..11 /\ mp \in 0..11 /\ steer \in -1..1 /\ passed \in 0..1

Flags == err \in BOOLEAN /\ looked \in BOOLEAN

TrackInv == Basics /\ Flags /\ Steady /\ Places

-----------------------------------------------------------------------------
(* Numbers of the code, in cells. *)
LEMMA Numbers ==
  /\ Near = 1 /\ Card = 10 /\ Peek = 3 /\ Far = 11 /\ GO_MP = 8 /\ GO_D_X = 28
  /\ Target = IF fix = 7 THEN 10 ELSE 7
  /\ Len(Correction) = 8
  /\ \A k \in 1..8 : /\ Correction[k] = "back" <=> k \in {1, 3, 5, 7}
                     /\ Correction[k] \in {"mp", "onto"} <=> k \in {2, 4, 6, 8}
BY DEF Near, Card, Peek, Far, GO_MP, GO_D_X, Target, Cells, Correction

(* Except in a turn, what the pictures need is known. *)
LEMMA Where ==
  ASSUME Basics, Steady, pc \notin {"turnoff", "turn"}
  PROVE  Somewhere
BY TrackAssumption DEF Basics, Steady, Somewhere

(* What CarTrack() can see, where it is. *)
LEMMA StartingLook ==
  ASSUME Somewhere, OnBar
  PROVE  Special /\ ~AllWhite
<1>1. /\ \A p \in -2..0 : Cell(p) = "black"
      /\ x + 1 \in Int /\ x - 1 \in Int /\ x + 2 \in Int
  BY Course DEF Somewhere
<1>2. CASE x = -3
  BY <1>1, <1>2, Specials, Views DEF OnBar
<1>3. CASE x = -2
  BY <1>1, <1>3, Specials, Views DEF Border
<1>4. CASE x = -1
  BY <1>1, <1>4, Specials, Views DEF Border
<1>. QED
  BY <1>2, <1>3, <1>4 DEF OnBar

LEMMA AlongLook ==
  ASSUME Somewhere, x \in 1..End - 2, Onset = 0 \/ x >= 39
  PROVE  /\ Special => x \in End - 3..End - 2 /\ (x = End - 3 => slant = "none")
         /\ x = End - 2 => Special
         /\ x <= 6 => ~AllWhite
<1>1. /\ x + 1 \in Int /\ x - 1 \in Int /\ x + 2 \in Int /\ End \in Nat /\ End >= 12
      /\ x <= End - 3 => Cell(x) # "black"
      /\ x <= End - 4 => Cell(x + 1) # "black"
      /\ x <= 6 => Cell(x) = "line"
      /\ x \in End - 3..End - 2 => Cell(x + 1) = "black"
      /\ x = End - 2 => Cell(x) = "black" /\ Cell(x + 2) = "black"
      /\ x = End - 3 => x >= 9
  BY Course DEF Somewhere, End, Onset
<1>2. Special => x \in End - 3..End - 2
  BY <1>1, Specials
<1>3. x = End - 3 /\ Special => slant = "none"
  BY <1>1, Specials DEF Border
<1>4. x = End - 2 => Special
  BY <1>1, Specials DEF Border
<1>. QED
  BY <1>1, <1>2, <1>3, <1>4, Views

LEMMA TerrainLook ==
  ASSUME Somewhere, Onset # 0, x \in 5..Onset
  PROVE  /\ Special => x >= Onset - 1
         /\ x = Onset => Special
         /\ x = Onset - 2 => AllWhite
<1>1. Onset \in Nat /\ Onset >= 13 /\ x + 1 \in Int /\ x - 1 \in Int /\ x + 2 \in Int
  BY Course DEF Somewhere, Onset
<1>2. \A p \in Int : /\ p \in 1..Onset - 4 => Cell(p) # "black"
                     /\ p \in Onset - 3..Onset - 1 => Cell(p) = "white"
                     /\ p \in Onset..Onset + 4 => Cell(p) = "black"
  BY Course DEF Somewhere, Onset
<1>3. /\ x <= Onset - 1 => Cell(x) # "black"
      /\ x <= Onset - 2 => Cell(x + 1) # "black"
      /\ x = Onset - 2 => Cell(x) = "white" /\ Cell(x + 1) = "white"
      /\ x = Onset => Cell(x) = "black" /\ Cell(x + 1) = "black" /\ Cell(x + 2) = "black"
  BY <1>1, <1>2 DEF Somewhere
<1>4. Special => x >= Onset - 1
  BY <1>1, <1>3, Specials
<1>5. x = Onset => Special
  BY <1>1, <1>3, Specials DEF Border
<1>. QED
  BY <1>1, <1>3, <1>4, <1>5, Views

(***************************************************************************)
(* The calls to come stay in an order Follow allows.                       *)
(***************************************************************************)
LEMMA Rest ==
  ASSUME todo \in Seq(Orders), Len(todo) <= 5, InOrder(todo), todo # <<>>
  PROVE  /\ Tail(todo) \in Seq(Orders) /\ Len(Tail(todo)) <= 5 /\ InOrder(Tail(todo))
         /\ Tail(todo) # <<>> => <<Head(todo), Head(Tail(todo))>> \in Follow
<1>1. /\ Tail(todo) \in Seq(Orders) /\ Len(Tail(todo)) = Len(todo) - 1
      /\ \A k \in 1..Len(Tail(todo)) : Tail(todo)[k] = todo[k + 1]
      /\ Head(todo) = todo[1] /\ Len(todo) \in Nat
      /\ Tail(todo) # <<>> => Len(Tail(todo)) >= 1 /\ Head(Tail(todo)) = Tail(todo)[1]
  OBVIOUS
<1>2. InOrder(Tail(todo))
  <2>. SUFFICES ASSUME NEW k \in 1..Len(Tail(todo)) - 1
                PROVE  <<Tail(todo)[k], Tail(todo)[k + 1]>> \in Follow
    BY DEF InOrder
  <2>1. /\ k + 1 \in 1..Len(todo) - 1
        /\ Tail(todo)[k] = todo[k + 1] /\ Tail(todo)[k + 1] = todo[k + 1 + 1]
    BY <1>1
  <2>. QED
    BY <2>1 DEF InOrder
<1>3. Tail(todo) # <<>> => <<Head(todo), Head(Tail(todo))>> \in Follow
  <2>1. Tail(todo) # <<>> => 1 \in 1..Len(todo) - 1 /\ Head(Tail(todo)) = todo[1 + 1]
    BY <1>1
  <2>. QED
    BY <1>1, <2>1 DEF InOrder
<1>. QED
  BY <1>1, <1>2, <1>3

(* Calls that follow one another, from the first one to the last. *)
Goes(calls, first, last) ==
  /\ calls \in Seq(Orders) /\ Len(calls) >= 1 /\ InOrder(calls)
  /\ calls[1] = first /\ calls[Len(calls)] = last

LEMMA Joined ==
  ASSUME NEW a, NEW b, NEW f, NEW l, NEW g, NEW m,
         Goes(a, f, l), Goes(b, g, m), <<l, g>> \in Follow
  PROVE  Goes(a \o b, f, m) /\ Len(a \o b) = Len(a) + Len(b)
<1>1. /\ a \in Seq(Orders) /\ b \in Seq(Orders) /\ Len(a) \in Nat /\ Len(b) \in Nat
      /\ Len(a) >= 1 /\ Len(b) >= 1
  BY DEF Goes
<1>2. /\ a \o b \in Seq(Orders) /\ Len(a \o b) = Len(a) + Len(b)
      /\ \A k \in 1..Len(a) : (a \o b)[k] = a[k]
      /\ \A k \in 1..Len(a) + Len(b) : k > Len(a) => (a \o b)[k] = b[k - Len(a)]
  BY <1>1
<1>3. ASSUME NEW k \in 1..Len(a \o b) - 1
      PROVE  <<(a \o b)[k], (a \o b)[k + 1]>> \in Follow
  <2>1. CASE k < Len(a)
    <3>1. (a \o b)[k] = a[k] /\ (a \o b)[k + 1] = a[k + 1] /\ k \in 1..Len(a) - 1
      BY <1>1, <1>2, <2>1
    <3>. QED
      BY <3>1 DEF Goes, InOrder
  <2>2. CASE k = Len(a)
    <3>1. (a \o b)[k] = a[Len(a)] /\ (a \o b)[k + 1] = b[1]
      BY <1>1, <1>2, <2>2
    <3>. QED
      BY <3>1 DEF Goes
  <2>3. CASE k > Len(a)
    <3>. DEFINE h == k - Len(a)
    <3>1. (a \o b)[k] = b[h] /\ (a \o b)[k + 1] = b[h + 1] /\ h \in 1..Len(b) - 1
      BY <1>1, <1>2, <2>3
    <3>. HIDE DEF h
    <3>. QED
      BY <3>1 DEF Goes, InOrder
  <2>4. k < Len(a) \/ k = Len(a) \/ k > Len(a)
    BY <1>1, <1>2
  <2>. QED
    BY <2>1, <2>2, <2>3, <2>4
<1>4. (a \o b)[1] = f /\ (a \o b)[Len(a \o b)] = m
  BY <1>1, <1>2 DEF Goes
<1>. QED
  BY <1>1, <1>2, <1>3, <1>4 DEF Goes, InOrder

LEMMA AskedInOrder ==
  ASSUME NEW calls \in Modes \cup Turns \cup {<<"correct">>}
  PROVE  /\ calls \in Seq(Orders) /\ Len(calls) <= 5 /\ InOrder(calls) /\ calls # <<>>
         /\ Head(calls) \in {"track", "left", "right", "correct"}
<1>. DEFINE go == <<"track", "go">>
            left == <<"left">>
            right == <<"right">>
            Fits(s, n) == Len(s) = n /\ \E f \in {"track", "left", "right", "correct"} :
                                           \E l \in Orders : Goes(s, f, l)
<1>1. /\ Goes(go, "track", "go") /\ Len(go) = 2
      /\ Goes(left, "left", "left") /\ Len(left) = 1
      /\ Goes(right, "right", "right") /\ Len(right) = 1
      /\ Goes(<<"track">>, "track", "track") /\ Len(<<"track">>) = 1
      /\ Goes(<<"correct">>, "correct", "correct") /\ Len(<<"correct">>) = 1
      /\ Goes(<<"left", "left">>, "left", "left") /\ Len(<<"left", "left">>) = 2
  BY DEF Goes, InOrder, Orders, Follow
<1>2. calls \in {<<"track">>, <<"correct">>, left, right, <<"left", "left">>,
                 go, go \o left, go \o right, left \o go, go \o go,
                 go \o go \o left, go \o go \o right, left \o go \o go, right \o go \o go}
  BY DEF Modes, Turns
<1>. HIDE DEF go, left, right
<1>3. /\ <<"go", "left">> \in Follow /\ <<"go", "right">> \in Follow
      /\ <<"go", "track">> \in Follow
      /\ <<"left", "track">> \in Follow /\ <<"right", "track">> \in Follow
  BY DEF Follow
<1>4. Goes(go \o left, "track", "left") /\ Len(go \o left) = Len(go) + Len(left)
  BY <1>1, <1>3, Joined, Zenon
<1>5. Goes(go \o right, "track", "right") /\ Len(go \o right) = Len(go) + Len(right)
  BY <1>1, <1>3, Joined, Zenon
<1>6. Goes(left \o go, "left", "go") /\ Len(left \o go) = Len(left) + Len(go)
  BY <1>1, <1>3, Joined, Zenon
<1>7. Goes(right \o go, "right", "go") /\ Len(right \o go) = Len(right) + Len(go)
  BY <1>1, <1>3, Joined, Zenon
<1>8. Goes(go \o go, "track", "go") /\ Len(go \o go) = Len(go) + Len(go)
  BY <1>1, <1>3, Joined, Zenon
<1>9. /\ Goes(go \o go \o left, "track", "left")
      /\ Len(go \o go \o left) = Len(go \o go) + Len(left)
  BY <1>1, <1>3, <1>8, Joined, Zenon
<1>10. /\ Goes(go \o go \o right, "track", "right")
       /\ Len(go \o go \o right) = Len(go \o go) + Len(right)
  BY <1>1, <1>3, <1>8, Joined, Zenon
<1>11. /\ Goes(left \o go \o go, "left", "go")
       /\ Len(left \o go \o go) = Len(left \o go) + Len(go)
  BY <1>1, <1>3, <1>6, Joined, Zenon
<1>12. /\ Goes(right \o go \o go, "right", "go")
       /\ Len(right \o go \o go) = Len(right \o go) + Len(go)
  BY <1>1, <1>3, <1>7, Joined, Zenon
<1>13. \E n \in 1..5 : Fits(calls, n)
  <2>1. Fits(<<"track">>, 1) /\ Fits(<<"correct">>, 1) /\ Fits(left, 1) /\ Fits(right, 1)
    BY <1>1 DEF Orders
  <2>2. Fits(<<"left", "left">>, 2) /\ Fits(go, 2)
    BY <1>1 DEF Orders
  <2>3. Fits(go \o left, 3) /\ Fits(go \o right, 3) /\ Fits(left \o go, 3)
    BY <1>1, <1>4, <1>5, <1>6 DEF Orders
  <2>4. Fits(go \o go, 4) /\ Fits(go \o go \o left, 5) /\ Fits(go \o go \o right, 5)
    BY <1>1, <1>8, <1>9, <1>10 DEF Orders
  <2>5. Fits(left \o go \o go, 5) /\ Fits(right \o go \o go, 5)
    BY <1>1, <1>6, <1>7, <1>11, <1>12 DEF Orders
  <2>. HIDE DEF Fits
  <2>. QED
    <3>1. 1 \in 1..5 /\ 2 \in 1..5 /\ 3 \in 1..5 /\ 4 \in 1..5 /\ 5 \in 1..5
      OBVIOUS
    <3>. QED
      BY <1>2, <2>1, <2>2, <2>3, <2>4, <2>5, <3>1, Zenon
<1>. QED
  BY <1>13 DEF Goes, Orders

(* A turn, on a plain line. *)
LEMMA Spins ==
  ASSUME width \in 1..2, at \in -4..18, x \in Int, Cell(x) = "line"
  PROVE  /\ steer = -1 => /\ at <= -1 => Gone
                          /\ at \in 1..13 => ~Gone
                          /\ at = 8 + width => InMiddle
                          /\ at <= 0 \/ at > 8 + width => ~InMiddle
         /\ steer = 1 => /\ at >= 15 => Gone
                         /\ at \in 1..13 => ~Gone
                         /\ at = 6 - width => InMiddle
                         /\ at >= 14 \/ at < 6 - width => ~InMiddle
<1>0. at \in 1..13 => \E k \in 1..6 : k \in Line
  <2>1. at \in 1..3 => 1 \in Line
    BY DEF Line, Sensors
  <2>2. at \in 3..5 => 2 \in Line
    BY DEF Line, Sensors
  <2>3. at \in 5..7 => 3 \in Line
    BY DEF Line, Sensors
  <2>4. at \in 7..9 => 4 \in Line
    BY DEF Line, Sensors
  <2>5. at \in 9..11 => 5 \in Line
    BY DEF Line, Sensors
  <2>6. at \in 11..13 => 6 \in Line
    BY DEF Line, Sensors
  <2>. QED
    BY <2>1, <2>2, <2>3, <2>4, <2>5, <2>6
<1>1. Rear = Line
  BY DEF Rear, Seen
<1>2. ASSUME steer = -1
      PROVE  /\ at <= -1 => Gone
             /\ at \in 1..13 => ~Gone
             /\ at = 8 + width => InMiddle
             /\ at <= 0 \/ at > 8 + width => ~InMiddle
  <2>1. at <= -1 => Gone
    BY <1>1, <1>2 DEF Gone, Line, Sensors
  <2>2. at \in 1..13 => ~Gone
    BY <1>0, <1>1, <1>2 DEF Gone
  <2>3. /\ at = 8 + width => InMiddle
        /\ at <= 0 \/ at > 8 + width => ~InMiddle
    BY <1>1, <1>2 DEF InMiddle, Line, Sensors
  <2>. QED
    BY <2>1, <2>2, <2>3
<1>3. ASSUME steer = 1
      PROVE  /\ at >= 15 => Gone
             /\ at \in 1..13 => ~Gone
             /\ at = 6 - width => InMiddle
             /\ at >= 14 \/ at < 6 - width => ~InMiddle
  <2>1. at >= 15 => Gone
    BY <1>1, <1>3 DEF Gone, Line, Sensors
  <2>2. at \in 1..13 => ~Gone
    BY <1>0, <1>1, <1>3 DEF Gone
  <2>3. /\ at = 6 - width => InMiddle
        /\ at >= 14 \/ at < 6 - width => ~InMiddle
    BY <1>1, <1>3 DEF InMiddle, Line, Sensors
  <2>. QED
    BY <2>1, <2>2, <2>3
<1>. QED
  BY <1>2, <1>3

-----------------------------------------------------------------------------
LEMMA InitInv == TrackInit => TrackInv
<1>. SUFFICES ASSUME TrackInit PROVE TrackInv
  OBVIOUS
<1>1. Basics
  BY TrackAssumption DEF TrackInit, Basics, InOrder, Middle
<1>2. Steady
  BY TrackAssumption DEF TrackInit, Steady, Band, Middle
<1>3. Places
  BY DEF TrackInit, Places, AtRest, Asked, Inside
<1>4. Flags
  BY DEF TrackInit, Flags
<1>. QED
  BY <1>1, <1>2, <1>3, <1>4 DEF TrackInv

(* The calls of ZH_XJ(), between crossings. *)
LEMMA ZH_XJKeeps == ASSUME TrackInv, ZH_XJ PROVE TrackInv'
<1>1. Basics'
  <2>1. todo' \in Seq(Orders) /\ Len(todo') <= 5 /\ InOrder(todo')
    <3>1. todo' \in Modes \cup Turns \cup {<<"correct">>}
      BY DEF ZH_XJ
    <3>. QED
      BY <3>1, AskedInOrder
  <2>. QED
    BY <2>1 DEF TrackInv, Basics, ZH_XJ, road
<1>0. Flags'
  BY DEF TrackInv, Flags, ZH_XJ, road
<1>2. Steady'
  BY DEF TrackInv, Steady, Band, ZH_XJ, road
<1>3. pc' = "next" /\ AtRest'
  <2>1. todo' # <<>> /\ Head(todo') \in {"track", "left", "right", "correct"}
    BY AskedInOrder DEF ZH_XJ
  <2>2. AtRest /\ todo = <<>>
    BY DEF TrackInv, Places, ZH_XJ
  <2>. QED
    BY <2>1, <2>2 DEF AtRest, Asked, OnBar, Inside, ZH_XJ, road
<1>. QED
  BY <1>0, <1>1, <1>2, <1>3 DEF TrackInv, Places

LEMMA StepAheadKeeps == ASSUME TrackInv, StepAhead PROVE TrackInv'
<1>1. /\ Tail(todo) \in Seq(Orders) /\ Len(Tail(todo)) <= 5 /\ InOrder(Tail(todo))
      /\ Tail(todo) # <<>> => <<"go", Head(Tail(todo))>> \in Follow
  BY Rest DEF TrackInv, Basics, StepAhead, Do
<1>2. Basics'
  BY <1>1, Numbers DEF TrackInv, Basics, StepAhead, Do, InOrder
<1>0. Flags'
  BY DEF TrackInv, Flags, StepAhead
<1>3. Steady'
  BY DEF TrackInv, Steady, Band, StepAhead
<1>4. pc' = "next" /\ AtRest'
  <2>1. AtRest /\ Asked({"go"}) /\ pc = "next"
    BY DEF TrackInv, Places, StepAhead, Do, Asked
  <2>2. x' \in 5..6
    BY <2>1, Numbers DEF AtRest, StepAhead
  <2>3. Asked({"go"})' => FALSE
    BY <1>1 DEF StepAhead, Asked, Follow
  <2>. QED
    BY <2>1, <2>2, <2>3 DEF AtRest, Inside, StepAhead
<1>. QED
  BY <1>0, <1>2, <1>3, <1>4 DEF TrackInv, Places

LEMMA CarTrackKeeps == ASSUME TrackInv, CarTrack PROVE TrackInv'
<1>1. Basics'
  BY DEF TrackInv, Basics, CarTrack, Do
<1>0. Flags'
  BY DEF TrackInv, Flags, CarTrack
<1>2. Steady'
  BY DEF TrackInv, Steady, Band, CarTrack, Do
<1>3. pc' = "track" /\ Tracking'
  <2>1. AtRest /\ Asked({"track"}) /\ (OnBar \/ Inside)
    BY DEF TrackInv, Places, CarTrack, Do, Asked, AtRest
  <2>2. IsLeg(leg')
    BY TrackAssumption DEF CarTrack
  <2>3. CASE leg'.terrain = 0
    <3>1. CASE OnBar
      BY <2>1, <2>3, <3>1 DEF CarTrack, Tracking, Starting, Asked, Onset, OnBar
    <3>2. CASE Inside
      <4>1. Along'
        BY <2>2, <2>3, <3>2 DEF CarTrack, Along, Onset, End, Inside, IsLeg
      <4>. QED
        BY <2>1, <4>1 DEF CarTrack, Tracking, Asked
    <3>. QED
      BY <2>1, <3>1, <3>2
  <2>4. CASE leg'.terrain # 0
    <3>1. leg'.terrain \in Int /\ leg'.terrain >= 13
      BY <2>2, <2>4 DEF IsLeg
    <3>2. leg'.terrain <= x + 10 /\ leg'.terrain > x + 3
      BY <2>4, <3>1, Numbers DEF CarTrack, TrackInv, Basics
    <3>3. ToTerrain'
      BY <2>1, <3>1, <3>2 DEF CarTrack, ToTerrain, Onset, Inside, OnBar
    <3>. QED
      BY <2>1, <3>3 DEF CarTrack, Tracking, Asked
  <2>. QED
    BY <2>3, <2>4
<1>. QED
  BY <1>0, <1>1, <1>2, <1>3 DEF TrackInv, Places

(* The loop of CarTrack(). *)
LEMMA Tracks ==
  ASSUME TrackInv, Look("track")
  PROVE  /\ Somewhere /\ Asked({"track"}) /\ ~looked /\ err \in BOOLEAN /\ disc \in 0..11
         /\ Starting \/ Along \/ ToTerrain \/ Beyond
         /\ Starting => Special /\ ~Flag /\ disc = 0
         /\ Along => /\ Special => x \in End - 3..End - 2 /\ (x = End - 3 => slant = "none")
                     /\ x = End - 2 => Special
                     /\ Special => disc >= 1
         /\ ToTerrain => /\ Special => x >= Onset - 1 /\ Flag /\ disc \in 1..10
                         /\ x = Onset => Special
                         /\ x >= Onset - 2 => Flag
         /\ Beyond => /\ Special => x \in End - 3..End - 2 /\ (x = End - 3 => slant = "none")
                      /\ x = End - 2 => Special
<1>0. Flags
  BY DEF TrackInv
<1>1. Somewhere /\ Tracking /\ ~looked /\ Basics
  BY Where DEF TrackInv, Places, Look
<1>2. End \in Int /\ End >= 12 /\ Onset \in Int /\ x \in Int
  BY <1>1, Course DEF Somewhere, End, Onset
<1>3. Starting => Special /\ ~Flag /\ disc = 0
  BY <1>1, StartingLook DEF Starting, Flag
<1>4. Along => /\ Special => x \in End - 3..End - 2 /\ (x = End - 3 => slant = "none")
               /\ x = End - 2 => Special
               /\ Special => disc >= 1
  BY <1>1, <1>2, AlongLook DEF Along, Basics
<1>5. ToTerrain => /\ Special => x >= Onset - 1 /\ Flag /\ disc \in 1..10
                   /\ x = Onset => Special
                   /\ x >= Onset - 2 => Flag
  <2>. SUFFICES ASSUME ToTerrain
                PROVE  /\ Special => x >= Onset - 1 /\ Flag /\ disc \in 1..10
                       /\ x = Onset => Special
                       /\ x >= Onset - 2 => Flag
    OBVIOUS
  <2>1. Onset # 0 /\ x \in 5..Onset /\ Onset \in 13..16
    BY DEF ToTerrain
  <2>2. /\ Special => x >= Onset - 1
        /\ x = Onset => Special
        /\ x = Onset - 2 => AllWhite
    BY <1>1, <2>1, TerrainLook
  <2>3. x >= Onset - 2 => Flag
    BY <2>1, <2>2 DEF ToTerrain, Flag
  <2>. QED
    BY <2>1, <2>2, <2>3 DEF ToTerrain
<1>6. Beyond => /\ Special => x \in End - 3..End - 2 /\ (x = End - 3 => slant = "none")
                /\ x = End - 2 => Special
  BY <1>1, <1>2, AlongLook DEF Beyond
<1>. QED
  BY <1>0, <1>1, <1>3, <1>4, <1>5, <1>6 DEF Tracking, Basics, Flags

LEMMA CarTrackStopsKeeps == ASSUME TrackInv, CarTrackStops PROVE TrackInv'
<1>1. Basics'
  BY DEF TrackInv, Basics, CarTrackStops, Flag, road
<1>0. Flags'
  BY DEF TrackInv, Flags, CarTrackStops, Flag, road
<1>2. Steady'
  BY DEF TrackInv, Steady, Band, CarTrackStops, road, Look
<1>3. pc' = "ended" /\ Ended'
  <2>1. Special /\ disc >= 1 /\ ~(disc <= 10 /\ Flag)
    BY Numbers DEF CarTrackStops, AtCrossing
  <2>2. Asked({"track"}) /\ ~looked /\ x \in End - 3..End - 2 /\ (x = End - 3 => slant = "none")
    BY <2>1, Tracks DEF CarTrackStops
  <2>. QED
    BY <2>2 DEF CarTrackStops, Ended, Asked, End, road
<1>. QED
  BY <1>0, <1>1, <1>2, <1>3 DEF TrackInv, Places

LEMMA CarTrackPeeksKeeps == ASSUME TrackInv, CarTrackPeeks PROVE TrackInv'
<1>1. Basics'
  BY Numbers DEF TrackInv, Basics, CarTrackPeeks
<1>0. Flags'
  BY DEF TrackInv, Flags, CarTrackPeeks
<1>2. Steady'
  BY DEF TrackInv, Steady, Band, CarTrackPeeks, Look
<1>3. pc' = "peek" /\ Peeking'
  <2>1. Special /\ disc <= 10 /\ Flag /\ x' = x + 3 /\ mp' = disc
    BY Numbers DEF CarTrackPeeks, AtSpecial
  <2>2. /\ Asked({"track"}) /\ ~looked
        /\ \/ Onset = 0 /\ x \in End - 3..End - 2 /\ (x = End - 3 => slant = "none")
           \/ Onset \in 13..16 /\ x \in Onset - 1..Onset /\ disc >= 1
    BY <2>1, Tracks DEF CarTrackPeeks, Starting, Along, ToTerrain, Beyond
  <2>3. x \in Int /\ End \in Int
    BY Tracks, Course DEF Somewhere, End, CarTrackPeeks
  <2>. QED
    BY <2>1, <2>2, <2>3 DEF CarTrackPeeks, Peeking, Asked, End, Onset
<1>. QED
  BY <1>0, <1>1, <1>2, <1>3 DEF TrackInv, Places

LEMMA CarTrackStartsKeeps == ASSUME TrackInv, CarTrackStarts PROVE TrackInv'
<1>1. Basics'
  BY DEF TrackInv, Basics, CarTrackStarts, road
<1>0. Flags'
  BY DEF TrackInv, Flags, CarTrackStarts, road
<1>2. Steady'
  BY DEF TrackInv, Steady, Band, CarTrackStarts, Look, road
<1>3. pc' = "off" /\ Leaving'
  <2>1. Special /\ disc < 1 /\ ~Flag
    BY Numbers DEF CarTrackStarts
  <2>2. Asked({"track"}) /\ ~looked /\ Starting
    BY <2>1, Tracks DEF CarTrackStarts, Beyond
  <2>. QED
    BY <2>2 DEF CarTrackStarts, Leaving, Starting, OnBar, Asked, Onset, road
<1>. QED
  BY <1>0, <1>1, <1>2, <1>3 DEF TrackInv, Places

LEMMA CarTrackAdjustsKeeps == ASSUME TrackInv, CarTrackAdjusts PROVE TrackInv'
<1>1. Somewhere /\ pc = "track"
  BY Tracks DEF CarTrackAdjusts, Look
<1>2. /\ Steered \in -1..1 /\ at + Steered \in Band
      /\ Followed => at + Steered - 1 \in Band /\ at + Steered + 1 \in Band
  BY <1>1, Steers
<1>3. Basics'
  BY <1>2 DEF TrackInv, Basics, CarTrackAdjusts, Flag, road
<1>0. Flags'
  BY DEF TrackInv, Flags, CarTrackAdjusts, Flag, road
<1>4. Steady'
  BY DEF TrackInv, Steady, Band, CarTrackAdjusts, Look, road
<1>5. pc' = "track" /\ Tracking'
  <2>1. Kept'
    BY <1>2 DEF Kept, CarTrackAdjusts, Followed, Cell, Band, road
  <2>2. /\ Asked({"track"}) /\ ~Special /\ err' = Flag /\ looked' = TRUE
        /\ UNCHANGED <<todo, x, at, width, slant, leg, disc>>
    BY Tracks DEF CarTrackAdjusts, road
  <2>3. \/ Along /\ x # End - 2
        \/ ToTerrain /\ x # Onset /\ (x >= Onset - 2 => Flag)
        \/ Beyond /\ x # End - 2
    BY <2>2, Tracks DEF CarTrackAdjusts
  <2>4. x \in Int /\ End \in Int /\ Onset \in Int
    BY <1>1, Course DEF Somewhere, End, Onset
  <2>5. Along' \/ ToTerrain' \/ Beyond'
    BY <2>2, <2>3, <2>4 DEF Along, ToTerrain, Beyond, End, Onset
  <2>6. pc' = "track"
    BY DEF CarTrackAdjusts, Look
  <2>7. Asked({"track"})'
    BY <2>2 DEF Asked
  <2>. QED
    BY <2>1, <2>5, <2>6, <2>7, Zenon DEF Tracking
<1>. QED
  BY <1>0, <1>3, <1>4, <1>5 DEF TrackInv, Places

(* The car leaves the crossing where it started, and the second look. *)
LEMMA StartsOffKeeps == ASSUME TrackInv, StartsOff PROVE TrackInv'
<1>1. Basics'
  BY DEF TrackInv, Basics, StartsOff, road
<1>0. Flags'
  BY DEF TrackInv, Flags, StartsOff
<1>2. Steady'
  BY DEF TrackInv, Steady, Band, StartsOff, Look, road
<1>3. pc' = "track" /\ Tracking'
  <2>1. Somewhere /\ Leaving /\ ~looked /\ OnLine /\ x \in Int
    BY Where DEF TrackInv, Places, StartsOff, Look, Basics
  <2>2. x = 1 /\ End \in Int /\ End >= 12
    BY <2>1, Views, Course DEF Leaving, Somewhere, End
  <2>3. Along'
    BY <2>1, <2>2 DEF Leaving, Along, StartsOff, Onset, End, road
  <2>. QED
    BY <2>1, <2>3 DEF Leaving, Tracking, StartsOff, Asked
<1>. QED
  BY <1>0, <1>1, <1>2, <1>3 DEF TrackInv, Places

LEMMA LeavingKeeps == ASSUME TrackInv, KeepLooking("off", OnLine) PROVE TrackInv'
<1>1. Basics'
  BY DEF TrackInv, Basics, KeepLooking, car, road
<1>0. Flags'
  BY DEF TrackInv, Flags, KeepLooking, car
<1>2. Steady'
  BY DEF TrackInv, Steady, Band, KeepLooking, Look, car, road
<1>3. pc' = "off" /\ Leaving'
  <2>1. Somewhere /\ Leaving /\ ~OnLine /\ x \in Int
    BY Where DEF TrackInv, Places, KeepLooking, Look, Basics
  <2>2. x <= 0
    BY <2>1, Views, Course DEF Leaving, Somewhere
  <2>. QED
    BY <2>1, <2>2 DEF Leaving, KeepLooking, Look, Asked, Onset, car, road
<1>. QED
  BY <1>0, <1>1, <1>2, <1>3 DEF TrackInv, Places

(* The second look sees a terrain exactly where there is one. *)
LEMMA PeekingLook ==
  ASSUME TrackInv, Look("peek")
  PROVE  /\ Peeking /\ Somewhere /\ x \in Int /\ End \in Int /\ Onset \in Int
         /\ EdgesDark <=> Onset # 0
<1>1. Peeking /\ Somewhere /\ x \in Int
  BY Where DEF TrackInv, Places, Look, Basics
<1>2. End \in Int /\ Onset \in Int /\ End >= 12
  BY <1>1, Course DEF Somewhere, End, Onset
<1>3. CASE Onset = 0
  <2>1. x + 1 \in Int /\ Cell(x + 1) = "line"
    BY <1>1, <1>2, <1>3, Course DEF Peeking, Somewhere, End
  <2>. QED
    BY <1>1, <1>2, <1>3, <2>1, Views
<1>4. CASE Onset # 0
  <2>1. \A p \in Int : p \in Onset..Onset + 4 => Cell(p) = "black"
    BY <1>1, <1>4, Course DEF Somewhere, Onset
  <2>2. x \in Onset + 2..Onset + 3
    BY <1>1, <1>4 DEF Peeking
  <2>3. Cell(x) = "black" /\ Cell(x + 1) = "black"
    BY <1>1, <1>2, <2>1, <2>2
  <2>. QED
    BY <1>1, <1>2, <1>4, <2>3, Views
<1>. QED
  BY <1>1, <1>2, <1>3, <1>4

LEMMA PeekCrossingKeeps == ASSUME TrackInv, PeekCrossing PROVE TrackInv'
<1>1. Basics'
  BY Numbers DEF TrackInv, Basics, PeekCrossing
<1>0. Flags'
  BY DEF TrackInv, Flags, PeekCrossing
<1>2. Steady'
  BY DEF TrackInv, Steady, Band, PeekCrossing, Look
<1>3. pc' = "ended" /\ Ended'
  <2>1. Peeking /\ x \in Int /\ End \in Int /\ Onset = 0 /\ ~looked
    BY PeekingLook DEF PeekCrossing, Look
  <2>2. x' = x - 3
    BY Numbers DEF PeekCrossing
  <2>. QED
    BY <2>1, <2>2 DEF PeekCrossing, Peeking, Ended, Asked, End
<1>. QED
  BY <1>0, <1>1, <1>2, <1>3 DEF TrackInv, Places

LEMMA PeekTerrainKeeps == ASSUME TrackInv, PeekTerrain PROVE TrackInv'
<1>1. Peeking /\ Onset # 0 /\ ~looked /\ Onset \in 13..16 /\ mp >= 1 /\ mp \in 0..11
  BY PeekingLook DEF PeekTerrain, Look, Peeking, TrackInv, Basics
<1>2. pc' = "fix" /\ fix' = 0 /\ err' = err /\ UNCHANGED <<todo, mp, steer, road, looked, passed>>
  BY <1>1, Numbers DEF PeekTerrain
<1>3. Basics'
  BY <1>2 DEF TrackInv, Basics, road
<1>0. Flags'
  BY <1>2 DEF TrackInv, Flags
<1>4. Steady'
  BY <1>2 DEF TrackInv, Steady, Band, PeekTerrain, Look, road
<1>5. Aligning'
  BY <1>1, <1>2 DEF Peeking, Aligning, Mending, Asked, Onset, road
<1>. QED
  BY <1>0, <1>2, <1>3, <1>4, <1>5 DEF TrackInv, Places

-----------------------------------------------------------------------------
(* FX_Correct(), and what CarTrack() does after it. *)
LEMMA FX_CorrectKeeps == ASSUME TrackInv, FX_Correct PROVE TrackInv'
<1>1. Basics'
  BY DEF TrackInv, Basics, FX_Correct, Do
<1>0. Flags'
  BY DEF TrackInv, Flags, FX_Correct
<1>2. Steady'
  BY DEF TrackInv, Steady, Band, FX_Correct, Do
<1>3. pc' = "fix" /\ Aligning'
  <2>1. AtRest /\ Asked({"correct"}) /\ Inside /\ ~looked
    BY DEF TrackInv, Places, FX_Correct, Do, Asked, AtRest
  <2>. QED
    BY <2>1 DEF FX_Correct, Aligning, Mending, Asked, Onset, Inside
<1>. QED
  BY <1>0, <1>1, <1>2, <1>3 DEF TrackInv, Places

LEMMA FixReturnsKeeps == ASSUME TrackInv, FixReturns PROVE TrackInv'
<1>1. Basics'
  BY DEF TrackInv, Basics, FixReturns, road
<1>0. Flags'
  BY DEF TrackInv, Flags, FixReturns
<1>2. Steady'
  BY DEF TrackInv, Steady, Band, FixReturns, Corrected, road
<1>3. pc' = "corrected" /\ Mended'
  <2>1. Aligning /\ fix = 7 /\ Head(todo) = "correct"
    BY Numbers DEF TrackInv, Places, FixReturns, Corrected
  <2>. QED
    BY <2>1 DEF FixReturns, Aligning, Mending, Mended, Asked, road
<1>. QED
  BY <1>0, <1>1, <1>2, <1>3 DEF TrackInv, Places

LEMMA OverKeeps == ASSUME TrackInv, Over PROVE TrackInv'
<1>1. Basics'
  BY Numbers DEF TrackInv, Basics, Over
<1>0. Flags'
  BY DEF TrackInv, Flags, Over
<1>2. Steady'
  BY DEF TrackInv, Steady, Band, Over
<1>3. pc' = "track" /\ Tracking'
  <2>1. Aligning /\ fix = 8 /\ leg \in Courses
    BY Numbers DEF TrackInv, Places, Over, Basics
  <2>2. x' = 39 /\ disc' = 11
    BY <2>1, Numbers DEF Over, Aligning
  <2>3. Onset # 0 /\ End \in Int /\ End >= 42
    BY <2>1, TrackAssumption, Course DEF Aligning, Onset, End
  <2>4. Beyond'
    BY <2>1, <2>2, <2>3 DEF Over, Beyond, Onset, End, Aligning
  <2>. QED
    BY <2>1, <2>3, <2>4 DEF Over, Aligning, Mending, Tracking, Asked
<1>. QED
  BY <1>0, <1>1, <1>2, <1>3 DEF TrackInv, Places

(* Where the edges are white, and where they are dark, along a correction. *)
LEMMA NearBar ==
  ASSUME Somewhere, x \in -1..8
  PROVE  /\ EdgesWhite <=> x >= 1
         /\ EdgesDark <=> x = -1
         /\ OnLine <=> x >= 1
<1>1. x \in Int /\ x + 1 \in Int
  BY DEF Somewhere
<1>2. /\ Cell(x) = IF x <= 0 THEN "black" ELSE "line"
      /\ Cell(x + 1) = IF x + 1 <= 0 THEN "black" ELSE "line"
  BY <1>1, Course DEF Somewhere
<1>. QED
  BY <1>1, <1>2, Views

(* Before a terrain there is no bar, and beyond its white cells no line. *)
LEMMA NearTerrain ==
  ASSUME Somewhere, Onset \in 13..16
  PROVE  /\ x \in 1..Onset - 2 => ~EdgesDark
         /\ x \in Onset..Onset + 3 => ~EdgesWhite
         /\ x \in Onset - 3..Onset + 3 => ~OnLine
<1>1. x \in Int /\ x + 1 \in Int
  BY DEF Somewhere
<1>2. \A p \in Int : /\ p \in 1..Onset - 4 => Cell(p) # "black"
                     /\ p \in Onset - 3..Onset - 1 => Cell(p) = "white"
                     /\ p \in Onset..Onset + 4 => Cell(p) = "black"
  BY Course DEF Somewhere, Onset
<1>3. /\ x \in 1..Onset - 2 => Cell(x) # "black"
      /\ x \in Onset..Onset + 3 => Cell(x) = "black"
      /\ x \in Onset - 3..Onset + 3 => Cell(x) # "line"
  BY <1>1, <1>2
<1>. QED
  BY <1>1, <1>3, Views

LEMMA BackStartsKeeps == ASSUME TrackInv, BackStarts PROVE TrackInv'
<1>1. Basics'
  BY DEF TrackInv, Basics, BackStarts
<1>0. Flags'
  BY DEF TrackInv, Flags, BackStarts
<1>2. Steady'
  BY DEF TrackInv, Steady, Band, BackStarts
<1>3. Places'
  <2>1. /\ Aligning /\ Somewhere /\ fix \in {0, 2, 4, 6} /\ x \in Int
        /\ x' \in x - 2..x /\ steer' = 0 /\ looked' = FALSE
        /\ UNCHANGED <<todo, fix, leg>>
    BY Where, Numbers DEF TrackInv, Places, BackStarts, Basics
  <2>2. CASE EdgesWhite
    <3>1. x \in 5..8
      BY <2>1, <2>2, NearTerrain DEF Aligning, Mending, Inside
    <3>2. pc' = "back" /\ Backing'
      BY <2>1, <2>2, <3>1 DEF BackStarts, Aligning, Backing, Mending, Asked, Onset
    <3>. QED
      BY <3>2 DEF Places
  <2>3. CASE ~EdgesWhite
    <3>1. x \notin 5..8
      BY <2>1, <2>3, NearBar
    <3>2. fix = 0 /\ Onset \in 13..16 /\ x \in Onset + 2..Onset + 3
      BY <2>1, <3>1 DEF Aligning, Mending, Inside
    <3>3. pc' = "backoff" /\ BackingOff'
      BY <2>1, <2>3, <3>2 DEF BackStarts, Aligning, BackingOff, Mending, Asked, Onset
    <3>. QED
      BY <3>3 DEF Places
  <2>. QED
    BY <2>2, <2>3
<1>. QED
  BY <1>0, <1>1, <1>2, <1>3 DEF TrackInv

LEMMA BackingOffKeeps == ASSUME TrackInv, KeepLooking("backoff", OnLine) PROVE TrackInv'
<1>1. Basics'
  BY DEF TrackInv, Basics, KeepLooking, car, road
<1>0. Flags'
  BY DEF TrackInv, Flags, KeepLooking, car
<1>2. Steady'
  BY DEF TrackInv, Steady, Band, KeepLooking, Look, car, road
<1>3. pc' = "backoff" /\ BackingOff'
  <2>1. Somewhere /\ BackingOff /\ ~OnLine /\ x \in Int
    BY Where DEF TrackInv, Places, KeepLooking, Look, Basics
  <2>2. x # 8
    BY <2>1, NearBar
  <2>. QED
    BY <2>1, <2>2 DEF BackingOff, Mending, KeepLooking, Look, Asked, Onset, car, road
<1>. QED
  BY <1>0, <1>1, <1>2, <1>3 DEF TrackInv, Places

LEMMA BackOffKeeps == ASSUME TrackInv, BackOff PROVE TrackInv'
<1>1. Basics'
  BY DEF TrackInv, Basics, BackOff, road
<1>0. Flags'
  BY DEF TrackInv, Flags, BackOff
<1>2. Steady'
  BY DEF TrackInv, Steady, Band, BackOff, Look, road
<1>3. pc' = "back" /\ Backing'
  <2>1. Somewhere /\ BackingOff /\ OnLine /\ ~looked /\ x \in Int
    BY Where DEF TrackInv, Places, BackOff, Look, Basics
  <2>2. Onset \in 13..16 /\ x \in 8..Onset - 4
    BY <2>1, NearTerrain DEF BackingOff, Mending
  <2>. QED
    BY <2>1, <2>2 DEF BackingOff, Backing, Mending, BackOff, Asked, Onset, road
<1>. QED
  BY <1>0, <1>1, <1>2, <1>3 DEF TrackInv, Places

LEMMA BackingKeeps == ASSUME TrackInv, KeepLooking("back", AtBar) PROVE TrackInv'
<1>1. Basics'
  BY DEF TrackInv, Basics, KeepLooking, car, road
<1>0. Flags'
  BY DEF TrackInv, Flags, KeepLooking, car
<1>2. Steady'
  BY DEF TrackInv, Steady, Band, KeepLooking, Look, car, road
<1>3. pc' = "back" /\ Backing'
  <2>1. Somewhere /\ Backing /\ ~EdgesDark /\ x \in Int
    BY Where DEF TrackInv, Places, KeepLooking, Look, Basics, AtBar
  <2>2. x # -1
    BY <2>1, NearBar
  <2>. QED
    BY <2>1, <2>2 DEF Backing, Mending, KeepLooking, Look, Asked, Onset, car, road
<1>. QED
  BY <1>0, <1>1, <1>2, <1>3 DEF TrackInv, Places

LEMMA BackEndsKeeps == ASSUME TrackInv, BackEnds PROVE TrackInv'
<1>1. Somewhere /\ Backing /\ EdgesDark /\ ~looked /\ x \in Int
  BY Where DEF TrackInv, Places, BackEnds, Look, Basics, AtBar
<1>2. fix \in {0, 2, 4, 6} /\ fix' = fix + 1 /\ pc' = "fix"
  BY <1>1 DEF Backing, BackEnds, FixDone
<1>3. Basics'
  BY <1>2 DEF TrackInv, Basics, BackEnds, road
<1>0. Flags'
  BY DEF TrackInv, Flags, BackEnds
<1>4. Steady'
  BY DEF TrackInv, Steady, Band, BackEnds, Look, road
<1>5. Aligning'
  <2>1. x = -1
    BY <1>1, NearBar, NearTerrain DEF Backing, Mending
  <2>. QED
    BY <1>1, <1>2, <2>1 DEF Backing, Mending, Aligning, BackEnds, Asked, Onset, road
<1>. QED
  BY <1>0, <1>2, <1>3, <1>4, <1>5 DEF TrackInv, Places

(* CarTrack_MP(). *)
LEMMA MPStartsKeeps == ASSUME TrackInv, MPStarts PROVE TrackInv'
<1>1. Basics'
  BY DEF TrackInv, Basics, MPStarts, road
<1>0. Flags'
  BY DEF TrackInv, Flags, MPStarts
<1>2. Steady'
  BY DEF TrackInv, Steady, Band, MPStarts, road
<1>3. pc' = "mpoff" /\ Pausing'
  <2>1. Aligning /\ fix \in {1, 3, 5, 7} /\ (fix = 7 => Head(todo) # "correct")
    BY Numbers DEF TrackInv, Places, MPStarts, Basics, Corrected
  <2>. QED
    BY <2>1 DEF Aligning, Pausing, Mending, MPStarts, Asked, Onset, road
<1>. QED
  BY <1>0, <1>1, <1>2, <1>3 DEF TrackInv, Places

LEMMA PausingKeeps == ASSUME TrackInv, KeepLooking("mpoff", EdgesWhite) PROVE TrackInv'
<1>1. Basics'
  BY DEF TrackInv, Basics, KeepLooking, car, road
<1>0. Flags'
  BY DEF TrackInv, Flags, KeepLooking, car
<1>2. Steady'
  BY DEF TrackInv, Steady, Band, KeepLooking, Look, car, road
<1>3. pc' = "mpoff" /\ Pausing'
  <2>1. Somewhere /\ Pausing /\ ~EdgesWhite /\ x \in Int
    BY Where DEF TrackInv, Places, KeepLooking, Look, Basics
  <2>2. x <= 0
    BY <2>1, NearBar DEF Pausing
  <2>. QED
    BY <2>1, <2>2 DEF Pausing, Mending, KeepLooking, Look, Asked, Onset, car, road
<1>. QED
  BY <1>0, <1>1, <1>2, <1>3 DEF TrackInv, Places

LEMMA MPOffKeeps == ASSUME TrackInv, MPOff PROVE TrackInv'
<1>1. Basics'
  BY DEF TrackInv, Basics, MPOff
<1>0. Flags'
  BY DEF TrackInv, Flags, MPOff
<1>2. Steady'
  BY DEF TrackInv, Steady, Band, MPOff, Look
<1>3. pc' = "mp" /\ Following'
  <2>1. Somewhere /\ Pausing /\ EdgesWhite /\ ~looked /\ x \in Int
    BY Where DEF TrackInv, Places, MPOff, Look, Basics
  <2>2. x = 1
    BY <2>1, NearBar DEF Pausing
  <2>3. Target' \in {7, 10}
    BY Numbers DEF Target, Cells
  <2>. QED
    BY <2>1, <2>2, <2>3 DEF Pausing, Following, Mending, MPOff, Asked, Onset
<1>. QED
  BY <1>0, <1>1, <1>2, <1>3 DEF TrackInv, Places

LEMMA MPArrivesKeeps == ASSUME TrackInv, MPArrives PROVE TrackInv'
<1>1. Following /\ ~looked /\ disc >= Target /\ fix' = fix + 1 /\ pc' = "fix" /\ disc \in Int
  BY DEF TrackInv, Places, MPArrives, Look, FixDone, Basics
<1>2. fix \in {1, 3, 5, 7} /\ x = IF fix = 7 THEN 11 ELSE 8
  BY <1>1, Numbers DEF Following
<1>3. Basics'
  BY <1>1, <1>2 DEF TrackInv, Basics, MPArrives, road
<1>0. Flags'
  BY DEF TrackInv, Flags, MPArrives
<1>4. Steady'
  BY DEF TrackInv, Steady, Band, MPArrives, Look, road
<1>5. Aligning'
  BY <1>1, <1>2 DEF Following, Aligning, Mending, MPArrives, Asked, Onset, road
<1>. QED
  BY <1>0, <1>1, <1>3, <1>4, <1>5 DEF TrackInv, Places

LEMMA MPAdjustsKeeps == ASSUME TrackInv, MPAdjusts PROVE TrackInv'
<1>1. Somewhere /\ pc = "mp" /\ Following
  BY Where DEF TrackInv, Places, MPAdjusts, Look
<1>2. /\ Steered \in -1..1 /\ at + Steered \in Band
      /\ Followed => at + Steered - 1 \in Band /\ at + Steered + 1 \in Band
  BY <1>1, Steers
<1>3. Basics'
  BY <1>2 DEF TrackInv, Basics, MPAdjusts, road
<1>0. Flags'
  BY DEF TrackInv, Flags, MPAdjusts
<1>4. Steady'
  BY DEF TrackInv, Steady, Band, MPAdjusts, Look, road
<1>5. pc' = "mp" /\ Following'
  <2>1. Kept'
    BY <1>2 DEF Kept, MPAdjusts, Followed, Cell, Band, road
  <2>2. Target' = Target
    BY DEF MPAdjusts, Target
  <2>3. Mending'
    BY <1>1 DEF Following, Mending, MPAdjusts, Asked, Onset, road
  <2>4. /\ fix' = fix /\ x' = x /\ disc' = disc /\ leg' = leg /\ pc' = "mp" /\ disc < Target
        /\ (fix' = 7 => Onset' # 0)
    BY <1>1 DEF MPAdjusts, Look, road, Following, Onset
  <2>5. fix' \in {1, 3, 5, 7} /\ x' = 1 + disc' /\ disc' < Target'
    BY <1>1, <2>2, <2>4 DEF Following
  <2>6. disc' <= Target'
    BY <1>1, <2>2, <2>4 DEF Following
  <2>. QED
    BY <2>1, <2>3, <2>4, <2>5, <2>6, Zenon DEF Following
<1>. QED
  BY <1>0, <1>3, <1>4, <1>5 DEF TrackInv, Places

-----------------------------------------------------------------------------
(* The turns. *)
LEMMA TurnKeeps == ASSUME TrackInv, Turn PROVE TrackInv'
<1>. PICK side \in {"left", "right"} : TurnFrom(side, "turnoff")
  BY DEF Turn
<1>1. Basics'
  BY DEF TrackInv, Basics, TurnFrom, Do
<1>0. Flags'
  BY DEF TrackInv, Flags, TurnFrom
<1>2. Steady'
  BY DEF Steady, TurnFrom
<1>3. pc' = "turnoff" /\ TurningOff'
  <2>1. AtRest /\ Asked({"left", "right"}) /\ Inside
    BY DEF TrackInv, Places, TurnFrom, Do, Asked, AtRest
  <2>2. at \in 6 - width..8 + width /\ width \in 1..2
    BY TrackAssumption DEF TrackInv, Steady, Basics, Band, TurnFrom, Do
  <2>. QED
    BY <2>1, <2>2 DEF TurnFrom, TurningOff, Inside, Asked
<1>. QED
  BY <1>0, <1>1, <1>2, <1>3 DEF TrackInv, Places

(* The car turns on a plain line. *)
LEMMA OnTurn ==
  ASSUME Basics, Inside
  PROVE  width \in 1..2 /\ at \in -4..18 /\ x \in Int /\ Cell(x) = "line"
BY TrackAssumption, Course DEF Basics, Inside

LEMMA TurningOffKeeps == ASSUME TrackInv, KeepLooking("turnoff", Gone) PROVE TrackInv'
<1>1. Basics'
  BY DEF TrackInv, Basics, KeepLooking, car, road
<1>0. Flags'
  BY DEF TrackInv, Flags, KeepLooking, car
<1>2. Steady'
  BY DEF Steady, KeepLooking, Look, car
<1>3. pc' = "turnoff" /\ TurningOff'
  <2>1. TurningOff /\ ~Gone /\ Basics
    BY DEF TrackInv, Places, KeepLooking, Look
  <2>2. (steer = -1 => at >= 0) /\ (steer = 1 => at <= 14) /\ at \in Int
    BY <2>1, OnTurn, Spins DEF TurningOff
  <2>. QED
    BY <2>1, <2>2 DEF TurningOff, KeepLooking, Look, Asked, Inside, car, road
<1>. QED
  BY <1>0, <1>1, <1>2, <1>3 DEF TrackInv, Places

LEMMA LineGoneKeeps == ASSUME TrackInv, LineGone PROVE TrackInv'
<1>1. Basics'
  BY DEF TrackInv, Basics, LineGone, road
<1>0. Flags'
  BY DEF TrackInv, Flags, LineGone
<1>2. Steady'
  BY DEF Steady, LineGone
<1>3. pc' = "turn" /\ TurningTo'
  <2>1. TurningOff /\ Gone /\ Basics /\ ~looked
    BY DEF TrackInv, Places, LineGone, Look
  <2>2. at \notin 1..13 /\ at \in -4..18 /\ width \in 1..2
    BY <2>1, OnTurn, Spins DEF TurningOff
  <2>3. \/ steer = -1 /\ at \in -4..0
        \/ steer = 1 /\ at \in 14..18
    BY <2>1, <2>2 DEF TurningOff
  <2>. QED
    BY <2>1, <2>3 DEF TurningOff, TurningTo, LineGone, Asked, Inside, road
<1>. QED
  BY <1>0, <1>1, <1>2, <1>3 DEF TrackInv, Places

LEMMA TurningToKeeps == ASSUME TrackInv, KeepLooking("turn", InMiddle) PROVE TrackInv'
<1>1. Basics'
  BY DEF TrackInv, Basics, KeepLooking, car, road
<1>0. Flags'
  BY DEF TrackInv, Flags, KeepLooking, car
<1>2. Steady'
  BY DEF Steady, KeepLooking, Look, car
<1>3. pc' = "turn" /\ TurningTo'
  <2>1. TurningTo /\ ~InMiddle /\ Basics
    BY DEF TrackInv, Places, KeepLooking, Look
  <2>2. (steer = -1 => at # 8 + width) /\ (steer = 1 => at # 6 - width)
    BY <2>1, OnTurn, Spins DEF TurningTo
  <2>3. at \in -4..18 /\ width \in 1..2
    BY <2>1, OnTurn DEF TurningTo
  <2>. QED
    BY <2>1, <2>2, <2>3 DEF TurningTo, KeepLooking, Look, Asked, Inside, car, road
<1>. QED
  BY <1>0, <1>1, <1>2, <1>3 DEF TrackInv, Places

LEMMA TurnEndsKeeps == ASSUME TrackInv, TurnEnds PROVE TrackInv'
<1>1. TurningTo /\ InMiddle /\ Basics /\ ~looked
  BY DEF TrackInv, Places, TurnEnds, Look
<1>2. at \in -4..18 /\ width \in 1..2
  BY <1>1, OnTurn DEF TurningTo
<1>3. passed = 1 /\ at \in {6 - width, 8 + width}
  BY <1>1, <1>2, OnTurn, Spins DEF TurningTo
<1>4. Basics'
  BY DEF TrackInv, Basics, TurnEnds, road
<1>0. Flags'
  BY DEF TrackInv, Flags, TurnEnds
<1>5. Steady'
  BY <1>2, <1>3 DEF Steady, Band, TurnEnds, road
<1>6. pc' = "turned" /\ AtLine'
  BY <1>1, <1>3 DEF TurningTo, AtLine, TurnEnds, Asked, Inside, road
<1>. QED
  BY <1>0, <1>4, <1>5, <1>6 DEF TrackInv, Places

LEMMA ReturnKeeps == ASSUME TrackInv, Return PROVE TrackInv'
<1>1. /\ Tail(todo) \in Seq(Orders) /\ Len(Tail(todo)) <= 5 /\ InOrder(Tail(todo))
      /\ Tail(todo) # <<>> => <<Head(todo), Head(Tail(todo))>> \in Follow
  BY Rest DEF TrackInv, Basics, Return, Places, Ended, AtLine, Mended, Asked
<1>2. End \in Int /\ x \in Int
  BY Where, Course DEF TrackInv, Basics, Somewhere, End, Return
<1>3. Basics'
  BY <1>1, <1>2 DEF TrackInv, Basics, Return, End
<1>0. Flags'
  BY DEF TrackInv, Flags, Return
<1>4. Steady'
  BY DEF TrackInv, Steady, Band, Return
<1>5. pc' = "next" /\ todo' = Tail(todo) /\ ~looked' /\ slant' = slant
  BY DEF Return
<1>6. AtRest'
  <2>1. CASE pc = "ended"
    <3>1. Ended /\ Head(todo) = "track"
      BY <2>1 DEF TrackInv, Places, Ended, Asked
    <3>2. x' = x - End
      BY <2>1 DEF Return, End
    <3>3. x' \in -3..-2 /\ (x' = -3 => slant' = "none")
      BY <1>2, <1>5, <3>1, <3>2 DEF Ended
    <3>4. todo' # <<>> => Head(todo') = "go"
      BY <1>1, <1>5, <3>1 DEF Follow
    <3>. QED
      BY <1>5, <3>3, <3>4 DEF AtRest, Asked, OnBar
  <2>2. CASE pc = "turned"
    <3>1. AtLine /\ Head(todo) \in {"left", "right"}
      BY <2>2 DEF TrackInv, Places, AtLine, Asked
    <3>2. Inside'
      BY <2>2, <3>1 DEF Return, AtLine, Inside
    <3>3. todo' # <<>> => Head(todo') \in {"left", "track"}
      BY <1>1, <1>5, <3>1 DEF Follow
    <3>. QED
      BY <1>5, <3>2, <3>3 DEF AtRest, Asked
  <2>3. CASE pc = "corrected"
    <3>1. Mended /\ Head(todo) = "correct"
      BY <2>3 DEF TrackInv, Places, Mended, Asked
    <3>2. x' = -1
      BY <2>3, <3>1 DEF Return, Mended
    <3>3. todo' = <<>>
      BY <1>1, <1>5, <3>1 DEF Follow
    <3>. QED
      BY <1>5, <3>2, <3>3 DEF AtRest, Asked, OnBar
  <2>. QED
    BY <2>1, <2>2, <2>3 DEF Return
<1>. QED
  BY <1>0, <1>3, <1>4, <1>5, <1>6 DEF TrackInv, Places

-----------------------------------------------------------------------------
(* The car moves. *)
LEMMA RollKeeps == ASSUME TrackInv, Roll PROVE TrackInv'
<1>1. /\ looked /\ looked' = FALSE /\ pc \notin {"turnoff", "turn"}
      /\ x' \in {x, IF Back THEN x - 1 ELSE x + 1}
      /\ disc' = IF x' > x /\ disc < 11 THEN disc + 1 ELSE disc
      /\ UNCHANGED <<todo, pc, fix, mp, err, steer, width, slant, leg, passed>>
  BY Numbers DEF Roll, car
<1>2. Basics /\ Flags /\ Somewhere /\ width \in 1..2
  BY <1>1, Where DEF TrackInv, Somewhere
<1>3. at' \in 6 - width..8 + width
  <2>1. at \in 6 - width..8 + width /\ steer \in -1..1
    BY <1>2 DEF Somewhere, Band, Basics
  <2>2. PICK b \in IF Followed THEN -1..1 ELSE {0} : at' = Within(Within(at + steer) + b)
    BY DEF Roll
  <2>3. at + steer \in 6 - width..8 + width
    BY <1>1, <2>1 DEF TrackInv, Places, AtRest, Tracking, Leaving, Peeking, Ended, Aligning,
       BackingOff, Backing, Pausing, Following, Mended, AtLine, Kept, Band, Basics
  <2>4. Followed => at + steer - 1 \in 6 - width..8 + width
                    /\ at + steer + 1 \in 6 - width..8 + width
    BY <1>1 DEF TrackInv, Places, Tracking, Following, Followed, Kept, Band
  <2>5. b \in {-1, 0, 1} /\ at + steer + b \in 6 - width..8 + width
    BY <2>1, <2>2, <2>3, <2>4
  <2>. QED
    BY <1>2, <2>1, <2>2, <2>3, <2>5 DEF Within, Sight, Edge
<1>4. Basics'
  BY <1>1, <1>2, <1>3 DEF Basics
<1>0. Flags'
  BY <1>1, <1>2 DEF Flags
<1>5. Steady'
  BY <1>1, <1>3 DEF Steady, Band
<1>6. x \in Int /\ disc \in 0..11 /\ x' \in Int /\ End' = End /\ Onset' = Onset
  BY <1>1, <1>2 DEF Basics, End, Onset
<1>7. CASE pc = "track"
  <2>1. Tracking /\ x' \in {x, x + 1}
    BY <1>1, <1>7 DEF TrackInv, Places, Back
  <2>2. End \in Int /\ End >= 12
    BY <1>2, Course DEF Somewhere, End
  <2>3. Along => Along'
    BY <1>1, <1>6, <2>1, <2>2 DEF Along
  <2>4. ASSUME ToTerrain PROVE ToTerrain'
    <3>1. /\ Onset \in 13..16 /\ x \in 5..Onset - 1 /\ disc \in x - 6..x - Onset + 10
          /\ x >= Onset - 2 => err
      BY <1>1, <2>4 DEF ToTerrain
    <3>2. disc' = IF x' = x + 1 THEN disc + 1 ELSE disc
      BY <1>1, <1>6, <2>1, <3>1
    <3>3. x' \in 5..Onset /\ disc' \in x' - 6..x' - Onset + 10
      <4>1. CASE x' = x
        BY <1>6, <3>1, <3>2, <4>1
      <4>2. CASE x' = x + 1
        BY <1>6, <3>1, <3>2, <4>2
      <4>. QED
        BY <2>1, <4>1, <4>2
    <3>4. x' >= Onset - 1 => err'
      <4>1. x' >= Onset - 1 => x >= Onset - 2
        BY <1>6, <2>1, <3>1
      <4>. QED
        BY <1>1, <3>1, <4>1
    <3>. QED
      BY <1>1, <1>6, <3>1, <3>3, <3>4 DEF ToTerrain
  <2>5. Beyond => Beyond'
    BY <1>1, <1>6, <2>1, <2>2 DEF Beyond
  <2>6. Asked({"track"})' /\ ~looked'
    BY <1>1, <2>1 DEF Tracking, Asked
  <2>7. Tracking'
    BY <1>1, <2>1, <2>3, <2>4, <2>5, <2>6 DEF Tracking, Starting
  <2>9. pc' = "track"
    BY <1>1, <1>7
  <2>. QED
    BY <1>0, <1>4, <1>5, <2>7, <2>9 DEF TrackInv, Places
<1>8. CASE pc = "off"
  <2>1. Leaving /\ x' \in {x, x + 1}
    BY <1>1, <1>8 DEF TrackInv, Places, Back
  <2>2. Leaving'
    BY <1>1, <1>6, <2>1 DEF Leaving, Asked
  <2>9. pc' = "off"
    BY <1>1, <1>8
  <2>. QED
    BY <1>0, <1>4, <1>5, <2>2, <2>9 DEF TrackInv, Places
<1>9. CASE pc = "backoff"
  <2>1. BackingOff /\ x' \in {x, x - 1}
    BY <1>1, <1>9 DEF TrackInv, Places, Back
  <2>2. BackingOff'
    BY <1>1, <1>6, <2>1 DEF BackingOff, Mending, Asked
  <2>9. pc' = "backoff"
    BY <1>1, <1>9
  <2>. QED
    BY <1>0, <1>4, <1>5, <2>2, <2>9 DEF TrackInv, Places
<1>10. CASE pc = "back"
  <2>1. Backing /\ x' \in {x, x - 1}
    BY <1>1, <1>10 DEF TrackInv, Places, Back
  <2>2. Backing'
    BY <1>1, <1>6, <2>1 DEF Backing, Mending, Asked
  <2>9. pc' = "back"
    BY <1>1, <1>10
  <2>. QED
    BY <1>0, <1>4, <1>5, <2>2, <2>9 DEF TrackInv, Places
<1>11. CASE pc = "mpoff"
  <2>1. Pausing /\ x' \in {x, x + 1}
    BY <1>1, <1>11 DEF TrackInv, Places, Back
  <2>2. Pausing'
    BY <1>1, <1>6, <2>1 DEF Pausing, Mending, Asked
  <2>9. pc' = "mpoff"
    BY <1>1, <1>11
  <2>. QED
    BY <1>0, <1>4, <1>5, <2>2, <2>9 DEF TrackInv, Places
<1>12. CASE pc = "mp"
  <2>1. Following /\ x' \in {x, x + 1}
    BY <1>1, <1>12 DEF TrackInv, Places, Back
  <2>2. Target' = Target /\ Target \in {7, 10}
    BY <1>1, Numbers DEF Target
  <2>3. x' = 1 + disc' /\ disc' <= Target
    BY <1>1, <1>6, <2>1, <2>2 DEF Following
  <2>4. Following'
    BY <1>1, <1>6, <2>1, <2>2, <2>3 DEF Following, Mending, Asked
  <2>9. pc' = "mp"
    BY <1>1, <1>12
  <2>. QED
    BY <1>0, <1>4, <1>5, <2>4, <2>9 DEF TrackInv, Places
<1>13. pc \in {"track", "off", "backoff", "back", "mpoff", "mp"}
  BY <1>1, <1>2 DEF TrackInv, Places, Basics, AtRest, Peeking, Ended, Aligning, Mended, AtLine
<1>. QED
  BY <1>7, <1>8, <1>9, <1>10, <1>11, <1>12, <1>13

LEMMA SpinKeeps == ASSUME TrackInv, Spin PROVE TrackInv'
<1>1. /\ looked /\ looked' = FALSE /\ pc \in {"turnoff", "turn"}
      /\ UNCHANGED <<todo, pc, fix, mp, err, steer, x, width, slant, leg, disc>>
  BY DEF Spin, car
<1>2. /\ Basics /\ Flags
      /\ at \in -4..18 /\ steer \in {-1, 1} /\ passed \in 0..1 /\ width \in 1..2
  BY <1>1, TrackAssumption DEF TrackInv, Places, Basics, TurningOff, TurningTo
<1>3. \/ at' = at /\ passed' = passed
      \/ at' = at + steer /\ at' \in -4..18 /\ passed' = passed
      \/ steer = -1 /\ at = -4 /\ at' = 18 /\ passed' = passed + 1
      \/ steer = 1 /\ at = 18 /\ at' = -4 /\ passed' = passed + 1
  BY <1>2 DEF Spin, Within, Sight, Edge
<1>0. Flags'
  BY <1>1, <1>2 DEF Flags
<1>4. Steady'
  BY <1>1 DEF Steady
<1>5. CASE pc = "turnoff"
  <2>1. TurningOff /\ pc' = "turnoff"
    BY <1>1, <1>5 DEF TrackInv, Places
  <2>2. TurningOff'
    BY <1>1, <1>2, <1>3, <2>1 DEF TurningOff, Asked, Inside
  <2>3. at' \in -4..18 /\ passed' \in 0..1
    BY <1>2, <1>3, <2>1 DEF TurningOff
  <2>4. Basics'
    BY <1>1, <1>2, <2>3 DEF Basics
  <2>. QED
    BY <1>0, <1>4, <2>1, <2>2, <2>4 DEF TrackInv, Places
<1>6. CASE pc = "turn"
  <2>1. TurningTo /\ pc' = "turn"
    BY <1>1, <1>6 DEF TrackInv, Places
  <2>2. TurningTo'
    <3>1. Asked({"left", "right"})' /\ Inside'
      BY <1>1, <2>1 DEF TurningTo, Asked, Inside
    <3>2. CASE steer = -1
      <4>1. \/ passed = 0 /\ at \in -4..0
            \/ passed = 1 /\ at \in 8 + width + 1..18
        BY <1>1, <1>2, <2>1, <3>2 DEF TurningTo
      <4>2. \/ passed' = 0 /\ at' \in -4..0
            \/ passed' = 1 /\ at' \in 8 + width..18
        BY <1>2, <1>3, <3>2, <4>1
      <4>. QED
        BY <1>1, <3>1, <3>2, <4>2 DEF TurningTo
    <3>3. CASE steer = 1
      <4>1. \/ passed = 0 /\ at \in 14..18
            \/ passed = 1 /\ at \in -4..6 - width - 1
        BY <1>1, <1>2, <2>1, <3>3 DEF TurningTo
      <4>2. \/ passed' = 0 /\ at' \in 14..18
            \/ passed' = 1 /\ at' \in -4..6 - width
        BY <1>2, <1>3, <3>3, <4>1
      <4>. QED
        BY <1>1, <3>1, <3>3, <4>2 DEF TurningTo
    <3>. QED
      BY <1>2, <3>2, <3>3
  <2>3. at' \in -4..18 /\ passed' \in 0..1
    BY <1>2, <1>3, <2>1 DEF TurningTo
  <2>4. Basics'
    BY <1>1, <1>2, <2>3 DEF Basics
  <2>. QED
    BY <1>0, <1>4, <2>1, <2>2, <2>4 DEF TrackInv, Places
<1>. QED
  BY <1>1, <1>5, <1>6

LEMMA StutterKeeps == ASSUME TrackInv, UNCHANGED trackVars PROVE TrackInv'
<1>1. UNCHANGED <<todo, pc, fix, mp, err, steer, x, at, width, slant, leg, disc, looked, passed>>
  BY DEF trackVars, car, road
<1>2. Basics' /\ Flags' /\ Steady'
  BY <1>1 DEF TrackInv, Basics, Flags, Steady, Band
<1>3. Places'
  BY <1>1 DEF TrackInv, Places, AtRest, Tracking, Leaving, Peeking, Ended, Aligning, BackingOff,
     Backing, Pausing, Following, Mended, TurningOff, TurningTo, AtLine, Starting, Along,
     ToTerrain, Beyond, Kept, Followed, Cell, Band, Mending, Target, Asked, Onset, End, OnBar, Inside
<1>. QED
  BY <1>2, <1>3 DEF TrackInv

(* The invariant is inductive. *)
LEMMA InvAlways == TrackSpec => []TrackInv
<1>1. TrackInv /\ [TrackNext]_trackVars => TrackInv'
  BY ZH_XJKeeps, StepAheadKeeps, CarTrackKeeps, CarTrackStopsKeeps, CarTrackPeeksKeeps,
     CarTrackStartsKeeps, CarTrackAdjustsKeeps, StartsOffKeeps, LeavingKeeps,
     PeekCrossingKeeps, PeekTerrainKeeps, FX_CorrectKeeps, FixReturnsKeeps, OverKeeps,
     BackStartsKeeps, BackingOffKeeps, BackOffKeeps, BackingKeeps, BackEndsKeeps,
     MPStartsKeeps, PausingKeeps, MPOffKeeps, MPArrivesKeeps, MPAdjustsKeeps,
     TurnKeeps, TurningOffKeeps, LineGoneKeeps, TurningToKeeps, TurnEndsKeeps,
     ReturnKeeps, RollKeeps, SpinKeeps, StutterKeeps DEF TrackNext, Code
<1>. QED
  BY <1>1, InitInv, PTL DEF TrackSpec

(***************************************************************************)
(* What the invariant says of the drive, for every course of the kind      *)
(* IsLeg describes.                                                        *)
(***************************************************************************)
(* The type invariant: what CarTrack() and FX_Correct() count stays in its *)
(* range, and the car between the crossing behind and the one ahead.       *)
THEOREM TrackTypes == TrackSpec => []TrackTypeOK
<1>1. TrackInv => TrackTypeOK
  <2>. SUFFICES ASSUME TrackInv PROVE TrackTypeOK
    OBVIOUS
  <2>1. Basics /\ Flags
    BY DEF TrackInv
  <2>2. IsLeg(leg)
    BY <2>1, TrackAssumption DEF Basics
  <2>3. /\ End \in Int /\ End >= 12 /\ Onset \in Int
        /\ Onset # 0 => Onset >= 13 /\ Onset <= End - 7 /\ End >= 42
    BY <2>2, Course DEF End, Onset
  <2>4. x \in -3..End + 1
    <3>1. x \in Int
      BY <2>1 DEF Basics
    <3>2. CASE pc = "next"
      <4>1. AtRest
        BY <3>2 DEF TrackInv, Places
      <4>2. todo = <<>> \/ Asked({"track"}) \/ Asked({"go"}) \/ Asked({"left", "right", "correct"})
        BY <2>1 DEF Basics, Asked, Orders
      <4>. QED
        BY <2>3, <3>1, <4>1, <4>2 DEF AtRest, OnBar, Inside
    <3>3. CASE pc = "track"
      BY <2>1, <2>3, <3>1, <3>3 DEF TrackInv, Places, Basics, Tracking, Starting, OnBar, Along, ToTerrain, Beyond
    <3>4. CASE pc = "off"
      BY <2>1, <2>3, <3>1, <3>4 DEF TrackInv, Places, Basics, Leaving
    <3>5. CASE pc = "peek"
      BY <2>1, <2>3, <3>1, <3>5 DEF TrackInv, Places, Basics, Peeking
    <3>6. CASE pc = "ended"
      BY <2>1, <2>3, <3>1, <3>6 DEF TrackInv, Places, Basics, Ended
    <3>7. CASE pc = "fix"
      BY <2>1, <2>3, <3>1, <3>7 DEF TrackInv, Places, Basics, Aligning, Mending, Inside
    <3>8. CASE pc = "backoff"
      BY <2>1, <2>3, <3>1, <3>8 DEF TrackInv, Places, Basics, BackingOff, Mending
    <3>9. CASE pc = "back"
      BY <2>1, <2>3, <3>1, <3>9 DEF TrackInv, Places, Basics, Backing, Mending
    <3>10. CASE pc = "mpoff"
      BY <2>1, <2>3, <3>1, <3>10 DEF TrackInv, Places, Basics, Pausing
    <3>11. CASE pc = "mp"
      BY <2>1, <2>3, <3>1, <3>11, Numbers DEF TrackInv, Places, Basics, Following
    <3>12. CASE pc = "corrected"
      BY <2>1, <2>3, <3>1, <3>12 DEF TrackInv, Places, Basics, Mended
    <3>13. CASE pc = "turnoff"
      BY <2>1, <2>3, <3>1, <3>13 DEF TrackInv, Places, Basics, TurningOff, Inside
    <3>14. CASE pc = "turn"
      BY <2>1, <2>3, <3>1, <3>14 DEF TrackInv, Places, Basics, TurningTo, Inside
    <3>15. CASE pc = "turned"
      BY <2>1, <2>3, <3>1, <3>15 DEF TrackInv, Places, Basics, AtLine, Inside
    <3>. QED
      BY <2>1, <3>2, <3>3, <3>4, <3>5, <3>6, <3>7, <3>8, <3>9, <3>10, <3>11, <3>12, <3>13, <3>14, <3>15 DEF Basics
  <2>5. fix \in 0..Len(Correction)
    BY <2>1, Numbers DEF Basics
  <2>. QED
    BY <2>1, <2>4, <2>5, Numbers DEF TrackTypeOK, Basics, Flags, Orders, End, Sight, Edge
<1>. QED
  BY <1>1, InvAlways, PTL

(* The line stays under the inner sensors of the rear row, whatever bends  *)
(* it has: Track_Adjust() never lets it get to where CarTrack() would take *)
(* it for a crossing.                                                      *)
THEOREM NeverLosesLine == TrackSpec => []NeverLost
<1>1. TrackInv => NeverLost
  BY Where, LineInBand DEF TrackInv, NeverLost, Somewhere
<1>. QED
  BY <1>1, InvAlways, PTL

(* CarTrack() ends at the bar of the next crossing and nowhere else, past  *)
(* cards and terrains, and FX_Correct() on the bar behind.                 *)
THEOREM EndsWhereItShould == TrackSpec => []EndsAtCrossing
<1>1. TrackInv => EndsAtCrossing
  BY DEF TrackInv, Places, EndsAtCrossing, Ended, Mended, End
<1>. QED
  BY <1>1, InvAlways, PTL

(* TurnLeft() and TurnRight() end at the next line, with either width:     *)
(* neither at the line the car stood on nor at one beyond.                 *)
THEOREM TurnsOnce == TrackSpec => []TurnsToNextLine
<1>1. TrackInv => TurnsToNextLine
  BY DEF TrackInv, Places, TurnsToNextLine, AtLine
<1>. QED
  BY <1>1, InvAlways, PTL

-----------------------------------------------------------------------------
(* What is true of every row, for one heading. *)
Arrives(dir, rows) ==
  \A r \in rows :
    /\ r.dir = Facing(dir, r.turn)
    /\ r.Alpha = Columns(r.dir, r.ride) /\ r.Num = Lines(r.dir, r.ride)
    /\ {s \in rows : s.Alpha = r.Alpha /\ s.Num = r.Num} = {r}

(* The rows the code has for the first heading, and so on. *)
LEMMA UpArrives == Arrives(Up, RowsUp)
BY DEF Arrives, RowsUp, Row, Facing, Clockwise, Columns, Lines, Up, Right, Down, Left

LEMMA RightArrives == Arrives(Right, RowsRight)
BY DEF Arrives, RowsRight, Row, Facing, Clockwise, Columns, Lines, Up, Right, Down, Left

LEMMA DownArrives == Arrives(Down, RowsDown)
BY DEF Arrives, RowsDown, Row, Facing, Clockwise, Columns, Lines, Up, Right, Down, Left

LEMMA LeftArrives == Arrives(Left, RowsLeft)
BY DEF Arrives, RowsLeft, Row, Facing, Clockwise, Columns, Lines, Up, Right, Down, Left

(* Whatever CheckRoad() is asked and answers, the car gets to where it was *)
(* asked to go and has the heading that is returned.                       *)
THEOREM ArrivesAlways == CheckRoadArrives
<1>1. \A dir \in Headings : Arrives(dir, Rows(dir))
  BY UpArrives, RightArrives, DownArrives, LeftArrives
     DEF Headings, Rows, Up, Right, Down, Left
<1>. QED
  BY <1>1 DEF CheckRoadArrives, CheckRoad, Arrives

(* Moves chain: the heading returned is one CheckRoad() knows, and the     *)
(* next move, asked with it, turns the car on from there.                  *)
THEOREM MovesChain ==
  ASSUME NEW dir \in Headings, NEW r \in Rows(dir), NEW s \in Rows(r.dir)
  PROVE  /\ r.dir \in Headings /\ s.dir \in Headings
         /\ s.dir = Facing(Facing(dir, r.turn), s.turn)
<1>1. r.dir = Facing(dir, r.turn)
  BY ArrivesAlways DEF CheckRoadArrives
<1>2. r.dir \in Headings
  BY DEF Headings, Rows, RowsUp, RowsRight, RowsDown, RowsLeft, Row, Up, Right, Down, Left
<1>3. s.dir = Facing(r.dir, s.turn)
  BY <1>2, ArrivesAlways DEF CheckRoadArrives
<1>4. s.dir \in Headings
  BY <1>2 DEF Headings, Rows, RowsUp, RowsRight, RowsDown, RowsLeft, Row, Up, Right, Down, Left
<1>. QED
  BY <1>1, <1>2, <1>3, <1>4

(* Moves along a street are done, but for half a leg straight back. *)
THEOREM AnswersAlways == CheckRoadAnswers
<1>. SUFFICES ASSUME NEW dir \in Headings, NEW way \in Headings, NEW ride \in 1..2
              PROVE  (\E r \in Rows(dir) : r.Alpha = Columns(way, ride) /\ r.Num = Lines(way, ride))
                       <=> ~(ride = 1 /\ way = Clockwise(Clockwise(dir)))
  BY DEF CheckRoadAnswers, CheckRoad
<1>1. CASE dir = Up
  BY <1>1 DEF Headings, Rows, RowsUp, Row, Clockwise, Columns, Lines, Up, Right, Down, Left
<1>2. CASE dir = Right
  BY <1>2 DEF Headings, Rows, RowsRight, Row, Clockwise, Columns, Lines, Up, Right, Down, Left
<1>3. CASE dir = Down
  BY <1>3 DEF Headings, Rows, RowsDown, Row, Clockwise, Columns, Lines, Up, Right, Down, Left
<1>4. CASE dir = Left
  BY <1>4 DEF Headings, Rows, RowsLeft, Row, Clockwise, Columns, Lines, Up, Right, Down, Left
<1>. QED
  BY <1>1, <1>2, <1>3, <1>4 DEF Headings, Up, Right, Down, Left
=============================================================================
