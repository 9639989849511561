-------------------------------- MODULE Track -------------------------------
(***************************************************************************)
(* Driving from crossing to crossing: CarTrack(), CarTrack_MP(),           *)
(* Back_Black_Line() and the turns of DCMotor/DCMotor.cpp, with ZH_XJ(),   *)
(* ZW() and FX_Correct() of Drive/Drive.cpp, called as Auto_Drive() does.  *)
(*                                                                         *)
(* The course (not in the repository) is a sequence of cells of 50 pulses  *)
(* from the crossing behind, whose bar is on cells -2..0, to the bar of    *)
(* the next one, its last three cells.  x is the cell under the rear row   *)
(* of sensors; the front row is one cell ahead.  The line is a strip of a  *)
(* certain width with its middle at, in half sensors from bit 0 of the     *)
(* rear row.  Between two looks the car moves by at most a cell, and by    *)
(* half a sensor sideways; a line bends no faster than that.  Moves over   *)
(* a distance are as long as they are asked to be (module Motion).         *)
(***************************************************************************)
EXTENDS Steering, Sequences, FiniteSets

CONSTANTS
  Courses,  \* the legs: [cells |-> sequence, terrain |-> first cell or 0]
  Widths    \* widths of the line, in half sensors

Cells(pulses) == (pulses + 25) \div 50

GO_MP == Cells(420)
GO_D_X == Cells(1400)
Near == Cells(50)       \* "just started", in CarTrack()
Card == Cells(500)      \* how far a special place is at most
Peek == Cells(150)
Far == Card + 1         \* where counting stops

(***************************************************************************)
(* A leg, as CarTrack() takes it: a plain line for 450 pulses; the bar of  *)
(* the next crossing, which is its last three cells; and between them      *)
(* white cards, or a terrain: three white cells, then at least five black  *)
(* ones, all passed where the car lands behind it.                         *)
(***************************************************************************)
Landing == 1 + Cells(500) + GO_D_X

IsLeg(c) ==
  LET last == Len(c.cells)
      first == c.terrain
      None(cell, from, to) == \A p \in from..to : c.cells[p] # cell
      All(cell, from, to) == \A p \in from..to : c.cells[p] = cell
  IN  /\ c.cells \in Seq({"line", "white", "black"}) /\ last >= 12
      /\ All("line", 1, 9) /\ All("black", last - 2, last)
      /\ \/ first = 0 /\ None("black", 1, last - 3)
         \/ /\ first \in 13..last - 7 /\ Landing <= last - 3
            /\ None("black", 1, first - 4) /\ All("white", first - 3, first - 1)
            /\ All("black", first, first + 4) /\ None("black", Landing, last - 3)

ASSUME TrackAssumption ==
  /\ Widths \subseteq 1..2
  /\ \A c \in Courses : IsLeg(c)

VARIABLES
  todo,     \* what is left of the call of ZH_XJ()
  pc,       \* where the code is
  fix,      \* how much of the correction in CarTrack() is done
  x, at,    \* where the car is, along the leg and across the line
  width,    \* of the line
  slant,    \* the end of a row that meets a bar first, or "none"
  leg,      \* the leg under way
  disc,     \* cells counted by the code disc, up to Far
  mp,       \* mp_value of CarTrack()
  err,      \* track_err_cont of CarTrack()
  steer,    \* where the wheels take the line: -1, 0 or 1
  looked,   \* the code has looked since the car last moved
  passed    \* history: lines that came into sight in this turn

car == <<todo, pc, fix, mp, err, steer>>
road == <<x, at, width, slant, leg, disc>>
trackVars == <<car, road, looked, passed>>

Middle == 7
Edge == 14
Sight == 4      \* out of sight, beyond either end of the row
Within(place) == IF place < -Sight THEN -Sight
                 ELSE IF place > Edge + Sight THEN Edge + Sight ELSE place

(***************************************************************************)
(* Pictures: what the rows can see.  A bar crossed at an angle darkens     *)
(* only one end of a row where it begins.                                  *)
(***************************************************************************)
Cell(p) == IF p \in -2..0 THEN "black"
           ELSE IF p \in 1..Len(leg.cells) THEN leg.cells[p] ELSE "line"

Border(p) == Cell(p - 1) # "black" \/ Cell(p + 1) # "black"

Seen(sensors, p, line) ==
  CASE Cell(p) = "line"  -> line
    [] Cell(p) = "white" -> {}
    [] Cell(p) = "black" /\ Border(p) /\ slant = "right" -> line \cup {0}
    [] Cell(p) = "black" /\ Border(p) /\ slant = "left"  -> line \cup {Cardinality(sensors) - 1}
    [] OTHER -> sensors

Front == Seen(0..6, x + 1, {k \in 0..6 : 2 * k + 1 - at \in -width..width})
Line == {k \in Sensors : 2 * k - at \in -width..width}
Rear == Seen(Sensors, x, Line)

AllWhite == Front = {} /\ Rear = {}
EdgesWhite == {0, 6} \cap Front = {} /\ {0, 7} \cap Rear = {}
EdgesDark == {0, 6} \cap Front # {} /\ {0, 7} \cap Rear # {}

(* The car is on a plain line; the variant has the last test the wrong way round. *)
OnLineInverted == EdgesWhite /\ ~(Front # {} /\ Rear # {})
OnLine == EdgesWhite /\ Front # {} /\ Rear # {}

(* The pictures CarTrack() takes for a crossing or a special place; the    *)
(* last five of its nine tests are cases of the first ones.                *)
Special ==
  LET rear == Rear
  IN  \/ 7 \in rear /\ ~({2, 3} \subseteq rear)
      \/ 0 \in rear /\ ~({4, 5} \subseteq rear)
      \/ rear = Sensors \/ Front = 0..6

TrackInit ==
  /\ todo = <<>> /\ pc = "next" /\ fix = 0
  /\ x = 5 /\ at \in Middle - 1..Middle + 1
  /\ width \in Widths /\ slant \in {"none", "left", "right"}
  /\ leg \in Courses /\ leg.terrain = 0
  /\ disc = 0 /\ mp = 0 /\ err = FALSE /\ steer = 0
  /\ looked = FALSE /\ passed = 0

-----------------------------------------------------------------------------
(***************************************************************************)
(* ZH_XJ(): the calls of each mode.  R_X turns left in the code.  ZW()     *)
(* turns once, or left twice; its half turns are a matter of time.  The    *)
(* routes also call FX_Correct().  A car on the bar of a crossing is only  *)
(* asked to track.                                                         *)
(***************************************************************************)
Turns == {<<"left">>, <<"right">>, <<"left", "left">>}

Modes ==
  LET go == <<"track", "go">>
  IN  {<<"track">>, go, go \o <<"left">>, go \o <<"right">>, <<"left">> \o go,
       go \o go \o <<"left">>, go \o go \o <<"right">>, <<"left">> \o go \o go,
       <<"right">> \o go \o go, go \o go}

ZH_XJ ==
  /\ pc = "next" /\ todo = <<>>
  /\ todo' \in Modes \cup Turns \cup {<<"correct">>}
  /\ x > 0 \/ Head(todo') = "track"
  /\ UNCHANGED <<pc, fix, mp, err, steer, road, looked, passed>>

Do(what) == pc = "next" /\ todo # <<>> /\ Head(todo) = what

StepAhead ==
  /\ Do("go") /\ x' = x + GO_MP /\ todo' = Tail(todo)
  /\ UNCHANGED <<pc, fix, mp, err, steer, at, width, slant, leg, disc, looked, passed>>

(***************************************************************************)
(* CarTrack() begins, on the leg that lies ahead: a terrain is reached     *)
(* within 500 pulses.                                                      *)
(***************************************************************************)
CarTrack ==
  /\ Do("track") /\ pc' = "track" /\ disc' = 0 /\ err' = FALSE
  /\ leg' \in {c \in Courses : c.terrain = 0 \/ (c.terrain - x <= Card /\ c.terrain > x + 3)}
  /\ looked' = FALSE /\ steer' = 0
  /\ UNCHANGED <<todo, fix, mp, x, at, width, slant, passed>>

(* The code looks; what it sees may set track_err_cont, which the variant  *)
(* never does.                                                             *)
Look(here) == pc = here /\ ~looked

FlagNever == err
Flag == err \/ AllWhite

(* Where the wheels take the line, at the speeds the loops are called with. *)
Spend == CASE pc = "track" -> 70 [] fix = 7 -> 50 [] OTHER -> 30

Turned ==
  [spend \in {30, 50, 70} |-> [dark \in SUBSET Sensors |->
     LET t == Turning(Track_Adjust(dark, spend))
     IN  IF t > 0 THEN -1 ELSE IF t < 0 THEN 1 ELSE 0]]

Steered == Turned[Spend][Rear]

(***************************************************************************)
(* The loop of CarTrack() ends at a crossing; at a place that may be       *)
(* special it drives on by 150 pulses to look again; where it has started  *)
(* on a crossing it drives straight on; and otherwise it steers.           *)
(***************************************************************************)
AtSpecial == disc <= Card /\ Special /\ Flag
AtCrossing == disc >= Near /\ Special /\ ~(disc <= Card /\ Flag)

CarTrackStops ==
  /\ Look("track")
  /\ AtCrossing /\ err' = Flag
  /\ pc' = "ended"
  /\ UNCHANGED <<todo, fix, mp, steer, road, looked, passed>>

CarTrackPeeks ==
  /\ Look("track")
  /\ AtSpecial
  /\ pc' = "peek" /\ err' = TRUE /\ mp' = disc
  /\ x' = x + Peek /\ disc' = Peek
  /\ UNCHANGED <<todo, fix, steer, at, width, slant, leg, looked, passed>>

CarTrackStarts ==
  /\ Look("track")
  /\ disc < Near /\ Special /\ ~Flag
  /\ err' = FALSE
  /\ pc' = "off" /\ steer' = 0
  /\ UNCHANGED <<todo, fix, mp, road, looked, passed>>

CarTrackAdjusts ==
  /\ Look("track")
  /\ ~Special /\ err' = Flag /\ steer' = Steered
  /\ looked' = TRUE
  /\ UNCHANGED <<todo, pc, fix, mp, road, passed>>

(* A loop at here looks again and again, as long as the picture is not the *)
(* one it waits for.                                                       *)
KeepLooking(here, Waits) ==
  /\ Look(here) /\ ~Waits
  /\ looked' = TRUE
  /\ UNCHANGED <<car, road, passed>>

StartsOff ==
  /\ Look("off") /\ OnLine /\ pc' = "track"
  /\ UNCHANGED <<todo, fix, mp, err, steer, road, looked, passed>>

(* The second look at a special place: a crossing is left again by Back(), *)
(* a terrain makes the car go back and line up.                            *)
PeekCrossing ==
  /\ Look("peek") /\ ~EdgesDark
  /\ pc' = "ended" /\ x' = x - Peek
  /\ UNCHANGED <<todo, fix, mp, err, steer, at, width, slant, leg, disc, looked, passed>>

PeekTerrain ==
  /\ Look("peek") /\ EdgesDark
  /\ IF mp >= Near
     THEN pc' = "fix" /\ fix' = 0 /\ UNCHANGED err
     ELSE pc' = "track" /\ err' = FALSE /\ UNCHANGED fix
  /\ UNCHANGED <<todo, mp, steer, road, looked, passed>>

-----------------------------------------------------------------------------
(***************************************************************************)
(* FX_Correct(1, 3, 350), called by itself, on a plain leg, or from        *)
(* CarTrack(); there CarTrack_MP(500, 50) and Go(speed, GO_D_X) follow.    *)
(***************************************************************************)
Correction == <<"back", "mp", "back", "mp", "back", "mp", "back", "onto">>
Target == IF fix = 7 THEN Cells(500) ELSE Cells(350)

FX_Correct ==
  /\ Do("correct") /\ pc' = "fix" /\ fix' = 0
  /\ leg' \in {c \in Courses : c.terrain = 0}
  /\ UNCHANGED <<todo, mp, err, steer, x, at, width, slant, disc, looked, passed>>

FixDone == fix' = fix + 1 /\ pc' = "fix"

Corrected == pc = "fix" /\ fix = Len(Correction) - 1 /\ Head(todo) = "correct"

FixReturns ==
  /\ Corrected /\ pc' = "corrected"
  /\ UNCHANGED <<todo, fix, mp, err, steer, road, looked, passed>>

Over ==
  /\ pc = "fix" /\ fix = Len(Correction)
  /\ x' = x + GO_D_X /\ disc' = Far
  /\ pc' = "track" /\ err' = FALSE /\ fix' = 0
  /\ UNCHANGED <<todo, mp, steer, at, width, slant, leg, looked, passed>>

(***************************************************************************)
(* Back_Black_Line(): it starts and waits 200 ms; if its look before that  *)
(* was not at a plain line it waits for one; then for the bar.  The        *)
(* variant wants the whole of both rows dark.                              *)
(***************************************************************************)
BackStarts ==
  /\ pc = "fix" /\ fix < Len(Correction) /\ Correction[fix + 1] = "back"
  /\ pc' = IF EdgesWhite THEN "back" ELSE "backoff"
  /\ x' \in x - 2..x
  /\ looked' = FALSE /\ steer' = 0
  /\ UNCHANGED <<todo, fix, mp, err, at, width, slant, leg, disc, passed>>

BackOff ==
  /\ Look("backoff") /\ OnLine /\ pc' = "back"
  /\ UNCHANGED <<todo, fix, mp, err, steer, road, looked, passed>>

AtFullBar == Front = 0..6 /\ Rear = Sensors
AtBar == EdgesDark

BackEnds ==
  /\ Look("back") /\ AtBar /\ FixDone
  /\ UNCHANGED <<todo, mp, err, steer, road, looked, passed>>

(***************************************************************************)
(* CarTrack_MP(): straight on until the ends of both rows are white; then  *)
(* the disc is cleared and the line followed over a distance.              *)
(***************************************************************************)
MPStarts ==
  /\ pc = "fix" /\ fix < Len(Correction) /\ Correction[fix + 1] \in {"mp", "onto"}
  /\ ~Corrected
  /\ pc' = "mpoff" /\ looked' = FALSE /\ steer' = 0
  /\ UNCHANGED <<todo, fix, mp, err, road, passed>>

MPOff ==
  /\ Look("mpoff") /\ EdgesWhite /\ pc' = "mp" /\ disc' = 0
  /\ UNCHANGED <<todo, fix, mp, err, steer, x, at, width, slant, leg, looked, passed>>

MPArrives ==
  /\ Look("mp") /\ disc >= Target /\ FixDone
  /\ UNCHANGED <<todo, mp, err, steer, road, looked, passed>>

MPAdjusts ==
  /\ Look("mp") /\ disc < Target
  /\ steer' = Steered
  /\ looked' = TRUE
  /\ UNCHANGED <<todo, pc, fix, mp, err, road, passed>>

-----------------------------------------------------------------------------
(***************************************************************************)
(* TurnLeft() and TurnRight(): until the line has gone, or all but gone,   *)
(* then until the next one is in the middle.  The variant does without the *)
(* first wait.                                                             *)
(***************************************************************************)
TurnFrom(side, place) ==
  /\ Do(side) /\ pc' = place
  /\ steer' = IF side = "left" THEN -1 ELSE 1
  /\ looked' = FALSE /\ passed' = 0 /\ disc' = 0
  /\ UNCHANGED <<todo, fix, mp, err, x, at, width, slant, leg>>

TurnAtOnce == \E side \in {"left", "right"} : TurnFrom(side, "turn")
Turn == \E side \in {"left", "right"} : TurnFrom(side, "turnoff")

Gone == Rear = {} \/ Rear = {IF steer = -1 THEN 0 ELSE 7}
InMiddle == (IF steer = -1 THEN 4 ELSE 3) \in Rear

LineGone ==
  /\ Look("turnoff") /\ Gone /\ pc' = "turn"
  /\ UNCHANGED <<todo, fix, mp, err, steer, road, looked, passed>>

TurnEnds ==
  /\ Look("turn") /\ InMiddle /\ pc' = "turned"
  /\ UNCHANGED <<todo, fix, mp, err, steer, road, looked, passed>>

(* The calls of ZH_XJ() return.  The crossing reached is now the one behind. *)
Return ==
  /\ pc \in {"ended", "turned", "corrected"}
  /\ pc' = "next" /\ todo' = Tail(todo)
  /\ x' = IF pc = "ended" THEN x - Len(leg.cells) ELSE x
  /\ fix' = 0 /\ mp' = 0 /\ err' = FALSE /\ steer' = 0
  /\ looked' = FALSE /\ disc' = 0 /\ passed' = 0
  /\ UNCHANGED <<at, width, slant, leg>>

-----------------------------------------------------------------------------
(***************************************************************************)
(* The car moves, between two looks: ahead or back by at most a cell, and  *)
(* sideways where the wheels take the line; a line that is followed may    *)
(* bend.  In a turn one line goes out of sight at one end, and the next    *)
(* comes from the other.                                                   *)
(***************************************************************************)
Back == pc \in {"backoff", "back"}
Followed == pc \in {"track", "mp"} /\ Cell(x) = "line" /\ Cell(x + 1) = "line"

Roll ==
  /\ looked /\ looked' = FALSE
  /\ pc \notin {"turnoff", "turn"}
  /\ x' \in {x, IF Back THEN x - 1 ELSE x + 1}
  /\ x' \in -6..Len(leg.cells) + 6
  /\ disc' = IF x' > x /\ disc < Far THEN disc + 1 ELSE disc
  /\ at' \in {Within(Within(at + steer) + b) : b \in IF Followed THEN -1..1 ELSE {0}}
  /\ UNCHANGED <<car, width, slant, leg, passed>>

Spin ==
  /\ looked /\ looked' = FALSE
  /\ pc \in {"turnoff", "turn"}
  /\ \/ at' = at /\ passed' = passed
     \/ at + steer = Within(at + steer) /\ at' = at + steer /\ passed' = passed
     \/ at + steer # Within(at + steer) /\ at' = Within(Edge - at) /\ passed' = passed + 1
  /\ UNCHANGED <<car, x, width, slant, leg, disc>>

Code ==
  \/ ZH_XJ \/ StepAhead \/ CarTrack
  \/ CarTrackStops \/ CarTrackPeeks \/ CarTrackStarts \/ CarTrackAdjusts
  \/ KeepLooking("off", OnLine) \/ StartsOff
  \/ PeekCrossing \/ PeekTerrain \/ Over \/ FX_Correct \/ FixReturns
  \/ BackStarts \/ KeepLooking("backoff", OnLine) \/ BackOff
  \/ KeepLooking("back", AtBar) \/ BackEnds
  \/ MPStarts \/ KeepLooking("mpoff", EdgesWhite) \/ MPOff \/ MPArrives \/ MPAdjusts
  \/ Turn \/ KeepLooking("turnoff", Gone) \/ LineGone
  \/ KeepLooking("turn", InMiddle) \/ TurnEnds \/ Return

TrackNext == Code \/ Roll \/ Spin

TrackSpec == TrackInit /\ [][TrackNext]_trackVars

(* The code goes on, and turning wheels move the car sooner or later. *)
Moves == (Roll /\ x' # x) \/ (Spin /\ at' # at)

FairTrackSpec == TrackSpec /\ WF_trackVars(Code) /\ SF_trackVars(Moves)

-----------------------------------------------------------------------------
(* Type invariant of the drive; the car never backs over the crossing      *)
(* behind it, and never drives past the one ahead.                         *)
TrackTypeOK ==
  /\ todo \in Seq({"track", "go", "left", "right", "correct"}) /\ Len(todo) <= 5
  /\ pc \in {"next", "track", "off", "peek", "fix", "back", "backoff", "mpoff", "mp",
             "turnoff", "turn", "turned", "ended", "corrected"}
  /\ fix \in 0..Len(Correction)
  /\ x \in -3..Len(leg.cells) + 1
  /\ at \in -Sight..Edge + Sight /\ leg \in Courses
  /\ width \in Widths /\ slant \in {"none", "left", "right"}
  /\ disc \in 0..Far /\ mp \in 0..Far
  /\ err \in BOOLEAN /\ steer \in -1..1 /\ looked \in BOOLEAN
  /\ passed \in 0..2

(* The line stays in sight of the rear row except while the car turns,     *)
(* through bends of any number, and never at its outermost sensors, whose  *)
(* pictures CarTrack() takes for a crossing.                               *)
NeverLost == pc \notin {"turnoff", "turn"} => Line # {} /\ {0, 7} \cap Line = {}

(* CarTrack() ends at the bar of the next crossing: not at a terrain, not  *)
(* on a card, not at the crossing where it started, and not beyond; and    *)
(* FX_Correct() ends at the bar behind, with both rows of sensors on it.   *)
EndsAtCrossing ==
  /\ pc = "ended" => x \in Len(leg.cells) - 3..Len(leg.cells) - 2
  /\ pc = "corrected" => x \in -2..-1

(* A turn ends at the line next to the one the car stood on. *)
TurnsToNextLine == pc = "turned" => passed = 1

(* Every call returns, and all that ZH_XJ() is asked to do gets done. *)
TrackReturns == (pc # "next") ~> (pc = "next")
=============================================================================
