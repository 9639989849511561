------------------------------- MODULE Motion -------------------------------
(***************************************************************************)
(* Go() and Back() over a distance (DCMotor/DCMotor.cpp).                  *)
(*                                                                         *)
(* The FPGA counts the pulses of the wheels in a 16-bit code disc that the *)
(* processor can only read a byte at a time.  Both moves first have the    *)
(* disc cleared: ClearCodeDisc() writes the clear command to the mailbox   *)
(* and reads the disc whenever DCMotorMetro says a tick is due, and is     *)
(* repeated until it has read zero.  Then the wheels start and the disc is *)
(* polled until the distance is covered.                                   *)
(*                                                                         *)
(* The FPGA and the wheels are not in the repository: the FPGA carries out *)
(* a clear command some time after it was written.  Moving wheels make at  *)
(* most one pulse between two steps of the processor, which are bus        *)
(* accesses, but up to Lag pulses while it waits ten milliseconds before   *)
(* the next poll, and while Back() prints what it has read.                *)
(***************************************************************************)
EXTENDS Integers

CONSTANTS
  Base,       \* values of a byte of the disc (256)
  Margin,     \* distances and readings this near the wrap are refused (20)
  Arm,        \* Back() waits until the disc reads above W - Arm (6)
  Checks,     \* looks at the timer in one ClearCodeDisc() (5)
  Lag,        \* pulses at most in a delay(10) or a line printed
  Distances   \* the distances the callers ask for

W == Base * Base

ASSUME MotionAssumption == /\ Base \in Nat /\ Base >= 4
                           /\ Margin \in Nat
                           /\ Arm \in 4..Margin
                           /\ 2 * Margin < W
                           /\ Checks \in Nat \ {0}
                           /\ Lag \in Nat \ {0} /\ 2 * Lag + 2 < Base
                           /\ Distances \subseteq 0..(W - 1)

VARIABLES
  pc,       \* "idle", "command", "check", "first", "second", "decide" or "wait"
  op,       \* the move under way: "go" or "back"
  dist,     \* the distance asked for
  why,      \* what the disc is read for: "clear", "arm", "poll" or "last"
  tries,    \* looks at the timer left in this ClearCodeDisc()
  due,      \* ticks of DCMotorMetro that are due, up to Checks
  half,     \* the byte read first: is it the high one, and its value
  reading,  \* the last value put together from two bytes
  pending,  \* a clear command lies in the mailbox
  disc,     \* the code disc
  wheels,   \* 1 forward, -1 backward, 0 locked
  moved,    \* pulses since the last step of the processor
  travel,   \* history: pulses since the wheels started
  cleared,  \* history: travel when the disc was cleared last
  gaveUp    \* history: the move ended on its timeout

processor == <<pc, op, dist, why, tries, half, reading, gaveUp>>
motionVars == <<processor, due, pending, disc, wheels, moved, travel, cleared>>

MotionInit ==
  /\ pc = "idle" /\ op = "go" /\ dist = 0 /\ why = "last"
  /\ tries = 0 /\ due = 0
  /\ half = [high |-> FALSE, val |-> 0] /\ reading = 0
  /\ pending = FALSE /\ disc \in {0, Base + 1, W - 1}
  /\ wheels = 0 /\ moved = 0
  /\ travel = 0 /\ cleared = 0 /\ gaveUp = FALSE

(***************************************************************************)
(* The distances Go() ever compares the disc with, and the readings Back() *)
(* ever compares with the distance.                                        *)
(***************************************************************************)
InRange(d) == Margin < d /\ d < W - Margin

-----------------------------------------------------------------------------
(* Go(speed, d) or Back(speed, d) is called. *)
Begin(o, d) ==
  /\ pc = "idle"
  /\ pc' = "command"
  /\ op' = o /\ dist' = d /\ gaveUp' = FALSE
  /\ UNCHANGED <<why, tries, due, half, reading, pending, disc, wheels, moved,
                 travel, cleared>>

(* ClearCodeDisc() writes the clear command and sets the interval; the     *)
(* timer itself is not reset.  The variant before it forgets to send.      *)
WriteClearForgets ==
  /\ pc = "command"
  /\ pc' = "check" /\ tries' = Checks
  /\ moved' = 0
  /\ UNCHANGED <<op, dist, why, due, half, reading, gaveUp, pending, disc, wheels,
                 travel, cleared>>

WriteClear ==
  /\ pc = "command"
  /\ pc' = "check" /\ tries' = Checks
  /\ pending' = TRUE
  /\ moved' = 0
  /\ UNCHANGED <<op, dist, why, due, half, reading, gaveUp, disc, wheels, travel,
                 cleared>>

(* One look at the timer: when a tick is due the disc is read; after the   *)
(* last look in vain ClearCodeDisc() returns true and is called again.     *)
(* The variant before it looks on without end.                             *)
LookForever == pc' = "check"
LookAgain == IF tries = 1 THEN pc' = "command" ELSE pc' = "check"

CheckDue ==
  /\ pc = "check" /\ due > 0
  /\ pc' = "first" /\ why' = "clear"
  /\ due' = due - 1
  /\ moved' = 0
  /\ UNCHANGED <<op, dist, tries, half, reading, gaveUp, pending, disc, wheels,
                 travel, cleared>>

CheckNotDue ==
  /\ pc = "check" /\ due = 0
  /\ LookAgain /\ tries' = tries - 1
  /\ moved' = 0
  /\ UNCHANGED <<op, dist, why, due, half, reading, gaveUp, pending, disc, wheels,
                 travel, cleared>>

(***************************************************************************)
(* Get_Distance() reads the two bytes one after the other; which one comes *)
(* first is left to the compiler by the + between the two calls.           *)
(***************************************************************************)
ReadFirst ==
  /\ pc = "first"
  /\ pc' = "second"
  /\ \E h \in BOOLEAN :
       half' = [high |-> h, val |-> IF h THEN disc \div Base ELSE disc % Base]
  /\ moved' = 0
  /\ UNCHANGED <<op, dist, why, tries, due, reading, gaveUp, pending, disc, wheels,
                 travel, cleared>>

Second ==
  IF half.high THEN half.val * Base + (disc % Base)
  ELSE (disc \div Base) * Base + half.val

ReadSecond(w) ==
  /\ pc = "second" /\ why = w
  /\ reading' = Second /\ half' = [high |-> FALSE, val |-> 0]
  /\ moved' = 0
  /\ UNCHANGED <<op, dist, due, pending, disc>>

(* In ClearCodeDisc(): on zero the wheels start, Go() polls and Back()     *)
(* first waits for the disc to fall below zero.  The variant StartAnyway   *)
(* of StartIfZero takes any reading for a cleared disc.                    *)
StartAnyway ==
  /\ pc' = "first"
  /\ why' = IF op = "go" THEN "poll" ELSE "arm"
  /\ wheels' = IF op = "go" THEN 1 ELSE -1
  /\ travel' = 0 /\ cleared' = 0 /\ tries' = 0
  /\ UNCHANGED gaveUp

StartIfZero ==
  \/ reading' = 0 /\ StartAnyway
  \/ /\ reading' # 0
     /\ LookAgain /\ tries' = tries - 1
     /\ UNCHANGED <<why, wheels, travel, cleared, gaveUp>>

ReadToClear == ReadSecond("clear") /\ StartIfZero

(* while (Get_Distance() <= 65530); *)
ReadToArm ==
  /\ ReadSecond("arm")
  /\ why' = IF reading' <= W - Arm THEN "arm" ELSE "poll"
  /\ pc' = "first"
  /\ UNCHANGED <<tries, wheels, travel, cleared, gaveUp>>

(***************************************************************************)
(* The poll.  Only when the distance (Go) or the reading (Back) is away    *)
(* from the wrap are the distance and the 30-second timeout looked at.     *)
(* Back() prints the reading first.  The variant before Arrived stops on   *)
(* the exact distance only.                                                *)
(***************************************************************************)
ArrivedExactly(r) ==
  \/ op = "go" /\ InRange(dist) /\ r = dist
  \/ op = "back" /\ InRange(r) /\ W - r = dist

Arrived(r) ==
  \/ op = "go" /\ InRange(dist) /\ r >= dist
  \/ op = "back" /\ InRange(r) /\ W - r >= dist

MayGiveUp(r) == InRange(IF op = "go" THEN dist ELSE r)

ReadToPoll ==
  /\ ReadSecond("poll")
  /\ pc' = "decide"
  /\ UNCHANGED <<why, tries, wheels, travel, cleared, gaveUp>>

DecideToStop ==
  /\ pc = "decide"
  /\ Arrived(reading) \/ MayGiveUp(reading)
  /\ gaveUp' = ~Arrived(reading)
  /\ wheels' = 0
  /\ pc' = "first" /\ why' = "last"
  /\ moved' = 0
  /\ UNCHANGED <<op, dist, tries, due, half, reading, pending, disc, travel, cleared>>

(* Not there yet: delay(10), and another poll. *)
DecideToWait ==
  /\ pc = "decide"
  /\ ~Arrived(reading)
  /\ pc' = "wait"
  /\ moved' = 0
  /\ UNCHANGED <<op, dist, why, tries, due, half, reading, gaveUp, pending, disc,
                 wheels, travel, cleared>>

DelayOver ==
  /\ pc = "wait"
  /\ pc' = "first"
  /\ moved' = 0
  /\ UNCHANGED <<op, dist, why, tries, due, half, reading, gaveUp, pending, disc,
                 wheels, travel, cleared>>

(* The disc is read once more after the stop, and returned. *)
ReadToReturnSkips ==
  /\ pc = "first" /\ why = "last"
  /\ pc' = "idle"
  /\ UNCHANGED <<op, dist, why, tries, due, half, reading, gaveUp, pending, disc,
                 wheels, moved, travel, cleared>>

ReadToReturn ==
  /\ ReadSecond("last")
  /\ pc' = "idle"
  /\ UNCHANGED <<why, tries, wheels, travel, cleared, gaveUp>>

-----------------------------------------------------------------------------
(* The FPGA carries out the clear command. *)
ClearDisc ==
  /\ pending
  /\ pending' = FALSE
  /\ disc' = 0
  /\ cleared' = travel
  /\ UNCHANGED <<processor, due, wheels, moved, travel>>

(* The pulses that fit in what the processor is doing: Printing those      *)
(* between a reading and what comes of it.                                 *)
Printing == IF op = "back" THEN Lag ELSE 1

Room == IF pc = "wait" THEN Lag ELSE IF pc = "decide" THEN Printing ELSE 1

(* A pulse of the code disc. *)
Pulse ==
  /\ wheels # 0 /\ moved < Room
  /\ disc' = (disc + wheels) % W
  /\ moved' = moved + 1
  /\ travel' = travel + 1
  /\ UNCHANGED <<processor, due, pending, wheels, cleared>>

(* Another 20 milliseconds are over. *)
Tick ==
  /\ due < Checks /\ due' = due + 1
  /\ UNCHANGED <<processor, pending, disc, wheels, moved, travel, cleared>>

Step ==
  \/ WriteClear
  \/ CheckDue
  \/ CheckNotDue
  \/ ReadFirst
  \/ ReadToClear
  \/ ReadToArm
  \/ ReadToPoll
  \/ DecideToStop
  \/ DecideToWait
  \/ DelayOver
  \/ ReadToReturn

MotionNext ==
  \/ \E o \in {"go", "back"}, d \in Distances : Begin(o, d)
  \/ Step
  \/ ClearDisc
  \/ Pulse
  \/ Tick

MotionSpec == MotionInit /\ [][MotionNext]_motionVars

(***************************************************************************)
(* The processor runs, time passes, the FPGA gets to its command, and      *)
(* wheels under power turn.                                                *)
(***************************************************************************)
FairMotionSpec ==
  /\ MotionSpec
  /\ WF_motionVars(Step)
  /\ WF_motionVars(ClearDisc)
  /\ WF_motionVars(Pulse)
  /\ WF_motionVars(Tick)

-----------------------------------------------------------------------------
(* Type invariant of the moves. *)
MotionTypeOK ==
  /\ pc \in {"idle", "command", "check", "first", "second", "decide", "wait"}
  /\ op \in {"go", "back"} /\ dist \in Distances \cup {0}
  /\ why \in {"clear", "arm", "poll", "last"}
  /\ tries \in 0..Checks /\ due \in 0..Checks
  /\ half \in [high : BOOLEAN, val : 0..(Base - 1)] /\ reading \in 0..(W - 1)
  /\ disc \in 0..(W - 1) /\ wheels \in {-1, 0, 1}
  /\ travel \in Nat /\ cleared \in 0..travel /\ moved \in 0..Lag
  /\ {pending, gaveUp} \subseteq BOOLEAN

Stopped == pc \in {"first", "second"} /\ why = "last" /\ ~gaveUp

(* From one poll's second byte to the next one's; a move runs on for at    *)
(* most two of them until it stops.  A distance this far from the wrap     *)
(* cannot be overrun unnoticed.                                            *)
Round == Printing + Lag + 2
Slack == 2 * Round + Printing
Polled == InRange(dist) /\ InRange(dist + Slack)

(* A move that was not given up is never short by a whole high byte: a     *)
(* reading torn between the two bytes adds at most the low byte's range.   *)
(* Back() rests on the disc not being cleared under way: zero and W - 1    *)
(* torn into one reading are a reading it takes for a long way.            *)
NeverFarShort ==
  Stopped /\ Polled /\ (op = "back" => cleared = 0) => travel >= dist - (Base - 1)

(* A move runs past its distance by what it had travelled when a clear     *)
(* command came late, and by the pulses of two polls with their waits and  *)
(* of what is printed before the stop, no more: after a poll that was torn *)
(* the next one is not.                                                    *)
OvershootBound ==
  Stopped /\ Polled => travel <= dist + cleared + Slack

(* What Go() and Back() return is the distance travelled, unless the disc  *)
(* was cleared under way.                                                  *)
HonestReturn ==
  pc = "idle" /\ Polled /\ cleared = 0 =>
    travel = IF op = "go" THEN reading ELSE (W - reading) % W

(* A move over a distance away from the wrap comes to its end, with no     *)
(* help from the timeout.                                                  *)
MoveEnds == (pc = "command" /\ InRange(dist)) ~> pc = "idle"
=============================================================================
