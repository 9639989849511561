------------------------------- MODULE TaskOut -------------------------------
(***************************************************************************)
(* The command loop of the second car (Task_Out(), Analyze_Handle() and    *)
(* Clear_ZigBee_Data() of Drive/Drive.cpp) with the car that commands it.  *)
(*                                                                         *)
(* The FPGA puts what the radio receives into the inbox at 0x6100 and      *)
(* leaves it alone while its flag is up, so a message is read whole and    *)
(* the inbox is modelled as one cell.  Task_Out(), called again and again  *)
(* by the sketch, copies a message, takes the flag down, and for a valid   *)
(* command reports "busy" Repeats times, runs the task, reports "done"     *)
(* Repeats times and wipes the inbox.  Reports carry no command number.    *)
(*                                                                         *)
(* The main car is not in the repository.  It is taken to repeat a command *)
(* until it hears "busy" and to send the next one when it has heard        *)
(* "done"; each report may be lost on the way.                             *)
(***************************************************************************)
EXTENDS Integers

CONSTANTS
  K,        \* the main car has commands 1..K to give
  F,        \* a road is sent in the frames 1..F (0x86 to 0x92)
  Repeats   \* how often a report is repeated (6)

ASSUME TaskAssumption == /\ K \in Nat \ {0}
                         /\ F \in Nat \ {0, 1}
                         /\ Repeats \in Nat \ {0}

Message(kind, no) == [kind |-> kind, no |-> no]

Empty == Message("none", 0)
Junk == Message("junk", 0)   \* wrong or zero check byte, or unknown
Commands == {Message("command", n) : n \in 1..K}
Frames == {Message("frame", n) : n \in 1..F}

VARIABLES
  inbox,   \* the message at 0x6100 with its flag up, or Empty
  pc,      \* where Task_Out() is
  msg,     \* zigbee_data
  j,       \* reports still to be sent
  roads,   \* the frames stored in roadWay
  beep,    \* the buzzer
  report,  \* the report at 0x6080: "busy", "done" or "none"
  k,       \* the main car's command
  phase,   \* the main car repeats it ("send") or waits for its end ("wait")
  ran,     \* history: how often each command was run, up to 2
  deaf,    \* history: commands run before the main car had heard "busy"
  crossed  \* history: it came while the flag of another was being read back

car == <<pc, msg, j, roads, beep, ran, deaf>>
main == <<k, phase>>
taskVars == <<inbox, car, report, main, crossed>>

TaskInit ==
  /\ inbox = Empty /\ pc = "loop" /\ msg = Empty /\ j = 0
  /\ roads = {} /\ beep = FALSE
  /\ report = "none"
  /\ k = 1 /\ phase = "send"
  /\ ran = [n \in 1..K |-> 0] /\ deaf = {}
  /\ crossed = FALSE

Goto(p) == pc' = p

-----------------------------------------------------------------------------
(* Task_Out() finds the flag up.  ExMem_Read_Bytes() copies the message.   *)
Read ==
  /\ pc = "loop" /\ inbox # Empty
  /\ msg' = inbox
  /\ Goto("unflag")
  /\ UNCHANGED <<inbox, j, roads, beep, report, main, ran, deaf, crossed>>

(* ExMem_JudgeWrite() takes the flag down, at the end of the read and for  *)
(* the last byte of the wipe, and reads it back: a message that came in    *)
(* between makes it write again, until a second is over and the message    *)
(* stays.  The variant before Unflag leaves the flag up.                   *)
TakeDown(here, next) ==
  /\ pc = here
  /\ inbox' = Empty
  /\ Goto(next)
  /\ UNCHANGED <<msg, j, roads, beep, report, main, ran, deaf, crossed>>

Again(here, back) ==
  /\ pc = here /\ inbox # Empty
  /\ Goto(back)
  /\ UNCHANGED <<inbox, msg, j, roads, beep, report, main, ran, deaf, crossed>>

Leave(here, next) ==
  /\ pc = here
  /\ Goto(next)
  /\ UNCHANGED <<inbox, msg, j, roads, beep, report, main, ran, deaf, crossed>>

UnflagNot == Leave("unflag", "judge")
Unflag == TakeDown("unflag", "judge")
UnflagAgain == Again("judge", "unflag")

Unflagged ==
  /\ pc = "judge"
  /\ crossed' = FALSE
  /\ Goto("sort")
  /\ UNCHANGED <<inbox, msg, j, roads, beep, report, main, ran, deaf>>

(* A frame of the road goes into roadWay whatever its check byte; the      *)
(* first one turns the buzzer on, the last one off.                        *)
Store ==
  /\ pc = "sort" /\ msg \in Frames
  /\ roads' = roads \cup {msg.no}
  /\ beep' = IF msg.no = 1 THEN TRUE ELSE IF msg.no = F THEN FALSE ELSE beep
  /\ Goto("loop")
  /\ UNCHANGED <<inbox, msg, j, report, main, ran, deaf, crossed>>

(* Anything else is passed over.  The variant before it wipes the inbox as *)
(* after a command.                                                        *)
IgnoreAndClear ==
  /\ pc = "sort" /\ msg = Junk
  /\ Goto("wait")
  /\ UNCHANGED <<inbox, msg, j, roads, beep, report, main, ran, deaf, crossed>>

Ignore ==
  /\ pc = "sort" /\ msg = Junk
  /\ Goto("loop")
  /\ UNCHANGED <<inbox, msg, j, roads, beep, report, main, ran, deaf, crossed>>

AcceptTwice ==
  /\ pc = "sort" /\ msg \in Commands
  /\ j' = 2 * Repeats + 1
  /\ Goto("busy")
  /\ UNCHANGED <<inbox, msg, roads, beep, report, main, ran, deaf, crossed>>

Accept ==
  /\ pc = "sort" /\ msg \in Commands
  /\ j' = Repeats
  /\ Goto("busy")
  /\ UNCHANGED <<inbox, msg, roads, beep, report, main, ran, deaf, crossed>>

(* One report of a series; the last one is followed by pc = next. *)
Tell(what, next) ==
  /\ pc = what
  /\ report' = what
  /\ j' = IF j = 1 THEN Repeats ELSE j - 1
  /\ Goto(IF j = 1 THEN next ELSE what)
  /\ UNCHANGED <<inbox, msg, roads, beep, main, ran, deaf, crossed>>

TellBusyThenDone == Tell("busy", "done")
TellBusy == Tell("busy", "run")
TellDoneNoClear == Tell("done", "loop")
TellDone == Tell("done", "wait")

(* Analyze_Handle(): the task; QR recognition (case 2) leaves the buzzer   *)
(* on, route 1 of Auto_Drive() leaves it off, and the routes 1 and 2 end   *)
(* with a series of "done" of their own (Task_END_Data_Send()).  No task   *)
(* reads the inbox.                                                        *)
Analyze_Handle ==
  /\ pc = "run"
  /\ ran' = [ran EXCEPT ![msg.no] = IF @ = 2 THEN 2 ELSE @ + 1]
  /\ deaf' = IF phase = "send" THEN deaf \cup {msg.no} ELSE deaf
  /\ beep' \in BOOLEAN
  /\ j' \in {Repeats, 2 * Repeats}
  /\ Goto("done")
  /\ UNCHANGED <<inbox, msg, roads, report, main, crossed>>

(* Clear_ZigBee_Data(): ExMem_Write_Bytes() waits until the flag is down   *)
(* or a second is over, and then writes zeros whatever has come.           *)
ClearWait == Leave("wait", "wipe")
Wipe == TakeDown("wipe", "rejudge")
WipeAgain == Again("rejudge", "wipe")
Wiped == Leave("rejudge", "loop")

-----------------------------------------------------------------------------
(* The FPGA posts what the main car sends, or noise. *)
Post(m) ==
  /\ inbox = Empty
  /\ inbox' = m
  /\ crossed' = (pc = "judge")
  /\ UNCHANGED <<car, report, main>>

Transmit == k <= K /\ phase = "send" /\ Post(Message("command", k))
SendFrame == \E f \in Frames : Post(f)
Noise == Post(Junk)

(* The report leaves 0x6080, and the main car hears it or not. *)
Lose == report # "none" /\ report' = "none" /\ UNCHANGED <<inbox, car, main, crossed>>

HearBusy ==
  /\ report = "busy" /\ phase = "send" /\ k <= K
  /\ report' = "none" /\ phase' = "wait"
  /\ UNCHANGED <<inbox, car, k, crossed>>

HearDone ==
  /\ report = "done" /\ phase = "wait"
  /\ report' = "none" /\ phase' = "send" /\ k' = k + 1
  /\ UNCHANGED <<inbox, car, crossed>>

Task_Out ==
  \/ Read \/ Unflag \/ UnflagAgain \/ Unflagged
  \/ Store \/ Ignore \/ Accept
  \/ TellBusy \/ Analyze_Handle \/ TellDone
  \/ ClearWait \/ Wipe \/ WipeAgain \/ Wiped

TaskNext ==
  \/ Task_Out
  \/ Transmit \/ SendFrame \/ Noise
  \/ Lose \/ HearBusy \/ HearDone

TaskSpec == TaskInit /\ [][TaskNext]_taskVars

(***************************************************************************)
(* The second car goes on and a second always ends.  Frames and noise are  *)
(* over some time; a command repeated for ever gets into the inbox and a   *)
(* report repeated for ever is heard.                                      *)
(***************************************************************************)
FairTaskSpec ==
  /\ TaskSpec
  /\ WF_taskVars(Task_Out)
  /\ SF_taskVars(Unflagged)
  /\ SF_taskVars(Wiped)
  /\ SF_taskVars(Transmit)
  /\ SF_taskVars(HearBusy)
  /\ SF_taskVars(HearDone)
  /\ <>[][~SendFrame /\ ~Noise]_taskVars

-----------------------------------------------------------------------------
(* Type invariant of the command loop. *)
TaskTypeOK ==
  /\ {inbox, msg} \subseteq Commands \cup Frames \cup {Empty, Junk}
  /\ pc \in {"loop", "unflag", "judge", "sort", "busy", "run", "done", "wait",
             "wipe", "rejudge"}
  /\ j \in 0..(2 * Repeats)
  /\ roads \subseteq 1..F
  /\ beep \in BOOLEAN /\ crossed \in BOOLEAN
  /\ report \in {"none", "busy", "done"}
  /\ k \in 1..(K + 1) /\ phase \in {"send", "wait"}
  /\ ran \in [1..K -> 0..2] /\ deaf \subseteq 1..K

(* A command is run a second time only if the main car had not heard       *)
(* "busy" when the task began: the copies it sent before are wiped.        *)
OncePerCommand == \A n \in 1..K : ran[n] > 1 => n \in deaf

(* The main car gives its next command only when the one before was run,   *)
(* although reports do not say which command they are about.               *)
DoneMeansRun == \A n \in 1..K : n < k => ran[n] > 0

(* A message is taken down unread in two places only: when it came between *)
(* the taking down of another one's flag and the reading back of it, and   *)
(* in the wipe at the end of a command.  All others are read, those too    *)
(* that come while a message is looked at or that outlive the reading      *)
(* back.                                                                   *)
UnreadLosses ==
  [][inbox # Empty /\ inbox' = Empty =>
       \/ msg = inbox
       \/ pc = "unflag" /\ crossed
       \/ pc = "wipe" /\ msg \in Commands]_taskVars

(* Every command is run and reported in the end, through losses both ways, *)
(* unless all the reports of one task's end were lost: then the main car   *)
(* waits and the second car has nothing more to say.                       *)
AllLost == phase = "wait" /\ pc = "loop" /\ report = "none"

AllDone == <>(k = K + 1 \/ AllLost)
=============================================================================
