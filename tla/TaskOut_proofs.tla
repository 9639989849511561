---------------------------- MODULE TaskOut_proofs ----------------------------
(***************************************************************************)
(* Proofs about the command loop, for any number of commands, frames and   *)
(* repeated reports, and for every loss of reports and messages.           *)
(***************************************************************************)
EXTENDS TaskOut, TLAPS

(***************************************************************************)
(* The inductive invariant.                                                *)
(***************************************************************************)
(* Outside a task a command in the inbox is the one being sent, and no     *)
(* command is there while the main car waits.                              *)
Resting == {"rejudge", "loop", "unflag", "judge", "sort"}

InboxIsCurrent ==
  pc \in Resting /\ inbox \in Commands => phase = "send" /\ inbox.no = k

(* So is the one being read, and the one whose task begins or is reported. *)
ReadIsCurrent ==
  pc \in {"unflag", "judge", "sort"} /\ msg \in Commands =>
    phase = "send" /\ msg.no = k

TaskIsCurrent ==
  /\ pc \in {"busy", "run", "done"} => msg \in Commands
  /\ pc \in {"busy", "run"} => msg.no = k
  /\ pc = "done" /\ (report = "busy" \/ phase = "wait") => msg.no = k

(* What a report in the mailbox says of the task.                          *)
ReportsAreTrue ==
  /\ report = "busy" => pc \in {"busy", "run", "done"}
  /\ phase = "wait" /\ pc \in {"busy", "run"} => report # "done"
  /\ pc = "done" => ran[msg.no] > 0
  /\ phase = "wait" => k <= K
  /\ phase = "wait" /\ report = "done" => ran[k] > 0

(* A command that is being sent was not run, or was run unheard.           *)
NotRunYet ==
  /\ k <= K /\ phase = "send" => ran[k] = 0 \/ k \in deaf
  /\ k <= K /\ phase = "wait" /\ pc \in {"busy", "run"} => ran[k] = 0 \/ k \in deaf
  /\ \A n \in 1..K : n > k => ran[n] = 0

(* What lies in the inbox when its flag is taken down, or read back.       *)
ReadOrCrossed ==
  /\ pc = "unflag" => inbox # Empty /\ (msg = inbox \/ crossed)
  /\ pc = "judge" /\ inbox # Empty => crossed
  /\ pc \in {"wait", "wipe", "rejudge"} => msg \in Commands

Counts == pc \in {"busy", "done"} => j \in 1..(2 * Repeats)

TaskInv ==
  /\ TaskTypeOK /\ Counts
  /\ InboxIsCurrent /\ ReadIsCurrent /\ TaskIsCurrent
  /\ ReportsAreTrue /\ NotRunYet /\ ReadOrCrossed
  /\ DoneMeansRun /\ OncePerCommand

LEMMA MessageFacts ==
  /\ \A m \in Commands : m.no \in 1..K /\ m # Empty /\ m # Junk /\ m \notin Frames
  /\ \A n \in 1..K : Message("command", n) \in Commands /\ Message("command", n).no = n
  /\ Empty \notin Commands /\ Junk \notin Commands /\ Junk # Empty
  /\ \A f \in Frames : f \notin Commands /\ f # Empty /\ f.no \in 1..F
<1>1. /\ \A n : Message("command", n).no = n /\ Message("command", n).kind = "command"
      /\ \A n : Message("frame", n).no = n /\ Message("frame", n).kind = "frame"
      /\ Empty.kind = "none" /\ Junk.kind = "junk"
  BY DEF Message, Empty, Junk
<1>2. \A m \in Commands : m.no \in 1..K /\ m.kind = "command"
  BY <1>1 DEF Commands
<1>3. \A f \in Frames : f.no \in 1..F /\ f.kind = "frame"
  BY <1>1 DEF Frames
<1>4. \A n \in 1..K : Message("command", n) \in Commands
  BY DEF Commands
<1>. QED  BY <1>1, <1>2, <1>3, <1>4

LEMMA TaskInitInv == TaskInit => TaskInv
<1>. SUFFICES ASSUME TaskInit PROVE TaskInv
  OBVIOUS
<1>1. TaskTypeOK /\ Counts
  <2>1. ran \in [1..K -> 0..2]
    BY DEF TaskInit
  <2>2. beep \in BOOLEAN /\ crossed \in BOOLEAN
    BY DEF TaskInit
  <2>3. j \in 0..(2 * Repeats) /\ k \in 1..(K + 1)
    BY TaskAssumption DEF TaskInit
  <2>. QED  BY <2>1, <2>2, <2>3 DEF TaskInit, TaskTypeOK, Counts
<1>2. InboxIsCurrent /\ ReadIsCurrent /\ TaskIsCurrent /\ ReadOrCrossed
  BY MessageFacts DEF TaskInit, InboxIsCurrent, ReadIsCurrent, TaskIsCurrent,
     ReadOrCrossed
<1>3. ReportsAreTrue /\ NotRunYet /\ DoneMeansRun /\ OncePerCommand
  BY TaskAssumption DEF TaskInit, ReportsAreTrue, NotRunYet, DoneMeansRun,
     OncePerCommand
<1>. QED  BY <1>1, <1>2, <1>3 DEF TaskInv

(***************************************************************************)
(* The second car.                                                         *)
(***************************************************************************)
LEMMA ReadingInv ==
  ASSUME TaskInv, Read \/ Unflag \/ UnflagAgain \/ Unflagged
  PROVE  TaskInv'
<1>1. UNCHANGED <<j, roads, beep, report, k, phase, ran, deaf>>
  BY DEF Read, Unflag, UnflagAgain, Unflagged, TakeDown, Again, Leave, main
<1>2. TaskTypeOK' /\ Counts'
  BY <1>1, MessageFacts DEF Read, Unflag, UnflagAgain, Unflagged, TakeDown, Again,
     Leave, Goto, TaskInv, TaskTypeOK, Counts
<1>3. InboxIsCurrent' /\ ReadIsCurrent' /\ TaskIsCurrent'
  BY <1>1, MessageFacts DEF Read, Unflag, UnflagAgain, Unflagged, TakeDown, Again,
     Leave, Goto, TaskInv, InboxIsCurrent, ReadIsCurrent, TaskIsCurrent, Resting
<1>4. ReportsAreTrue' /\ NotRunYet' /\ ReadOrCrossed'
  BY <1>1, MessageFacts DEF Read, Unflag, UnflagAgain, Unflagged, TakeDown, Again,
     Leave, Goto, TaskInv, ReportsAreTrue, NotRunYet, ReadOrCrossed
<1>5. DoneMeansRun' /\ OncePerCommand'
  BY <1>1 DEF TaskInv, DoneMeansRun, OncePerCommand
<1>. QED  BY <1>2, <1>3, <1>4, <1>5 DEF TaskInv

LEMMA SortingInv ==
  ASSUME TaskInv, Store \/ Ignore \/ Accept
  PROVE  TaskInv'
<1>1. UNCHANGED <<inbox, msg, report, k, phase, ran, deaf, crossed>> /\ pc = "sort"
  BY DEF Store, Ignore, Accept, main
<1>2. TaskTypeOK' /\ Counts'
  <2>1. beep' \in BOOLEAN
    BY <1>1 DEF Store, Ignore, Accept, TaskInv, TaskTypeOK
  <2>2. roads' \subseteq 1..F
    BY <1>1, MessageFacts DEF Store, Ignore, Accept, TaskInv, TaskTypeOK
  <2>3. /\ j' \in 0..(2 * Repeats) /\ pc' \in {"loop", "busy"}
        /\ pc' = "busy" => j' \in 1..(2 * Repeats)
    <3>1. CASE Accept
      BY <3>1, TaskAssumption DEF Accept, Goto
    <3>2. CASE Store \/ Ignore
      <4>1. j' = j /\ pc' = "loop"
        BY <3>2 DEF Store, Ignore, Goto
      <4>. QED  BY <4>1 DEF TaskInv, TaskTypeOK
    <3>. QED  BY <3>1, <3>2
  <2>. QED  BY <1>1, <2>1, <2>2, <2>3 DEF TaskInv, TaskTypeOK, Counts
<1>3. InboxIsCurrent' /\ ReadIsCurrent' /\ TaskIsCurrent'
  BY <1>1, MessageFacts DEF Store, Ignore, Accept, Goto, TaskInv, InboxIsCurrent,
     ReadIsCurrent, TaskIsCurrent, Resting
<1>4. ReportsAreTrue' /\ NotRunYet' /\ ReadOrCrossed'
  BY <1>1, MessageFacts DEF Store, Ignore, Accept, Goto, TaskInv, ReadIsCurrent,
     ReportsAreTrue, NotRunYet, ReadOrCrossed
<1>5. DoneMeansRun' /\ OncePerCommand'
  BY <1>1 DEF TaskInv, DoneMeansRun, OncePerCommand
<1>. QED  BY <1>2, <1>3, <1>4, <1>5 DEF TaskInv

LEMMA TellingInv ==
  ASSUME TaskInv, TellBusy \/ TellDone
  PROVE  TaskInv'
<1>1. UNCHANGED <<inbox, msg, roads, beep, k, phase, ran, deaf, crossed>>
  BY DEF TellBusy, TellDone, Tell, main
<1>2. TaskTypeOK' /\ Counts'
  BY <1>1, TaskAssumption DEF TellBusy, TellDone, Tell, Goto, TaskInv, TaskTypeOK,
     Counts
<1>3. InboxIsCurrent' /\ ReadIsCurrent' /\ TaskIsCurrent'
  BY <1>1 DEF TellBusy, TellDone, Tell, Goto, TaskInv, InboxIsCurrent,
     ReadIsCurrent, TaskIsCurrent, Resting
<1>4. ReportsAreTrue' /\ NotRunYet' /\ ReadOrCrossed'
  BY <1>1 DEF TellBusy, TellDone, Tell, Goto, TaskInv, TaskTypeOK, TaskIsCurrent,
     ReportsAreTrue, NotRunYet, ReadOrCrossed
<1>5. DoneMeansRun' /\ OncePerCommand'
  BY <1>1 DEF TaskInv, DoneMeansRun, OncePerCommand
<1>. QED  BY <1>2, <1>3, <1>4, <1>5 DEF TaskInv

LEMMA HandlingInv ==
  ASSUME TaskInv, Analyze_Handle
  PROVE  TaskInv'
<1>. DEFINE c == msg.no
<1>1. /\ pc = "run" /\ pc' = "done" /\ j' \in {Repeats, 2 * Repeats}
      /\ ran' = [ran EXCEPT ![c] = IF @ = 2 THEN 2 ELSE @ + 1]
      /\ deaf' = IF phase = "send" THEN deaf \cup {c} ELSE deaf
      /\ beep' \in BOOLEAN
      /\ UNCHANGED <<inbox, msg, roads, report, k, phase, crossed>>
  BY DEF Analyze_Handle, Goto, main
<1>2. msg \in Commands /\ c = k /\ c \in 1..K /\ ran \in [1..K -> 0..2]
  BY <1>1, MessageFacts DEF TaskInv, TaskIsCurrent, TaskTypeOK
<1>3. ran'[c] > 0 /\ \A n \in 1..K : n # c => ran'[n] = ran[n]
  BY <1>1, <1>2
<1>4. ran' \in [1..K -> 0..2] /\ deaf' \subseteq 1..K
  BY <1>1, <1>2 DEF TaskInv, TaskTypeOK
<1>5. TaskTypeOK' /\ Counts'
  <2>1. beep' \in BOOLEAN
    BY <1>1 DEF TaskInv, TaskTypeOK
  <2>2. j' \in 0..(2 * Repeats) /\ j' \in 1..(2 * Repeats)
    BY <1>1, TaskAssumption
  <2>. QED  BY <1>1, <1>4, <2>1, <2>2 DEF TaskInv, TaskTypeOK, Counts
<1>6. InboxIsCurrent' /\ ReadIsCurrent' /\ TaskIsCurrent'
  BY <1>1, <1>2 DEF InboxIsCurrent, ReadIsCurrent, TaskIsCurrent, Resting
<1>7. ReportsAreTrue' /\ ReadOrCrossed'
  BY <1>1, <1>2, <1>3 DEF TaskInv, ReportsAreTrue, ReadOrCrossed
<1>8. NotRunYet'
  BY <1>1, <1>2, <1>3 DEF TaskInv, TaskTypeOK, NotRunYet
<1>9. DoneMeansRun'
  BY <1>1, <1>2, <1>3 DEF TaskInv, DoneMeansRun
<1>10. OncePerCommand'
  <2>1. c \in deaf' \/ ran[c] = 0
    BY <1>1, <1>2 DEF TaskInv, TaskTypeOK, NotRunYet
  <2>2. ran[c] = 0 => ran'[c] = 1
    BY <1>1, <1>2
  <2>3. ran'[c] > 1 => c \in deaf'
    BY <2>1, <2>2
  <2>. QED  BY <1>1, <1>2, <1>3, <2>3 DEF TaskInv, OncePerCommand
<1>. QED  BY <1>5, <1>6, <1>7, <1>8, <1>9, <1>10 DEF TaskInv

LEMMA ClearingInv ==
  ASSUME TaskInv, ClearWait \/ Wipe \/ WipeAgain \/ Wiped
  PROVE  TaskInv'
<1>1. UNCHANGED <<msg, j, roads, beep, report, k, phase, ran, deaf, crossed>>
  BY DEF ClearWait, Wipe, WipeAgain, Wiped, TakeDown, Again, Leave, main
<1>2. TaskTypeOK' /\ Counts'
  BY <1>1 DEF ClearWait, Wipe, WipeAgain, Wiped, TakeDown, Again, Leave, Goto,
     TaskInv, TaskTypeOK, Counts
<1>3. InboxIsCurrent' /\ ReadIsCurrent' /\ TaskIsCurrent'
  BY <1>1, MessageFacts DEF ClearWait, Wipe, WipeAgain, Wiped, TakeDown, Again,
     Leave, Goto, TaskInv, InboxIsCurrent, ReadIsCurrent, TaskIsCurrent, Resting
<1>4. ReportsAreTrue' /\ NotRunYet' /\ ReadOrCrossed'
  BY <1>1 DEF ClearWait, Wipe, WipeAgain, Wiped, TakeDown, Again, Leave, Goto,
     TaskInv, ReportsAreTrue, NotRunYet, ReadOrCrossed
<1>5. DoneMeansRun' /\ OncePerCommand'
  BY <1>1 DEF TaskInv, DoneMeansRun, OncePerCommand
<1>. QED  BY <1>2, <1>3, <1>4, <1>5 DEF TaskInv

(***************************************************************************)
(* The radio and the main car.                                             *)
(***************************************************************************)
LEMMA PostingInv ==
  ASSUME TaskInv, Transmit \/ SendFrame \/ Noise
  PROVE  TaskInv'
<1>1. /\ inbox = Empty /\ crossed' = (pc = "judge")
      /\ UNCHANGED <<pc, msg, j, roads, beep, report, k, phase, ran, deaf>>
  BY DEF Transmit, SendFrame, Noise, Post, car, main
<1>2. /\ inbox' \in Commands \cup Frames \cup {Junk}
      /\ inbox' \in Commands => phase = "send" /\ inbox'.no = k
  BY MessageFacts DEF Transmit, SendFrame, Noise, Post, TaskInv, TaskTypeOK
<1>3. TaskTypeOK' /\ Counts'
  BY <1>1, <1>2 DEF TaskInv, TaskTypeOK, Counts
<1>4. InboxIsCurrent' /\ ReadIsCurrent' /\ TaskIsCurrent'
  BY <1>1, <1>2 DEF TaskInv, InboxIsCurrent, ReadIsCurrent, TaskIsCurrent
<1>5. ReportsAreTrue' /\ NotRunYet' /\ ReadOrCrossed'
  BY <1>1 DEF TaskInv, ReportsAreTrue, NotRunYet, ReadOrCrossed
<1>6. DoneMeansRun' /\ OncePerCommand'
  BY <1>1 DEF TaskInv, DoneMeansRun, OncePerCommand
<1>. QED  BY <1>3, <1>4, <1>5, <1>6 DEF TaskInv

LEMMA HearingInv ==
  ASSUME TaskInv, Lose \/ HearBusy \/ HearDone
  PROVE  TaskInv'
<1>1. /\ report' = "none"
      /\ UNCHANGED <<inbox, pc, msg, j, roads, beep, ran, deaf, crossed>>
  BY DEF Lose, HearBusy, HearDone, car
<1>2. CASE Lose
  <2>1. k' = k /\ phase' = phase
    BY <1>2 DEF Lose, main
  <2>2. TaskTypeOK' /\ Counts' /\ InboxIsCurrent' /\ ReadIsCurrent' /\ TaskIsCurrent'
    BY <1>1, <2>1 DEF TaskInv, TaskTypeOK, Counts, InboxIsCurrent, ReadIsCurrent,
       TaskIsCurrent
  <2>3. ReportsAreTrue' /\ NotRunYet' /\ ReadOrCrossed' /\ DoneMeansRun' /\ OncePerCommand'
    BY <1>1, <2>1 DEF TaskInv, ReportsAreTrue, NotRunYet, ReadOrCrossed, DoneMeansRun,
       OncePerCommand
  <2>. QED  BY <2>2, <2>3 DEF TaskInv
<1>3. CASE HearBusy
  <2>1. report = "busy" /\ phase = "send" /\ phase' = "wait" /\ k' = k /\ k <= K
    BY <1>3 DEF HearBusy
  <2>2. pc \in {"busy", "run", "done"}
    BY <2>1 DEF TaskInv, ReportsAreTrue
  <2>3. TaskTypeOK' /\ Counts' /\ InboxIsCurrent' /\ ReadIsCurrent' /\ TaskIsCurrent'
    BY <1>1, <2>1, <2>2 DEF TaskInv, TaskTypeOK, Counts, InboxIsCurrent,
       ReadIsCurrent, TaskIsCurrent, Resting
  <2>4. ReportsAreTrue' /\ NotRunYet' /\ ReadOrCrossed' /\ DoneMeansRun' /\ OncePerCommand'
    BY <1>1, <2>1, <2>2 DEF TaskInv, ReportsAreTrue, NotRunYet, ReadOrCrossed,
       DoneMeansRun, OncePerCommand
  <2>. QED  BY <2>3, <2>4 DEF TaskInv
<1>4. CASE HearDone
  <2>1. report = "done" /\ phase = "wait" /\ phase' = "send" /\ k' = k + 1
    BY <1>4 DEF HearDone
  <2>2. k \in 1..K /\ ran[k] > 0 /\ pc \notin {"busy", "run"}
    BY <2>1 DEF TaskInv, TaskTypeOK, ReportsAreTrue
  <2>3. TaskTypeOK' /\ Counts'
    BY <1>1, <2>1, <2>2, TaskAssumption DEF TaskInv, TaskTypeOK, Counts
  <2>4. InboxIsCurrent' /\ ReadIsCurrent' /\ TaskIsCurrent'
    BY <1>1, <2>1, <2>2 DEF TaskInv, InboxIsCurrent, ReadIsCurrent, TaskIsCurrent
  <2>5. ReportsAreTrue' /\ ReadOrCrossed' /\ OncePerCommand'
    BY <1>1, <2>1, <2>2 DEF TaskInv, ReportsAreTrue, ReadOrCrossed, OncePerCommand
  <2>6. NotRunYet' /\ DoneMeansRun'
    <3>1. k + 1 <= K => ran[k + 1] = 0
      BY <2>2, TaskAssumption DEF TaskInv, NotRunYet
    <3>2. \A n \in 1..K : n > k + 1 => ran[n] = 0
      BY <2>2 DEF TaskInv, NotRunYet
    <3>3. \A n \in 1..K : n < k + 1 => ran[n] > 0
      BY <2>2 DEF TaskInv, DoneMeansRun
    <3>. QED  BY <1>1, <2>1, <3>1, <3>2, <3>3 DEF NotRunYet, DoneMeansRun
  <2>. QED  BY <2>3, <2>4, <2>5, <2>6 DEF TaskInv
<1>. QED  BY <1>2, <1>3, <1>4

LEMMA TaskNextInv == TaskInv /\ [TaskNext]_taskVars => TaskInv'
<1>1. CASE TaskInv /\ UNCHANGED taskVars
  BY <1>1 DEF taskVars, car, main, TaskInv, TaskTypeOK, Counts, InboxIsCurrent,
     ReadIsCurrent, TaskIsCurrent, ReportsAreTrue, NotRunYet, ReadOrCrossed,
     DoneMeansRun, OncePerCommand
<1>2. CASE TaskInv /\ TaskNext
  BY <1>2, ReadingInv, SortingInv, TellingInv, HandlingInv, ClearingInv,
     PostingInv, HearingInv DEF TaskNext, Task_Out
<1>. QED  BY <1>1, <1>2

LEMMA TaskInvariance == TaskSpec => []TaskInv
BY TaskInitInv, TaskNextInv, PTL DEF TaskSpec

(* Type correctness of the command loop.                                   *)
THEOREM TaskTyping == TaskSpec => []TaskTypeOK
<1>1. TaskInv => TaskTypeOK
  BY DEF TaskInv
<1>. QED  BY TaskInvariance, <1>1, PTL

(* Clear_ZigBee_Data() keeps a repeated command from running again once    *)
(* the main car has heard of it.                                           *)
THEOREM RunsOnce == TaskSpec => []OncePerCommand
<1>1. TaskInv => OncePerCommand
  BY DEF TaskInv
<1>. QED  BY TaskInvariance, <1>1, PTL

(* A "done" the main car acts on is about the command it waits for.        *)
THEOREM DoneIsTrue == TaskSpec => []DoneMeansRun
<1>1. TaskInv => DoneMeansRun
  BY DEF TaskInv
<1>. QED  BY TaskInvariance, <1>1, PTL

(* Every message but one that comes while the flag of another is taken     *)
(* down, or that is wiped after a command, is read before it is taken down *)
(* itself.                                                                 *)
THEOREM TwoLosses == TaskSpec => UnreadLosses
<1>. DEFINE A == inbox # Empty /\ inbox' = Empty =>
                   \/ msg = inbox
                   \/ pc = "unflag" /\ crossed
                   \/ pc = "wipe" /\ msg \in Commands
<1>1. TaskInv /\ [TaskNext]_taskVars => [A]_taskVars
  <2>. SUFFICES ASSUME TaskInv, TaskNext, inbox # Empty, inbox' = Empty
                PROVE  \/ msg = inbox
                       \/ pc = "unflag" /\ crossed
                       \/ pc = "wipe" /\ msg \in Commands
    OBVIOUS
  <2>1. pc \in {"unflag", "wipe"}
    BY MessageFacts DEF TaskNext, Task_Out, Read, Unflag, UnflagAgain, Unflagged, Store,
       Ignore, Accept, TellBusy, TellDone, Tell, Analyze_Handle, ClearWait, Wipe,
       WipeAgain, Wiped, TakeDown, Again, Leave, Transmit, SendFrame, Noise, Post, Lose,
       HearBusy, HearDone
  <2>. QED  BY <2>1 DEF TaskInv, ReadOrCrossed
<1>. QED  BY TaskInvariance, <1>1, PTL DEF TaskSpec, UnreadLosses
=============================================================================
