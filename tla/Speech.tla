------------------------------- MODULE Speech -------------------------------
(***************************************************************************)
(* The dialogue with the SYN7318 speech module (Syn7318/SYN7318.cpp):      *)
(* QueryStatus(), VSPTest(), Start_ASR(), Start_ASR_return(), _send() and  *)
(* _rec(), and Start_ASR_WEN(), over a serial line.                        *)
(*                                                                         *)
(* A frame is one record; readBytes() waits for the rest of one.  The      *)
(* module acknowledges every command, answers a query with "idle" or       *)
(* "busy", says "idle" of itself when it has spoken, and sends one result  *)
(* for what it heard.  A new command takes over from what it does, and a   *)
(* reset clears all (it is not in the repository: this is what the code's  *)
(* waits expect).                                                          *)
(***************************************************************************)
EXTENDS Naturals, Sequences, FiniteSets

CONSTANTS
  Calls     \* how many calls the sketch makes

ASSUME SpeechAssumption == Calls \in Nat \ {0}

Kinds == {"wen", "return", "asr", "send", "say"}
Frame(f, n) == [f |-> f, no |-> n]

Failed == {"failed"}                      \* 0x03, 0x04, 0x05, 0x07
Results == {"word", "other", "odd"} \cup Failed
   \* "word": 0x01 with an identifier Start_ASR_WEN() knows, "other": with
   \* another one; "odd": 0x02 and 0x06 of the table at line 429

VARIABLES
  pc,       \* where the sketch's call is
  kind,     \* which function it called
  no,       \* the number of the call
  got,      \* the listening (its call) whose word the call returned, or 0
  cmds,     \* commands on their way to the module
  mode,     \* what the module does, and for which call it listens
  owes,     \* the module has acknowledged a query and not answered it yet
  rx,       \* the receive buffer
  late,     \* history: a wait of three seconds for an answer was given up
  reset,    \* history: QueryStatus() has reset the module
  missed    \* history: the result of the call under way was thrown away

caller == <<pc, kind, no, got>>
module == <<mode, owes>>
history == <<late, reset, missed>>
speechVars == <<caller, cmds, module, rx, history>>

Mode(m, n) == [is |-> m, no |-> n]
Idle == Mode("idle", 0)

SpeechInit ==
  /\ pc = "end" /\ kind = "say" /\ no = 0 /\ got = 0
  /\ cmds = <<>> /\ mode = Idle /\ owes = FALSE /\ rx = <<>>
  /\ late = FALSE /\ reset = FALSE /\ missed = FALSE

Goto(p) == pc' = p

(***************************************************************************)
(* Looking for a frame: everything before it is thrown away, and if it is  *)
(* not there everything that is.                                           *)
(***************************************************************************)
Where(kinds) == {i \in 1..Len(rx) : rx[i].f \in kinds}
First(kinds) == CHOOSE i \in Where(kinds) : \A j \in Where(kinds) : i <= j

Find(kinds) == Where(kinds) # {} /\ rx' = SubSeq(rx, First(kinds) + 1, Len(rx))
Discard(kinds) == Where(kinds) = {} /\ rx' = <<>>

Write(c) == cmds' = Append(cmds, [c |-> c, no |-> no])

-----------------------------------------------------------------------------
(* The sketch calls.  Start_ASR_rec() always follows Start_ASR_send().     *)
Entry(k) == CASE k = "wen" -> "inquire" [] k = "say" -> "say" [] OTHER -> "query"

Call ==
  /\ pc = "end" /\ no < Calls /\ kind # "send"
  /\ \E k \in Kinds : kind' = k /\ Goto(Entry(k))
  /\ no' = no + 1 /\ got' = 0
  /\ UNCHANGED <<cmds, module, rx, history>>

Start_ASR_rec ==
  /\ pc = "end" /\ kind = "send"
  /\ kind' = "rec" /\ Goto("result") /\ got' = 0
  /\ UNCHANGED <<no, cmds, module, rx, history>>

(* Commands are written, from pc = here on to pc = next. *)
Command(here, c, next) ==
  /\ pc = here /\ Write(c) /\ Goto(next)
  /\ UNCHANGED <<kind, no, got, module, rx, history>>

(***************************************************************************)
(* while (CommandSendCheck()) goes on while an acknowledgement is there:   *)
(* it throws away what has come, and waits for nothing.  (Its retries need *)
(* acknowledgements that come for three seconds without a break.)          *)
(***************************************************************************)
SkipAcks(here, next) ==
  /\ pc = here /\ rx' = <<>> /\ Goto(next)
  /\ UNCHANGED <<kind, no, got, cmds, module, history>>

(***************************************************************************)
(* QueryStatus(): the query, the wait for "idle", and after three seconds  *)
(* a reset, which is not followed by a query.  Variants: "busy" is taken   *)
(* for an answer too; each frame thrown away is followed by a query.       *)
(***************************************************************************)
Query == Command("query", "query", "queryack")
QueryAck == SkipAcks("queryack", "idle")

IdleFound(kinds) ==
  /\ pc = "idle" /\ Find(kinds) /\ Goto("start")
  /\ UNCHANGED <<kind, no, got, cmds, module, history>>

QueryIdleOrBusy == IdleFound({"idle", "busy"})
QueryIdle == IdleFound({"idle"})

QueryWaitAsking ==
  /\ pc = "idle" /\ Discard({"idle"}) /\ rx # <<>> /\ Write("query")
  /\ UNCHANGED <<caller, module, history>>

QueryWait ==
  /\ pc = "idle" /\ Discard({"idle"}) /\ rx # <<>>
  /\ UNCHANGED <<caller, cmds, module, history>>

QueryReset ==
  /\ pc = "idle" /\ Discard({"idle"}) /\ Goto("reset")
  /\ reset' = TRUE
  /\ UNCHANGED <<kind, no, got, cmds, module, late, missed>>

(* ResetTest(): the pulse, repeated until the module says it is ready.     *)
(* The variant asks the module again after it.                             *)
ResetCom ==
  /\ pc = "reset" /\ Goto("ready")
  /\ cmds' = <<[c |-> "boot", no |-> 0]>>
  /\ mode' = Idle /\ owes' = FALSE
  /\ UNCHANGED <<kind, no, got, rx, history>>

ReadyThen(next) ==
  /\ pc = "ready" /\ Find({"ready"}) /\ Goto(next)
  /\ UNCHANGED <<kind, no, got, cmds, module, history>>

ResetCheckAsking == ReadyThen("query")
ResetCheck == ReadyThen("idle")

ReadyWait ==
  /\ pc = "ready" /\ Discard({"ready"}) /\ rx # <<>>
  /\ UNCHANGED <<caller, cmds, module, history>>

ResetAgain ==
  /\ pc = "ready" /\ Discard({"ready"}) /\ Goto("reset")
  /\ UNCHANGED <<kind, no, got, cmds, module, history>>

-----------------------------------------------------------------------------
(* Start_ASR(), Start_ASR_return() and Start_ASR_send() go on to listen.   *)
Listen == Command("start", "listen", "listenack")
ListenAck == SkipAcks("listenack", IF kind = "send" THEN "end" ELSE "result")

(* CommandSendCheckACK(): the first result it knows ends the wait, others  *)
(* are thrown away like everything else.                                   *)
Known == {"word", "other"} \cup Failed

Result ==
  /\ pc = "result" /\ Find(Known)
  /\ LET r == rx[First(Known)]
     IN  /\ got' = IF r.f \in Failed THEN 0 ELSE r.no
         /\ Goto(IF kind = "asr" /\ r.f \notin Failed THEN "say" ELSE "end")
  /\ UNCHANGED <<kind, no, cmds, module, history>>

ResultWait ==
  /\ pc = "result" /\ Discard(Known) /\ rx # <<>>
  /\ missed' = (missed \/ \E i \in 1..Len(rx) : rx[i] = Frame("odd", no))
  /\ UNCHANGED <<caller, cmds, module, late, reset>>

(***************************************************************************)
(* VSPTest(): the text, and the wait for the end of its playback.          *)
(***************************************************************************)
Say == Command("say", "speak", "sayack")
SayAck == SkipAcks("sayack", "spoken")

SpeechDone ==
  /\ pc = "spoken" /\ Find({"idle"}) /\ Goto("end")
  /\ UNCHANGED <<kind, no, got, cmds, module, history>>

SpeechWait ==
  /\ pc = "spoken" /\ Discard({"idle"}) /\ rx # <<>>
  /\ UNCHANGED <<caller, cmds, module, history>>

(***************************************************************************)
(* Start_ASR_WEN() waits for acknowledgement and status frame by frame,    *)
(* and each wait ends after three seconds.  The variant before GiveUp      *)
(* takes the time anew in every turn of the loop.                          *)
(***************************************************************************)
Inquire == Command("inquire", "query", "ack1")

Waits == [ack1 |-> "ack", status |-> "idle", ack2 |-> "ack"]
Then == [ack1 |-> "status", status |-> "wenstart", ack2 |-> "delay"]

Await ==
  /\ pc \in DOMAIN Waits /\ rx # <<>>
  /\ rx' = Tail(rx)
  /\ IF Head(rx).f = Waits[pc] THEN Goto(Then[pc]) ELSE UNCHANGED pc
  /\ UNCHANGED <<kind, no, got, cmds, module, history>>

GiveUpNever ==
  /\ pc \in DOMAIN Waits /\ late' = TRUE
  /\ UNCHANGED <<caller, cmds, module, rx, reset, missed>>

GiveUp ==
  /\ pc \in DOMAIN Waits /\ Goto("end")
  /\ late' = TRUE
  /\ UNCHANGED <<kind, no, got, cmds, module, rx, reset, missed>>

WenStart == Command("wenstart", "listen", "ack2")

(* 700 ms pass, and the prompt for the speaker is sent. *)
Delay ==
  /\ pc = "delay" /\ Goto("heard")
  /\ UNCHANGED <<kind, no, got, cmds, module, rx, history>>

(* The next frame is taken for the result, whatever it is. *)
WenResult ==
  /\ pc = "heard" /\ rx # <<>>
  /\ rx' = Tail(rx)
  /\ got' = IF Head(rx).f = "word" THEN Head(rx).no ELSE 0
  /\ Goto(IF Head(rx).f = "other" THEN "end" ELSE "say")
  /\ UNCHANGED <<kind, no, cmds, module, history>>

WenNothing ==
  /\ pc = "heard" /\ Goto("end")
  /\ UNCHANGED <<kind, no, got, cmds, module, rx, history>>

-----------------------------------------------------------------------------
(***************************************************************************)
(* The module.  A frame takes longer on the line than the turn of a loop,  *)
(* so that one comes while another lies there only if nobody looks.        *)
(***************************************************************************)
Room == rx = <<>> \/ pc \in {"delay", "end"}
Send(f, n) == Room /\ rx' = Append(rx, Frame(f, n))

Take ==
  /\ cmds # <<>> /\ ~owes
  /\ cmds' = Tail(cmds)
  /\ Send(IF Head(cmds).c = "boot" THEN "ready" ELSE "ack", 0)
  /\ owes' = (Head(cmds).c = "query")
  /\ mode' = CASE Head(cmds).c = "speak"  -> Mode("speaking", 0)
               [] Head(cmds).c = "listen" -> Mode("listening", Head(cmds).no)
               [] OTHER -> mode
  /\ UNCHANGED <<caller, history>>

Answer ==
  /\ owes /\ owes' = FALSE
  /\ Send(IF mode = Idle THEN "idle" ELSE "busy", 0)
  /\ UNCHANGED <<caller, cmds, mode, history>>

Spoken ==
  /\ mode.is = "speaking" /\ ~owes /\ mode' = Idle
  /\ Send("idle", 0)
  /\ UNCHANGED <<caller, cmds, owes, history>>

Heard ==
  /\ mode.is = "listening" /\ ~owes /\ mode' = Idle
  /\ \E f \in Results : Send(f, mode.no)
  /\ UNCHANGED <<caller, cmds, owes, history>>

Sketch ==
  \/ Query \/ QueryAck \/ QueryIdle \/ QueryWait \/ QueryReset
  \/ ResetCom \/ ResetCheck \/ ReadyWait \/ ResetAgain
  \/ Listen \/ ListenAck \/ Result \/ ResultWait
  \/ Say \/ SayAck \/ SpeechDone \/ SpeechWait
  \/ Inquire \/ Await \/ GiveUp \/ WenStart \/ Delay \/ WenResult \/ WenNothing

Module == Take \/ Answer \/ Spoken \/ Heard

SpeechNext == Call \/ Start_ASR_rec \/ Sketch \/ Module

SpeechSpec == SpeechInit /\ [][SpeechNext]_speechVars
FairSpeechSpec ==
  /\ SpeechSpec
  /\ WF_speechVars(Sketch) /\ WF_speechVars(Start_ASR_rec)
  /\ WF_speechVars(Take \/ Answer) /\ WF_speechVars(Spoken) /\ WF_speechVars(Heard)

-----------------------------------------------------------------------------
(* Type invariant of the dialogue; while no wait was given up the sketch   *)
(* has never more than one command on its way to the module.               *)
SpeechTypeOK ==
  /\ pc \in {"end", "query", "queryack", "idle", "reset", "ready", "start",
             "listenack", "result", "say", "sayack", "spoken", "inquire", "ack1",
             "status", "wenstart", "ack2", "delay", "heard"}
  /\ kind \in Kinds \cup {"rec"}
  /\ no \in 0..Calls /\ got \in 0..no
  /\ cmds \in Seq([c : {"query", "listen", "speak", "boot"}, no : 0..Calls])
  /\ ~late => Len(cmds) <= 1
  /\ mode \in {Idle} \cup {Mode("speaking", 0)} \cup {Mode("listening", n) : n \in 1..Calls}
  /\ owes \in BOOLEAN
  /\ rx \in Seq([f : {"ack", "idle", "busy", "ready"} \cup Results, no : 0..Calls])
  /\ late \in BOOLEAN /\ reset \in BOOLEAN /\ missed \in BOOLEAN

(***************************************************************************)
(* A word a call returns was spoken during the call: also after a call     *)
(* that stopped listening after eight seconds, whose word comes when the   *)
(* next one is under way.  Only a wait for an answer that was given up     *)
(* may put the dialogue out of step.                                       *)
(***************************************************************************)
WordIsFresh == got # 0 => got = no \/ late

(* Once QueryStatus() has reset a busy module, or Start_ASR_return(),      *)
(* Start_ASR() or Start_ASR_rec() have thrown the result away, the call    *)
(* never returns: the module is ready, and nobody asks it again.           *)
HangsForGood ==
  /\ reset => pc \in {"idle", "reset", "ready"}
  /\ missed => pc = "result"

(* Every other call returns. *)
CallReturns == (pc # "end") ~> (pc = "end" \/ reset \/ missed)
=============================================================================
