------------------------------ MODULE Mailbox ------------------------------
(***************************************************************************)
(* An outgoing mailbox in the memory shared by the processor and the FPGA: *)
(* the command mailbox at 0x6008 and the report mailbox at 0x6080.         *)
(*                                                                         *)
(* Byte 0 is the flag.  The processor writes a message with                *)
(* ExMem_Write_Bytes() (ExtSRAMInterface.cpp), which waits up to a second  *)
(* for the flag to be zero and writes the bytes from the last to the       *)
(* first, so that the flag comes last.  ClearCodeDisc() (DCMotor.cpp) puts *)
(* its command there with a loop of its own: no wait, first byte first.    *)
(* Both write each byte with ExMem_JudgeWrite(), which writes it again     *)
(* until it reads back.  The FPGA, whose code is not in the repository,    *)
(* may take the message whenever the flag is not zero, and clears the      *)
(* flag: that is what the wait relies on.                                  *)
(*                                                                         *)
(* A byte of message m is modelled by m itself, a zero byte by NoMsg.      *)
(***************************************************************************)
EXTENDS Integers

CONSTANTS
  Messages,   \* the messages
  NoMsg,      \* the zero flag, and no message
  Garbage,    \* what a mixture of two messages is, for the abstraction
  Size,        \* bytes of a message, the flag included (8; 12 for reports)
  Raw,        \* the messages written by ClearCodeDisc()'s loop
  Timeouts    \* whether a wait of a second may come to its end

ASSUME MailboxAssumption == /\ NoMsg \notin Messages
                            /\ Garbage \notin Messages \cup {NoMsg}
                            /\ Size \in Nat \ {0, 1}
                            /\ Raw \subseteq Messages
                            /\ Timeouts \in BOOLEAN

Bytes == 0..(Size - 1)
Body == 1..(Size - 1)

VARIABLES
  mem,   \* the bytes of the mailbox
  pc,    \* where the processor is: "idle", "wait", "put" or "judge"
  cur,   \* the message it writes, or wrote last
  i,     \* the byte it is at
  out,   \* the body the FPGA took last
  late,  \* history: the wait for the flag gave up on this message
  owed   \* history: the message whose flag is up and that was not taken

mailboxVars == <<mem, pc, cur, i, out, late, owed>>

MailboxInit ==
  /\ mem = [b \in Bytes |-> NoMsg]
  /\ pc = "idle"
  /\ cur = NoMsg
  /\ i = 0
  /\ out = [b \in Body |-> NoMsg]
  /\ late = FALSE
  /\ owed = NoMsg

(***************************************************************************)
(* The body is whole when all its bytes are of one message.                *)
(***************************************************************************)
Whole(body) == \A b \in Body : body[b] = body[1]

(***************************************************************************)
(* The processor                                                           *)
(***************************************************************************)
(* ExMem_Write_Bytes(m), or ClearCodeDisc() for a message of Raw, which    *)
(* does not wait and starts with the flag.                                 *)
Call(m) ==
  /\ pc = "idle"
  /\ cur' = m
  /\ pc' = IF m \in Raw THEN "put" ELSE "wait"
  /\ i' = IF m \in Raw THEN 0 ELSE Size - 1
  /\ late' = FALSE
  /\ UNCHANGED <<mem, out, owed>>

(* The wait loop of ExMem_Write_Bytes() sees the flag down.  The variant   *)
(* before it does not look.                                                *)
SeeEmptyBlind ==
  /\ pc = "wait"
  /\ pc' = "put"
  /\ UNCHANGED <<mem, cur, i, out, late, owed>>

SeeEmpty ==
  /\ pc = "wait"
  /\ mem[0] = NoMsg
  /\ pc' = "put"
  /\ UNCHANGED <<mem, cur, i, out, late, owed>>

(* The wait loop has seen the flag up for a second, and writes anyway.     *)
GiveUp ==
  /\ Timeouts
  /\ pc = "wait"
  /\ mem[0] # NoMsg
  /\ pc' = "put"
  /\ late' = TRUE
  /\ UNCHANGED <<mem, cur, i, out, owed>>

(* ExMem_Write() of byte i.  With the flag of a message of which the body  *)
(* is written, the message is owed.                                        *)
Put ==
  /\ pc = "put"
  /\ mem' = [mem EXCEPT ![i] = cur]
  /\ pc' = "judge"
  /\ owed' = IF i = 0 /\ \A b \in Body : mem[b] = cur THEN cur ELSE owed
  /\ UNCHANGED <<cur, i, out, late>>

(* The loop over the bytes goes on to the next one, down to the flag, or   *)
(* up from it for a message of Raw.  The variants before it do not stop at *)
(* the flag, as an unsigned loop counter would not, and stop before it.    *)
AdvanceNoStop ==
  /\ pc' = "put"
  /\ i' = IF cur \in Raw THEN i + 1 ELSE i - 1

AdvanceNoFlag ==
  /\ pc' = IF i = 1 THEN "idle" ELSE "put"
  /\ i' = IF i = 1 THEN i ELSE i - 1

Advance ==
  IF cur \in Raw
  THEN /\ pc' = IF i = Size - 1 THEN "idle" ELSE "put"
       /\ i' = IF i = Size - 1 THEN i ELSE i + 1
  ELSE /\ pc' = IF i = 0 THEN "idle" ELSE "put"
       /\ i' = IF i = 0 THEN i ELSE i - 1

(* ExMem_JudgeWrite() reads the byte back: done, or write it again, or the *)
(* second is over.  A flag the FPGA has cleared meanwhile does not read    *)
(* back.  The variant before JudgeGiveUp never gives up.                   *)
JudgeDone ==
  /\ pc = "judge"
  /\ mem[i] = cur
  /\ Advance
  /\ UNCHANGED <<mem, cur, out, late, owed>>

JudgeAgain ==
  /\ pc = "judge"
  /\ mem[i] # cur
  /\ pc' = "put"
  /\ UNCHANGED <<mem, cur, i, out, late, owed>>

JudgeForever ==
  /\ FALSE
  /\ UNCHANGED mailboxVars

JudgeGiveUp ==
  /\ Timeouts
  /\ pc = "judge"
  /\ mem[i] # cur
  /\ Advance
  /\ UNCHANGED <<mem, cur, out, late, owed>>

(***************************************************************************)
(* The FPGA takes the body and clears the flag.                            *)
(***************************************************************************)
Taken(body) ==
  IF owed # NoMsg /\ body = [b \in Body |-> owed] THEN NoMsg ELSE owed

Take ==
  /\ mem[0] # NoMsg
  /\ out' = [b \in Body |-> mem[b]]
  /\ mem' = [mem EXCEPT ![0] = NoMsg]
  /\ owed' = Taken(out')
  /\ UNCHANGED <<pc, cur, i, late>>

Car ==
  \/ \E m \in Messages : Call(m)
  \/ SeeEmpty
  \/ GiveUp
  \/ Put
  \/ JudgeDone
  \/ JudgeAgain
  \/ JudgeGiveUp

MailboxNext == Car \/ Take

MailboxSpec == MailboxInit /\ [][MailboxNext]_mailboxVars

(***************************************************************************)
(* A write that was begun goes on; the FPGA comes round to a raised flag;  *)
(* a second always ends, so a loop that could give up again and again does *)
(* so in the end.                                                          *)
(***************************************************************************)
MailboxFair ==
  /\ WF_mailboxVars(SeeEmpty)
  /\ WF_mailboxVars(Put)
  /\ WF_mailboxVars(JudgeDone)
  /\ WF_mailboxVars(JudgeAgain)
  /\ SF_mailboxVars(GiveUp)
  /\ SF_mailboxVars(JudgeGiveUp)
  /\ WF_mailboxVars(Take)

FairMailboxSpec == MailboxSpec /\ MailboxFair

-----------------------------------------------------------------------------
(* Type invariant of the mailbox. *)
MailboxTypeOK ==
  /\ mem \in [Bytes -> Messages \cup {NoMsg}]
  /\ pc \in {"idle", "wait", "put", "judge"}
  /\ cur \in Messages \cup {NoMsg}
  /\ i \in Bytes
  /\ out \in [Body -> Messages \cup {NoMsg}]
  /\ late \in BOOLEAN
  /\ owed \in Messages \cup {NoMsg}

(* The FPGA takes a mixture of two messages only in the middle of a write  *)
(* whose wait for the flag gave up after a second.                         *)
TornOnlyIfLate ==
  [][Take /\ ~Whole(out') => late /\ pc \in {"put", "judge"}]_mailboxVars

(* A message whose flag went up is taken whole before anything overwrites  *)
(* it, unless the writer after it gave up waiting.                         *)
LostOnlyIfLate ==
  [][owed # NoMsg /\ owed' # owed =>
       late \/ (owed' = NoMsg /\ out' = [b \in Body |-> owed])]_mailboxVars

(* ExMem_Write_Bytes() always returns: even when the FPGA takes the        *)
(* message between each write of the flag and its read-back, or never.     *)
WriteReturns == pc # "idle" ~> pc = "idle"

(* In a command the FPGA takes, the check byte belongs to the data before  *)
(* it: Command.h has every command checked.  The last two bytes of the     *)
(* model are the data and the check; messages differ in both.              *)
TakenCommandsAreJudged == out[Size - 2] = out[Size - 1]

(***************************************************************************)
(* The mailbox as a channel.                                               *)
(***************************************************************************)
Sending ==
  IF pc \in {"put", "judge"} THEN cur
  ELSE IF mem[0] # NoMsg THEN mem[1] ELSE NoMsg

Received == IF Whole(out) THEN out[1] ELSE Garbage

Abstract == INSTANCE Channel WITH sending <- Sending, received <- Received

(* With a prompt FPGA the mailbox is a channel that delivers every message *)
(* whole, in order and at least once.                                      *)
ImplementsChannel == Abstract!ChannelSpec

(* With a prompt FPGA a message that is being written is delivered.        *)
EventuallyDelivered ==
  \A m \in Messages : (pc = "put" /\ cur = m) ~> (Received = m)
=============================================================================
