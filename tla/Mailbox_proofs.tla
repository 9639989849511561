--------------------------- MODULE Mailbox_proofs ---------------------------
(***************************************************************************)
(* Proofs about an outgoing mailbox that only ExMem_Write_Bytes() writes,  *)
(* for every length and every set of messages.  With the FPGA prompt it    *)
(* implements the channel; with waits that may give up, only the late      *)
(* message tears or loses anything.                                        *)
(***************************************************************************)
EXTENDS Mailbox, TLAPS

(***************************************************************************)
(* The inductive invariant.                                                *)
(***************************************************************************)
(* A write under way has filled the bytes above i, and byte i when it is   *)
(* about to read it back.                                                  *)
Filled ==
  /\ pc # "idle" => cur \in Messages
  /\ pc = "wait" => i = Size - 1 /\ ~late
  /\ pc \in {"put", "judge"} => \A b \in Body : b > i => mem[b] = cur
  /\ pc = "judge" /\ i > 0 => mem[i] = cur
  /\ pc = "judge" /\ i = 0 => mem[0] \in {cur, NoMsg}

(* Between writes the body is that of one message.                         *)
Settles == pc \in {"idle", "wait"} => \A b \in Body : mem[b] = mem[1]

(* A write whose wait saw the flag down keeps it down until it puts it up. *)
FlagDown ==
  /\ pc \in {"put", "judge"} /\ i > 0 /\ ~late => mem[0] = NoMsg
  /\ pc = "put" /\ i = 0 /\ ~late => mem[0] = NoMsg

(* A message that is owed is in the mailbox with its flag up.              *)
OwedIsThere ==
  /\ pc \in {"idle", "wait"} /\ owed # NoMsg =>
       mem[0] # NoMsg /\ \A b \in Body : mem[b] = owed
  /\ pc = "judge" /\ i = 0 /\ owed # NoMsg => owed = cur /\ mem[0] # NoMsg
  /\ pc \in {"put", "judge"} /\ i > 0 /\ ~late => owed = NoMsg
  /\ pc = "put" /\ i = 0 /\ ~late => owed = NoMsg

MailboxInv ==
  /\ MailboxTypeOK
  /\ Filled
  /\ Settles
  /\ FlagDown
  /\ OwedIsThere

LEMMA BytesFacts ==
  /\ Size \in Nat /\ Size >= 2
  /\ 0 \in Bytes /\ Size - 1 \in Bytes /\ 1 \in Body
  /\ Body \subseteq Bytes /\ 0 \notin Body
  /\ \A b \in Bytes : b \in Int /\ 0 <= b /\ b <= Size - 1 /\ (b = 0 \/ b \in Body)
  /\ \A b \in Body : b > 0
  /\ NoMsg \notin Messages /\ Garbage \notin Messages \cup {NoMsg}
<1>1. Size \in Nat /\ Size >= 2
  BY MailboxAssumption
<1>. QED  BY <1>1, MailboxAssumption DEF Bytes, Body

LEMMA InitMailboxInv == MailboxInit => MailboxInv
<1>. SUFFICES ASSUME MailboxInit PROVE MailboxInv
  OBVIOUS
<1>1. MailboxTypeOK
  BY BytesFacts DEF MailboxInit, MailboxTypeOK
<1>2. Filled /\ Settles /\ FlagDown /\ OwedIsThere
  BY BytesFacts DEF MailboxInit, Filled, Settles, FlagDown, OwedIsThere
<1>. QED  BY <1>1, <1>2 DEF MailboxInv

LEMMA CallInv ==
  ASSUME MailboxInv, Raw = {}, NEW m \in Messages, Call(m)
  PROVE  MailboxInv'
<1>. USE BytesFacts
<1>1. /\ pc = "idle" /\ cur' = m /\ pc' = "wait" /\ i' = Size - 1
      /\ late' = FALSE /\ mem' = mem /\ out' = out /\ owed' = owed
  BY DEF Call
<1>2. MailboxTypeOK'
  BY <1>1 DEF MailboxInv, MailboxTypeOK
<1>3. Filled'
  BY <1>1 DEF Filled
<1>4. Settles' /\ FlagDown' /\ OwedIsThere'
  BY <1>1 DEF MailboxInv, Settles, FlagDown, OwedIsThere
<1>. QED  BY <1>2, <1>3, <1>4 DEF MailboxInv

LEMMA SeeEmptyInv ==
  ASSUME MailboxInv, SeeEmpty
  PROVE  MailboxInv'
<1>. USE BytesFacts
<1>1. /\ pc = "wait" /\ mem[0] = NoMsg /\ pc' = "put"
      /\ UNCHANGED <<mem, cur, i, out, late, owed>>
  BY DEF SeeEmpty
<1>2. owed = NoMsg /\ i = Size - 1 /\ cur \in Messages
  BY <1>1 DEF MailboxInv, OwedIsThere, Filled
<1>3. MailboxTypeOK' /\ Settles'
  BY <1>1 DEF MailboxInv, MailboxTypeOK, Settles
<1>4. Filled'
  <2>1. \A b \in Body : ~(b > Size - 1)
    OBVIOUS
  <2>. QED  BY <1>1, <1>2, <2>1 DEF Filled
<1>5. FlagDown' /\ OwedIsThere'
  BY <1>1, <1>2 DEF FlagDown, OwedIsThere
<1>. QED  BY <1>3, <1>4, <1>5 DEF MailboxInv

LEMMA GiveUpInv ==
  ASSUME MailboxInv, GiveUp
  PROVE  MailboxInv'
<1>. USE BytesFacts
<1>1. /\ pc = "wait" /\ pc' = "put" /\ late' = TRUE
      /\ UNCHANGED <<mem, cur, i, out, owed>>
  BY DEF GiveUp
<1>2. i = Size - 1 /\ cur \in Messages
  BY <1>1 DEF MailboxInv, Filled
<1>3. MailboxTypeOK' /\ Settles'
  BY <1>1 DEF MailboxInv, MailboxTypeOK, Settles
<1>4. Filled'
  <2>1. \A b \in Body : ~(b > Size - 1)
    OBVIOUS
  <2>. QED  BY <1>1, <1>2, <2>1 DEF Filled
<1>5. FlagDown' /\ OwedIsThere'
  BY <1>1, <1>2 DEF FlagDown, OwedIsThere
<1>. QED  BY <1>3, <1>4, <1>5 DEF MailboxInv

LEMMA PutInv ==
  ASSUME MailboxInv, Put
  PROVE  MailboxInv'
<1>. USE BytesFacts
<1>1. /\ pc = "put" /\ pc' = "judge" /\ mem' = [mem EXCEPT ![i] = cur]
      /\ owed' = IF i = 0 /\ \A b \in Body : mem[b] = cur THEN cur ELSE owed
      /\ cur' = cur /\ i' = i /\ out' = out /\ late' = late
  BY DEF Put
<1>2. /\ cur \in Messages /\ i \in Bytes
      /\ mem \in [Bytes -> Messages \cup {NoMsg}]
      /\ \A b \in Body : b > i => mem[b] = cur
  BY <1>1 DEF MailboxInv, MailboxTypeOK, Filled
<1>3. /\ mem'[i] = cur
      /\ \A b \in Bytes : b # i => mem'[b] = mem[b]
  BY <1>1, <1>2
<1>4. MailboxTypeOK' /\ Settles'
  BY <1>1, <1>2 DEF MailboxInv, MailboxTypeOK, Settles
<1>5. Filled'
  BY <1>1, <1>2, <1>3 DEF Filled
<1>6. i > 0 => mem'[0] = mem[0] /\ owed' = owed
  BY <1>1, <1>2, <1>3
<1>7. FlagDown'
  BY <1>1, <1>6 DEF MailboxInv, FlagDown
<1>8. i = 0 => owed' = cur /\ mem'[0] = cur
  BY <1>1, <1>2, <1>3
<1>9. OwedIsThere'
  BY <1>1, <1>2, <1>6, <1>8 DEF MailboxInv, OwedIsThere
<1>. QED  BY <1>4, <1>5, <1>7, <1>9 DEF MailboxInv

(* The end of ExMem_JudgeWrite(), whether the byte read back or not.       *)
LEMMA AdvanceInv ==
  ASSUME MailboxInv, Raw = {}, pc = "judge", Advance,
         UNCHANGED <<mem, cur, out, late, owed>>
  PROVE  MailboxInv'
<1>. USE BytesFacts
<1>1. /\ cur \in Messages /\ i \in Bytes
      /\ \A b \in Body : b > i => mem[b] = cur
      /\ i > 0 => mem[i] = cur
  BY DEF MailboxInv, MailboxTypeOK, Filled
<1>2. CASE i = 0
  <2>1. pc' = "idle" /\ i' = 0
    BY <1>2 DEF Advance
  <2>2. \A b \in Body : mem[b] = cur
    BY <1>1, <1>2
  <2>3. MailboxTypeOK' /\ Filled' /\ FlagDown'
    BY <2>1, <1>1 DEF MailboxInv, MailboxTypeOK, Filled, FlagDown
  <2>4. Settles'
    BY <2>1, <2>2 DEF Settles
  <2>5. OwedIsThere'
    BY <1>2, <2>1, <2>2 DEF MailboxInv, OwedIsThere
  <2>. QED  BY <2>3, <2>4, <2>5 DEF MailboxInv
<1>3. CASE i # 0
  <2>1. pc' = "put" /\ i' = i - 1 /\ i > 0 /\ i - 1 \in Bytes
    BY <1>1, <1>3 DEF Advance, Bytes
  <2>2. \A b \in Body : b > i - 1 => b > i \/ b = i
    BY <1>1, <2>1
  <2>3. MailboxTypeOK' /\ Settles'
    BY <2>1, <1>1 DEF MailboxInv, MailboxTypeOK, Settles
  <2>4. Filled'
    BY <2>1, <2>2, <1>1 DEF Filled
  <2>5. ~late => mem[0] = NoMsg /\ owed = NoMsg
    BY <2>1 DEF MailboxInv, FlagDown, OwedIsThere
  <2>6. FlagDown' /\ OwedIsThere'
    BY <2>1, <2>5 DEF FlagDown, OwedIsThere
  <2>. QED  BY <2>3, <2>4, <2>6 DEF MailboxInv
<1>. QED  BY <1>2, <1>3

LEMMA JudgeAgainInv ==
  ASSUME MailboxInv, JudgeAgain
  PROVE  MailboxInv'
<1>. USE BytesFacts
<1>1. /\ pc = "judge" /\ mem[i] # cur /\ pc' = "put"
      /\ UNCHANGED <<mem, cur, i, out, late, owed>>
  BY DEF JudgeAgain
<1>2. i \in Bytes /\ i = 0 /\ mem[0] = NoMsg /\ owed = NoMsg
  BY <1>1 DEF MailboxInv, MailboxTypeOK, Filled, OwedIsThere
<1>3. MailboxTypeOK' /\ Filled' /\ Settles'
  BY <1>1 DEF MailboxInv, MailboxTypeOK, Filled, Settles
<1>4. FlagDown' /\ OwedIsThere'
  BY <1>1, <1>2 DEF FlagDown, OwedIsThere
<1>. QED  BY <1>3, <1>4 DEF MailboxInv

(* The FPGA takes a mixture only from under a late writer, and what it     *)
(* takes whole is what was owed, if anything was.                          *)
LEMMA TakeWhole ==
  ASSUME MailboxInv, Take
  PROVE  /\ (late /\ pc \in {"put", "judge"}) \/ Whole(out')
         /\ pc \in {"idle", "wait"} =>
              \A b \in Body : out'[b] = mem[1]
         /\ pc \in {"put", "judge"} /\ ~late =>
              pc = "judge" /\ i = 0 /\ \A b \in Body : out'[b] = cur
<1>. USE BytesFacts
<1>1. mem[0] # NoMsg /\ \A b \in Body : out'[b] = mem[b]
  BY DEF Take
<1>2. pc \in {"idle", "wait"} => \A b \in Body : out'[b] = mem[1]
  BY <1>1 DEF MailboxInv, Settles
<1>3. ASSUME pc \in {"put", "judge"}, ~late
      PROVE  pc = "judge" /\ i = 0 /\ \A b \in Body : out'[b] = cur
  <2>1. i \in Bytes /\ ~(i > 0) /\ pc = "judge"
    BY <1>1, <1>3 DEF MailboxInv, MailboxTypeOK, FlagDown
  <2>. QED  BY <1>1, <1>3, <2>1 DEF MailboxInv, Filled
<1>4. pc \in {"idle", "wait", "put", "judge"}
  BY DEF MailboxInv, MailboxTypeOK
<1>. QED  BY <1>2, <1>3, <1>4 DEF Whole, MailboxInv, MailboxTypeOK

LEMMA TakeInv ==
  ASSUME MailboxInv, Take
  PROVE  MailboxInv'
<1>. USE BytesFacts
<1>1. /\ mem[0] # NoMsg /\ out' = [b \in Body |-> mem[b]]
      /\ mem' = [mem EXCEPT ![0] = NoMsg] /\ owed' = Taken(out')
      /\ pc' = pc /\ cur' = cur /\ i' = i /\ late' = late
  BY DEF Take
<1>2. mem \in [Bytes -> Messages \cup {NoMsg}] /\ i \in Bytes
  BY DEF MailboxInv, MailboxTypeOK
<1>3. mem'[0] = NoMsg /\ \A b \in Body : mem'[b] = mem[b]
  BY <1>1, <1>2
<1>4. owed' \in {owed, NoMsg}
  BY <1>1 DEF Taken
<1>5. MailboxTypeOK'
  BY <1>1, <1>2, <1>4 DEF MailboxInv, MailboxTypeOK
<1>6. Filled'
  BY <1>1, <1>2, <1>3 DEF MailboxInv, Filled
<1>7. Settles' /\ FlagDown'
  BY <1>1, <1>3 DEF MailboxInv, Settles, FlagDown
<1>8. owed # NoMsg /\ out' = [b \in Body |-> owed] => owed' = NoMsg
  BY <1>1 DEF Taken
<1>9. ASSUME pc \in {"idle", "wait"} \/ (pc = "judge" /\ i = 0)
      PROVE  owed' = NoMsg
  <2>. SUFFICES ASSUME owed # NoMsg PROVE owed' = NoMsg
    BY <1>4
  <2>1. \A b \in Body : mem[b] = owed
    BY <1>9 DEF MailboxInv, OwedIsThere, Filled
  <2>2. out' = [b \in Body |-> owed]
    BY <1>1, <2>1
  <2>. QED  BY <1>8, <2>2
<1>10. OwedIsThere'
  BY <1>1, <1>4, <1>9 DEF MailboxInv, OwedIsThere
<1>. QED  BY <1>5, <1>6, <1>7, <1>10 DEF MailboxInv

LEMMA NextMailboxInv ==
  ASSUME Raw = {}
  PROVE  MailboxInv /\ [MailboxNext]_mailboxVars => MailboxInv'
<1>. SUFFICES ASSUME MailboxInv, [MailboxNext]_mailboxVars PROVE MailboxInv'
  OBVIOUS
<1>1. CASE \E m \in Messages : Call(m)
  BY <1>1, CallInv
<1>2. CASE SeeEmpty
  BY <1>2, SeeEmptyInv
<1>3. CASE GiveUp
  BY <1>3, GiveUpInv
<1>4. CASE Put
  BY <1>4, PutInv
<1>5. CASE JudgeDone
  BY <1>5, AdvanceInv DEF JudgeDone
<1>6. CASE JudgeAgain
  BY <1>6, JudgeAgainInv
<1>7. CASE JudgeGiveUp
  BY <1>7, AdvanceInv DEF JudgeGiveUp
<1>8. CASE Take
  BY <1>8, TakeInv
<1>9. CASE UNCHANGED mailboxVars
  BY <1>9 DEF mailboxVars, MailboxInv, MailboxTypeOK, Filled, Settles,
     FlagDown, OwedIsThere
<1>. QED
  BY <1>1, <1>2, <1>3, <1>4, <1>5, <1>6, <1>7, <1>8, <1>9 DEF MailboxNext, Car

LEMMA MailboxInvariance ==
  ASSUME Raw = {}
  PROVE  MailboxSpec => []MailboxInv
<1>. QED  BY InitMailboxInv, NextMailboxInv, PTL DEF MailboxSpec

-----------------------------------------------------------------------------
(* The mailbox and its writer keep their types.                            *)
THEOREM MailboxTyping ==
  ASSUME Raw = {}
  PROVE  MailboxSpec => []MailboxTypeOK
<1>. QED  BY MailboxInvariance, PTL DEF MailboxInv

(* The FPGA takes a mixture of two messages only in the middle of a write  *)
(* by ExMem_Write_Bytes() whose wait for the flag gave up.                 *)
THEOREM TornOnlyUnderLateWrite ==
  ASSUME Raw = {}
  PROVE  MailboxSpec => TornOnlyIfLate
<1>1. MailboxInv /\ [MailboxNext]_mailboxVars =>
        [Take /\ ~Whole(out') => late /\ pc \in {"put", "judge"}]_mailboxVars
  BY TakeWhole
<1>. QED  BY MailboxInvariance, <1>1, PTL DEF MailboxSpec, TornOnlyIfLate

(* A message with its flag up is taken whole before it is overwritten,     *)
(* unless the next write gave up waiting for it.                           *)
THEOREM LostOnlyUnderLateWrite ==
  ASSUME Raw = {}
  PROVE  MailboxSpec => LostOnlyIfLate
<1>. DEFINE A == owed # NoMsg /\ owed' # owed =>
                   late \/ (owed' = NoMsg /\ out' = [b \in Body |-> owed])
<1>1. ASSUME MailboxInv, MailboxNext PROVE A
  <2>1. CASE Put
    <3>. SUFFICES ASSUME owed # NoMsg, owed' # owed PROVE late
      OBVIOUS
    <3>1. pc = "put" /\ i \in Bytes
      BY <1>1, <2>1 DEF Put, MailboxInv, MailboxTypeOK
    <3>. QED  BY <1>1, <3>1, BytesFacts DEF MailboxInv, OwedIsThere
  <2>2. CASE Take
    BY <2>2 DEF Take, Taken
  <2>3. CASE ~Put /\ ~Take
    BY <1>1, <2>3 DEF MailboxNext, Car, Call, SeeEmpty, GiveUp, JudgeDone,
       JudgeAgain, JudgeGiveUp
  <2>. QED  BY <2>1, <2>2, <2>3
<1>2. MailboxInv /\ [MailboxNext]_mailboxVars => [A]_mailboxVars
  BY <1>1
<1>. QED  BY MailboxInvariance, <1>2, PTL DEF MailboxSpec, LostOnlyIfLate

(***************************************************************************)
(* The refinement: with no wait that gives up, every step is a step of the *)
(* channel or leaves it alone.                                             *)
(***************************************************************************)
Raised == pc \in {"idle", "wait"} /\ mem[0] # NoMsg => mem[1] # NoMsg

Prompt ==
  /\ ~late
  /\ \A b \in Body : out[b] = out[1]
  /\ Raised

LEMMA PromptInit == MailboxInit => Prompt
  BY BytesFacts DEF MailboxInit, Prompt, Raised

LEMMA PromptNext ==
  ASSUME Raw = {}, Timeouts = FALSE
  PROVE  MailboxInv /\ Prompt /\ [MailboxNext]_mailboxVars => Prompt'
<1>. SUFFICES ASSUME MailboxInv, Prompt, [MailboxNext]_mailboxVars
              PROVE  Prompt'
  OBVIOUS
<1>. USE BytesFacts
<1>1. CASE Take
  <2>1. mem' = [mem EXCEPT ![0] = NoMsg] /\ mem \in [Bytes -> Messages \cup {NoMsg}]
    BY <1>1 DEF Take, MailboxInv, MailboxTypeOK
  <2>2. Raised'
    BY <2>1 DEF Raised
  <2>. QED  BY <1>1, <2>2, TakeWhole DEF Prompt, Whole, Take
<1>2. CASE ~Take
  <2>1. late' = FALSE /\ out' = out
    BY <1>2 DEF Prompt, MailboxNext, Car, Call, SeeEmpty, GiveUp, Put, JudgeDone,
       JudgeAgain, JudgeGiveUp, mailboxVars
  <2>2. Raised'
    <3>1. CASE JudgeDone
      <4>1. CASE i = 0
        <5>1. cur \in Messages /\ mem[1] = cur /\ mem' = mem
          BY <3>1, <4>1 DEF JudgeDone, MailboxInv, Filled
        <5>. QED  BY <5>1 DEF Raised
      <4>2. CASE i # 0
        BY <3>1, <4>2 DEF JudgeDone, Advance, Raised
      <4>. QED  BY <4>1, <4>2
    <3>2. CASE ~JudgeDone
      BY <1>2, <3>2 DEF Prompt, Raised, MailboxNext, Car, Call, SeeEmpty, GiveUp,
         Put, JudgeAgain, JudgeGiveUp, mailboxVars
    <3>. QED  BY <3>1, <3>2
  <2>. QED  BY <2>1, <2>2 DEF Prompt
<1>. QED  BY <1>1, <1>2

LEMMA StepImplements ==
  ASSUME Raw = {}, Timeouts = FALSE
  PROVE  MailboxInv /\ Prompt /\ Prompt' /\ [MailboxNext]_mailboxVars =>
           [Abstract!ChannelNext]_<<Sending, Received>>
<1>. SUFFICES ASSUME MailboxInv, Prompt, Prompt', [MailboxNext]_mailboxVars
              PROVE  \/ Abstract!ChannelNext
                     \/ Sending' = Sending /\ Received' = Received
  OBVIOUS
<1>. USE BytesFacts
<1>0. /\ Received = out[1] /\ Received' = out'[1]
  BY DEF Prompt, Received, Whole
<1>1. CASE \E m \in Messages : Call(m)
  BY <1>0, <1>1 DEF Call, Sending
<1>2. CASE SeeEmpty
  <2>1. cur \in Messages /\ cur' = cur /\ pc = "wait" /\ mem[0] = NoMsg
        /\ pc' = "put" /\ out' = out
    BY <1>2 DEF SeeEmpty, MailboxInv, Filled
  <2>2. Sending = NoMsg /\ Sending' = cur
    BY <2>1 DEF Sending
  <2>3. Abstract!Send(cur)
    BY <1>0, <2>1, <2>2 DEF Abstract!Send
  <2>. QED  BY <2>1, <2>3 DEF Abstract!ChannelNext
<1>3. CASE GiveUp
  BY <1>3 DEF GiveUp
<1>4. CASE Put \/ JudgeAgain
  BY <1>0, <1>4 DEF Put, JudgeAgain, Sending
<1>5. CASE JudgeDone
  <2>1. pc = "judge" /\ mem[i] = cur /\ mem' = mem /\ cur' = cur /\ out' = out
        /\ cur \in Messages /\ i \in Bytes
    BY <1>5 DEF JudgeDone, MailboxInv, MailboxTypeOK, Filled
  <2>2. CASE i = 0
    <3>1. pc' = "idle" /\ mem[0] = cur /\ cur # NoMsg
      BY <1>5, <2>1, <2>2 DEF JudgeDone, Advance
    <3>2. mem[1] = cur
      BY <2>1, <2>2 DEF MailboxInv, Filled
    <3>. QED  BY <1>0, <2>1, <3>1, <3>2 DEF Sending
  <2>3. CASE i # 0
    <3>1. pc' = "put"
      BY <1>5, <2>3 DEF JudgeDone, Advance
    <3>. QED  BY <1>0, <2>1, <3>1 DEF Sending
  <2>. QED  BY <2>2, <2>3
<1>6. CASE JudgeGiveUp
  BY <1>6 DEF JudgeGiveUp
<1>7. CASE Take
  <2>1. /\ mem[0] # NoMsg /\ pc' = pc /\ cur' = cur
        /\ mem \in [Bytes -> Messages \cup {NoMsg}]
        /\ mem' = [mem EXCEPT ![0] = NoMsg]
        /\ pc \in {"idle", "wait", "put", "judge"}
    BY <1>7 DEF Take, MailboxInv, MailboxTypeOK
  <2>2. CASE pc \in {"put", "judge"}
    <3>1. Received' = cur /\ Sending = cur /\ Sending' = cur /\ cur \in Messages
      BY <1>0, <1>7, <2>1, <2>2, TakeWhole DEF Prompt, Sending, MailboxInv, Filled
    <3>2. Abstract!Deliver
      BY <3>1 DEF Abstract!Deliver
    <3>. QED  BY <3>2 DEF Abstract!ChannelNext
  <2>3. CASE pc \in {"idle", "wait"}
    <3>1. Received' = mem[1] /\ Sending = mem[1] /\ Sending' = NoMsg
      BY <1>0, <1>7, <2>1, <2>3, TakeWhole DEF Sending
    <3>2. mem[1] # NoMsg
      BY <2>1, <2>3 DEF Prompt, Raised
    <3>. QED  BY <3>1, <3>2 DEF Abstract!Deliver, Abstract!ChannelNext
  <2>. QED  BY <2>1, <2>2, <2>3
<1>8. CASE UNCHANGED mailboxVars
  BY <1>0, <1>8 DEF mailboxVars, Sending
<1>. QED
  BY <1>1, <1>2, <1>3, <1>4, <1>5, <1>6, <1>7, <1>8 DEF MailboxNext, Car

(* With no wait that gives up, the byte-by-byte mailbox is a channel that  *)
(* delivers every message whole, in order and at least once before it      *)
(* accepts the next one, whatever the messages and their length.           *)
THEOREM ChannelRefinement ==
  ASSUME Raw = {}, Timeouts = FALSE
  PROVE  MailboxSpec => ImplementsChannel
<1>1. MailboxInit => Abstract!ChannelInit
  BY BytesFacts DEF MailboxInit, Abstract!ChannelInit, Sending, Received, Whole
<1>2. MailboxSpec => []Prompt
  BY MailboxInvariance, PromptInit, PromptNext, PTL DEF MailboxSpec
<1>3. MailboxInv /\ Prompt /\ Prompt' /\ [MailboxNext]_mailboxVars =>
        [Abstract!ChannelNext]_Abstract!channelVars
  BY StepImplements DEF Abstract!channelVars
<1>. QED
  BY <1>1, <1>2, <1>3, MailboxInvariance, PTL
     DEF MailboxSpec, ImplementsChannel, Abstract!ChannelSpec
=============================================================================
