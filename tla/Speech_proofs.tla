--------------------------- MODULE Speech_proofs ---------------------------
(***************************************************************************)
(* Proofs about the dialogue with the speech module, for every number of   *)
(* calls.                                                                  *)
(***************************************************************************)
EXTENDS Speech, SequenceTheorems, FiniteSetTheorems, WellFoundedInduction, TLAPS

Quiet == cmds = <<>> /\ ~owes /\ mode = Idle

Positions == 1..Len(rx)
Frames == {rx[j] : j \in Positions}
Cmds == {cmds[j] : j \in 1..Len(cmds)}

FrameSet == [f : {"ack", "idle", "busy", "ready"} \cup Results, no : 0..Calls]
CmdSet == [c : {"query", "listen", "speak", "boot"}, no : 0..Calls]

(***************************************************************************)
(* The inductive invariant.  A call in its places:                         *)
(***************************************************************************)
Places ==
  /\ kind = "wen" \/ pc \notin {"inquire", "ack1", "status", "wenstart", "ack2", "delay", "heard"}
  /\ pc \in {"query", "queryack", "idle", "reset", "ready", "start", "listenack"} =>
       kind \in {"return", "asr", "send"}
  /\ pc = "result" => kind \in {"return", "asr", "rec"}
  /\ pc \in {"say", "sayack", "spoken"} => kind \in {"wen", "asr", "say"}
  /\ pc # "end" \/ kind # "say" => no > 0
  /\ pc \notin {"end", "say", "sayack", "spoken"} => got = 0

(* Whose results there are: of calls that have been made, and before the   *)
(* call under way has sent its command to listen, of earlier ones.         *)
Numbers ==
  /\ mode.no <= no
  /\ \A d \in Cmds : d.no <= no /\ (d.c = "listen" => d.no > 0)
  /\ \A r \in Frames : r.no <= no
  /\ pc \in {"query", "queryack", "idle", "start"} =>
       /\ mode.no < no
       /\ \A d \in Cmds : d.c = "listen" => d.no < no
       /\ \A r \in Frames : r.no < no

(* The command to listen is the last one on its way, or the module has     *)
(* taken it; then it sends one result and is quiet.                        *)
Listening ==
  \/ /\ cmds # <<>> /\ cmds[Len(cmds)] = [c |-> "listen", no |-> no]
     /\ \A j \in 1..(Len(cmds) - 1) : cmds[j].c = "listen" => cmds[j].no < no
     /\ mode.no < no /\ \A r \in Frames : r.no < no
  \/ /\ cmds = <<>> /\ ~owes /\ mode = Mode("listening", no)
     /\ \A r \in Frames : r.no < no
  \/ Quiet

Awaited == pc \in {"listenack", "result"} \/ (pc = "end" /\ kind = "send") => Listening

(* A result thrown away was the last thing the module had to say. *)
Missed == missed => pc = "result" /\ Quiet /\ rx = <<>>

(* After the reset nothing but its own message comes. *)
AfterReset ==
  /\ reset =>
       /\ pc \in {"idle", "reset", "ready"}
       /\ Len(rx) <= 1
       /\ pc # "reset" => cmds \in {<<>>, <<[c |-> "boot", no |-> 0]>>} /\ ~owes /\ mode = Idle
       /\ pc = "idle" => Where({"idle"}) = {}
  /\ pc \in {"reset", "ready"} => reset

(***************************************************************************)
(* While no wait was given up the two stay in step.                        *)
(***************************************************************************)
IdleIsLast == \A j \in Positions : rx[j].f = "idle" => j = Len(rx) /\ Quiet

AtRest ==
  cmds = <<>> /\ ~owes /\ mode.is # "speaking" /\ \A r \in Frames : r.f \in Results

Asked ==
  /\ cmds = <<>> \/ (cmds = <<[c |-> "query", no |-> no]>> /\ ~owes)
  /\ mode.is # "speaking" /\ IdleIsLast

Heeded ==
  /\ \/ cmds = <<>>
     \/ cmds = <<[c |-> "listen", no |-> no]>> /\ mode = Idle /\ rx = <<>>
  /\ ~owes /\ mode \in {Idle, Mode("listening", no)}
  /\ \A j \in Positions :
       \/ rx[j].f = "ack" /\ j = 1
       \/ rx[j].f \in Results /\ rx[j].no = no /\ j = Len(rx) /\ Quiet
  /\ pc \in {"delay", "heard"} => cmds = <<>> /\ \A r \in Frames : r.f \in Results

Speaking ==
  /\ ~owes /\ IdleIsLast
  /\ cmds = <<>> \/ (cmds = <<[c |-> "speak", no |-> no]>> /\ mode.is # "speaking")

InStep ==
  ~late /\ ~reset =>
    /\ pc \in {"query", "inquire", "say"} \/ (pc = "end" /\ kind # "send") => AtRest
    /\ pc \in {"queryack", "idle", "ack1", "status"} => Asked
    /\ pc \in {"start", "wenstart"} => Quiet /\ rx = <<>>
    /\ pc \in {"listenack", "result", "ack2", "delay", "heard"} \/ (pc = "end" /\ kind = "send") =>
         Heeded
    /\ pc \in {"sayack", "spoken"} => Speaking

SpeechInv ==
  /\ SpeechTypeOK /\ Places /\ Numbers /\ Awaited /\ Missed /\ AfterReset /\ InStep
  /\ WordIsFresh
-----------------------------------------------------------------------------
(* Frames and commands that come and go.                                   *)
LEMMA LeastPosition ==
  ASSUME NEW T, T \subseteq Nat, T # {}
  PROVE  \E k \in T : \A j \in T : k <= j
<1>. DEFINE U == {1..k : k \in T}
<1>1. U \subseteq FiniteSubsetsOf(Nat)
  <2>. SUFFICES ASSUME NEW k \in T
                PROVE  1..k \in SUBSET Nat /\ IsFiniteSet(1..k)
    BY DEF FiniteSubsetsOf
  <2>1. k \in Nat
    OBVIOUS
  <2>. QED  BY <2>1, FS_Interval
<1>2. PICK u \in U : \A w \in U : <<w, u>> \notin StrictSubsetOrdering(Nat)
  <2>1. U # {}
    OBVIOUS
  <2>. QED  BY <1>1, <2>1, FS_StrictSubsetOrderingWellFounded, WFMin
<1>3. PICK k \in T : u = 1..k
  OBVIOUS
<1>4. ASSUME NEW j \in T, j < k PROVE FALSE
  <2>1. 1..j \in U /\ k \in 1..k /\ k \notin 1..j /\ 1..j \subseteq 1..k
    BY <1>4
  <2>2. <<1..j, u>> \in StrictSubsetOrdering(Nat)
    BY <1>3, <2>1 DEF StrictSubsetOrdering
  <2>. QED  BY <1>2, <2>1, <2>2
<1>. QED  BY <1>4

LEMMA FoundFrames ==
  ASSUME rx \in Seq(FrameSet), NEW kinds, Find(kinds)
  PROVE  /\ First(kinds) \in Positions /\ rx[First(kinds)].f \in kinds
         /\ rx' \in Seq(FrameSet) /\ Len(rx') = Len(rx) - First(kinds)
         /\ \A j \in 1..Len(rx') : rx'[j] = rx[j + First(kinds)]
<1>1. Len(rx) \in Nat /\ \A j \in 1..Len(rx) : rx[j] \in FrameSet
  BY ElementOfSeq, LenProperties
<1>2. Where(kinds) \subseteq 1..Len(rx) /\ Where(kinds) # {} /\ Where(kinds) \subseteq Nat
  BY <1>1 DEF Where, Find
<1>3. First(kinds) \in Where(kinds)
  BY <1>2, LeastPosition DEF First
<1>. DEFINE p == First(kinds)
<1>4. p \in 1..Len(rx) /\ rx[p].f \in kinds
  BY <1>3 DEF Where
<1>. HIDE DEF p
<1>5. rx' = SubSeq(rx, p + 1, Len(rx))
  BY DEF Find, p
<1>6. \A j \in (p + 1)..Len(rx) : rx[j] \in FrameSet
  BY <1>1, <1>4
<1>7. /\ rx' \in Seq(FrameSet)
      /\ Len(rx') = IF p + 1 <= Len(rx) THEN Len(rx) - (p + 1) + 1 ELSE 0
      /\ \A j \in 1..(Len(rx) - (p + 1) + 1) : rx'[j] = rx[(p + 1) + j - 1]
  BY <1>1, <1>4, <1>5, <1>6, SubSeqProperties
<1>8. Len(rx') = Len(rx) - p
  BY <1>1, <1>4, <1>7
<1>9. \A j \in 1..Len(rx') : rx'[j] = rx[j + p]
  <2>. SUFFICES ASSUME NEW j \in 1..Len(rx') PROVE rx'[j] = rx[j + p]
    OBVIOUS
  <2>1. j \in 1..(Len(rx) - (p + 1) + 1) /\ (p + 1) + j - 1 = j + p
    BY <1>1, <1>4, <1>8
  <2>. QED  BY <1>7, <2>1
<1>. QED  BY <1>4, <1>7, <1>8, <1>9 DEF Positions, p

(* The sketch reads: what is left is the end of what was there. *)
Left ==
  /\ rx' \in Seq(FrameSet) /\ Len(rx') <= Len(rx)
  /\ \A j \in 1..Len(rx') : rx'[j] = rx[j + (Len(rx) - Len(rx'))]

LEMMA LeftFrames ==
  ASSUME rx \in Seq(FrameSet), Left
  PROVE  Frames' \subseteq Frames
<1>1. Len(rx) \in Nat /\ Len(rx') \in Nat
  BY LenProperties DEF Left
<1>2. ASSUME NEW j \in 1..Len(rx') PROVE rx'[j] \in Frames
  <2>1. j + (Len(rx) - Len(rx')) \in 1..Len(rx)
    BY <1>1 DEF Left
  <2>. QED  BY <2>1 DEF Left, Frames, Positions
<1>. QED  BY <1>2 DEF Frames, Positions

LEMMA LeftByFind ==
  ASSUME rx \in Seq(FrameSet), NEW kinds, Find(kinds)
  PROVE  Left
<1>. DEFINE p == First(kinds)
<1>1. /\ rx' \in Seq(FrameSet) /\ p \in 1..Len(rx) /\ Len(rx') = Len(rx) - p
      /\ \A j \in 1..Len(rx') : rx'[j] = rx[j + p]
  BY FoundFrames DEF Positions
<1>. HIDE DEF p
<1>2. Len(rx) \in Nat /\ Len(rx') \in Nat
  BY <1>1, LenProperties
<1>3. Len(rx) - Len(rx') = p /\ Len(rx') <= Len(rx)
  BY <1>1, <1>2
<1>. QED  BY <1>1, <1>3 DEF Left

LEMMA LeftNothing ==
  ASSUME rx \in Seq(FrameSet), rx' = <<>>
  PROVE  Left /\ Len(rx') = 0 /\ Frames' = {}
<1>1. Len(rx) \in Nat /\ rx' \in Seq(FrameSet) /\ Len(rx') = 0
  BY LenProperties, EmptySeq
<1>2. Positions' = {}
  BY <1>1 DEF Positions
<1>3. Frames' = {}
  BY <1>2 DEF Frames
<1>. QED  BY <1>1, <1>3 DEF Left

LEMMA LeftAll ==
  ASSUME rx \in Seq(FrameSet), UNCHANGED rx
  PROVE  Left
<1>1. Len(rx) \in Nat
  BY LenProperties
<1>2. \A j \in 1..Len(rx) : j + (Len(rx) - Len(rx)) = j
  BY <1>1
<1>. QED  BY <1>1, <1>2 DEF Left

LEMMA LeftTail ==
  ASSUME rx \in Seq(FrameSet), rx # <<>>, rx' = Tail(rx)
  PROVE  /\ Left /\ Len(rx') = Len(rx) - 1 /\ Len(rx) >= 1
         /\ Head(rx) = rx[1] /\ Head(rx) \in Frames
         /\ \A j \in 1..Len(rx') : rx'[j] = rx[j + 1]
<1>1. /\ Len(rx) \in Nat /\ Len(rx) # 0 /\ Len(rx') = Len(rx) - 1 /\ rx' \in Seq(FrameSet)
      /\ \A j \in 1..Len(rx') : rx'[j] = rx[j + 1]
  BY LenProperties, EmptySeq, HeadTailProperties
<1>2. Len(rx) - Len(rx') = 1 /\ 1 \in 1..Len(rx)
  BY <1>1
<1>3. Head(rx) = rx[1]
  BY <1>1, <1>2
<1>. QED  BY <1>1, <1>2, <1>3 DEF Left, Frames, Positions

LEMMA SentFrames ==
  ASSUME rx \in Seq(FrameSet), NEW f, NEW n, Frame(f, n) \in FrameSet, Send(f, n)
  PROVE  /\ rx' \in Seq(FrameSet) /\ Len(rx') = Len(rx) + 1
         /\ \A j \in 1..Len(rx) : rx'[j] = rx[j]
         /\ rx'[Len(rx')] = Frame(f, n)
         /\ Frames' = Frames \cup {Frame(f, n)}
         /\ rx = <<>> \/ pc \in {"delay", "end"}
<1>1. /\ rx' \in Seq(FrameSet) /\ Len(rx') = Len(rx) + 1 /\ Len(rx) \in Nat
      /\ \A j \in 1..Len(rx) : rx'[j] = rx[j]
      /\ rx'[Len(rx) + 1] = Frame(f, n)
  BY AppendProperties, LenProperties DEF Send
<1>2. 1..Len(rx') = (1..Len(rx)) \cup {Len(rx) + 1}
  BY <1>1
<1>3. Frames' = Frames \cup {Frame(f, n)}
  BY <1>1, <1>2 DEF Frames, Positions
<1>. QED  BY <1>1, <1>3 DEF Send, Room

LEMMA WrittenCmds ==
  ASSUME cmds \in Seq(CmdSet), NEW c, [c |-> c, no |-> no] \in CmdSet, Write(c)
  PROVE  /\ cmds' \in Seq(CmdSet) /\ Len(cmds') = Len(cmds) + 1 /\ Len(cmds) \in Nat
         /\ \A j \in 1..Len(cmds) : cmds'[j] = cmds[j]
         /\ cmds'[Len(cmds')] = [c |-> c, no |-> no]
         /\ Cmds' = Cmds \cup {[c |-> c, no |-> no]}
         /\ cmds' # <<>> /\ (cmds = <<>> => cmds' = <<[c |-> c, no |-> no]>>)
<1>1. /\ cmds' \in Seq(CmdSet) /\ Len(cmds') = Len(cmds) + 1 /\ Len(cmds) \in Nat
      /\ \A j \in 1..Len(cmds) : cmds'[j] = cmds[j]
      /\ cmds'[Len(cmds) + 1] = [c |-> c, no |-> no]
  BY AppendProperties, LenProperties DEF Write
<1>2. 1..Len(cmds') = (1..Len(cmds)) \cup {Len(cmds) + 1}
  BY <1>1
<1>3. Cmds' = Cmds \cup {[c |-> c, no |-> no]}
  BY <1>1, <1>2 DEF Cmds
<1>4. cmds' # <<>>
  BY <1>1, EmptySeq
<1>5. cmds = <<>> => cmds' = <<[c |-> c, no |-> no]>>
  BY DEF Write
<1>. QED  BY <1>1, <1>3, <1>4, <1>5

LEMMA TakenCmds ==
  ASSUME cmds \in Seq(CmdSet), cmds # <<>>, cmds' = Tail(cmds)
  PROVE  /\ cmds' \in Seq(CmdSet) /\ Len(cmds') = Len(cmds) - 1 /\ Len(cmds) \in Nat
         /\ Len(cmds) >= 1
         /\ \A j \in 1..Len(cmds') : cmds'[j] = cmds[j + 1]
         /\ Head(cmds) = cmds[1] /\ Head(cmds) \in Cmds /\ Head(cmds) \in CmdSet
         /\ Cmds' \subseteq Cmds
         /\ Len(cmds) = 1 => cmds' = <<>>
<1>1. /\ Len(cmds) \in Nat /\ Len(cmds) # 0 /\ Len(cmds') = Len(cmds) - 1
      /\ cmds' \in Seq(CmdSet) /\ Head(cmds) \in CmdSet
      /\ \A j \in 1..Len(cmds') : cmds'[j] = cmds[j + 1]
  BY LenProperties, EmptySeq, HeadTailProperties
<1>2. 1 \in 1..Len(cmds) /\ \A j \in 1..Len(cmds') : j + 1 \in 1..Len(cmds)
  BY <1>1
<1>3. Head(cmds) = cmds[1]
  BY <1>1, <1>2
<1>4. Len(cmds) = 1 => cmds' = <<>>
  <2>. SUFFICES ASSUME Len(cmds) = 1 PROVE cmds' = <<>>
    OBVIOUS
  <2>1. Len(cmds') = 0
    BY <1>1
  <2>. QED  BY <1>1, <2>1, EmptySeq
<1>. QED  BY <1>1, <1>2, <1>3, <1>4 DEF Cmds

-----------------------------------------------------------------------------
(* What the invariant says of the values.                                  *)
Values ==
  /\ rx \in Seq(FrameSet) /\ Len(rx) \in Nat /\ Frames \subseteq FrameSet
  /\ cmds \in Seq(CmdSet) /\ Len(cmds) \in Nat /\ Cmds \subseteq CmdSet
  /\ no \in Nat /\ no <= Calls /\ got \in Nat /\ mode.no \in 0..Calls
  /\ \A r \in Frames : r.no \in 0..Calls
  /\ \A d \in Cmds : d.no \in 0..Calls

LEMMA InvValues ==
  ASSUME SpeechTypeOK
  PROVE  Values
<1>1. rx \in Seq(FrameSet) /\ cmds \in Seq(CmdSet)
  BY DEF SpeechTypeOK, FrameSet, CmdSet
<1>2. /\ Len(rx) \in Nat /\ \A j \in 1..Len(rx) : rx[j] \in FrameSet
      /\ Len(cmds) \in Nat /\ \A j \in 1..Len(cmds) : cmds[j] \in CmdSet
  BY <1>1, ElementOfSeq, LenProperties
<1>3. Frames \subseteq FrameSet /\ Cmds \subseteq CmdSet
  BY <1>2 DEF Frames, Positions, Cmds
<1>4. (\A r \in FrameSet : r.no \in 0..Calls) /\ (\A d \in CmdSet : d.no \in 0..Calls)
  BY DEF FrameSet, CmdSet
<1>5. mode.no \in 0..Calls
  BY SpeechAssumption DEF SpeechTypeOK, Mode, Idle
<1>6. no \in Nat /\ no <= Calls /\ got \in Nat
  BY SpeechAssumption DEF SpeechTypeOK
<1>. QED  BY <1>1, <1>2, <1>3, <1>4, <1>5, <1>6 DEF Values

(* Steps by which the sketch reads, or does nothing to the line.           *)
Reading ==
  \/ Call \/ Start_ASR_rec
  \/ QueryAck \/ QueryIdle \/ QueryWait \/ QueryReset
  \/ ResetCheck \/ ReadyWait \/ ResetAgain
  \/ ListenAck \/ Result \/ ResultWait
  \/ SayAck \/ SpeechDone \/ SpeechWait
  \/ Await \/ GiveUp \/ Delay \/ WenResult \/ WenNothing

Writing == Query \/ Listen \/ Say \/ Inquire \/ WenStart

LEMMA Steps ==
  ASSUME SpeechNext
  PROVE  Reading \/ Writing \/ ResetCom \/ Module
BY DEF SpeechNext, Sketch, Reading, Writing

LEMMA ReadingLeaves ==
  ASSUME Values, Reading
  PROVE  Left /\ UNCHANGED <<cmds, module>>
<1>. rx \in Seq(FrameSet)
  BY DEF Values
<1>1. CASE Call \/ Start_ASR_rec \/ GiveUp \/ Delay \/ WenNothing
  <2>1. UNCHANGED <<rx, cmds, module>>
    BY <1>1 DEF Call, Start_ASR_rec, GiveUp, Delay, WenNothing
  <2>. QED  BY <2>1, LeftAll
<1>2. CASE QueryAck \/ ListenAck \/ SayAck
  <2>1. rx' = <<>> /\ UNCHANGED <<cmds, module>>
    BY <1>2 DEF QueryAck, ListenAck, SayAck, SkipAcks
  <2>. QED  BY <2>1, LeftNothing
<1>3. CASE QueryWait \/ QueryReset \/ ReadyWait \/ ResetAgain \/ ResultWait \/ SpeechWait
  <2>1. rx' = <<>> /\ UNCHANGED <<cmds, module>>
    BY <1>3 DEF QueryWait, QueryReset, ReadyWait, ResetAgain, ResultWait, SpeechWait, Discard
  <2>. QED  BY <2>1, LeftNothing
<1>4. CASE QueryIdle \/ ResetCheck \/ Result \/ SpeechDone
  <2>1. (Find({"idle"}) \/ Find({"ready"}) \/ Find(Known)) /\ UNCHANGED <<cmds, module>>
    BY <1>4 DEF QueryIdle, IdleFound, ResetCheck, ReadyThen, Result, SpeechDone
  <2>. QED  BY <2>1, LeftByFind
<1>5. CASE Await \/ WenResult
  <2>1. rx # <<>> /\ rx' = Tail(rx) /\ UNCHANGED <<cmds, module>>
    BY <1>5 DEF Await, WenResult
  <2>. QED  BY <2>1, LeftTail
<1>. QED  BY <1>1, <1>2, <1>3, <1>4, <1>5 DEF Reading

LEMMA ReadingFrames ==
  ASSUME Values, Reading
  PROVE  /\ rx' \in Seq(FrameSet) /\ Len(rx') \in Nat /\ Len(rx') <= Len(rx)
         /\ Frames' \subseteq Frames /\ Cmds' = Cmds
         /\ UNCHANGED <<cmds, mode, owes>>
<1>1. Left /\ UNCHANGED <<cmds, mode, owes>>
  BY ReadingLeaves DEF module
<1>2. Frames' \subseteq Frames
  BY <1>1, LeftFrames DEF Values
<1>3. Len(rx') \in Nat
  BY <1>1, LenProperties DEF Left
<1>. QED  BY <1>1, <1>2, <1>3 DEF Left, Cmds

LEMMA WritingCmds ==
  ASSUME Values, Writing
  PROVE  \E c \in {"query", "listen", "speak"} :
           /\ Write(c)
           /\ c = "listen" => pc \in {"start", "wenstart"}
           /\ pc \in {"start", "wenstart"} => c = "listen"
           /\ cmds' \in Seq(CmdSet) /\ Len(cmds') = Len(cmds) + 1
           /\ \A j \in 1..Len(cmds) : cmds'[j] = cmds[j]
           /\ cmds'[Len(cmds')] = [c |-> c, no |-> no]
           /\ Cmds' = Cmds \cup {[c |-> c, no |-> no]}
           /\ cmds' # <<>> /\ (cmds = <<>> => cmds' = <<[c |-> c, no |-> no]>>)
           /\ UNCHANGED <<mode, owes, rx, kind, no, got, history>> /\ Frames' = Frames
<1>1. PICK c \in {"query", "listen", "speak"} :
        /\ Write(c)
        /\ c = "listen" => pc \in {"start", "wenstart"}
        /\ pc \in {"start", "wenstart"} => c = "listen"
        /\ UNCHANGED <<mode, owes, rx, kind, no, got, history>>
  BY DEF Writing, Query, Listen, Say, Inquire, WenStart, Command, module
<1>2. [c |-> c, no |-> no] \in CmdSet /\ cmds \in Seq(CmdSet)
  BY DEF CmdSet, Values
<1>3. /\ cmds' \in Seq(CmdSet) /\ Len(cmds') = Len(cmds) + 1
      /\ \A j \in 1..Len(cmds) : cmds'[j] = cmds[j]
      /\ cmds'[Len(cmds')] = [c |-> c, no |-> no]
      /\ Cmds' = Cmds \cup {[c |-> c, no |-> no]}
      /\ cmds' # <<>> /\ (cmds = <<>> => cmds' = <<[c |-> c, no |-> no]>>)
  BY <1>1, <1>2, WrittenCmds
<1>4. Frames' = Frames
  BY <1>1 DEF Frames, Positions
<1>. QED  BY <1>1, <1>3, <1>4

(* The module takes a command, or says something.                         *)
Received(f, n) ==
  /\ rx' \in Seq(FrameSet) /\ Len(rx') = Len(rx) + 1
  /\ \A j \in 1..Len(rx) : rx'[j] = rx[j]
  /\ rx'[Len(rx')] = Frame(f, n)
  /\ Frames' = Frames \cup {Frame(f, n)}
  /\ rx = <<>> \/ pc \in {"delay", "end"}

LEMMA TakeEffect ==
  ASSUME Values, Take
  PROVE  /\ cmds # <<>> /\ ~owes
         /\ cmds' \in Seq(CmdSet) /\ Len(cmds') = Len(cmds) - 1 /\ Len(cmds) >= 1
         /\ \A j \in 1..Len(cmds') : cmds'[j] = cmds[j + 1]
         /\ cmds[1] \in Cmds /\ cmds[1] \in CmdSet /\ Cmds' \subseteq Cmds
         /\ Len(cmds) = 1 => cmds' = <<>>
         /\ owes' = (cmds[1].c = "query")
         /\ mode' = CASE cmds[1].c = "speak"  -> Mode("speaking", 0)
                      [] cmds[1].c = "listen" -> Mode("listening", cmds[1].no)
                      [] OTHER -> mode
         /\ \E f \in {"ack", "ready"} :
              Received(f, 0) /\ (f = "ready" <=> cmds[1].c = "boot")
         /\ UNCHANGED <<pc, kind, no, got, late, reset, missed>>
<1>1. /\ cmds \in Seq(CmdSet) /\ cmds # <<>> /\ cmds' = Tail(cmds)
      /\ rx \in Seq(FrameSet)
  BY DEF Values, Take
<1>2. /\ cmds' \in Seq(CmdSet) /\ Len(cmds') = Len(cmds) - 1 /\ Len(cmds) >= 1
      /\ \A j \in 1..Len(cmds') : cmds'[j] = cmds[j + 1]
      /\ Head(cmds) = cmds[1] /\ cmds[1] \in Cmds /\ cmds[1] \in CmdSet
      /\ Cmds' \subseteq Cmds /\ (Len(cmds) = 1 => cmds' = <<>>)
  BY <1>1, TakenCmds
<1>3. ~owes /\ UNCHANGED <<pc, kind, no, got, late, reset, missed>>
  BY DEF Take, caller, history
<1>4. owes' = (cmds[1].c = "query")
  BY <1>2, Zenon DEF Take
<1>5. mode' = CASE cmds[1].c = "speak"  -> Mode("speaking", 0)
                [] cmds[1].c = "listen" -> Mode("listening", cmds[1].no)
                [] OTHER -> mode
  <2>1. mode' = CASE Head(cmds).c = "speak"  -> Mode("speaking", 0)
                  [] Head(cmds).c = "listen" -> Mode("listening", Head(cmds).no)
                  [] OTHER -> mode
    BY DEF Take
  <2>. QED  BY <1>2, <2>1
<1>6. PICK f \in {"ack", "ready"} : Send(f, 0) /\ (f = "ready" <=> cmds[1].c = "boot")
  BY <1>2 DEF Take
<1>7. Frame(f, 0) \in FrameSet
  BY SpeechAssumption DEF Frame, FrameSet
<1>8. Received(f, 0)
  BY <1>1, <1>6, <1>7, SentFrames DEF Received
<1>. QED  BY <1>1, <1>2, <1>3, <1>4, <1>5, <1>6, <1>8

LEMMA SaysEffect ==
  ASSUME Values, Answer \/ Spoken \/ Heard
  PROVE  /\ \E f \in {"idle", "busy"} \cup Results, n \in 0..Calls :
              /\ Received(f, n)
              /\ Answer => n = 0 /\ f = IF mode = Idle THEN "idle" ELSE "busy"
              /\ Spoken => n = 0 /\ f = "idle"
              /\ Heard => n = mode.no /\ f \in Results
         /\ Answer => owes /\ ~owes' /\ mode' = mode
         /\ Spoken => ~owes /\ mode.is = "speaking" /\ mode' = Idle
         /\ Heard => ~owes /\ mode.is = "listening" /\ mode' = Idle
         /\ Spoken \/ Heard => owes' = owes
         /\ UNCHANGED <<cmds, pc, kind, no, got, late, reset, missed>> /\ Cmds' = Cmds
<1>1. rx \in Seq(FrameSet) /\ mode.no \in 0..Calls
  BY DEF Values
<1>2. /\ Answer => owes /\ ~owes' /\ mode' = mode
      /\ Spoken => ~owes /\ mode.is = "speaking" /\ mode' = Idle
      /\ Heard => ~owes /\ mode.is = "listening" /\ mode' = Idle
      /\ Spoken \/ Heard => owes' = owes
      /\ UNCHANGED <<cmds, pc, kind, no, got, late, reset, missed>>
  BY DEF Answer, Spoken, Heard, caller, history
<1>3. Cmds' = Cmds
  BY <1>2 DEF Cmds
<1>4. PICK f \in {"idle", "busy"} \cup Results, n \in 0..Calls :
        /\ Send(f, n)
        /\ Answer => n = 0 /\ f = IF mode = Idle THEN "idle" ELSE "busy"
        /\ Spoken => n = 0 /\ f = "idle"
        /\ Heard => n = mode.no /\ f \in Results
  <2>1. CASE Answer
    <3>1. Send(IF mode = Idle THEN "idle" ELSE "busy", 0) /\ ~Spoken /\ ~Heard
      BY <1>2, <2>1 DEF Answer
    <3>. QED  BY <3>1, SpeechAssumption
  <2>2. CASE Spoken
    <3>1. Send("idle", 0) /\ ~Answer /\ ~Heard
      BY <1>2, <2>2 DEF Spoken
    <3>. QED  BY <3>1, SpeechAssumption
  <2>3. CASE Heard
    <3>1. PICK r \in Results : Send(r, mode.no)
      BY <2>3 DEF Heard
    <3>2. ~Answer /\ ~Spoken
      BY <1>2, <2>3
    <3>. QED  BY <1>1, <3>1, <3>2
  <2>. QED  BY <2>1, <2>2, <2>3
<1>5. Frame(f, n) \in FrameSet
  BY DEF Frame, FrameSet
<1>6. Received(f, n)
  BY <1>1, <1>4, <1>5, SentFrames DEF Received
<1>. QED  BY <1>2, <1>3, <1>4, <1>6

-----------------------------------------------------------------------------
(* Types.                                                                  *)
Pcs == {"end", "query", "queryack", "idle", "reset", "ready", "start",
        "listenack", "result", "say", "sayack", "spoken", "inquire", "ack1",
        "status", "wenstart", "ack2", "delay", "heard"}
Modes == {Idle} \cup {Mode("speaking", 0)} \cup {Mode("listening", n) : n \in 1..Calls}

LEMMA ControlStep ==
  ASSUME pc \in Pcs, kind \in Kinds \cup {"rec"}, no \in 0..Calls, SpeechNext
  PROVE  /\ pc' \in Pcs /\ kind' \in Kinds \cup {"rec"} /\ no' \in 0..Calls
         /\ no' = IF Call THEN no + 1 ELSE no
<1>1. CASE Call
  <2>1. kind' \in Kinds /\ pc' \in {"inquire", "say", "query"} /\ no' = no + 1 /\ no < Calls
    BY <1>1 DEF Call, Goto, Entry
  <2>. QED  BY <1>1, <2>1, SpeechAssumption DEF Pcs
<1>2. CASE Start_ASR_rec
  <2>1. pc' = "result" /\ kind' = "rec" /\ no' = no /\ kind = "send"
    BY <1>2 DEF Start_ASR_rec, Goto
  <2>. QED  BY <2>1 DEF Pcs, Call
<1>3. CASE Sketch \/ Module
  <2>1. no' = no /\ kind' = kind /\ pc' \in Pcs
    BY <1>3 DEF Pcs, Sketch, Module, Query, QueryAck, QueryIdle, QueryWait, QueryReset, ResetCom,
         ResetCheck, ReadyWait, ResetAgain, Listen, ListenAck, Result, ResultWait, Say, SayAck,
         SpeechDone, SpeechWait, Inquire, Await, GiveUp, WenStart, Delay, WenResult, WenNothing,
         Take, Answer, Spoken, Heard, Command, SkipAcks, IdleFound, ReadyThen, caller, Goto,
         Waits, Then
  <2>2. ~Call
    <3>1. Call => no' = no + 1
      BY DEF Call
    <3>. QED  BY <2>1, <3>1
  <2>. QED  BY <2>1, <2>2
<1>. QED  BY <1>1, <1>2, <1>3 DEF SpeechNext

LEMMA FlagsStep ==
  ASSUME late \in BOOLEAN, reset \in BOOLEAN, missed \in BOOLEAN, owes \in BOOLEAN, SpeechNext
  PROVE  /\ late' \in BOOLEAN /\ reset' \in BOOLEAN /\ missed' \in BOOLEAN /\ owes' \in BOOLEAN
         /\ late' = late \/ (GiveUp /\ late' = TRUE)
         /\ reset' = reset \/ (QueryReset /\ reset' = TRUE)
         /\ missed' = missed \/ ResultWait
         /\ late => late'
<1>1. /\ late' = late \/ (GiveUp /\ late' = TRUE)
      /\ reset' = reset \/ (QueryReset /\ reset' = TRUE)
      /\ missed' = missed \/ ResultWait
      /\ owes' = owes \/ owes' = FALSE \/ Take
  <2>. USE DEF Call, Start_ASR_rec, Query, QueryAck, QueryIdle, QueryReset, QueryWait, ResetCom,
         ResetCheck, ReadyWait, ResetAgain, Listen, ListenAck, Result, Say, SayAck, SpeechDone,
         SpeechWait, Inquire, Await, GiveUp, WenStart, Delay, WenResult, WenNothing, Answer, Spoken,
         Heard, Command, SkipAcks, IdleFound, ReadyThen, history, module
  <2>1. CASE ResultWait
    BY <2>1, Zenon DEF ResultWait
  <2>2. CASE Take
    BY <2>2, Zenon DEF Take
  <2>3. CASE ~ResultWait /\ ~Take
    <3>1. late' = late \/ (GiveUp /\ late' = TRUE)
      BY <2>3, Zenon DEF SpeechNext, Sketch, Module
    <3>2. reset' = reset \/ (QueryReset /\ reset' = TRUE)
      BY <2>3, Zenon DEF SpeechNext, Sketch, Module
    <3>3. missed' = missed
      BY <2>3, Zenon DEF SpeechNext, Sketch, Module
    <3>4. owes' = owes \/ owes' = FALSE
      BY <2>3, Zenon DEF SpeechNext, Sketch, Module
    <3>. QED  BY <3>1, <3>2, <3>3, <3>4
  <2>. QED  BY <2>1, <2>2, <2>3
<1>2. (ResultWait => missed' \in BOOLEAN) /\ (Take => owes' \in BOOLEAN)
  BY DEF ResultWait, Take
<1>3. late' \in BOOLEAN /\ (late => late')
  <2>1. late' = late \/ late' = TRUE
    BY <1>1
  <2>. QED  BY <2>1, Zenon
<1>4. reset' \in BOOLEAN
  BY <1>1, Zenon
<1>5. missed' \in BOOLEAN /\ owes' \in BOOLEAN
  BY <1>1, <1>2, Zenon
<1>. QED  BY <1>1, <1>3, <1>4, <1>5, Zenon

(* The word a call returns is one of the frames it had.                    *)
LEMMA GotStep ==
  ASSUME Values, SpeechNext
  PROVE  \/ got' = 0
         \/ got' = got /\ no' = no
         \/ /\ pc \in {"result", "heard"} /\ no' = no
            /\ \E r \in Frames : r.f \in Results /\ got' = r.no
<1>1. CASE Call \/ Start_ASR_rec
  BY <1>1 DEF Call, Start_ASR_rec
<1>2. CASE Result
  <2>. DEFINE r == rx[First(Known)]
  <2>1. Find(Known) /\ rx \in Seq(FrameSet)
    BY <1>2 DEF Result, Values
  <2>2. r \in Frames /\ r.f \in Known
    BY <2>1, FoundFrames DEF Frames
  <2>3. got' = 0 \/ got' = r.no
    BY <1>2 DEF Result
  <2>4. pc = "result" /\ no' = no /\ Known \subseteq Results
    BY <1>2 DEF Result, Known, Results
  <2>. QED  BY <2>2, <2>3, <2>4
<1>3. CASE WenResult
  <2>1. rx # <<>> /\ rx' = Tail(rx) /\ rx \in Seq(FrameSet)
    BY <1>3 DEF WenResult, Values
  <2>2. Head(rx) \in Frames
    BY <2>1, LeftTail
  <2>3. got' = 0 \/ (got' = Head(rx).no /\ Head(rx).f = "word")
    BY <1>3 DEF WenResult
  <2>4. pc = "heard" /\ no' = no /\ "word" \in Results
    BY <1>3 DEF WenResult, Results
  <2>. QED  BY <2>2, <2>3, <2>4
<1>4. CASE (Sketch /\ ~Result /\ ~WenResult) \/ Module
  <2>1. got' = got /\ no' = no
    BY <1>4 DEF Sketch, Module, Query, QueryAck, QueryIdle, QueryWait, QueryReset, ResetCom,
         ResetCheck, ReadyWait, ResetAgain, Listen, ListenAck, ResultWait, Say, SayAck,
         SpeechDone, SpeechWait, Inquire, Await, GiveUp, WenStart, Delay, WenNothing,
         Take, Answer, Spoken, Heard, Command, SkipAcks, IdleFound, ReadyThen, caller
  <2>. QED  BY <2>1
<1>. QED  BY <1>1, <1>2, <1>3, <1>4 DEF SpeechNext

LEMMA TypesStep ==
  ASSUME SpeechInv, SpeechNext
  PROVE  SpeechTypeOK'
<1>1. Values /\ SpeechTypeOK /\ Places /\ Numbers /\ AfterReset /\ InStep
  BY InvValues DEF SpeechInv
<1>2. /\ pc \in Pcs /\ kind \in Kinds \cup {"rec"} /\ no \in 0..Calls /\ got \in 0..no
      /\ mode \in Modes
  BY <1>1 DEF SpeechTypeOK, Pcs, Modes
<1>3. late \in BOOLEAN /\ reset \in BOOLEAN /\ missed \in BOOLEAN /\ owes \in BOOLEAN
  BY <1>1, Zenon DEF SpeechTypeOK
<1>4. pc' \in Pcs /\ kind' \in Kinds \cup {"rec"} /\ no' \in 0..Calls
  BY <1>2, ControlStep
<1>5. /\ late' \in BOOLEAN /\ reset' \in BOOLEAN /\ missed' \in BOOLEAN /\ owes' \in BOOLEAN
      /\ late => late'
  BY <1>3, FlagsStep
<1>6. got' \in 0..no'
  <2>1. \A r \in Frames : r.no \in 0..no
    BY <1>1 DEF Numbers, Values
  <2>2. CASE got' = 0
    BY <1>4, <2>2, SpeechAssumption
  <2>. QED  BY <1>1, <1>2, <2>1, <2>2, GotStep
<1>7. rx' \in Seq(FrameSet)
  <2>1. CASE Reading
    BY <1>1, <2>1, ReadingFrames
  <2>2. CASE Writing \/ ResetCom
    <3>1. rx' = rx
      BY <1>1, <2>2, WritingCmds DEF ResetCom
    <3>. QED  BY <1>1, <3>1 DEF Values
  <2>3. CASE Module
    BY <1>1, <2>3, TakeEffect, SaysEffect DEF Module, Received
  <2>. QED  BY <2>1, <2>2, <2>3, Steps
<1>8. mode' \in Modes
  <2>1. CASE Reading \/ Writing \/ Answer \/ Spoken \/ Heard
    <3>1. mode' = mode \/ mode' = Idle
      BY <1>1, <2>1, ReadingFrames, WritingCmds, SaysEffect
    <3>. QED  BY <1>2, <3>1 DEF Modes
  <2>2. CASE ResetCom
    BY <2>2 DEF ResetCom, Modes
  <2>3. CASE Take
    <3>1. cmds[1] \in Cmds /\ (cmds[1].c = "listen" => cmds[1].no > 0) /\ cmds[1].no \in 0..Calls
      BY <1>1, <2>3, TakeEffect DEF Numbers, Values
    <3>2. \/ mode' = Mode("speaking", 0) \/ mode' = mode
          \/ cmds[1].c = "listen" /\ mode' = Mode("listening", cmds[1].no)
      BY <1>1, <2>3, TakeEffect
    <3>3. cmds[1].c = "listen" => cmds[1].no \in 1..Calls
      BY <3>1, SpeechAssumption
    <3>. QED  BY <1>2, <3>2, <3>3 DEF Modes
  <2>. QED  BY <2>1, <2>2, <2>3, Steps DEF Module
<1>9. cmds' \in Seq(CmdSet) /\ (~late' => Len(cmds') <= 1)
  <2>1. CASE Reading \/ Answer \/ Spoken \/ Heard
    <3>1. cmds' = cmds
      BY <1>1, <2>1, ReadingFrames, SaysEffect
    <3>. QED  BY <1>1, <1>5, <3>1 DEF Values, SpeechTypeOK
  <2>2. CASE Writing
    <3>1. ~late => cmds = <<>>
      <4>1. pc \in {"query", "listen", "say", "inquire", "start", "wenstart"}
        BY <2>2 DEF Writing, Query, Listen, Say, Inquire, WenStart, Command
      <4>2. ~reset
        BY <1>1, <4>1 DEF AfterReset
      <4>. QED  BY <1>1, <4>1, <4>2, <2>2
               DEF InStep, AtRest, Quiet, Writing, Query, Listen, Say, Inquire, WenStart, Command
    <3>2. cmds' \in Seq(CmdSet) /\ Len(cmds') = Len(cmds) + 1
      BY <1>1, <2>2, WritingCmds
    <3>3. ~late => Len(cmds) = 0
      BY <1>1, <3>1, EmptySeq
    <3>. QED  BY <1>5, <3>2, <3>3
  <2>3. CASE ResetCom
    <3>1. cmds' = <<[c |-> "boot", no |-> 0]>> /\ [c |-> "boot", no |-> 0] \in CmdSet
      BY <2>3, SpeechAssumption DEF ResetCom, CmdSet
    <3>. QED  BY <3>1
  <2>4. CASE Take
    <3>1. cmds' \in Seq(CmdSet) /\ Len(cmds') = Len(cmds) - 1 /\ Len(cmds) \in Nat
      BY <1>1, <2>4, TakeEffect DEF Values
    <3>. QED  BY <1>1, <1>5, <3>1 DEF SpeechTypeOK
  <2>. QED  BY <2>1, <2>2, <2>3, <2>4, Steps DEF Module
<1>. QED
  BY <1>4, <1>5, <1>6, <1>7, <1>8, <1>9 DEF SpeechTypeOK, Pcs, Modes, FrameSet, CmdSet

-----------------------------------------------------------------------------
(* Where a call may be, and whose frames and commands there are.           *)
LEMMA PlacesStep ==
  ASSUME SpeechInv, SpeechNext
  PROVE  Places'
<1>1. SpeechTypeOK /\ Values /\ Places
  BY InvValues DEF SpeechInv
<1>2. CASE Call
  <2>1. /\ kind' \in Kinds /\ got' = 0 /\ no' = no + 1 /\ no \in Nat
        /\ pc' = CASE kind' = "wen" -> "inquire" [] kind' = "say" -> "say" [] OTHER -> "query"
    BY <1>1, <1>2 DEF Call, Goto, Entry, Values
  <2>. QED  BY <2>1 DEF Places, Kinds
<1>3. CASE Start_ASR_rec
  BY <1>1, <1>3 DEF Start_ASR_rec, Places, Goto
<1>4. CASE Query \/ QueryAck \/ QueryIdle \/ QueryWait \/ QueryReset \/ ResetCom \/ ResetCheck
           \/ ReadyWait \/ ResetAgain \/ Listen
  BY <1>1, <1>4 DEF Places, Query, QueryAck, QueryIdle, QueryWait, QueryReset, ResetCom,
         ResetCheck, ReadyWait, ResetAgain, Listen, Command, SkipAcks, IdleFound, ReadyThen,
         caller, Goto
<1>5. CASE ListenAck \/ ResultWait \/ Say \/ SayAck \/ SpeechDone \/ SpeechWait
           \/ Inquire \/ GiveUp \/ WenStart \/ Delay \/ WenNothing
  BY <1>1, <1>5 DEF Places, ListenAck, ResultWait, Say, SayAck, Kinds, SpeechTypeOK,
         SpeechDone, SpeechWait, Inquire, GiveUp, WenStart, Delay, WenNothing,
         Command, SkipAcks, caller, Goto, Waits
<1>6. CASE Result
  <2>1. pc = "result" /\ kind' = kind /\ no' = no /\ pc' \in {"say", "end"}
        /\ (pc' = "say" => kind = "asr")
    BY <1>6 DEF Result, Goto
  <2>. QED  BY <1>1, <2>1 DEF Places
<1>7. CASE WenResult
  <2>1. pc = "heard" /\ kind' = kind /\ no' = no /\ pc' \in {"say", "end"}
    BY <1>7 DEF WenResult, Goto
  <2>. QED  BY <1>1, <2>1 DEF Places
<1>8. CASE Await
  <2>1. pc \in {"ack1", "status", "ack2"} /\ kind' = kind /\ no' = no /\ got' = got
        /\ pc' \in {"ack1", "status", "ack2", "wenstart", "delay"}
    BY <1>8 DEF Await, Goto, Waits, Then
  <2>. QED  BY <1>1, <2>1 DEF Places
<1>9. CASE Module
  <2>1. UNCHANGED <<pc, kind, no, got>>
    BY <1>9 DEF Module, Take, Answer, Spoken, Heard, caller
  <2>. QED  BY <1>1, <2>1 DEF Places
<1>. QED
  BY <1>2, <1>3, <1>4, <1>5, <1>6, <1>7, <1>8, <1>9 DEF SpeechNext, Sketch

LEMMA NumbersStep ==
  ASSUME SpeechInv, SpeechNext
  PROVE  Numbers'
<1>1. SpeechTypeOK /\ Values /\ Places /\ Numbers /\ AfterReset
  BY InvValues DEF SpeechInv
<1>. DEFINE Before == {"query", "queryack", "idle", "start"}
<1>2. CASE Call
  <2>1. /\ no' = no + 1 /\ no \in Nat /\ mode.no \in Nat
        /\ (\A r \in Frames : r.no \in Nat) /\ (\A d \in Cmds : d.no \in Nat)
    BY <1>1, <1>2 DEF Call, Values
  <2>2. Frames' \subseteq Frames /\ Cmds' = Cmds /\ mode' = mode
    BY <1>1, <1>2, ReadingFrames DEF Reading
  <2>. QED  BY <1>1, <2>1, <2>2 DEF Numbers
<1>3. CASE ResetCheck
  <2>1. Find({"ready"}) /\ pc = "ready" /\ no' = no
    BY <1>3 DEF ResetCheck, ReadyThen
  <2>2. reset /\ Len(rx) <= 1 /\ mode = Idle /\ cmds \in {<<>>, <<[c |-> "boot", no |-> 0]>>}
    BY <1>1, <2>1 DEF AfterReset
  <2>3. Frames' = {}
    <3>1. First({"ready"}) \in 1..Len(rx) /\ Len(rx') = Len(rx) - First({"ready"})
      BY <1>1, <2>1, FoundFrames DEF Values, Positions
    <3>2. Len(rx') = 0 /\ Len(rx) \in Nat
      <4>. DEFINE p == First({"ready"})
      <4>1. p \in 1..Len(rx) /\ Len(rx') = Len(rx) - p /\ Len(rx) \in Nat
        BY <1>1, <3>1 DEF Values
      <4>. HIDE DEF p
      <4>. QED  BY <2>2, <4>1
    <3>3. Positions' = {}
      BY <3>2 DEF Positions
    <3>. QED  BY <3>3 DEF Frames
  <2>4. Cmds' = Cmds /\ mode' = mode
    BY <1>1, <1>3, ReadingFrames DEF Reading
  <2>5. \A d \in Cmds : d.c = "boot"
    <3>1. CASE cmds = <<>>
      BY <3>1 DEF Cmds
    <3>2. CASE cmds = <<[c |-> "boot", no |-> 0]>>
      BY <3>2 DEF Cmds
    <3>. QED  BY <2>2, <3>1, <3>2
  <2>6. no > 0 /\ mode.no = 0
    BY <1>1, <2>1, <2>2 DEF Places, Idle, Mode
  <2>. QED  BY <1>1, <2>1, <2>3, <2>4, <2>5, <2>6 DEF Numbers
<1>4. CASE Reading /\ ~Call /\ ~ResetCheck
  <2>1. Frames' \subseteq Frames /\ Cmds' = Cmds /\ mode' = mode
    BY <1>1, <1>4, ReadingFrames
  <2>2. no' = no /\ (pc' \in Before => pc \in Before)
    BY <1>4 DEF Reading, Start_ASR_rec, QueryAck, QueryIdle, QueryWait, QueryReset, ReadyWait,
         ResetAgain, ListenAck, Result, ResultWait, SayAck, SpeechDone, SpeechWait, Await, GiveUp,
         Delay, WenResult, WenNothing, SkipAcks, IdleFound, caller, Goto, Waits, Then
  <2>. QED  BY <1>1, <2>1, <2>2 DEF Numbers
<1>5. CASE Writing
  <2>1. PICK c \in {"query", "listen", "speak"} :
          /\ Cmds' = Cmds \cup {[c |-> c, no |-> no]}
          /\ mode' = mode /\ no' = no /\ Frames' = Frames
          /\ c = "listen" => pc \in {"start", "wenstart"}
    BY <1>1, <1>5, WritingCmds
  <2>2. pc' \in Before => pc \in Before /\ pc \notin {"start", "wenstart"}
    BY <1>5 DEF Writing, Query, Listen, Say, Inquire, WenStart, Command, Goto
  <2>3. pc \in {"start", "wenstart"} => no > 0
    BY <1>1 DEF Places
  <2>4. no \in Nat
    BY <1>1 DEF Values
  <2>. QED  BY <1>1, <2>1, <2>2, <2>3, <2>4 DEF Numbers
<1>6. CASE ResetCom
  <2>1. /\ cmds' = <<[c |-> "boot", no |-> 0]>> /\ mode' = Idle /\ no' = no /\ rx' = rx
        /\ pc' = "ready"
    BY <1>6 DEF ResetCom, Goto
  <2>2. Cmds' = {[c |-> "boot", no |-> 0]}
    BY <2>1 DEF Cmds
  <2>3. Frames' = Frames
    BY <2>1 DEF Frames, Positions
  <2>4. no \in Nat
    BY <1>1 DEF Values
  <2>. QED  BY <1>1, <2>1, <2>2, <2>3, <2>4 DEF Numbers, Idle, Mode
<1>7. CASE Take
  <2>1. /\ cmds[1] \in Cmds /\ Cmds' \subseteq Cmds /\ pc' = pc /\ no' = no
        /\ \/ mode'.no = 0 \/ mode' = mode
           \/ cmds[1].c = "listen" /\ mode'.no = cmds[1].no
        /\ \E f \in {"ack", "ready"} : Frames' = Frames \cup {Frame(f, 0)}
    BY <1>1, <1>7, TakeEffect DEF Mode, Received
  <2>2. no \in Nat /\ (pc \in Before => no > 0)
    BY <1>1 DEF Values, Places
  <2>. QED  BY <1>1, <2>1, <2>2 DEF Numbers, Frame
<1>8. CASE Answer \/ Spoken \/ Heard
  <2>1. /\ Cmds' = Cmds /\ pc' = pc /\ no' = no
        /\ mode' = mode \/ mode'.no = 0
        /\ \E f \in {"idle", "busy"} \cup Results, n \in {0, mode.no} :
             Frames' = Frames \cup {Frame(f, n)}
    BY <1>1, <1>8, SaysEffect DEF Received, Idle, Mode
  <2>2. no \in Nat /\ (pc \in Before => no > 0)
    BY <1>1 DEF Values, Places
  <2>. QED  BY <1>1, <2>1, <2>2 DEF Numbers, Frame
<1>. QED  BY <1>2, <1>3, <1>4, <1>5, <1>6, <1>7, <1>8, Steps DEF Module

-----------------------------------------------------------------------------
(* The result of a command to listen.                                      *)
Listens == pc \in {"listenack", "result"} \/ (pc = "end" /\ kind = "send")

LEMMA AwaitedStep ==
  ASSUME SpeechInv, SpeechNext
  PROVE  Awaited'
<1>1. SpeechTypeOK /\ Values /\ Places /\ Numbers /\ (Listens => Listening)
  BY InvValues DEF SpeechInv, Awaited, Listens
<1>. SUFFICES ASSUME Listens' PROVE Listening'
  BY DEF Awaited, Listens
<1>2. CASE Reading
  <2>1. UNCHANGED <<cmds, mode, owes>> /\ Frames' \subseteq Frames
    BY <1>1, <1>2, ReadingFrames
  <2>2. Listens /\ no' = no
    BY <1>1, <1>2 DEF Listens, Places, Reading, Call, Start_ASR_rec, QueryAck, QueryIdle, QueryWait,
         QueryReset, ResetCheck, ReadyWait, ResetAgain, ListenAck, Result, ResultWait, SayAck,
         SpeechDone, SpeechWait, Await, GiveUp, Delay, WenResult, WenNothing, SkipAcks, IdleFound,
         ReadyThen, caller, Goto, Waits, Then, Entry
  <2>. QED  BY <1>1, <2>1, <2>2 DEF Listening, Quiet
<1>3. CASE Writing
  <2>1. Listen
    BY <1>3 DEF Listens, Writing, Query, Listen, Say, Inquire, WenStart, Command, Goto
  <2>2. pc = "start"
    BY <2>1 DEF Listen, Command
  <2>3. /\ Len(cmds') = Len(cmds) + 1 /\ Len(cmds) \in Nat
        /\ \A j \in 1..Len(cmds) : cmds'[j] = cmds[j]
        /\ cmds'[Len(cmds')] = [c |-> "listen", no |-> no] /\ cmds' # <<>>
        /\ mode' = mode /\ Frames' = Frames /\ no' = no
    BY <1>1, <1>3, <2>2, WritingCmds DEF Values
  <2>4. \A j \in 1..(Len(cmds') - 1) : cmds'[j] \in Cmds
    BY <2>3 DEF Cmds
  <2>. QED  BY <1>1, <2>2, <2>3, <2>4 DEF Numbers, Listening
<1>4. CASE ResetCom
  BY <1>4 DEF ResetCom, Goto, Listens
<1>5. CASE Take
  <2>1. /\ cmds # <<>> /\ ~owes /\ Len(cmds) >= 1 /\ Len(cmds) \in Nat
        /\ Len(cmds') = Len(cmds) - 1 /\ (Len(cmds) = 1 => cmds' = <<>>)
        /\ \A j \in 1..Len(cmds') : cmds'[j] = cmds[j + 1]
        /\ owes' = (cmds[1].c = "query")
        /\ mode' = CASE cmds[1].c = "speak"  -> Mode("speaking", 0)
                     [] cmds[1].c = "listen" -> Mode("listening", cmds[1].no)
                     [] OTHER -> mode
        /\ \E f \in {"ack", "ready"} : Frames' = Frames \cup {Frame(f, 0)}
        /\ UNCHANGED <<pc, kind, no>>
    BY <1>1, <1>5, TakeEffect DEF Values, Received
  <2>2. Listens /\ no > 0 /\ no \in Nat
    BY <1>1, <2>1 DEF Listens, Places, Values
  <2>3. /\ cmds[Len(cmds)] = [c |-> "listen", no |-> no]
        /\ \A j \in 1..(Len(cmds) - 1) : cmds[j].c = "listen" => cmds[j].no < no
        /\ mode.no < no /\ \A r \in Frames : r.no < no
    BY <1>1, <2>1, <2>2 DEF Listening, Quiet
  <2>4. \A r \in Frames' : r.no < no
    BY <2>1, <2>2, <2>3 DEF Frame
  <2>5. CASE Len(cmds) = 1
    <3>1. cmds' = <<>> /\ ~owes' /\ mode' = Mode("listening", no)
      <4>1. cmds[1].c = "listen" /\ cmds[1].no = no
        BY <2>3, <2>5
      <4>2. ~owes'
        BY <2>1, <4>1
      <4>. QED  BY <2>1, <2>5, <4>1, <4>2
    <3>. QED  BY <2>1, <2>4, <3>1 DEF Listening
  <2>6. CASE Len(cmds) # 1
    <3>1. Len(cmds') >= 1 /\ Len(cmds') \in Nat
      BY <2>1, <2>6
    <3>2. cmds' # <<>>
      BY <3>1, EmptySeq
    <3>3. cmds'[Len(cmds')] = [c |-> "listen", no |-> no]
      <4>1. Len(cmds') \in 1..Len(cmds') /\ Len(cmds') + 1 = Len(cmds)
        BY <2>1, <3>1
      <4>. QED  BY <2>1, <2>3, <4>1
    <3>4. \A j \in 1..(Len(cmds') - 1) : cmds'[j].c = "listen" => cmds'[j].no < no
      <4>. SUFFICES ASSUME NEW j \in 1..(Len(cmds') - 1), cmds'[j].c = "listen"
                    PROVE  cmds'[j].no < no
        OBVIOUS
      <4>1. j \in 1..Len(cmds') /\ j + 1 \in 1..(Len(cmds) - 1)
        BY <2>1, <3>1
      <4>. QED  BY <2>1, <2>3, <4>1
    <3>5. mode'.no < no
      <4>1. 1 \in 1..(Len(cmds) - 1)
        BY <2>1, <2>6
      <4>. QED  BY <2>1, <2>2, <2>3, <4>1 DEF Mode
    <3>. QED  BY <2>1, <2>4, <3>2, <3>3, <3>4, <3>5 DEF Listening
  <2>. QED  BY <2>5, <2>6
<1>6. CASE Answer \/ Spoken \/ Heard
  <2>1. /\ UNCHANGED <<cmds, pc, kind, no>>
        /\ Answer => owes /\ mode' = mode
        /\ Spoken => ~owes /\ mode.is = "speaking" /\ mode' = Idle
        /\ Heard => ~owes /\ mode.is = "listening" /\ mode' = Idle /\ owes' = owes
        /\ \E f \in {"idle", "busy"} \cup Results, n \in 0..Calls :
             /\ Frames' = Frames \cup {Frame(f, n)}
             /\ Answer \/ Spoken => n = 0
             /\ Heard => n = mode.no
    BY <1>1, <1>6, SaysEffect DEF Received
  <2>2. Listens /\ no > 0 /\ no \in Nat
    BY <1>1, <2>1 DEF Listens, Places, Values
  <2>3. CASE cmds # <<>> /\ mode.no < no /\ \A r \in Frames : r.no < no
    <3>1. \A r \in Frames' : r.no < no
      BY <1>6, <2>1, <2>2, <2>3 DEF Frame
    <3>2. mode'.no < no
      BY <1>6, <2>1, <2>2, <2>3 DEF Idle, Mode
    <3>3. /\ cmds[Len(cmds)] = [c |-> "listen", no |-> no]
          /\ \A j \in 1..(Len(cmds) - 1) : cmds[j].c = "listen" => cmds[j].no < no
      BY <1>1, <2>2, <2>3 DEF Listening, Quiet
    <3>. QED  BY <2>1, <2>3, <3>1, <3>2, <3>3 DEF Listening
  <2>4. CASE cmds = <<>> /\ ~owes /\ mode = Mode("listening", no)
    <3>1. Heard
      BY <1>6, <2>1, <2>4 DEF Mode
    <3>. QED  BY <2>1, <2>4, <3>1 DEF Listening, Quiet
  <2>5. ~Quiet
    BY <1>6, <2>1 DEF Quiet, Idle, Mode
  <2>. QED  BY <1>1, <2>2, <2>3, <2>4, <2>5 DEF Listening
<1>. QED  BY <1>2, <1>3, <1>4, <1>5, <1>6, Steps DEF Module

LEMMA MissedStep ==
  ASSUME SpeechInv, SpeechNext
  PROVE  Missed'
<1>1. SpeechTypeOK /\ Values /\ Places /\ Numbers /\ Awaited /\ Missed
  BY InvValues DEF SpeechInv
<1>2. CASE missed
  <2>1. pc = "result" /\ cmds = <<>> /\ ~owes /\ mode = Idle /\ rx = <<>> /\ Where(Known) = {}
    <3>1. rx = <<>> => Where(Known) = {}
      BY DEF Where
    <3>. QED  BY <1>1, <1>2, <3>1 DEF Missed, Quiet
  <2>2. ~Reading
    BY <2>1 DEF Reading, Call, Start_ASR_rec, QueryAck, QueryIdle, QueryWait,
         QueryReset, ResetCheck, ReadyWait, ResetAgain, ListenAck, Result, ResultWait, SayAck,
         SpeechDone, SpeechWait, Await, GiveUp, Delay, WenResult, WenNothing, SkipAcks, IdleFound,
         ReadyThen, Waits, Find
  <2>3. ~Writing /\ ~ResetCom
    BY <2>1 DEF Writing, Query, Listen, Say, Inquire, WenStart, Command, ResetCom
  <2>4. ~Module
    BY <2>1 DEF Module, Take, Answer, Spoken, Heard, Idle, Mode
  <2>. QED  BY <2>2, <2>3, <2>4, Steps
<1>3. CASE ~missed /\ ResultWait
  <2>. SUFFICES ASSUME missed' PROVE Missed'
    BY DEF Missed
  <2>1. PICK i \in 1..Len(rx) : rx[i] = Frame("odd", no)
    BY <1>3 DEF ResultWait
  <2>2. rx[i] \in Frames /\ rx[i].no = no /\ no \in Nat
    BY <1>1, <2>1 DEF Frames, Positions, Frame, Values
  <2>3. pc = "result" /\ Listening
    BY <1>1, <1>3 DEF ResultWait, Awaited
  <2>4. Quiet
    BY <2>2, <2>3 DEF Listening
  <2>5. rx' = <<>> /\ UNCHANGED <<pc, cmds, mode, owes>>
    BY <1>3 DEF ResultWait, Discard, caller, module
  <2>. QED  BY <2>3, <2>4, <2>5 DEF Missed, Quiet
<1>4. CASE ~missed /\ ~ResultWait
  <2>1. late \in BOOLEAN /\ reset \in BOOLEAN /\ missed \in BOOLEAN /\ owes \in BOOLEAN
    BY <1>1, Zenon DEF SpeechTypeOK
  <2>2. missed' = missed
    BY <1>4, <2>1, FlagsStep, Zenon
  <2>. QED  BY <1>4, <2>2 DEF Missed
<1>. QED  BY <1>2, <1>3, <1>4

(* The reset and what comes after it.                                      *)
LEMMA AfterResetStep ==
  ASSUME SpeechInv, SpeechNext
  PROVE  AfterReset'
<1>1. SpeechTypeOK /\ Values /\ Places /\ AfterReset
  BY InvValues DEF SpeechInv
<1>. DEFINE Boot == <<[c |-> "boot", no |-> 0]>>
<1>2. reset \in BOOLEAN /\ late \in BOOLEAN /\ missed \in BOOLEAN /\ owes \in BOOLEAN
  BY <1>1, Zenon DEF SpeechTypeOK
<1>3. reset' = reset \/ (QueryReset /\ reset' = TRUE)
  BY <1>2, FlagsStep
<1>4. pc' \in {"reset", "ready"} => pc \in {"reset", "ready"} \/ QueryReset
  BY DEF SpeechNext, Sketch, Module, Call, Start_ASR_rec, Query, QueryAck, QueryIdle, QueryWait,
         QueryReset, ResetCom, ResetCheck, ReadyWait, ResetAgain, Listen, ListenAck, Result,
         ResultWait, Say, SayAck, SpeechDone, SpeechWait, Inquire, Await, GiveUp, WenStart, Delay,
         WenResult, WenNothing, Take, Answer, Spoken, Heard, Command, SkipAcks, IdleFound,
         ReadyThen, caller, Goto, Waits, Then, Entry
<1>5. CASE QueryReset
  <2>1. rx' = <<>> /\ pc' = "reset" /\ reset' = TRUE
    BY <1>5 DEF QueryReset, Discard, Goto
  <2>2. Len(rx') = 0
    BY <2>1
  <2>. QED  BY <2>1, <2>2 DEF AfterReset
<1>6. CASE ~QueryReset /\ ~reset
  <2>1. ~reset'
    BY <1>3, <1>6
  <2>2. pc' \notin {"reset", "ready"}
    BY <1>1, <1>4, <1>6 DEF AfterReset
  <2>. QED  BY <2>1, <2>2 DEF AfterReset
<1>7. CASE ~QueryReset /\ reset
  <2>. SUFFICES /\ pc' \in {"idle", "reset", "ready"}
                /\ Len(rx') <= 1
                /\ pc' # "reset" => cmds' \in {<<>>, Boot} /\ ~owes' /\ mode' = Idle
                /\ pc' = "idle" => Where({"idle"})' = {}
    BY <1>3, <1>7 DEF AfterReset
  <2>1. /\ pc \in {"idle", "reset", "ready"} /\ Len(rx) <= 1 /\ Len(rx) \in Nat
        /\ pc # "reset" => cmds \in {<<>>, Boot} /\ ~owes /\ mode = Idle
        /\ pc = "idle" => Where({"idle"}) = {}
    BY <1>1, <1>7 DEF AfterReset, Values
  <2>2. CASE QueryWait \/ ReadyWait \/ ResetAgain
    <3>1. /\ rx' = <<>> /\ UNCHANGED <<cmds, mode, owes>>
          /\ pc' = pc \/ (ResetAgain /\ pc' = "reset")
          /\ QueryWait => pc = "idle"
          /\ ReadyWait => pc = "ready"
      BY <2>2 DEF QueryWait, ReadyWait, ResetAgain, Discard, caller, module, Goto
    <3>2. Len(rx') = 0 /\ Where({"idle"})' = {}
      BY <3>1 DEF Where
    <3>. QED  BY <2>1, <2>2, <3>1, <3>2
  <2>3. CASE ResetCom
    <3>1. pc' = "ready" /\ cmds' = Boot /\ mode' = Idle /\ owes' = FALSE /\ rx' = rx
      BY <2>3 DEF ResetCom, Goto
    <3>. QED  BY <2>1, <3>1
  <2>4. CASE ResetCheck
    <3>1. Find({"ready"}) /\ pc = "ready" /\ pc' = "idle" /\ UNCHANGED <<cmds, mode, owes>>
      BY <2>4 DEF ResetCheck, ReadyThen, Goto, module
    <3>. DEFINE p == First({"ready"})
    <3>2. p \in 1..Len(rx) /\ Len(rx') = Len(rx) - p /\ rx' \in Seq(FrameSet)
      BY <1>1, <3>1, FoundFrames DEF Values, Positions
    <3>. HIDE DEF p
    <3>3. Len(rx') = 0
      BY <2>1, <3>2
    <3>4. Where({"idle"})' = {}
      BY <3>3 DEF Where
    <3>. QED  BY <2>1, <3>1, <3>3, <3>4
  <2>5. CASE QueryIdle
    <3>1. pc = "idle" /\ Where({"idle"}) # {}
      BY <2>5 DEF QueryIdle, IdleFound, Find
    <3>. QED  BY <2>1, <3>1
  <2>6. CASE Take
    <3>1. /\ cmds # <<>> /\ pc' = pc /\ Len(rx') = Len(rx) + 1
          /\ Len(cmds) = 1 => cmds' = <<>>
          /\ rx = <<>> \/ pc \in {"delay", "end"}
          /\ owes' = (cmds[1].c = "query")
          /\ mode' = CASE cmds[1].c = "speak"  -> Mode("speaking", 0)
                       [] cmds[1].c = "listen" -> Mode("listening", cmds[1].no)
                       [] OTHER -> mode
          /\ \E f \in {"ack", "ready"} : rx'[Len(rx')] = Frame(f, 0)
      BY <1>1, <2>6, TakeEffect DEF Received
    <3>2. Len(rx) = 0
      BY <2>1, <3>1
    <3>3. Where({"idle"})' = {}
      <4>1. Len(rx') = 1 /\ rx'[1].f # "idle"
        BY <3>1, <3>2 DEF Frame
      <4>. QED  BY <4>1 DEF Where
    <3>4. pc # "reset" => cmds' = <<>> /\ ~owes' /\ mode' = Idle
      <4>. SUFFICES ASSUME pc # "reset" PROVE cmds' = <<>> /\ ~owes' /\ mode' = Idle
        OBVIOUS
      <4>1. cmds = Boot
        BY <2>1, <3>1
      <4>2. Len(cmds) = 1 /\ cmds[1].c = "boot"
        BY <4>1
      <4>. QED  BY <2>1, <3>1, <4>2
    <3>. QED  BY <2>1, <3>1, <3>2, <3>3, <3>4
  <2>7. CASE Answer \/ Spoken \/ Heard
    <3>1. /\ pc' = pc /\ Len(rx') = Len(rx) + 1
          /\ rx = <<>> \/ pc \in {"delay", "end"}
          /\ Answer => owes
          /\ Spoken => mode.is = "speaking"
          /\ Heard => mode.is = "listening"
      BY <1>1, <2>7, SaysEffect DEF Received
    <3>2. Len(rx) = 0
      BY <2>1, <3>1
    <3>3. pc = "reset"
      BY <2>1, <2>7, <3>1 DEF Idle, Mode
    <3>. QED  BY <2>1, <3>1, <3>2, <3>3
  <2>8. QueryWait \/ ReadyWait \/ ResetAgain \/ ResetCom \/ ResetCheck \/ QueryIdle
          \/ Take \/ Answer \/ Spoken \/ Heard
    BY <1>7, <2>1 DEF SpeechNext, Sketch, Module, Call, Start_ASR_rec, Query, QueryAck, Listen,
         ListenAck, Result, ResultWait, Say, SayAck, SpeechDone, SpeechWait, Inquire, Await, GiveUp,
         WenStart, Delay, WenResult, WenNothing, Command, SkipAcks, Waits
  <2>. QED  BY <2>2, <2>3, <2>4, <2>5, <2>6, <2>7, <2>8
<1>. QED  BY <1>5, <1>6, <1>7

-----------------------------------------------------------------------------
(* Sketch and module in step, stage by stage.                              *)
Rests == pc \in {"query", "inquire", "say"} \/ (pc = "end" /\ kind # "send")
Asks == pc \in {"queryack", "idle", "ack1", "status"}
Begins == pc \in {"start", "wenstart"}
Heeds == pc \in {"listenack", "result", "ack2", "delay", "heard"} \/ (pc = "end" /\ kind = "send")
Speaks == pc \in {"sayack", "spoken"}

Stages ==
  /\ Rests => AtRest
  /\ Asks => Asked
  /\ Begins => Quiet /\ rx = <<>>
  /\ Heeds => Heeded
  /\ Speaks => Speaking

LEMMA StepsInStep ==
  ASSUME SpeechInv, SpeechNext, ~late', ~reset'
  PROVE  Values /\ Places /\ Stages
<1>1. late \in BOOLEAN /\ reset \in BOOLEAN /\ missed \in BOOLEAN /\ owes \in BOOLEAN
  BY Zenon DEF SpeechInv, SpeechTypeOK
<1>2. (late' = late \/ late' = TRUE) /\ (reset' = reset \/ reset' = TRUE)
  BY <1>1, FlagsStep, Zenon
<1>3. ~late /\ ~reset
  BY <1>1, <1>2
<1>4. InStep => Stages
  BY <1>3, Zenon DEF InStep, Stages, Rests, Asks, Begins, Heeds, Speaks
<1>. QED  BY <1>4, InvValues DEF SpeechInv

LEMMA Emptied ==
  ASSUME Values, rx' = <<>>
  PROVE  Frames' = {} /\ Positions' = {} /\ IdleIsLast'
<1>1. Len(rx') = 0
  BY LeftNothing DEF Values
<1>2. Positions' = {}
  BY <1>1 DEF Positions
<1>. QED  BY <1>2 DEF Frames, IdleIsLast

LEMMA FoundLast ==
  ASSUME Values, NEW kinds, Find(kinds),
         \A j \in Positions : rx[j].f \in kinds => j = Len(rx) /\ Quiet
  PROVE  Quiet /\ rx' = <<>>
<1>. DEFINE p == First(kinds)
<1>1. p \in Positions /\ rx[p].f \in kinds /\ rx' \in Seq(FrameSet) /\ Len(rx') = Len(rx) - p
  BY FoundFrames DEF Values
<1>. HIDE DEF p
<1>2. p = Len(rx) /\ Quiet
  BY <1>1
<1>3. Len(rx') = 0
  BY <1>1, <1>2 DEF Values
<1>. QED  BY <1>1, <1>2, <1>3, EmptySeq

LEMMA RestStage ==
  ASSUME SpeechInv, SpeechNext, ~late', ~reset', Rests'
  PROVE  AtRest'
<1>1. Values /\ Places /\ Stages
  BY StepsInStep
<1>2. CASE Call
  <2>1. Rests /\ UNCHANGED <<cmds, mode, owes, rx>>
    BY <1>2 DEF Call, Rests, module
  <2>. QED  BY <1>1, <2>1 DEF Stages, AtRest, Frames, Positions
<1>3. CASE Result
  <2>1. pc = "result" /\ Find(Known) /\ UNCHANGED <<cmds, mode, owes>>
    BY <1>3 DEF Result, module
  <2>2. \A j \in Positions : rx[j].f \in Known => j = Len(rx) /\ Quiet
    BY <1>1, <2>1 DEF Stages, Heeds, Heeded, Known, Failed
  <2>3. Quiet /\ rx' = <<>>
    BY <1>1, <2>1, <2>2, FoundLast
  <2>. QED  BY <1>1, <2>1, <2>3, Emptied DEF AtRest, Quiet, Idle, Mode
<1>4. CASE SpeechDone
  <2>1. pc = "spoken" /\ Find({"idle"}) /\ UNCHANGED <<cmds, mode, owes>>
    BY <1>4 DEF SpeechDone, module
  <2>2. \A j \in Positions : rx[j].f \in {"idle"} => j = Len(rx) /\ Quiet
    BY <1>1, <2>1 DEF Stages, Speaks, Speaking, IdleIsLast
  <2>3. Quiet /\ rx' = <<>>
    BY <1>1, <2>1, <2>2, FoundLast
  <2>. QED  BY <1>1, <2>1, <2>3, Emptied DEF AtRest, Quiet, Idle, Mode
<1>5. CASE WenResult \/ WenNothing
  <2>1. pc = "heard"
    BY <1>5 DEF WenResult, WenNothing
  <2>2. Frames' \subseteq Frames /\ UNCHANGED <<cmds, mode, owes>>
    BY <1>1, <1>5, ReadingFrames DEF Reading
  <2>3. /\ cmds = <<>> /\ ~owes /\ mode \in {Idle, Mode("listening", no)}
        /\ \A r \in Frames : r.f \in Results
    BY <1>1, <2>1 DEF Stages, Heeds, Heeded
  <2>. QED  BY <2>2, <2>3 DEF AtRest, Idle, Mode
<1>6. CASE Answer \/ Spoken \/ Heard
  <2>1. Rests
    BY <1>1, <1>6, SaysEffect DEF Rests
  <2>2. cmds = <<>> /\ ~owes /\ mode.is # "speaking" /\ \A r \in Frames : r.f \in Results
    BY <1>1, <2>1 DEF Stages, AtRest
  <2>3. /\ Heard /\ cmds' = cmds /\ mode' = Idle /\ ~owes'
        /\ \E f \in Results, n \in 0..Calls : Frames' = Frames \cup {Frame(f, n)}
    BY <1>1, <1>6, <2>2, SaysEffect DEF Received
  <2>. QED  BY <2>2, <2>3 DEF AtRest, Idle, Mode, Frame
<1>7. ~Take
  <2>. SUFFICES ASSUME Take PROVE FALSE
    OBVIOUS
  <2>1. Rests /\ cmds # <<>>
    BY <1>1, TakeEffect DEF Rests
  <2>. QED  BY <1>1, <2>1 DEF Stages, AtRest
<1>8. ~GiveUp
  BY DEF GiveUp
<1>9. Call \/ Result \/ SpeechDone \/ WenResult \/ WenNothing \/ Module \/ GiveUp
  BY <1>1 DEF Rests, Places, SpeechNext, Sketch, Start_ASR_rec, Query, QueryAck, QueryIdle, QueryWait,
         QueryReset, ResetCom, ResetCheck, ReadyWait, ResetAgain, Listen, ListenAck,
         ResultWait, Say, SayAck, SpeechWait, Inquire, Await, WenStart, Delay,
         Command, SkipAcks, IdleFound, ReadyThen, caller, Goto, Waits, Then
<1>. QED  BY <1>2, <1>3, <1>4, <1>5, <1>6, <1>7, <1>8, <1>9 DEF Module

LEMMA BeginStage ==
  ASSUME SpeechInv, SpeechNext, ~late', ~reset', Begins'
  PROVE  Quiet' /\ rx' = <<>>
<1>1. Values /\ Places /\ Stages
  BY StepsInStep
<1>2. CASE QueryIdle
  <2>1. pc = "idle" /\ Find({"idle"}) /\ UNCHANGED <<cmds, mode, owes>>
    BY <1>2 DEF QueryIdle, IdleFound, module
  <2>2. \A j \in Positions : rx[j].f \in {"idle"} => j = Len(rx) /\ Quiet
    BY <1>1, <2>1 DEF Stages, Asks, Asked, IdleIsLast
  <2>3. Quiet /\ rx' = <<>>
    BY <1>1, <2>1, <2>2, FoundLast
  <2>. QED  BY <2>1, <2>3 DEF Quiet
<1>3. CASE Await
  <2>1. pc = "status" /\ rx # <<>> /\ rx' = Tail(rx) /\ Head(rx).f = "idle"
        /\ UNCHANGED <<cmds, mode, owes>>
    BY <1>3 DEF Await, Begins, Waits, Then, Goto, module
  <2>2. Len(rx') = Len(rx) - 1 /\ Len(rx) >= 1 /\ Head(rx) = rx[1] /\ rx' \in Seq(FrameSet)
    BY <1>1, <2>1, LeftTail DEF Values, Left
  <2>3. 1 \in Positions /\ rx[1].f = "idle"
    BY <1>1, <2>1, <2>2 DEF Values, Positions
  <2>4. Len(rx) = 1 /\ Quiet
    BY <1>1, <2>1, <2>3 DEF Stages, Asks, Asked, IdleIsLast
  <2>5. rx' = <<>>
    BY <2>2, <2>4, EmptySeq
  <2>. QED  BY <2>1, <2>4, <2>5 DEF Quiet
<1>4. ~Module
  <2>. SUFFICES ASSUME Module PROVE FALSE
    OBVIOUS
  <2>1. Begins
    BY <1>1, TakeEffect, SaysEffect DEF Begins, Module
  <2>2. Quiet
    BY <1>1, <2>1 DEF Stages
  <2>. QED  BY <2>2 DEF Quiet, Module, Take, Answer, Spoken, Heard, Idle, Mode
<1>5. QueryIdle \/ Await \/ Module
  BY DEF Begins, SpeechNext, Sketch, Call, Start_ASR_rec, Query, QueryAck, QueryWait,
         QueryReset, ResetCom, ResetCheck, ReadyWait, ResetAgain, Listen, ListenAck, Result,
         ResultWait, Say, SayAck, SpeechDone, SpeechWait, Inquire, GiveUp, WenStart, Delay,
         WenResult, WenNothing, Command, SkipAcks, IdleFound, ReadyThen, caller, Goto, Entry
<1>. QED  BY <1>2, <1>3, <1>4, <1>5

LEMMA AskStage ==
  ASSUME SpeechInv, SpeechNext, ~late', ~reset', Asks'
  PROVE  Asked'
<1>1. Values /\ Places /\ Stages
  BY StepsInStep
<1>2. CASE Query \/ Inquire
  <2>1. Rests /\ pc \in {"query", "inquire"} /\ Write("query") /\ UNCHANGED <<no, mode, owes, rx>>
    BY <1>2 DEF Query, Inquire, Command, Rests, module
  <2>2. cmds = <<>> /\ ~owes /\ mode.is # "speaking" /\ \A r \in Frames : r.f \in Results
    BY <1>1, <2>1 DEF Stages, AtRest
  <2>3. cmds' = <<[c |-> "query", no |-> no]>>
    BY <2>1, <2>2 DEF Write
  <2>4. IdleIsLast'
    BY <2>1, <2>2 DEF IdleIsLast, Frames, Positions, Results, Failed
  <2>. QED  BY <2>1, <2>2, <2>3, <2>4 DEF Asked
<1>3. CASE QueryAck \/ QueryWait
  <2>1. Asks /\ rx' = <<>> /\ UNCHANGED <<no, cmds, mode, owes>>
    BY <1>3 DEF QueryAck, SkipAcks, QueryWait, Discard, Asks, caller, module
  <2>. QED  BY <1>1, <2>1, Emptied DEF Stages, Asked
<1>4. CASE Await
  <2>1. Asks /\ rx # <<>> /\ rx' = Tail(rx) /\ UNCHANGED <<no, cmds, mode, owes>>
    BY <1>4 DEF Await, Asks, Waits, Then, Goto, module
  <2>2. /\ Len(rx') = Len(rx) - 1 /\ Len(rx) \in Nat
        /\ \A j \in 1..Len(rx') : rx'[j] = rx[j + 1]
    BY <1>1, <2>1, LeftTail DEF Values
  <2>3. Asked
    BY <1>1, <2>1 DEF Stages
  <2>4. IdleIsLast'
    <3>. SUFFICES ASSUME NEW j \in 1..Len(rx'), rx'[j].f = "idle"
                  PROVE  j = Len(rx') /\ Quiet'
      BY DEF IdleIsLast, Positions
    <3>1. rx[j + 1].f = "idle" /\ j + 1 \in Positions
      BY <2>2 DEF Positions
    <3>2. j + 1 = Len(rx) /\ Quiet
      BY <2>3, <3>1 DEF Asked, IdleIsLast
    <3>3. j = Len(rx')
      BY <2>2, <3>2
    <3>4. Quiet'
      BY <2>1, <3>2 DEF Quiet
    <3>. QED  BY <3>3, <3>4
  <2>. QED  BY <2>1, <2>3, <2>4 DEF Asked
<1>5. CASE Take
  <2>1. Asks /\ pc \notin {"delay", "end"}
    BY <1>1, <1>5, TakeEffect DEF Asks
  <2>2. cmds = <<[c |-> "query", no |-> no]>> /\ ~owes /\ mode.is # "speaking"
    BY <1>1, <1>5, <2>1, TakeEffect DEF Stages, Asked
  <2>3. /\ cmds' = <<>> /\ mode' = mode /\ Len(rx') = Len(rx) + 1 /\ rx = <<>>
        /\ \E f \in {"ack", "ready"} : rx'[Len(rx')] = Frame(f, 0)
    <3>1. Len(cmds) = 1 /\ cmds[1].c = "query"
      BY <2>2
    <3>. QED  BY <1>1, <1>5, <2>1, <3>1, TakeEffect DEF Received
  <2>4. IdleIsLast'
    <3>1. Len(rx') = 1 /\ rx'[1].f # "idle"
      BY <2>3 DEF Frame
    <3>. QED  BY <3>1 DEF IdleIsLast, Positions
  <2>. QED  BY <2>2, <2>3, <2>4 DEF Asked
<1>6. CASE Answer \/ Spoken \/ Heard
  <2>1. Asks /\ pc \notin {"delay", "end"}
    BY <1>1, <1>6, SaysEffect DEF Asks
  <2>2. Asked
    BY <1>1, <2>1 DEF Stages
  <2>3. PICK f \in {"idle", "busy"} \cup Results, n \in 0..Calls :
          /\ Len(rx') = Len(rx) + 1 /\ rx = <<>> /\ rx'[Len(rx')] = Frame(f, n)
          /\ Answer => f = IF mode = Idle THEN "idle" ELSE "busy"
          /\ Heard => f \in Results
    BY <1>1, <1>6, <2>1, SaysEffect DEF Received
  <2>4. Len(rx') = 1 /\ rx'[1].f = f
    BY <2>3 DEF Frame
  <2>5. ~Spoken
    BY <1>1, <2>2, SaysEffect DEF Asked
  <2>6. CASE Answer
    <3>1. cmds = <<>> /\ cmds' = cmds /\ ~owes' /\ mode' = mode
      BY <1>1, <2>2, <2>6, SaysEffect DEF Asked
    <3>2. f = "idle" => Quiet'
      BY <2>3, <2>6, <3>1 DEF Quiet
    <3>. QED  BY <2>2, <2>4, <3>1, <3>2 DEF Asked, IdleIsLast, Positions
  <2>7. CASE Heard
    <3>1. cmds' = cmds /\ no' = no /\ ~owes' /\ mode' = Idle
      BY <1>1, <2>7, SaysEffect
    <3>2. f # "idle"
      BY <2>3, <2>7 DEF Results, Failed
    <3>. QED  BY <2>2, <2>4, <3>1, <3>2 DEF Asked, IdleIsLast, Positions, Idle, Mode
  <2>. QED  BY <1>6, <2>5, <2>6, <2>7
<1>7. ~ResetCheck
  <2>. SUFFICES ASSUME ResetCheck PROVE FALSE
    OBVIOUS
  <2>1. pc = "ready" /\ reset' = reset /\ AfterReset
    BY DEF ResetCheck, ReadyThen, history, SpeechInv
  <2>. QED  BY <2>1 DEF AfterReset
<1>8. Query \/ Inquire \/ QueryAck \/ QueryWait \/ Await \/ ResetCheck \/ Module
  BY DEF Asks, SpeechNext, Sketch, Call, Start_ASR_rec, QueryIdle,
         QueryReset, ResetCom, ReadyWait, ResetAgain, Listen, ListenAck, Result,
         ResultWait, Say, SayAck, SpeechDone, SpeechWait, GiveUp, WenStart, Delay,
         WenResult, WenNothing, Command, SkipAcks, IdleFound, caller, Goto, Entry
<1>. QED  BY <1>2, <1>3, <1>4, <1>5, <1>6, <1>7, <1>8 DEF Module

LEMMA SpeakStage ==
  ASSUME SpeechInv, SpeechNext, ~late', ~reset', Speaks'
  PROVE  Speaking'
<1>1. Values /\ Places /\ Stages
  BY StepsInStep
<1>2. CASE Say
  <2>1. Rests /\ Write("speak") /\ UNCHANGED <<no, mode, owes, rx>>
    BY <1>2 DEF Say, Command, Rests, module
  <2>2. cmds = <<>> /\ ~owes /\ mode.is # "speaking" /\ \A r \in Frames : r.f \in Results
    BY <1>1, <2>1 DEF Stages, AtRest
  <2>3. cmds' = <<[c |-> "speak", no |-> no]>>
    BY <2>1, <2>2 DEF Write
  <2>4. IdleIsLast'
    BY <2>1, <2>2 DEF IdleIsLast, Frames, Positions, Results, Failed
  <2>. QED  BY <2>1, <2>2, <2>3, <2>4 DEF Speaking
<1>3. CASE SayAck \/ SpeechWait
  <2>1. Speaks /\ rx' = <<>> /\ UNCHANGED <<no, cmds, mode, owes>>
    BY <1>3 DEF SayAck, SkipAcks, SpeechWait, Discard, Speaks, caller, module
  <2>. QED  BY <1>1, <2>1, Emptied DEF Stages, Speaking
<1>4. CASE Take
  <2>1. Speaks /\ pc \notin {"delay", "end"}
    BY <1>1, <1>4, TakeEffect DEF Speaks
  <2>2. cmds = <<[c |-> "speak", no |-> no]>> /\ ~owes
    BY <1>1, <1>4, <2>1, TakeEffect DEF Stages, Speaking
  <2>3. /\ cmds' = <<>> /\ ~owes' /\ Len(rx') = Len(rx) + 1 /\ rx = <<>>
        /\ \E f \in {"ack", "ready"} : rx'[Len(rx')] = Frame(f, 0)
    <3>1. Len(cmds) = 1 /\ cmds[1].c = "speak"
      BY <2>2
    <3>. QED  BY <1>1, <1>4, <2>1, <3>1, TakeEffect DEF Received
  <2>4. Len(rx') = 1 /\ rx'[1].f # "idle"
    BY <2>3 DEF Frame
  <2>. QED  BY <2>3, <2>4 DEF Speaking, IdleIsLast, Positions
<1>5. CASE Answer \/ Spoken \/ Heard
  <2>1. Speaks /\ pc \notin {"delay", "end"}
    BY <1>1, <1>5, SaysEffect DEF Speaks
  <2>2. Speaking
    BY <1>1, <2>1 DEF Stages
  <2>3. PICK f \in {"idle", "busy"} \cup Results, n \in 0..Calls :
          /\ Len(rx') = Len(rx) + 1 /\ rx = <<>> /\ rx'[Len(rx')] = Frame(f, n)
          /\ Heard => f \in Results
    BY <1>1, <1>5, <2>1, SaysEffect DEF Received
  <2>4. Len(rx') = 1 /\ rx'[1].f = f
    BY <2>3 DEF Frame
  <2>5. ~owes' /\ mode' = Idle /\ cmds' = cmds /\ no' = no /\ ~Answer
    BY <1>1, <1>5, <2>2, SaysEffect DEF Speaking
  <2>6. f = "idle" => Quiet'
    <3>1. Heard => f # "idle"
      BY <2>3 DEF Results, Failed
    <3>2. Spoken => cmds = <<>>
      BY <1>1, <2>2, SaysEffect DEF Speaking
    <3>. QED  BY <1>5, <2>5, <3>1, <3>2 DEF Quiet
  <2>. QED  BY <2>2, <2>4, <2>5, <2>6 DEF Speaking, IdleIsLast, Positions, Idle, Mode
<1>6. Say \/ SayAck \/ SpeechWait \/ Module
  BY DEF Speaks, SpeechNext, Sketch, Call, Start_ASR_rec, Query, QueryAck, QueryIdle, QueryWait,
         QueryReset, ResetCom, ResetCheck, ReadyWait, ResetAgain, Listen, ListenAck, Result,
         ResultWait, SpeechDone, Inquire, Await, GiveUp, WenStart, Delay, Waits, Then,
         WenResult, WenNothing, Command, SkipAcks, IdleFound, ReadyThen, caller, Goto, Entry
<1>. QED  BY <1>2, <1>3, <1>4, <1>5, <1>6 DEF Module

LEMMA HeedStage ==
  ASSUME SpeechInv, SpeechNext, ~late', ~reset', Heeds'
  PROVE  Heeded'
<1>1. Values /\ Places /\ Stages
  BY StepsInStep
<1>2. CASE Listen \/ WenStart
  <2>1. /\ Begins /\ Write("listen") /\ UNCHANGED <<no, mode, owes, rx>>
        /\ pc' \notin {"delay", "heard"}
    BY <1>2 DEF Listen, WenStart, Command, Begins, module, Goto
  <2>2. cmds = <<>> /\ ~owes /\ mode = Idle /\ rx = <<>>
    BY <1>1, <2>1 DEF Stages, Quiet
  <2>3. cmds' = <<[c |-> "listen", no |-> no]>>
    BY <2>1, <2>2 DEF Write
  <2>4. Positions' = {}
    <3>1. rx' = <<>>
      BY <2>1, <2>2
    <3>. QED  BY <1>1, <3>1, Emptied
  <2>. QED  BY <2>1, <2>2, <2>3, <2>4 DEF Heeded
<1>3. CASE ListenAck \/ ResultWait
  <2>1. /\ Heeds /\ rx' = <<>> /\ UNCHANGED <<no, cmds, mode, owes>>
        /\ pc' \notin {"delay", "heard"}
    BY <1>3 DEF ListenAck, SkipAcks, ResultWait, Discard, Heeds, caller, module, Goto
  <2>2. Positions' = {}
    BY <1>1, <2>1, Emptied
  <2>. QED  BY <1>1, <2>1, <2>2 DEF Stages, Heeded
<1>4. CASE Start_ASR_rec \/ Delay
  <2>1. /\ Heeds /\ UNCHANGED <<no, cmds, mode, owes, rx>>
        /\ pc' \in {"delay", "heard"} => pc \in {"delay", "heard"}
    BY <1>4 DEF Start_ASR_rec, Delay, Heeds, module, Goto
  <2>2. Heeded
    BY <1>1, <2>1 DEF Stages
  <2>3. Frames' = Frames /\ Positions' = Positions /\ (Quiet => Quiet')
    BY <2>1 DEF Frames, Positions, Quiet
  <2>. QED  BY <2>1, <2>2, <2>3 DEF Heeded
<1>5. CASE Await
  <2>1. /\ pc = "ack2" /\ rx # <<>> /\ rx' = Tail(rx) /\ UNCHANGED <<no, cmds, mode, owes>>
        /\ pc' = IF Head(rx).f = "ack" THEN "delay" ELSE "ack2"
    BY <1>5 DEF Await, Heeds, Waits, Then, Goto, module
  <2>2. /\ Len(rx') = Len(rx) - 1 /\ Len(rx) \in Nat /\ Len(rx) >= 1 /\ Head(rx) = rx[1]
        /\ \A j \in 1..Len(rx') : rx'[j] = rx[j + 1]
    BY <1>1, <2>1, LeftTail DEF Values
  <2>3. Heeded
    BY <1>1, <2>1 DEF Stages, Heeds
  <2>4. cmds = <<>>
    BY <2>1, <2>3 DEF Heeded
  <2>5. ASSUME NEW j \in 1..Len(rx')
        PROVE  rx'[j].f \in Results /\ rx'[j].no = no /\ j = Len(rx') /\ Quiet
    <3>1. rx'[j] = rx[j + 1] /\ j + 1 \in Positions /\ j + 1 # 1
      BY <2>2 DEF Positions
    <3>2. rx[j + 1].f \in Results /\ rx[j + 1].no = no /\ j + 1 = Len(rx) /\ Quiet
      BY <2>3, <3>1 DEF Heeded
    <3>3. j = Len(rx')
      BY <2>2, <3>2
    <3>. QED  BY <3>1, <3>2, <3>3
  <2>6. Quiet => Quiet'
    BY <2>1 DEF Quiet
  <2>. QED  BY <2>1, <2>3, <2>4, <2>5, <2>6 DEF Heeded, Positions, Frames
<1>6. CASE Take
  <2>1. Heeds /\ cmds # <<>>
    BY <1>1, <1>6, TakeEffect DEF Heeds
  <2>2. /\ cmds = <<[c |-> "listen", no |-> no]>> /\ mode = Idle /\ rx = <<>>
        /\ pc \notin {"delay", "heard"}
    BY <1>1, <2>1 DEF Stages, Heeded
  <2>3. Len(cmds) = 1 /\ cmds[1].c = "listen" /\ cmds[1].no = no
    BY <2>2
  <2>4. /\ cmds' = <<>> /\ mode' = Mode("listening", no) /\ no' = no /\ pc' = pc
        /\ owes' = (cmds[1].c = "query")
        /\ \E f \in {"ack", "ready"} :
             Received(f, 0) /\ (f = "ready" <=> cmds[1].c = "boot")
    BY <1>1, <1>6, <2>3, TakeEffect
  <2>5. ~owes'
    BY <2>3, <2>4
  <2>6. Received("ack", 0)
    BY <2>3, <2>4
  <2>7. Len(rx') = 1 /\ rx'[1].f = "ack"
    BY <2>2, <2>6 DEF Received, Frame
  <2>. QED  BY <2>2, <2>4, <2>5, <2>7 DEF Heeded, Positions
<1>7. CASE Answer \/ Spoken \/ Heard
  <2>1. Heeds
    BY <1>1, <1>7, SaysEffect DEF Heeds
  <2>2. Heeded
    BY <1>1, <2>1 DEF Stages
  <2>3. Heard /\ ~owes /\ mode.is = "listening" /\ mode' = Idle /\ ~owes'
        /\ UNCHANGED <<cmds, pc, no>>
    BY <1>1, <1>7, <2>2, SaysEffect DEF Heeded, Idle, Mode
  <2>4. cmds = <<>> /\ mode.no = no /\ mode # Idle
    BY <2>2, <2>3 DEF Heeded, Idle, Mode
  <2>5. PICK f \in Results : Received(f, no)
    BY <1>1, <2>3, <2>4, SaysEffect
  <2>6. /\ Len(rx') = Len(rx) + 1 /\ Len(rx) \in Nat
        /\ \A j \in 1..Len(rx) : rx'[j] = rx[j]
        /\ rx'[Len(rx')] = Frame(f, no) /\ Frames' = Frames \cup {Frame(f, no)}
    BY <1>1, <2>5 DEF Received, Values
  <2>7. Quiet'
    BY <2>3, <2>4 DEF Quiet
  <2>8. ASSUME NEW j \in Positions
        PROVE  rx[j].f = "ack" /\ j = 1
    BY <2>2, <2>4 DEF Heeded, Quiet
  <2>9. ASSUME NEW j \in 1..Len(rx')
        PROVE  \/ rx'[j].f = "ack" /\ j = 1
               \/ rx'[j].f \in Results /\ rx'[j].no = no /\ j = Len(rx')
    <3>1. CASE j = Len(rx')
      BY <2>6, <3>1 DEF Frame
    <3>2. CASE j # Len(rx')
      <4>1. j \in 1..Len(rx)
        BY <2>6, <3>2
      <4>. QED  BY <2>6, <2>8, <4>1 DEF Positions
    <3>. QED  BY <3>1, <3>2
  <2>10. pc' \in {"delay", "heard"} => \A r \in Frames' : r.f \in Results
    BY <2>2, <2>3, <2>6 DEF Heeded, Frame
  <2>. QED  BY <2>3, <2>4, <2>7, <2>9, <2>10 DEF Heeded, Positions
<1>8. Listen \/ WenStart \/ ListenAck \/ ResultWait \/ Start_ASR_rec \/ Delay \/ Await \/ Module
  <2>1. ~GiveUp
    BY DEF GiveUp
  <2>. QED
    BY <1>1, <2>1 DEF Places, Heeds, SpeechNext, Sketch, Call, Query, QueryAck, QueryIdle, QueryWait,
         QueryReset, ResetCom, ResetCheck, ReadyWait, ResetAgain, Result, Say, SayAck,
         SpeechDone, SpeechWait, Inquire,
         WenResult, WenNothing, Command, SkipAcks, IdleFound, ReadyThen, caller, Goto, Entry
<1>. QED  BY <1>2, <1>3, <1>4, <1>5, <1>6, <1>7, <1>8 DEF Module

-----------------------------------------------------------------------------
(* The invariant holds.                                                    *)
LEMMA InStepStep ==
  ASSUME SpeechInv, SpeechNext
  PROVE  InStep'
<1>. SUFFICES ASSUME ~late', ~reset' PROVE Stages'
  BY Zenon DEF InStep, Stages, Rests, Asks, Begins, Heeds, Speaks
<1>. QED
  BY RestStage, AskStage, BeginStage, HeedStage, SpeakStage DEF Stages

LEMMA FreshStep ==
  ASSUME SpeechInv, SpeechNext
  PROVE  WordIsFresh'
<1>1. Values /\ SpeechTypeOK /\ AfterReset /\ InStep /\ WordIsFresh
  BY InvValues DEF SpeechInv
<1>2. late \in BOOLEAN /\ reset \in BOOLEAN /\ missed \in BOOLEAN /\ owes \in BOOLEAN
  BY <1>1, Zenon DEF SpeechTypeOK
<1>3. late => late'
  BY <1>2, FlagsStep, Zenon
<1>4. CASE got' = 0 \/ (got' = got /\ no' = no)
  BY <1>1, <1>3, <1>4 DEF WordIsFresh
<1>5. CASE /\ pc \in {"result", "heard"} /\ no' = no
           /\ \E r \in Frames : r.f \in Results /\ got' = r.no
  <2>1. ~late => Heeded
    BY <1>1, <1>5 DEF AfterReset, InStep
  <2>2. ~late => \A r \in Frames : r.f \in Results => r.no = no
    <3>1. "ack" \notin Results
      BY DEF Results, Failed
    <3>. QED  BY <2>1, <3>1 DEF Heeded, Frames
  <2>. QED  BY <1>3, <1>5, <2>2 DEF WordIsFresh
<1>. QED  BY <1>1, <1>4, <1>5, GotStep

LEMMA SpeechInvInit == SpeechInit => SpeechInv
<1>. SUFFICES ASSUME SpeechInit PROVE SpeechInv
  OBVIOUS
<1>1. /\ pc = "end" /\ kind = "say" /\ no = 0 /\ got = 0 /\ cmds = <<>> /\ mode = Idle
      /\ ~owes /\ rx = <<>> /\ ~late /\ ~reset /\ ~missed
  BY DEF SpeechInit
<1>2. Positions = {} /\ Frames = {} /\ Cmds = {} /\ Len(cmds) = 0 /\ Len(rx) = 0
  <2>1. Len(cmds) = 0 /\ Len(rx) = 0
    BY <1>1, EmptySeq
  <2>2. 1..0 = {}
    OBVIOUS
  <2>. QED  BY <2>1, <2>2 DEF Positions, Frames, Cmds
<1>3. SpeechTypeOK
  <2>1. late \in BOOLEAN /\ reset \in BOOLEAN /\ missed \in BOOLEAN /\ owes \in BOOLEAN
    BY Zenon DEF SpeechInit
  <2>2. cmds \in Seq(CmdSet) /\ rx \in Seq(FrameSet)
    BY <1>1, EmptySeq
  <2>. QED  BY <1>1, <1>2, <2>1, <2>2, SpeechAssumption DEF SpeechTypeOK, Kinds, CmdSet, FrameSet
<1>. QED
  BY <1>1, <1>2, <1>3 DEF SpeechInv, Places, Numbers, Awaited, Missed, AfterReset, InStep, AtRest,
     WordIsFresh, Idle, Mode

LEMMA SpeechInvStep == SpeechInv /\ [SpeechNext]_speechVars => SpeechInv'
<1>. SUFFICES ASSUME SpeechInv, [SpeechNext]_speechVars PROVE SpeechInv'
  OBVIOUS
<1>1. CASE SpeechNext
  BY <1>1, TypesStep, PlacesStep, NumbersStep, AwaitedStep, MissedStep, AfterResetStep, InStepStep,
     FreshStep DEF SpeechInv
<1>2. CASE UNCHANGED speechVars
  <2>1. UNCHANGED <<pc, kind, no, got, cmds, mode, owes, rx, late, reset, missed>>
    BY <1>2 DEF speechVars, caller, module, history
  <2>2. SpeechTypeOK' /\ Places' /\ WordIsFresh'
    BY <2>1 DEF SpeechInv, SpeechTypeOK, Places, WordIsFresh
  <2>3. Frames' = Frames /\ Positions' = Positions /\ Cmds' = Cmds
    BY <2>1 DEF Frames, Positions, Cmds
  <2>4. Numbers' /\ Missed' /\ AfterReset'
    BY <2>1, <2>3 DEF SpeechInv, Numbers, Missed, AfterReset, Quiet, Where
  <2>5. Awaited'
    BY <2>1, <2>3 DEF SpeechInv, Awaited, Listening, Quiet
  <2>6. InStep'
    BY <2>1, <2>3 DEF SpeechInv, InStep, AtRest, Asked, Heeded, Speaking, IdleIsLast, Quiet
  <2>. QED  BY <2>2, <2>4, <2>5, <2>6 DEF SpeechInv
<1>. QED  BY <1>1, <1>2

LEMMA SpeechInvariant == SpeechSpec => []SpeechInv
BY SpeechInvInit, SpeechInvStep, PTL DEF SpeechSpec

(***************************************************************************)
(* The values keep their types, and while no wait was given up the sketch  *)
(* has at most one command on its way to the module.                       *)
(***************************************************************************)
THEOREM SpeechTypes == SpeechSpec => []SpeechTypeOK
<1>1. SpeechInv => SpeechTypeOK
  BY DEF SpeechInv
<1>. QED  BY <1>1, SpeechInvariant, PTL

(***************************************************************************)
(* A word that a call returns was spoken during the call, unless a wait    *)
(* for an answer was given up: Start_ASR(), Start_ASR_return() and         *)
(* Start_ASR_rec() never return what an earlier call, which ended without  *)
(* a word, had asked for (SYN7318.cpp, the discarded frames of             *)
(* QueryStatus() and CommandSendCheck()).                                  *)
(***************************************************************************)
THEOREM WordsAreFresh == SpeechSpec => []WordIsFresh
<1>1. SpeechInv => WordIsFresh
  BY DEF SpeechInv
<1>. QED  BY <1>1, SpeechInvariant, PTL

(***************************************************************************)
(* Once the module was reset the call stays in QueryStatus(), and once a   *)
(* result was thrown away it stays in CommandSendCheckACK(): neither       *)
(* returns, whatever the module does.                                      *)
(***************************************************************************)
THEOREM NeverReturns == SpeechSpec => []HangsForGood
<1>1. SpeechInv => HangsForGood
  BY DEF SpeechInv, AfterReset, Missed, HangsForGood
<1>. QED  BY <1>1, SpeechInvariant, PTL
=============================================================================
