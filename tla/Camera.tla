------------------------------- MODULE Camera -------------------------------
(***************************************************************************)
(* The requests to the camera in Openmv/Openmv.cpp: QR_Distinguish(),      *)
(* Traffic_Distinguish(), Figure_Distinguish() and the request to learn,   *)
(* over the incoming mailbox at 0x6038, called from Analyze_Handle().      *)
(*                                                                         *)
(* The camera (not in the repository) answers a request once, when it is   *)
(* ready, also one whose call has returned, or never; an answer that finds *)
(* the mailbox full is lost.  A message carries no number: no here is the  *)
(* request's, which no code sees.                                          *)
(***************************************************************************)
EXTENDS Naturals

CONSTANTS
  CameraCalls   \* how many requests are made

ASSUME CameraAssumption == CameraCalls \in Nat \ {0}

VARIABLES
  look,     \* the call under way: "qr", "traffic", "figure", or "none"
  step,     \* where it is: "clear", "request" or "poll"; "done" otherwise
  no,       \* the number of the last request
  box,      \* the mailbox at 0x6038
  due,      \* requests the camera has not answered
  taken,    \* the answer the last call accepted
  figures,  \* the request whose figures were reported, 0 for none, Garbage
  owing     \* history: answers were due when the last call began

cameraVars == <<look, step, no, box, due, taken, figures, owing>>

Answer(k, n) == [kind |-> k, no |-> n]
Empty == Answer("empty", 0)
Garbage == CameraCalls + 1    \* rgb_data as it lay on the stack

CameraInit ==
  /\ look = "none" /\ step = "done" /\ no = 0
  /\ box = Empty /\ due = {} /\ taken = Empty
  /\ figures = 0 /\ owing = FALSE

(* Analyze_Handle() with command 2, 3 or 5. *)
Distinguish(k) ==
  /\ step = "done" /\ no < CameraCalls
  /\ look' = k /\ step' = "clear" /\ no' = no + 1
  /\ taken' = Empty /\ figures' = 0 /\ owing' = (due # {})
  /\ UNCHANGED <<box, due>>

(* Command 4: the camera learns and then recognises; nobody waits. *)
Learn ==
  /\ step = "done" /\ no < CameraCalls
  /\ look' = "none" /\ no' = no + 1
  /\ due' = due \cup {Answer("traffic", no + 1)}
  /\ taken' = Empty /\ figures' = 0
  /\ UNCHANGED <<step, box, owing>>

(***************************************************************************)
(* Clear_FPGA_Addr_Data(0x6038), then the request.  In the variant the     *)
(* mailbox keeps what it holds.                                            *)
(***************************************************************************)
ClearNothing ==
  /\ step = "clear" /\ step' = "request"
  /\ UNCHANGED <<look, no, box, due, taken, figures, owing>>

Clear ==
  /\ step = "clear" /\ box' = Empty /\ step' = "request"
  /\ UNCHANGED <<look, no, due, taken, figures, owing>>

Request ==
  /\ step = "request" /\ due' = due \cup {Answer(look, no)} /\ step' = "poll"
  /\ UNCHANGED <<look, no, box, taken, figures, owing>>

(***************************************************************************)
(* A poll that sees the flag reads the message and takes the flag down.    *)
(* Answers to traffic and figure requests both have type 0x91, and only    *)
(* Figure_Distinguish() looks further.                                     *)
(***************************************************************************)
FitsByType(k) == IF k = "qr" THEN {"qr"} ELSE {"traffic", "figure"}

Fits(k) == {k} \cup (IF k = "traffic" THEN {"figure"} ELSE {})

Accept ==
  /\ step = "poll" /\ box.kind \in Fits(look)
  /\ taken' = box /\ box' = Empty /\ step' = "done"
  /\ figures' = IF look = "figure" THEN box.no ELSE 0
  /\ UNCHANGED <<look, no, due, owing>>

Reject ==
  /\ step = "poll" /\ box # Empty /\ box.kind \notin Fits(look)
  /\ box' = Empty
  /\ UNCHANGED <<look, step, no, due, taken, figures, owing>>

(***************************************************************************)
(* Ten or twenty seconds have passed.  Analyze_Handle() reports rgb_data   *)
(* all the same, which nobody has written.                                 *)
(***************************************************************************)
TimeOut ==
  /\ step = "poll" /\ step' = "done"
  /\ figures' \in IF look = "figure" THEN {Garbage} \cup 1..no ELSE {0}
  /\ UNCHANGED <<look, no, box, due, taken, owing>>

CameraAnswers ==
  \E a \in due :
    /\ due' = due \ {a}
    /\ box' = IF box = Empty THEN a ELSE box
    /\ UNCHANGED <<look, step, no, taken, figures, owing>>

CameraCall == Learn \/ \E k \in {"qr", "traffic", "figure"} : Distinguish(k)
CameraStep == Clear \/ Request \/ Accept \/ Reject \/ TimeOut

CameraNext == CameraCall \/ CameraStep \/ CameraAnswers

-----------------------------------------------------------------------------
Answers == [kind : {"qr", "traffic", "figure"}, no : 1..CameraCalls]

CameraTypeOK ==
  /\ look \in {"none", "qr", "traffic", "figure"}
  /\ step \in {"done", "clear", "request", "poll"}
  /\ no \in 0..CameraCalls
  /\ box \in Answers \cup {Empty} /\ due \subseteq Answers
  /\ taken \in Answers \cup {Empty}
  /\ figures \in 0..Garbage /\ owing \in BOOLEAN

(***************************************************************************)
(* An answer a call accepts is to its own request, unless the camera still *)
(* owed one when the call began; then it may be to an older request, but   *)
(* of a kind the call can be mistaken about; the figures reported to the   *)
(* main car are those of the answer, unless none was accepted.             *)
(***************************************************************************)
AnswerIsMine ==
  taken # Empty =>
    /\ taken.no = no \/ (owing /\ taken.no < no)
    /\ taken.kind = look \/ (look = "traffic" /\ taken.kind = "figure" /\ owing)
    /\ look = "figure" => figures = taken.no
=============================================================================
