------------------------------- MODULE Garage -------------------------------
(***************************************************************************)
(* The garages of the course: C_K_Set_Layer(), C_K_Get_Layer(),            *)
(* Get_ZigBee_Data() and Clear_ZigBee_Data() of Drive/Drive.cpp.           *)
(*                                                                         *)
(* The car commands a layer and asks for the layer reached until a reply   *)
(* says it is there or 45 seconds have passed.  Radio and garages (not in  *)
(* the repository): commands and replies may be lost but keep their order; *)
(* a lift moves a layer at a time; the main car's messages come into the   *)
(* same mailbox; a message that finds it full is lost.                     *)
(***************************************************************************)
EXTENDS Naturals, Sequences

CONSTANTS
  Sides,        \* the garages, by the byte of their address
  Layers,       \* the layers 1..n
  Other,        \* messages of the main car
  GarageCalls,  \* how many calls are made
  Room          \* how many commands, and replies, can be on their way

ASSUME GarageAssumption ==
  /\ Sides \subseteq Nat \ {0} /\ Sides # {}
  /\ Layers \subseteq Nat \ {0} /\ \E n \in Layers : Layers = 1..n
  /\ Sides \cap Layers = {}
  /\ GarageCalls \in Nat \ {0} /\ Room \in Nat \ {0}
  /\ \A m \in Other : m.from \notin Sides

VARIABLES
  goes,     \* the call's place: "clear", "set", "query", "get", or "done"
  side, layer,     \* its arguments
  calls,    \* the number of the call
  reply,    \* ZigBee_command, what was read last
  inbox,    \* the mailbox at 0x6100
  sent,     \* commands on their way
  back,     \* replies on their way
  floor, goal,     \* where each lift is, and where it is going
  success,  \* the last call ended with the beep
  foreign,  \* history: a message not of the garage called was read
  gaveup    \* history: a call has given up

call == <<goes, side, layer, calls>>
radio == <<sent, back>>
lifts == <<floor, goal>>
garageVars == <<call, reply, inbox, radio, lifts, success, foreign, gaveup>>

Reply(s, l) == [from |-> s, type |-> 3, layer |-> l]
Nothing == [from |-> 0, type |-> 0, layer |-> 0]

GarageInit ==
  /\ goes = "done" /\ side = (CHOOSE s \in Sides : TRUE) /\ layer = 1 /\ calls = 0
  /\ reply = Nothing /\ inbox = Nothing /\ sent = <<>> /\ back = <<>>
  /\ floor \in [Sides -> Layers] /\ goal = floor
  /\ success = FALSE /\ foreign = FALSE /\ gaveup = FALSE

OnAir(queue, m) == IF Len(queue) < Room THEN Append(queue, m) ELSE queue

(***************************************************************************)
(* C_K_Set_Layer() begins: the reply buffer is zeroed.  In the variant it  *)
(* keeps what it holds.                                                    *)
(***************************************************************************)
SetLayer(kept) ==
  /\ goes = "done" /\ calls < GarageCalls
  /\ goes' = "clear" /\ calls' = calls + 1
  /\ side' \in Sides /\ layer' \in Layers
  /\ reply' = kept
  /\ success' = FALSE
  /\ UNCHANGED <<inbox, radio, lifts, foreign, gaveup>>

C_K_Set_Layer_Keeps == SetLayer(reply)
C_K_Set_Layer == SetLayer(Nothing)

Clear_ZigBee_Data ==
  /\ goes = "clear" /\ goes' = "set" /\ inbox' = Nothing
  /\ UNCHANGED <<side, layer, calls, reply, radio, lifts, success, foreign, gaveup>>

Tell(here, what, value, next) ==
  /\ goes = here /\ goes' = next
  /\ sent' = OnAir(sent, [to |-> side, what |-> what, layer |-> value])
  /\ UNCHANGED <<side, layer, calls, reply, inbox, back, lifts, success, foreign, gaveup>>

TellLayer == Tell("set", "set", layer, "query")
AskLayer == Tell("query", "query", 1, "get")

(***************************************************************************)
(* C_K_Get_Layer() after its half second: what it returns.  A reply that   *)
(* is not the garage's ends the function without a return: the register    *)
(* then holds the byte compared last, or, where the compiler takes the     *)
(* missing return for unreachable, the layer byte, unchecked.  In the      *)
(* variant the call is content with any layer reached on the way.          *)
(***************************************************************************)
ReturnedAnyLayer(r) ==
  IF r.from = side /\ r.type = 3 THEN {layer}
  ELSE {r.layer, IF r.from = side THEN r.type ELSE r.from}

Returned(r) ==
  IF r.from = side /\ r.type = 3 THEN {r.layer}
  ELSE {r.layer, IF r.from = side THEN r.type ELSE r.from}

(* Get_ZigBee_Data(): nothing new leaves the buffer as it is.  The variant *)
(* reads four of the eight bytes.                                          *)
Get_ZigBee_DataShort == IF inbox # Nothing THEN [inbox EXCEPT !.layer = 0] ELSE reply

Get_ZigBee_Data == IF inbox # Nothing THEN inbox ELSE reply

GetReply ==
  /\ goes = "get"
  /\ reply' = Get_ZigBee_Data
  /\ inbox' = Nothing
  /\ foreign' = (foreign \/ (inbox # Nothing /\ inbox.from # side))
  /\ \E value \in Returned(reply') :
       /\ success' = (value = layer)
       /\ goes' = IF value = layer THEN "done" ELSE "set"
  /\ UNCHANGED <<side, layer, calls, radio, lifts, gaveup>>

(* 45 seconds have passed. *)
GarageGivesUp ==
  /\ goes = "set" /\ goes' = "done" /\ gaveup' = TRUE
  /\ UNCHANGED <<side, layer, calls, reply, inbox, radio, lifts, success, foreign>>

-----------------------------------------------------------------------------
(* Radio, garages and main car. *)
Lose ==
  /\ \/ sent # <<>> /\ sent' = Tail(sent) /\ UNCHANGED back
     \/ back # <<>> /\ back' = Tail(back) /\ UNCHANGED sent
  /\ UNCHANGED <<call, reply, inbox, lifts, success, foreign, gaveup>>

GarageHears ==
  /\ sent # <<>> /\ sent' = Tail(sent)
  /\ LET m == Head(sent)
     IN  IF m.what = "set"
         THEN goal' = [goal EXCEPT ![m.to] = m.layer] /\ UNCHANGED back
         ELSE back' = OnAir(back, Reply(m.to, floor[m.to])) /\ UNCHANGED goal
  /\ UNCHANGED <<call, reply, inbox, floor, success, foreign, gaveup>>

LiftMoves ==
  /\ \E s \in Sides :
       /\ floor[s] # goal[s]
       /\ floor' = [floor EXCEPT ![s] = IF @ < goal[s] THEN @ + 1 ELSE @ - 1]
  /\ UNCHANGED <<call, reply, inbox, radio, goal, success, foreign, gaveup>>

ReplyComes ==
  /\ back # <<>> /\ back' = Tail(back)
  /\ inbox' = IF inbox = Nothing THEN Head(back) ELSE inbox
  /\ UNCHANGED <<call, reply, sent, lifts, success, foreign, gaveup>>

OtherComes ==
  /\ inbox = Nothing /\ goes # "done" /\ inbox' \in Other
  /\ UNCHANGED <<call, reply, radio, lifts, success, foreign, gaveup>>

GarageStep == Clear_ZigBee_Data \/ TellLayer \/ AskLayer \/ GetReply \/ GarageGivesUp
GarageWorld == Lose \/ GarageHears \/ LiftMoves \/ ReplyComes \/ OtherComes

GarageNext == C_K_Set_Layer \/ GarageStep \/ GarageWorld

-----------------------------------------------------------------------------
Replies == {Reply(s, l) : s \in Sides, l \in Layers}
Messages == Replies \cup Other \cup {Nothing}
Commands == [to : Sides, what : {"set", "query"}, layer : Layers]

GarageTypeOK ==
  /\ goes \in {"done", "clear", "set", "query", "get"}
  /\ side \in Sides /\ layer \in Layers /\ calls \in 0..GarageCalls
  /\ reply \in Messages /\ inbox \in Messages
  /\ sent \in Seq(Commands) /\ Len(sent) <= Room
  /\ back \in Seq(Replies) /\ Len(back) <= Room
  /\ floor \in [Sides -> Layers] /\ goal \in [Sides -> Layers]
  /\ success \in BOOLEAN /\ foreign \in BOOLEAN /\ gaveup \in BOOLEAN

(***************************************************************************)
(* When a call ends with the beep the lift is at the layer asked for and   *)
(* stays there, whatever was lost or late, unless a message of somebody    *)
(* else was read, for which C_K_Get_Layer() returns nothing of its own, or *)
(* a call gave up, whose commands and replies may still be on their way.   *)
(***************************************************************************)
SuccessIsTrue ==
  success /\ ~foreign /\ ~gaveup => floor[side] = layer /\ goal[side] = layer
=============================================================================
