-------------------------- MODULE Dialogue_proofs ---------------------------
(***************************************************************************)
(* What the car takes for an answer of the camera answers its own request, *)
(* for any number of requests, and it believes a garage only when it is    *)
(* right, for any garages, layers, number of calls and room on the air.    *)
(* The expression in a QR code is evaluated as it should be.               *)
(***************************************************************************)
EXTENDS Dialogue, QRCode, SequenceTheorems, TLAPS

-----------------------------------------------------------------------------
(***************************************************************************)
(* The garages.  The argument is about the order in which messages are on  *)
(* their way: the layers a garage is still to be told are those of the     *)
(* call before and then those of this call; and once a reply says that a   *)
(* lift is where it goes, the lift stays and every later reply says the    *)
(* same.                                                                   *)
(***************************************************************************)

(* What is known of a queue that got a message, or lost its first one. *)
LEMMA OnAirIs ==
  ASSUME NEW S, NEW q \in Seq(S), NEW m \in S, Len(q) <= Room
  PROVE  /\ OnAir(q, m) \in Seq(S) /\ Len(OnAir(q, m)) <= Room
         /\ Len(OnAir(q, m)) \in {Len(q), Len(q) + 1}
         /\ \A h \in 1..Len(OnAir(q, m)) :
              OnAir(q, m)[h] = IF h <= Len(q) THEN q[h] ELSE m
BY GarageAssumption DEF OnAir

LEMMA TailIs ==
  ASSUME NEW S, NEW q \in Seq(S), q # <<>>
  PROVE  /\ Tail(q) \in Seq(S) /\ Len(Tail(q)) = Len(q) - 1 /\ Len(q) \in Nat \ {0}
         /\ \A h \in 1..Len(Tail(q)) : h + 1 \in 1..Len(q) /\ Tail(q)[h] = q[h + 1]
         /\ Head(q) = q[1] /\ Head(q) \in S
OBVIOUS

LEMMA ReplyIs ==
  /\ \A r \in Replies : r.from \in Sides /\ r.type = 3 /\ r.layer \in Layers
  /\ \A s \in Sides, l \in Layers :
       Reply(s, l) \in Replies /\ Reply(s, l).from = s /\ Reply(s, l).layer = l
BY DEF Replies, Reply

LEMMA NothingIs == Nothing.from \notin Sides /\ Nothing.layer \notin Layers
BY GarageAssumption DEF Nothing

-----------------------------------------------------------------------------
LEMMA TypeInit == GarageInit => GarageTypeOK
<1>. SUFFICES ASSUME GarageInit PROVE GarageTypeOK
  OBVIOUS
<1>1. side \in Sides
  BY GarageAssumption DEF GarageInit
<1>2. layer \in Layers /\ calls \in 0..GarageCalls
  BY GarageAssumption DEF GarageInit
<1>3. sent \in Seq(Commands) /\ Len(sent) <= Room /\ back \in Seq(Replies) /\ Len(back) <= Room
  BY GarageAssumption DEF GarageInit
<1>. QED
  BY <1>1, <1>2, <1>3 DEF GarageInit, GarageTypeOK, Messages

LEMMA TypeCall == ASSUME GarageTypeOK, C_K_Set_Layer PROVE GarageTypeOK'
<1>1. calls' \in 0..GarageCalls
  BY GarageAssumption DEF C_K_Set_Layer, SetLayer, GarageTypeOK
<1>. QED
  BY <1>1 DEF C_K_Set_Layer, SetLayer, GarageTypeOK, Messages, radio, lifts

LEMMA TypeStep == ASSUME GarageTypeOK, GarageStep PROVE GarageTypeOK'
<1>1. CASE Clear_ZigBee_Data
  BY <1>1 DEF Clear_ZigBee_Data, GarageTypeOK, Messages, radio, lifts
<1>2. ASSUME NEW here, NEW what \in {"set", "query"}, NEW lay \in Layers,
             NEW next \in {"query", "get"}, Tell(here, what, lay, next)
      PROVE  GarageTypeOK'
  <2>1. [to |-> side, what |-> what, layer |-> lay] \in Commands
    BY DEF GarageTypeOK, Commands
  <2>2. sent' \in Seq(Commands) /\ Len(sent') <= Room
    BY <1>2, <2>1, OnAirIs DEF Tell, GarageTypeOK
  <2>. QED
    BY <1>2, <2>2 DEF Tell, GarageTypeOK, lifts
<1>3. CASE TellLayer
  BY <1>2, <1>3 DEF TellLayer, GarageTypeOK
<1>4. CASE AskLayer
  BY <1>2, <1>4, GarageAssumption DEF AskLayer
<1>5. CASE GetReply
  <2>1. reply' \in Messages /\ inbox' \in Messages
    BY <1>5 DEF GetReply, Get_ZigBee_Data, GarageTypeOK, Messages
  <2>2. goes' \in {"done", "set"} /\ success' \in BOOLEAN /\ foreign' \in BOOLEAN
    BY <1>5 DEF GetReply, GarageTypeOK
  <2>. QED
    BY <1>5, <2>1, <2>2 DEF GetReply, GarageTypeOK, radio, lifts
<1>6. CASE GarageGivesUp
  BY <1>6 DEF GarageGivesUp, GarageTypeOK, radio, lifts
<1>. QED
  BY <1>1, <1>3, <1>4, <1>5, <1>6 DEF GarageStep

LEMMA TypeWorld == ASSUME GarageTypeOK, GarageWorld PROVE GarageTypeOK'
<1>. USE DEF GarageTypeOK, call, radio, lifts
<1>1. CASE Lose
  <2>1. sent' \in Seq(Commands) /\ Len(sent') <= Room /\ back' \in Seq(Replies) /\ Len(back') <= Room
    <3>1. CASE sent # <<>> /\ sent' = Tail(sent) /\ UNCHANGED back
      BY <3>1, TailIs, GarageAssumption
    <3>2. CASE back # <<>> /\ back' = Tail(back) /\ UNCHANGED sent
      BY <3>2, TailIs, GarageAssumption
    <3>. QED BY <1>1, <3>1, <3>2 DEF Lose
  <2>. QED BY <1>1, <2>1 DEF Lose
<1>2. CASE GarageHears
  <2>1. Head(sent) \in Commands /\ sent' \in Seq(Commands) /\ Len(sent') <= Room
    BY <1>2, TailIs, GarageAssumption DEF GarageHears
  <2>2. goal' \in [Sides -> Layers]
    BY <1>2, <2>1 DEF GarageHears, Commands
  <2>3. Reply(Head(sent).to, floor[Head(sent).to]) \in Replies
    BY <2>1, ReplyIs DEF Commands
  <2>4. back' \in Seq(Replies) /\ Len(back') <= Room
    <3>1. \/ back' = back
          \/ back' = OnAir(back, Reply(Head(sent).to, floor[Head(sent).to]))
      BY <1>2 DEF GarageHears
    <3>. QED BY <2>3, <3>1, OnAirIs
  <2>. QED BY <1>2, <2>1, <2>2, <2>4 DEF GarageHears
<1>3. CASE LiftMoves
  <2>1. PICK s \in Sides :
          floor[s] # goal[s] /\ floor' = [floor EXCEPT ![s] = IF @ < goal[s] THEN @ + 1 ELSE @ - 1]
    BY <1>3 DEF LiftMoves
  <2>2. (IF floor[s] < goal[s] THEN floor[s] + 1 ELSE floor[s] - 1) \in Layers
    BY <2>1, GarageAssumption
  <2>3. floor' \in [Sides -> Layers]
    BY <2>1, <2>2
  <2>. QED BY <1>3, <2>3 DEF LiftMoves
<1>4. CASE ReplyComes
  <2>1. Head(back) \in Replies /\ back' \in Seq(Replies) /\ Len(back') <= Room
    BY <1>4, TailIs, GarageAssumption DEF ReplyComes
  <2>. QED BY <1>4, <2>1 DEF ReplyComes, Messages
<1>5. CASE OtherComes
  BY <1>5 DEF OtherComes, Messages
<1>. QED
  BY <1>1, <1>2, <1>3, <1>4, <1>5 DEF GarageWorld

-----------------------------------------------------------------------------
(* The commands on their way to a garage take it where it is going, or,    *)
(* after those, where the call under way wants it.                         *)
IsSet(m, s) == m.to = s /\ m.what = "set"

SetsFit ==
  \A h \in 1..Len(sent) : \A s \in Sides :
    IsSet(sent[h], s) =>
      sent[h].layer = goal[s] \/ (s = side /\ goes # "done" /\ sent[h].layer = layer)

SetsInOrder ==
  \A h, j \in 1..Len(sent) :
    h < j /\ IsSet(sent[h], side) /\ IsSet(sent[j], side) /\ sent[h].layer = layer
      => sent[j].layer = layer

(* Once a reply says that the lift is where it goes, all later ones do,    *)
(* and it is there.                                                        *)
AllAt(s, first) ==
  \A j \in first..Len(back) : back[j].from = s => back[j].layer = goal[s]

RepliesFit ==
  \A s \in Sides :
    /\ \A h \in 1..Len(back) :
         back[h].from = s /\ back[h].layer = goal[s] => floor[s] = goal[s] /\ AllAt(s, h)
    /\ inbox.from = s /\ inbox.layer = goal[s] => floor[s] = goal[s] /\ AllAt(s, 1)

(* A lift that is not under way for this call rests, and no reply says     *)
(* anything else.                                                          *)
Settled ==
  \A s \in Sides :
    s # side \/ goal[s] # layer \/ goes = "done" =>
      /\ floor[s] = goal[s]
      /\ inbox.from = s => inbox.layer = goal[s]
      /\ AllAt(s, 1)

(* What the call under way has read so far is not what it waits for. *)
ReadSoFar ==
  goes # "done" =>
    reply = Nothing \/ (reply.from = side /\ reply.type = 3 /\ reply.layer # layer)

Told == success => goes = "done" /\ goal[side] = layer

OrderInv == SetsFit /\ SetsInOrder /\ RepliesFit /\ Settled /\ ReadSoFar /\ Told
Undisturbed == ~foreign /\ ~gaveup
GarageInv == GarageTypeOK /\ (Undisturbed => OrderInv)

LEMMA OrderInit == GarageInit => OrderInv
<1>. SUFFICES ASSUME GarageInit PROVE OrderInv
  OBVIOUS
<1>1. Len(sent) = 0 /\ Len(back) = 0 /\ inbox = Nothing
  BY DEF GarageInit
<1>2. SetsFit /\ SetsInOrder
  BY <1>1 DEF SetsFit, SetsInOrder
<1>3. RepliesFit /\ Settled
  BY <1>1, NothingIs DEF GarageInit, RepliesFit, Settled, AllAt
<1>4. ReadSoFar /\ Told
  BY DEF GarageInit, ReadSoFar, Told
<1>. QED BY <1>2, <1>3, <1>4 DEF OrderInv

(* A new call finds every lift at rest. *)
LEMMA OrderCall == ASSUME GarageTypeOK, OrderInv, C_K_Set_Layer PROVE OrderInv'
<1>. USE DEF OrderInv, C_K_Set_Layer, SetLayer, radio, lifts
<1>1. SetsFit'
  BY DEF SetsFit
<1>2. SetsInOrder'
  BY DEF SetsFit, SetsInOrder, GarageTypeOK
<1>3. RepliesFit' /\ Settled'
  BY DEF RepliesFit, Settled, AllAt
<1>4. ReadSoFar' /\ Told'
  BY DEF ReadSoFar, Told
<1>. QED BY <1>1, <1>2, <1>3, <1>4

LEMMA OrderClear == ASSUME GarageTypeOK, OrderInv, Clear_ZigBee_Data PROVE OrderInv'
<1>. USE DEF OrderInv, Clear_ZigBee_Data, radio, lifts
<1>1. SetsFit' /\ SetsInOrder'
  BY DEF SetsFit, SetsInOrder
<1>2. RepliesFit' /\ Settled'
  BY NothingIs DEF RepliesFit, Settled, AllAt
<1>3. ReadSoFar' /\ Told'
  BY DEF ReadSoFar, Told
<1>. QED BY <1>1, <1>2, <1>3

(* The command joins the end of the queue; a question is no command. *)
LEMMA OrderTell ==
  ASSUME GarageTypeOK, OrderInv, TellLayer \/ AskLayer PROVE OrderInv'
<1>. USE DEF OrderInv, lifts
<1>1. PICK what \in {"set", "query"}, lay \in Layers :
        /\ what = "set" => lay = layer
        /\ sent' = OnAir(sent, [to |-> side, what |-> what, layer |-> lay])
  BY GarageAssumption DEF TellLayer, AskLayer, Tell, GarageTypeOK
<1>2. /\ goes # "done" /\ goes' # "done"
      /\ UNCHANGED <<side, layer, reply, inbox, back, floor, goal, success>>
  BY DEF TellLayer, AskLayer, Tell
<1>. DEFINE m == [to |-> side, what |-> what, layer |-> lay]
<1>3. m \in Commands /\ (IsSet(m, side) => m.layer = layer) /\ m.to = side
  BY <1>1 DEF Commands, GarageTypeOK, IsSet
<1>. HIDE DEF m
<1>4. /\ Len(sent') \in {Len(sent), Len(sent) + 1}
      /\ \A h \in 1..Len(sent') : sent'[h] = IF h <= Len(sent) THEN sent[h] ELSE m
      /\ Len(sent) \in Nat
  BY <1>1, <1>3, OnAirIs DEF GarageTypeOK, m
<1>5. SetsFit'
  BY <1>2, <1>3, <1>4 DEF SetsFit, IsSet
<1>6. SetsInOrder'
  BY <1>2, <1>3, <1>4 DEF SetsInOrder, IsSet
<1>7. RepliesFit' /\ Settled'
  BY <1>2 DEF RepliesFit, Settled, AllAt
<1>8. ReadSoFar' /\ Told'
  BY <1>2 DEF ReadSoFar, Told
<1>. QED BY <1>5, <1>6, <1>7, <1>8

(***************************************************************************)
(* The call ends only with a reply of the garage's that names the layer    *)
(* asked for.  If the lift went elsewhere no reply could say so: it is on  *)
(* its way there, and the reply says it has arrived.                       *)
(***************************************************************************)
LEMMA OrderGet ==
  ASSUME GarageTypeOK, OrderInv, GetReply, ~foreign' PROVE OrderInv'
<1>. USE DEF OrderInv, radio, lifts
<1>1. /\ goes = "get" /\ inbox' = Nothing /\ goes' \in {"done", "set"}
      /\ UNCHANGED <<side, layer, sent, back, floor, goal>>
      /\ inbox # Nothing => inbox.from = side
  BY DEF GetReply
<1>2. /\ reply' = Nothing \/ (reply'.from = side /\ reply'.type = 3)
      /\ reply'.from = side => (inbox # Nothing /\ reply' = inbox) \/ reply'.layer # layer
  <2>1. CASE inbox = Nothing
    BY <1>1, <2>1, NothingIs DEF GetReply, Get_ZigBee_Data, ReadSoFar, GarageTypeOK
  <2>2. CASE inbox # Nothing
    <3>1. inbox \in Replies
      BY <1>1, <2>2, GarageAssumption DEF GarageTypeOK, Messages
    <3>. QED BY <1>1, <2>2, <3>1, ReplyIs DEF GetReply, Get_ZigBee_Data
  <2>. QED BY <2>1, <2>2
<1>3. ASSUME goes' = "set", success' = FALSE,
             reply' = Nothing \/ (reply'.from = side /\ reply'.type = 3 /\ reply'.layer # layer)
      PROVE  OrderInv'
  <2>1. SetsFit' /\ SetsInOrder'
    BY <1>1, <1>3 DEF SetsFit, SetsInOrder
  <2>2. RepliesFit' /\ Settled'
    BY <1>1, <1>3, NothingIs DEF RepliesFit, Settled, AllAt
  <2>3. ReadSoFar' /\ Told'
    BY <1>1, <1>3 DEF ReadSoFar, Told
  <2>. QED BY <2>1, <2>2, <2>3
<1>4. ASSUME goes' = "done", inbox.from = side, inbox.layer = layer
      PROVE  OrderInv'
  <2>1. side \in Sides
    BY DEF GarageTypeOK
  <2>2. goal[side] = layer
    BY <1>4, <2>1 DEF Settled
  <2>3. floor[side] = goal[side] /\ AllAt(side, 1)
    BY <1>4, <2>1, <2>2 DEF RepliesFit
  <2>4. SetsFit' /\ SetsInOrder'
    BY <1>1, <1>4, <2>2 DEF SetsFit, SetsInOrder
  <2>5. RepliesFit' /\ Settled'
    BY <1>1, <1>4, <2>2, <2>3, NothingIs DEF RepliesFit, Settled, AllAt
  <2>6. ReadSoFar' /\ Told'
    BY <1>1, <1>4, <2>2 DEF ReadSoFar, Told
  <2>. QED BY <2>4, <2>5, <2>6
<1>5. CASE reply' = Nothing
  <2>1. Returned(reply') = {0}
    BY <1>5, GarageAssumption DEF Returned, Nothing, GarageTypeOK
  <2>2. goes' = "set" /\ success' = FALSE
    BY <2>1, GarageAssumption DEF GetReply, GarageTypeOK
  <2>. QED BY <1>3, <1>5, <2>2
<1>6. CASE reply'.from = side /\ reply'.type = 3
  <2>1. Returned(reply') = {reply'.layer}
    BY <1>6 DEF Returned
  <2>2. CASE reply'.layer = layer
    <3>1. goes' = "done"
      BY <2>1, <2>2 DEF GetReply
    <3>. QED BY <1>2, <1>4, <1>6, <2>2, <3>1
  <2>3. CASE reply'.layer # layer
    <3>1. goes' = "set" /\ success' = FALSE
      BY <2>1, <2>3 DEF GetReply
    <3>. QED BY <1>3, <1>6, <2>3, <3>1
  <2>. QED BY <2>2, <2>3
<1>. QED BY <1>2, <1>5, <1>6

-----------------------------------------------------------------------------
(* Losing the first command or reply leaves the others in their order. *)
LEMMA OrderLose == ASSUME GarageTypeOK, OrderInv, Lose PROVE OrderInv'
<1>. USE DEF OrderInv, call, lifts
<1>1. UNCHANGED <<goes, side, layer, reply, inbox, floor, goal, success>>
  BY DEF Lose
<1>2. ReadSoFar' /\ Told'
  BY <1>1 DEF ReadSoFar, Told
<1>3. CASE sent # <<>> /\ sent' = Tail(sent) /\ UNCHANGED back
  <2>1. /\ Len(sent') = Len(sent) - 1 /\ Len(sent) \in Nat
        /\ \A h \in 1..Len(sent') : h + 1 \in 1..Len(sent) /\ sent'[h] = sent[h + 1]
    BY <1>3, TailIs DEF GarageTypeOK
  <2>2. SetsFit'
    BY <1>1, <2>1 DEF SetsFit
  <2>3. SetsInOrder'
    BY <1>1, <2>1 DEF SetsInOrder
  <2>4. RepliesFit' /\ Settled'
    BY <1>1, <1>3 DEF RepliesFit, Settled, AllAt
  <2>. QED BY <1>2, <2>2, <2>3, <2>4
<1>4. CASE back # <<>> /\ back' = Tail(back) /\ UNCHANGED sent
  <2>1. /\ Len(back') = Len(back) - 1 /\ Len(back) \in Nat
        /\ \A h \in 1..Len(back') : h + 1 \in 1..Len(back) /\ back'[h] = back[h + 1]
    BY <1>4, TailIs DEF GarageTypeOK
  <2>2. SetsFit' /\ SetsInOrder'
    BY <1>1, <1>4 DEF SetsFit, SetsInOrder
  <2>3. RepliesFit'
    BY <1>1, <2>1 DEF RepliesFit, AllAt
  <2>4. Settled'
    BY <1>1, <2>1 DEF Settled, AllAt
  <2>. QED BY <1>2, <2>2, <2>3, <2>4
<1>. QED BY <1>3, <1>4 DEF Lose

(* A reply that comes was the first on the air. *)
LEMMA OrderReply == ASSUME GarageTypeOK, OrderInv, ReplyComes PROVE OrderInv'
<1>. USE DEF OrderInv, call, lifts
<1>1. /\ UNCHANGED <<goes, side, layer, reply, sent, floor, goal, success>>
      /\ inbox' = inbox \/ inbox' = back[1]
  BY TailIs DEF ReplyComes, GarageTypeOK
<1>2. /\ Len(back') = Len(back) - 1 /\ Len(back) \in Nat \ {0}
      /\ \A h \in 1..Len(back') : h + 1 \in 1..Len(back) /\ back'[h] = back[h + 1]
  BY TailIs DEF ReplyComes, GarageTypeOK
<1>3. SetsFit' /\ SetsInOrder'
  BY <1>1 DEF SetsFit, SetsInOrder
<1>4. RepliesFit'
  <2>. SUFFICES ASSUME NEW s \in Sides
                PROVE  /\ \A h \in 1..Len(back') :
                            back'[h].from = s /\ back'[h].layer = goal[s]
                              => floor[s] = goal[s] /\ AllAt(s, h)'
                       /\ inbox'.from = s /\ inbox'.layer = goal[s]
                            => floor[s] = goal[s] /\ AllAt(s, 1)'
    BY <1>1 DEF RepliesFit
  <2>1. \A h \in 1..Len(back) : AllAt(s, h) => AllAt(s, 1)' \/ h # 1
    BY <1>1, <1>2 DEF AllAt
  <2>2. 1 \in 1..Len(back)
    BY <1>2
  <2>3. inbox'.from = s /\ inbox'.layer = goal[s] => floor[s] = goal[s] /\ AllAt(s, 1)'
    BY <1>1, <2>1, <2>2 DEF RepliesFit
  <2>4. ASSUME NEW h \in 1..Len(back'), back'[h].from = s, back'[h].layer = goal[s]
        PROVE  floor[s] = goal[s] /\ AllAt(s, h)'
    <3>1. floor[s] = goal[s] /\ AllAt(s, h + 1)
      BY <1>2, <2>4 DEF RepliesFit
    <3>2. \A j \in h..Len(back') : j + 1 \in (h + 1)..Len(back) /\ j \in 1..Len(back')
      BY <1>2
    <3>. QED BY <1>1, <1>2, <3>1, <3>2 DEF AllAt
  <2>. QED BY <2>3, <2>4
<1>5. Settled'
  BY <1>1, <1>2 DEF Settled, AllAt
<1>6. ReadSoFar' /\ Told'
  BY <1>1 DEF ReadSoFar, Told
<1>. QED BY <1>3, <1>4, <1>5, <1>6

LEMMA OrderOther == ASSUME GarageTypeOK, OrderInv, OtherComes PROVE OrderInv'
<1>. USE DEF OrderInv, call, radio, lifts
<1>1. inbox'.from \notin Sides
  BY GarageAssumption DEF OtherComes
<1>2. SetsFit' /\ SetsInOrder'
  BY DEF OtherComes, SetsFit, SetsInOrder
<1>3. RepliesFit' /\ Settled'
  BY <1>1 DEF OtherComes, RepliesFit, Settled, AllAt
<1>4. ReadSoFar' /\ Told'
  BY DEF OtherComes, ReadSoFar, Told
<1>. QED BY <1>2, <1>3, <1>4

(* A lift moves only for the call under way, and while it moves no reply   *)
(* on its way says that it has arrived.                                    *)
LEMMA OrderLift == ASSUME GarageTypeOK, OrderInv, LiftMoves PROVE OrderInv'
<1>. USE DEF OrderInv, call, radio
<1>1. PICK s \in Sides :
        /\ floor[s] # goal[s]
        /\ floor' = [floor EXCEPT ![s] = IF @ < goal[s] THEN @ + 1 ELSE @ - 1]
  BY DEF LiftMoves
<1>2. /\ UNCHANGED <<goes, side, layer, reply, inbox, sent, back, goal, success>>
      /\ \A t \in Sides : t # s => floor'[t] = floor[t]
  BY <1>1 DEF LiftMoves, GarageTypeOK
<1>3. SetsFit' /\ SetsInOrder'
  BY <1>2 DEF SetsFit, SetsInOrder
<1>4. RepliesFit' /\ Settled'
  BY <1>1, <1>2 DEF RepliesFit, Settled, AllAt
<1>5. ReadSoFar' /\ Told'
  BY <1>2 DEF ReadSoFar, Told
<1>. QED BY <1>3, <1>4, <1>5

(***************************************************************************)
(* A garage hears a command that only repeats where its lift is going, or  *)
(* the first one of this call: then no reply on its way names the layer    *)
(* asked for.  A question adds a reply at the end.                         *)
(***************************************************************************)
LEMMA OrderHears == ASSUME GarageTypeOK, OrderInv, GarageHears PROVE OrderInv'
<1>. USE DEF OrderInv, call
<1>. DEFINE m == sent[1]
<1>1. UNCHANGED <<goes, side, layer, reply, inbox, floor, success>>
  BY DEF GarageHears
<1>2. /\ Len(sent') = Len(sent) - 1 /\ Len(sent) \in Nat \ {0}
      /\ \A h \in 1..Len(sent') : h + 1 \in 1..Len(sent) /\ sent'[h] = sent[h + 1]
      /\ m \in Commands /\ Head(sent) = m
  BY TailIs DEF GarageHears, GarageTypeOK
<1>3. ReadSoFar'
  BY <1>1 DEF ReadSoFar
<1>4. CASE m.what = "set"
  <2>1. goal' = [goal EXCEPT ![m.to] = m.layer] /\ back' = back
    BY <1>2, <1>4 DEF GarageHears
  <2>2. m.to \in Sides /\ \A s \in Sides : goal'[s] = IF s = m.to THEN m.layer ELSE goal[s]
    BY <1>2, <2>1 DEF GarageTypeOK, Commands
  <2>3. CASE m.layer = goal[m.to]
    <3>1. goal' = goal
      BY <2>1, <2>3 DEF GarageTypeOK
    <3>2. SetsFit' /\ SetsInOrder'
      BY <1>1, <1>2, <3>1 DEF SetsFit, SetsInOrder
    <3>3. RepliesFit' /\ Settled' /\ Told'
      BY <1>1, <2>1, <3>1 DEF RepliesFit, Settled, AllAt, Told
    <3>. QED BY <1>3, <3>2, <3>3
  <2>4. CASE m.layer # goal[m.to]
    <3>1. m.to = side /\ goes # "done" /\ m.layer = layer
      BY <1>2, <1>4, <2>2, <2>4 DEF SetsFit, IsSet
    <3>2. SetsInOrder'
      BY <1>1, <1>2 DEF SetsInOrder
    <3>3. \A h \in 1..Len(sent') : IsSet(sent'[h], side) => sent'[h].layer = layer
      BY <1>2, <1>4, <3>1 DEF SetsInOrder, IsSet
    <3>4. SetsFit'
      BY <1>1, <1>2, <2>2, <3>1, <3>3 DEF SetsFit, IsSet
    <3>5. RepliesFit'
      BY <1>1, <2>1, <2>2, <2>4, <3>1 DEF RepliesFit, Settled, AllAt
    <3>6. Settled' /\ Told'
      BY <1>1, <2>1, <2>2, <3>1 DEF Settled, AllAt, Told
    <3>. QED BY <1>3, <3>2, <3>4, <3>5, <3>6
  <2>. QED BY <2>3, <2>4
<1>5. CASE m.what # "set"
  <2>1. goal' = goal /\ m.to \in Sides
    BY <1>2, <1>5 DEF GarageHears, Commands
  <2>. DEFINE r == Reply(m.to, floor[m.to])
  <2>2. back' = OnAir(back, r)
    BY <1>2, <1>5 DEF GarageHears
  <2>3. r \in Replies /\ r.from = m.to /\ r.layer = floor[m.to]
    BY <2>1, ReplyIs DEF GarageTypeOK
  <2>. HIDE DEF r
  <2>4. /\ Len(back') \in {Len(back), Len(back) + 1} /\ Len(back) \in Nat
        /\ \A h \in 1..Len(back') : back'[h] = IF h <= Len(back) THEN back[h] ELSE r
    <3>1. back \in Seq(Replies) /\ Len(back) <= Room /\ Len(back) \in Nat
      BY DEF GarageTypeOK
    <3>2. /\ Len(OnAir(back, r)) \in {Len(back), Len(back) + 1}
          /\ \A h \in 1..Len(OnAir(back, r)) :
               OnAir(back, r)[h] = IF h <= Len(back) THEN back[h] ELSE r
      <4>1. r \in Replies
        BY <2>3
      <4>. QED BY <4>1, <3>1, OnAirIs, SMTT(30)
    <3>. QED BY <2>2, <3>1, <3>2
  <2>5. SetsFit' /\ SetsInOrder'
    <3>1. ASSUME NEW h \in 1..Len(sent'), NEW s \in Sides, IsSet(sent'[h], s)
          PROVE  \/ sent'[h].layer = goal[s]
                 \/ s = side /\ goes # "done" /\ sent'[h].layer = layer
      <4>1. h + 1 \in 1..Len(sent) /\ sent'[h] = sent[h + 1]
        BY <1>2
      <4>. QED BY <3>1, <4>1 DEF SetsFit
    <3>2. ASSUME NEW h \in 1..Len(sent'), NEW j \in 1..Len(sent'), h < j,
                 IsSet(sent'[h], side), IsSet(sent'[j], side), sent'[h].layer = layer
          PROVE  sent'[j].layer = layer
      <4>1. /\ h + 1 \in 1..Len(sent) /\ sent'[h] = sent[h + 1]
            /\ j + 1 \in 1..Len(sent) /\ sent'[j] = sent[j + 1] /\ h + 1 < j + 1
        BY <1>2, <3>2
      <4>. QED BY <3>2, <4>1 DEF SetsInOrder
    <3>3. SetsFit'
      BY <1>1, <2>1, <3>1 DEF SetsFit, IsSet
    <3>4. SetsInOrder'
      BY <1>1, <3>2 DEF SetsInOrder, IsSet
    <3>. QED BY <3>3, <3>4
  <2>6. RepliesFit'
    <3>1. ASSUME NEW s \in Sides, NEW h \in 1..Len(back), floor[s] = goal[s], AllAt(s, h)
          PROVE  \A j \in h..Len(back') : back'[j].from = s => back'[j].layer = goal[s]
      <4>1. ASSUME NEW j \in h..Len(back'), back'[j].from = s
            PROVE  back'[j].layer = goal[s]
        <5>1. CASE j <= Len(back)
          <6>1. j \in h..Len(back) /\ back'[j] = back[j]
            BY <2>4, <4>1, <5>1
          <6>. QED BY <3>1, <4>1, <6>1 DEF AllAt
        <5>2. CASE ~(j <= Len(back))
          <6>1. back'[j] = r
            BY <2>4, <4>1, <5>2
          <6>. QED BY <2>3, <3>1, <4>1, <6>1
        <5>. QED BY <5>1, <5>2
      <4>. QED BY <4>1
    <3>2. ASSUME NEW s \in Sides, floor[s] = goal[s], AllAt(s, 1)
          PROVE  \A j \in 1..Len(back') : back'[j].from = s => back'[j].layer = goal[s]
      BY <2>3, <2>4, <3>2 DEF AllAt
    <3>3. ASSUME NEW s \in Sides, NEW h \in 1..Len(back'),
                 back'[h].from = s, back'[h].layer = goal[s]
          PROVE  /\ floor[s] = goal[s]
                 /\ \A j \in h..Len(back') : back'[j].from = s => back'[j].layer = goal[s]
      <4>1. CASE h <= Len(back)
        <5>1. h \in 1..Len(back) /\ back'[h] = back[h]
          BY <2>4, <4>1
        <5>2. floor[s] = goal[s] /\ AllAt(s, h)
          BY <3>3, <5>1 DEF RepliesFit
        <5>. QED BY <3>1, <5>1, <5>2
      <4>2. CASE ~(h <= Len(back))
        <5>1. back'[h] = r
          BY <2>4, <4>2
        <5>2. \A j \in h..Len(back') : j = h
          BY <2>4, <4>2
        <5>. QED BY <2>3, <3>3, <5>1, <5>2
      <4>. QED BY <4>1, <4>2
    <3>4. ASSUME NEW s \in Sides, inbox.from = s, inbox.layer = goal[s]
          PROVE  floor[s] = goal[s] /\ AllAt(s, 1)
      BY <3>4 DEF RepliesFit
    <3>. QED BY <1>1, <2>1, <3>2, <3>3, <3>4 DEF RepliesFit, AllAt
  <2>7. Settled' /\ Told'
    BY <1>1, <2>1, <2>3, <2>4 DEF Settled, AllAt, Told
  <2>. QED BY <1>3, <2>5, <2>6, <2>7
<1>. QED BY <1>4, <1>5

-----------------------------------------------------------------------------
LEMMA GarageKeeps == ASSUME GarageInv, GarageNext PROVE GarageInv'
<1>1. GarageTypeOK'
  BY TypeCall, TypeStep, TypeWorld DEF GarageInv, GarageNext
<1>2. ASSUME Undisturbed' PROVE OrderInv'
  <2>1. Undisturbed
    BY <1>2 DEF Undisturbed, GarageNext, C_K_Set_Layer, SetLayer, GarageStep, Clear_ZigBee_Data,
       TellLayer, AskLayer, Tell, GetReply, GarageGivesUp, GarageWorld, Lose, GarageHears,
       LiftMoves, ReplyComes, OtherComes, GarageInv, GarageTypeOK
  <2>2. GarageTypeOK /\ OrderInv
    BY <2>1 DEF GarageInv
  <2>3. CASE C_K_Set_Layer
    BY <2>2, <2>3, OrderCall
  <2>4. CASE GarageStep
    <3>1. ~GarageGivesUp
      BY <1>2 DEF Undisturbed, GarageGivesUp
    <3>. QED BY <1>2, <2>2, <2>4, <3>1, OrderClear, OrderTell, OrderGet DEF GarageStep, Undisturbed
  <2>5. CASE GarageWorld
    BY <2>2, <2>5, OrderLose, OrderHears, OrderLift, OrderReply, OrderOther DEF GarageWorld
  <2>. QED BY <2>3, <2>4, <2>5 DEF GarageNext
<1>. QED BY <1>1, <1>2 DEF GarageInv

LEMMA GarageStarts == GarageInit => GarageInv
BY TypeInit, OrderInit DEF GarageInv

LEMMA GarageStutters == ASSUME GarageInv, UNCHANGED garageVars PROVE GarageInv'
BY DEF garageVars, call, radio, lifts, GarageInv, GarageTypeOK, Undisturbed, OrderInv, SetsFit,
   SetsInOrder, RepliesFit, Settled, AllAt, ReadSoFar, Told

LEMMA GarageImplies == GarageInv => SuccessIsTrue
BY DEF GarageInv, GarageTypeOK, Undisturbed, OrderInv, Told, Settled, SuccessIsTrue

-----------------------------------------------------------------------------
(***************************************************************************)
(* The camera.  A message carries no number, so the argument is about what *)
(* can be on its way: if the camera owed nothing when a call began, then   *)
(* after the mailbox was cleared only the answer to the call's own request *)
(* can be in it or be due.                                                 *)
(***************************************************************************)

(* Nothing on its way is younger than the last request. *)
NumbersInOrder == box.no <= no /\ \A a \in due : a.no <= no

(* While a call is under way it has taken nothing yet. *)
NothingTaken == step # "done" => taken = Empty /\ look # "none" /\ no # 0

(* What a call that began with nothing owed finds. *)
OnlyMine ==
  ~owing =>
    /\ step \in {"clear", "request"} => due = {}
    /\ step = "request" => box = Empty
    /\ step = "poll" => due \subseteq {Answer(look, no)} /\ box \in {Empty, Answer(look, no)}

CameraInv == CameraTypeOK /\ NumbersInOrder /\ NothingTaken /\ OnlyMine /\ AnswerIsMine

LEMMA InitCamera == CameraInit => CameraInv
<1>. SUFFICES ASSUME CameraInit PROVE CameraInv
  OBVIOUS
<1>1. CameraTypeOK
  <2>1. no \in 0..CameraCalls /\ figures \in 0..Garbage
    BY CameraAssumption DEF CameraInit, Garbage
  <2>. QED BY <2>1 DEF CameraInit, CameraTypeOK
<1>2. NumbersInOrder
  BY DEF CameraInit, NumbersInOrder, Empty, Answer
<1>3. NothingTaken /\ OnlyMine /\ AnswerIsMine
  BY DEF CameraInit, NothingTaken, OnlyMine, AnswerIsMine
<1>. QED BY <1>1, <1>2, <1>3 DEF CameraInv

(* A new request makes the answers under way older, and counts them. *)
LEMMA CallCamera_ == ASSUME CameraInv, CameraCall PROVE CameraInv'
<1>. USE DEF CameraInv
<1>1. CASE Learn
  <2>1. CameraTypeOK'
    BY <1>1, CameraAssumption DEF Learn, CameraTypeOK, Answer, Answers, Empty, Garbage
  <2>2. NumbersInOrder'
    BY <1>1, CameraAssumption DEF Learn, CameraTypeOK, NumbersInOrder, Answer, Answers, Empty
  <2>3. (NothingTaken /\ OnlyMine /\ AnswerIsMine)'
    BY <1>1 DEF Learn, NothingTaken, OnlyMine, AnswerIsMine
  <2>. QED BY <2>1, <2>2, <2>3
<1>2. ASSUME NEW k \in {"qr", "traffic", "figure"}, Distinguish(k) PROVE CameraInv'
  <2>1. CameraTypeOK'
    BY <1>2, CameraAssumption DEF Distinguish, CameraTypeOK, Answers, Empty, Garbage
  <2>2. NumbersInOrder'
    BY <1>2, CameraAssumption DEF Distinguish, CameraTypeOK, NumbersInOrder, Answer, Answers, Empty
  <2>3. (NothingTaken /\ OnlyMine /\ AnswerIsMine)'
    <3>1. NothingTaken'
      BY <1>2 DEF Distinguish, NothingTaken, CameraTypeOK
    <3>2. OnlyMine' /\ AnswerIsMine'
      BY <1>2 DEF Distinguish, OnlyMine, AnswerIsMine
    <3>. QED BY <3>1, <3>2
  <2>. QED BY <2>1, <2>2, <2>3
<1>. QED BY <1>1, <1>2 DEF CameraCall

LEMMA StepCamera == ASSUME CameraInv, CameraStep PROVE CameraInv'
<1>. USE DEF CameraInv
<1>1. CASE Clear
  <2>1. CameraTypeOK' /\ NumbersInOrder'
    BY <1>1, CameraAssumption DEF Clear, CameraTypeOK, NumbersInOrder, Answers, Empty, Answer
  <2>2. (NothingTaken /\ OnlyMine /\ AnswerIsMine)'
    BY <1>1 DEF Clear, NothingTaken, OnlyMine, AnswerIsMine
  <2>. QED BY <2>1, <2>2
<1>2. CASE Request
  <2>1. Answer(look, no) \in Answers
    BY <1>2, CameraAssumption DEF Request, CameraTypeOK, NothingTaken, Answer, Answers
  <2>2. CameraTypeOK' /\ NumbersInOrder'
    BY <1>2, <2>1, CameraAssumption DEF Request, CameraTypeOK, NumbersInOrder, Answer
  <2>3. (NothingTaken /\ OnlyMine /\ AnswerIsMine)'
    BY <1>2 DEF Request, NothingTaken, OnlyMine, AnswerIsMine
  <2>. QED BY <2>1, <2>2, <2>3
<1>3. CASE Accept
  <2>1. box \in Answers /\ box # Empty
    BY <1>3 DEF Accept, Fits, CameraTypeOK, Empty, Answer
  <2>2. CameraTypeOK' /\ NumbersInOrder'
    BY <1>3, <2>1, CameraAssumption
    DEF Accept, CameraTypeOK, NumbersInOrder, Answers, Empty, Answer, Garbage
  <2>3. NothingTaken' /\ OnlyMine'
    BY <1>3 DEF Accept, NothingTaken, OnlyMine
  <2>4. AnswerIsMine'
    BY <1>3, <2>1, CameraAssumption
    DEF Accept, Fits, AnswerIsMine, OnlyMine, NothingTaken, NumbersInOrder, CameraTypeOK,
        Answers, Empty, Answer
  <2>. QED BY <2>2, <2>3, <2>4
<1>4. CASE Reject
  <2>1. CameraTypeOK' /\ NumbersInOrder'
    BY <1>4, CameraAssumption DEF Reject, CameraTypeOK, NumbersInOrder, Answers, Empty, Answer
  <2>2. (NothingTaken /\ OnlyMine /\ AnswerIsMine)'
    BY <1>4 DEF Reject, NothingTaken, OnlyMine, AnswerIsMine
  <2>. QED BY <2>1, <2>2
<1>5. CASE TimeOut
  <2>1. CameraTypeOK' /\ NumbersInOrder'
    BY <1>5, CameraAssumption DEF TimeOut, CameraTypeOK, NumbersInOrder, Garbage
  <2>2. (NothingTaken /\ OnlyMine /\ AnswerIsMine)'
    BY <1>5 DEF TimeOut, NothingTaken, OnlyMine, AnswerIsMine
  <2>. QED BY <2>1, <2>2
<1>. QED BY <1>1, <1>2, <1>3, <1>4, <1>5 DEF CameraStep

LEMMA AnswersCamera == ASSUME CameraInv, CameraAnswers PROVE CameraInv'
<1>. USE DEF CameraInv
<1>1. PICK a \in due :
        /\ due' = due \ {a}
        /\ box' = IF box = Empty THEN a ELSE box
        /\ UNCHANGED <<look, step, no, taken, figures, owing>>
  BY DEF CameraAnswers
<1>2. CameraTypeOK' /\ NumbersInOrder'
  BY <1>1 DEF CameraTypeOK, NumbersInOrder
<1>3. NothingTaken' /\ AnswerIsMine'
  BY <1>1 DEF NothingTaken, AnswerIsMine
<1>4. OnlyMine'
  BY <1>1 DEF OnlyMine
<1>. QED BY <1>2, <1>3, <1>4

LEMMA StutterCamera == ASSUME CameraInv, UNCHANGED cameraVars PROVE CameraInv'
BY DEF cameraVars, CameraInv, CameraTypeOK, NumbersInOrder, NothingTaken, OnlyMine, AnswerIsMine

LEMMA NextCamera == ASSUME CameraInv, [DialogueNext]_dialogueVars PROVE CameraInv'
<1>1. CASE CallCamera
  BY <1>1, CallCamera_ DEF CallCamera
<1>2. CASE CallGarage
  BY <1>2, StutterCamera DEF CallGarage
<1>3. CASE Car
  BY <1>3, StepCamera, StutterCamera DEF Car
<1>4. CASE World
  BY <1>4, AnswersCamera, StutterCamera DEF World
<1>5. CASE UNCHANGED dialogueVars
  BY <1>5, StutterCamera DEF dialogueVars
<1>. QED BY <1>1, <1>2, <1>3, <1>4, <1>5 DEF DialogueNext

THEOREM CameraInvAlways == DialogueSpec => []CameraInv
<1>1. DialogueInit => CameraInv
  BY InitCamera DEF DialogueInit
<1>2. CameraInv /\ [DialogueNext]_dialogueVars => CameraInv'
  BY NextCamera
<1>. QED BY <1>1, <1>2, PTL DEF DialogueSpec

(* The answer a call accepts is to its own request, unless the camera owed *)
(* an older one when the call began.                                       *)
THEOREM AnswerIsMineAlways == DialogueSpec => []AnswerIsMine
<1>1. CameraInv => AnswerIsMine
  BY DEF CameraInv
<1>. QED BY <1>1, CameraInvAlways, PTL

-----------------------------------------------------------------------------
(* The garages' invariant, which the camera does not touch. *)
THEOREM GarageInvAlways == DialogueSpec => []GarageInv
<1>1. DialogueInit => GarageInv
  BY GarageStarts DEF DialogueInit
<1>2. ASSUME GarageInv, [DialogueNext]_dialogueVars PROVE GarageInv'
  <2>1. GarageNext \/ UNCHANGED garageVars
    BY <1>2 DEF DialogueNext, dialogueVars, CallCamera, CallGarage, Car, World, GarageNext
  <2>. QED BY <1>2, <2>1, GarageKeeps, GarageStutters
<1>. QED BY <1>1, <1>2, PTL DEF DialogueSpec

(* A call that ends with the beep has brought the lift to the layer asked  *)
(* for, and it stays there, unless somebody else's message was read or a   *)
(* call gave up.                                                           *)
THEOREM SuccessIsTrueAlways == DialogueSpec => []SuccessIsTrue
BY GarageImplies, GarageInvAlways, PTL

(* The type invariant of the two dialogues. *)
THEOREM DialogueTypeCorrect == DialogueSpec => []DialogueTypeOK
<1>1. CameraInv /\ GarageInv => DialogueTypeOK
  BY DEF CameraInv, GarageInv, DialogueTypeOK
<1>. QED BY <1>1, CameraInvAlways, GarageInvAlways, PTL

-----------------------------------------------------------------------------
(***************************************************************************)
(* What the car makes of a QR code: the evaluation of the expression is    *)
(* right, for all numbers of at most two digits, all signs, every width of *)
(* the computation and whatever local variables hold before they are set.  *)
(***************************************************************************)

-----------------------------------------------------------------------------
(* ARITHMETIC MODULO FOUR                                                  *)

Alike(a, b) == \E k \in Int : a = b + 4 * k

(* Numbers that are alike have the same rest. *)
LEMMA SameRest ==
  ASSUME NEW a \in Int, NEW b \in Int, Alike(a, b)
  PROVE  a % 4 = b % 4
BY DEF Alike

(* What W takes away leaves the rest as it is, since W is divisible by four. *)
LEMMA Wrapping ==
  ASSUME NEW a \in Int
  PROVE  a % W \in 0..(W - 1) /\ Alike(a % W, a)
<1>1. W \in Nat \ {0} /\ W % 4 = 0
  BY QRAssumption
<1>2. PICK w \in Nat : W = 4 * w
  <2>1. W \div 4 \in Nat /\ W = 4 * (W \div 4)
    BY <1>1
  <2>. QED  BY <2>1
<1>3. PICK q \in Int : a = W * q + (a % W)
  <2>1. a \div W \in Int /\ a = W * (a \div W) + (a % W)
    BY <1>1
  <2>. QED  BY <2>1
<1>4. a % W \in 0..(W - 1)
  BY <1>1
<1>5. W * q = 4 * (w * q) /\ w * q \in Int
  BY <1>2
<1>6. a % W = a + 4 * (-(w * q)) /\ -(w * q) \in Int
  BY <1>3, <1>4, <1>5
<1>. QED  BY <1>4, <1>6 DEF Alike

LEMMA AlikeReflexive == ASSUME NEW a \in Int PROVE Alike(a, a)
<1>1. a = a + 4 * 0
  OBVIOUS
<1>. QED  BY <1>1 DEF Alike

LEMMA AlikeTransitive ==
  ASSUME NEW a \in Int, NEW b \in Int, NEW c \in Int, Alike(a, b), Alike(b, c)
  PROVE  Alike(a, c)
<1>1. PICK k \in Int : a = b + 4 * k
  BY DEF Alike
<1>2. PICK l \in Int : b = c + 4 * l
  BY DEF Alike
<1>3. a = c + 4 * (k + l) /\ k + l \in Int
  BY <1>1, <1>2
<1>. QED  BY <1>3 DEF Alike

LEMMA AlikeArithmetic ==
  ASSUME NEW a \in Int, NEW b \in Int, NEW x \in Int, NEW y \in Int,
         Alike(a, x), Alike(b, y)
  PROVE  Alike(a + b, x + y) /\ Alike(a - b, x - y) /\ Alike(a * b, x * y)
<1>1. PICK k \in Int : a = x + 4 * k
  BY DEF Alike
<1>2. PICK l \in Int : b = y + 4 * l
  BY DEF Alike
<1>3. a + b = x + y + 4 * (k + l) /\ k + l \in Int
  BY <1>1, <1>2
<1>4. a - b = x - y + 4 * (k - l) /\ k - l \in Int
  BY <1>1, <1>2
<1>5. a * b = x * y + 4 * (x * l + k * y + 4 * (k * l))
  BY <1>1, <1>2
<1>6. x * l + k * y + 4 * (k * l) \in Int
  OBVIOUS
<1>. QED  BY <1>3, <1>4, <1>5, <1>6 DEF Alike

-----------------------------------------------------------------------------
(* THE ORDER OF OPERATIONS                                                 *)

LEMMA SignsDiffer == Plus # Minus /\ Plus # Times /\ Minus # Times
BY DEF Plus, Minus, Times

(* The operation of a sign, in the integers. *)
Exact(a, b, sign) ==
  IF sign = Plus THEN a + b ELSE IF sign = Minus THEN a - b ELSE a * b

(* A number as it is added, by the sign before it. *)
Signed(n, sign) == IF sign = Plus THEN n ELSE -n

LEMMA ExactIsInt ==
  ASSUME NEW a \in Int, NEW b \in Int, NEW sign \in Signs
  PROVE  Exact(a, b, sign) \in Int
BY DEF Exact, Signs

LEMMA JudgeIsAlike ==
  ASSUME NEW a \in Int, NEW b \in Int, NEW x \in Int, NEW y \in Int, NEW sign \in Signs,
         Alike(a, x), Alike(b, y)
  PROVE  /\ judge(a, b, sign) \in 0..(W - 1)
         /\ Alike(judge(a, b, sign), Exact(x, y, sign))
<1>. DEFINE c == Exact(a, b, sign)
            z == Exact(x, y, sign)
<1>1. c \in Int /\ z \in Int
  BY ExactIsInt
<1>2. judge(a, b, sign) = c % W
  BY SignsDiffer DEF judge, Exact, Signs
<1>3. Alike(c, z)
  BY AlikeArithmetic DEF Exact, Signs
<1>4. c % W \in 0..(W - 1) /\ Alike(c % W, c)
  BY <1>1, Wrapping
<1>5. W \in Nat /\ c % W \in Int
  BY <1>4, QRAssumption
<1>6. Alike(c % W, z)
  BY <1>1, <1>3, <1>4, <1>5, AlikeTransitive
<1>. QED  BY <1>2, <1>4, <1>6

(* judge() applied to two numbers of the text. *)
LEMMA JudgeOfNumbers ==
  ASSUME NEW a \in Int, NEW b \in Int, NEW sign \in Signs
  PROVE  /\ judge(a, b, sign) \in Int
         /\ Alike(judge(a, b, sign), Exact(a, b, sign))
BY AlikeReflexive, JudgeIsAlike, QRAssumption

(* The order of operations, with exact operations in the place of judge(). *)
Ordered(n, s) ==
  CASE Check(s) \in {{}, {0}, {0, 1}} ->
         Exact(Exact(Exact(n[0], n[1], s[0]), n[2], s[1]), n[3], s[2])
    [] Check(s) = {1} ->
         Exact(Exact(n[0], Exact(n[1], n[2], s[1]), s[0]), n[3], s[2])
    [] Check(s) \in {{2}, {0, 2}} ->
         Exact(Exact(n[0], n[1], s[0]), Exact(n[2], n[3], s[2]), s[1])
    [] Check(s) = {1, 2} ->
         Exact(n[0], Exact(Exact(n[1], n[2], s[1]), n[3], s[2]), s[0])
    [] Check(s) = {0, 1, 2} ->
         Exact(Exact(Exact(n[2], n[3], s[2]), n[1], s[1]), n[0], s[0])

(* The places where a '*' may stand, and that Check() tells them apart. *)
LEMMA Places ==
  ASSUME NEW s \in [0..2 -> Signs]
  PROVE  /\ Check(s) \in {{}, {0}, {1}, {2}, {0, 1}, {0, 2}, {1, 2}, {0, 1, 2}}
         /\ \A j \in 0..2 : j \in Check(s) <=> s[j] = Times
<1>1. \A j \in 0..2 : j \in Check(s) <=> s[j] = Times
  BY DEF Check
<1>2. Check(s) \subseteq {0, 1, 2}
  BY DEF Check
<1>. QED  BY <1>1, <1>2

LEMMA EvaluateIsAlike ==
  ASSUME NEW n, NEW s \in [0..2 -> Signs],
         n[0] \in Int, n[1] \in Int, n[2] \in Int, n[3] \in Int
  PROVE  /\ Evaluate(n, s) \in 0..(W - 1) /\ Ordered(n, s) \in Int
         /\ Alike(Evaluate(n, s), Ordered(n, s))
<1>1. s[0] \in Signs /\ s[1] \in Signs /\ s[2] \in Signs
  OBVIOUS
<1>2. W \in Nat
  BY QRAssumption
<1>3. \A a, b, x, y \in Int : \A sign \in Signs :
        Alike(a, x) /\ Alike(b, y) =>
          /\ judge(a, b, sign) \in 0..(W - 1) /\ judge(a, b, sign) \in Int
          /\ Exact(x, y, sign) \in Int
          /\ Alike(judge(a, b, sign), Exact(x, y, sign))
  BY <1>2, JudgeIsAlike, ExactIsInt
<1>4. \A a \in Int : Alike(a, a)
  BY AlikeReflexive
<1>. DEFINE Right(x, y) == x \in 0..(W - 1) /\ x \in Int /\ y \in Int /\ Alike(x, y)
<1>5. CASE Check(s) \in {{}, {0}, {0, 1}}
  <2>1. /\ Evaluate(n, s) = judge(judge(judge(n[0], n[1], s[0]), n[2], s[1]), n[3], s[2])
        /\ Ordered(n, s) = Exact(Exact(Exact(n[0], n[1], s[0]), n[2], s[1]), n[3], s[2])
    BY <1>5 DEF Evaluate, Ordered, FromLeft
  <2>2. Right(judge(n[0], n[1], s[0]),
             Exact(n[0], n[1], s[0]))
    BY <1>1, <1>3, <1>4
  <2>3. Right(judge(judge(n[0], n[1], s[0]), n[2], s[1]),
             Exact(Exact(n[0], n[1], s[0]), n[2], s[1]))
    BY <1>1, <1>3, <1>4, <2>2
  <2>. QED  BY <1>1, <1>3, <1>4, <2>1, <2>3
<1>6. CASE Check(s) = {1}
  <2>1. Check(s) \notin {{}, {0}, {0, 1}}
    BY <1>6
  <2>2. /\ Evaluate(n, s) = judge(judge(n[0], judge(n[1], n[2], s[1]), s[0]), n[3], s[2])
        /\ Ordered(n, s) = Exact(Exact(n[0], Exact(n[1], n[2], s[1]), s[0]), n[3], s[2])
    BY <1>6, <2>1 DEF Evaluate, Ordered, FromLeft
  <2>3. Right(judge(n[1], n[2], s[1]),
             Exact(n[1], n[2], s[1]))
    BY <1>1, <1>3, <1>4
  <2>4. Right(judge(n[0], judge(n[1], n[2], s[1]), s[0]),
             Exact(n[0], Exact(n[1], n[2], s[1]), s[0]))
    BY <1>1, <1>3, <1>4, <2>3
  <2>. QED  BY <1>1, <1>3, <1>4, <2>2, <2>4
<1>7. CASE Check(s) \in {{2}, {0, 2}}
  <2>1. Check(s) \notin {{}, {0}, {0, 1}, {1}}
    BY <1>7
  <2>2. /\ Evaluate(n, s) = judge(judge(n[0], n[1], s[0]), judge(n[2], n[3], s[2]), s[1])
        /\ Ordered(n, s) = Exact(Exact(n[0], n[1], s[0]), Exact(n[2], n[3], s[2]), s[1])
    BY <1>7, <2>1 DEF Evaluate, Ordered, FromLeft
  <2>3. Right(judge(n[0], n[1], s[0]),
             Exact(n[0], n[1], s[0]))
    BY <1>1, <1>3, <1>4
  <2>4. Right(judge(n[2], n[3], s[2]),
             Exact(n[2], n[3], s[2]))
    BY <1>1, <1>3, <1>4
  <2>. QED  BY <1>1, <1>3, <1>4, <2>2, <2>3, <2>4
<1>8. CASE Check(s) = {1, 2}
  <2>1. Check(s) \notin {{}, {0}, {0, 1}, {1}, {2}, {0, 2}}
    BY <1>8
  <2>2. /\ Evaluate(n, s) = judge(n[0], judge(judge(n[1], n[2], s[1]), n[3], s[2]), s[0])
        /\ Ordered(n, s) = Exact(n[0], Exact(Exact(n[1], n[2], s[1]), n[3], s[2]), s[0])
    BY <1>8, <2>1 DEF Evaluate, Ordered, FromLeft
  <2>3. Right(judge(n[1], n[2], s[1]),
             Exact(n[1], n[2], s[1]))
    BY <1>1, <1>3, <1>4
  <2>4. Right(judge(judge(n[1], n[2], s[1]), n[3], s[2]),
             Exact(Exact(n[1], n[2], s[1]), n[3], s[2]))
    BY <1>1, <1>3, <1>4, <2>3
  <2>. QED  BY <1>1, <1>3, <1>4, <2>2, <2>4
<1>9. CASE Check(s) = {0, 1, 2}
  <2>1. Check(s) \notin {{}, {0}, {0, 1}, {1}, {2}, {0, 2}, {1, 2}}
    BY <1>9
  <2>2. /\ Evaluate(n, s) = judge(judge(judge(n[2], n[3], s[2]), n[1], s[1]), n[0], s[0])
        /\ Ordered(n, s) = Exact(Exact(Exact(n[2], n[3], s[2]), n[1], s[1]), n[0], s[0])
    BY <1>9, <2>1 DEF Evaluate, Ordered, FromLeft
  <2>3. Right(judge(n[2], n[3], s[2]),
             Exact(n[2], n[3], s[2]))
    BY <1>1, <1>3, <1>4
  <2>4. Right(judge(judge(n[2], n[3], s[2]), n[1], s[1]),
             Exact(Exact(n[2], n[3], s[2]), n[1], s[1]))
    BY <1>1, <1>3, <1>4, <2>3
  <2>. QED  BY <1>1, <1>3, <1>4, <2>2, <2>4
<1>. QED  BY <1>5, <1>6, <1>7, <1>8, <1>9, Places

(* What one more sign and number make of the sum and the product under way. *)
LEMMA Extending ==
  ASSUME NEW part, NEW sign \in Signs, NEW n
  PROVE  /\ sign = Times => /\ Extend(part, sign, n).sum = part.sum
                            /\ Extend(part, sign, n).term = part.term * n
         /\ sign # Times => /\ Extend(part, sign, n).sum = part.sum + part.term
                            /\ Extend(part, sign, n).term = Signed(n, sign)
BY SignsDiffer DEF Extend, Signs, Signed

(* Sums are sums of signed numbers, and a product takes the sign of its first number. *)
LEMMA SumsAndProducts ==
  ASSUME NEW x \in Int, NEW y \in Int, NEW sign \in Signs
  PROVE  /\ x * y \in Int /\ Signed(x, sign) \in Int
         /\ Signed(x, sign) * y = Signed(x * y, sign)
         /\ sign = Times => Exact(x, y, sign) = x * y
         /\ sign # Times => Exact(x, y, sign) = x + Signed(y, sign)
<1>1. x * y \in Int /\ (-x) * y = -(x * y)
  OBVIOUS
<1>. QED  BY <1>1, SignsDiffer DEF Signed, Exact, Signs

(* What Meaning() makes of four numbers and three signs. *)
Total(a, b, c, d, r, s, t) ==
  LET z == Extend(Extend(Extend([sum |-> 0, term |-> a], r, b), s, c), t, d)
  IN  z.sum + z.term

(* For every set of places where a '*' stands, the code's order gives it.   *)
InOrder(a, b, c, d, r, s, t) ==
  /\ r = Times /\ s = Times /\ t = Times =>
       Total(a, b, c, d, r, s, t) = Exact(Exact(Exact(c, d, t), b, s), a, r)
  /\ r # Times /\ s = Times /\ t = Times =>
       Total(a, b, c, d, r, s, t) = Exact(a, Exact(Exact(b, c, s), d, t), r)
  /\ r # Times /\ s = Times /\ t # Times =>
       Total(a, b, c, d, r, s, t) = Exact(Exact(a, Exact(b, c, s), r), d, t)
  /\ s # Times /\ t = Times =>
       Total(a, b, c, d, r, s, t) = Exact(Exact(a, b, r), Exact(c, d, t), s)
  /\ t # Times /\ (s = Times => r = Times) =>
       Total(a, b, c, d, r, s, t) = Exact(Exact(Exact(a, b, r), c, s), d, t)

(* Exactly computed, the code's order of operations is that of the usual   *)
(* precedence.                                                             *)
LEMMA OrderIsRight ==
  ASSUME NEW a \in Int, NEW b \in Int, NEW c \in Int, NEW d \in Int,
         NEW r \in Signs, NEW s \in Signs, NEW t \in Signs
  PROVE  InOrder(a, b, c, d, r, s, t)
<1>0. PICK p, q, z : /\ p = Extend([sum |-> 0, term |-> a], r, b)
                    /\ q = Extend(p, s, c) /\ z = Extend(q, t, d)
  OBVIOUS
<1>t. Total(a, b, c, d, r, s, t) = z.sum + z.term
  BY <1>0 DEF Total
<1>1. /\ r = Times => p.sum = 0 /\ p.term = a * b
      /\ r # Times => p.sum = a /\ p.term = Signed(b, r)
  BY <1>0, Extending
<1>2. /\ s = Times => q.sum = p.sum /\ q.term = p.term * c
      /\ s # Times => q.sum = p.sum + p.term /\ q.term = Signed(c, s)
  BY <1>0, Extending
<1>3. /\ t = Times => z.sum = q.sum /\ z.term = q.term * d
      /\ t # Times => z.sum = q.sum + q.term /\ z.term = Signed(d, t)
  BY <1>0, Extending
<1>4. /\ a * b \in Int /\ b * c \in Int /\ c * d \in Int
      /\ (a * b) * c \in Int /\ (b * c) * d \in Int /\ (c * d) * b \in Int
  OBVIOUS
<1>5. ((c * d) * b) * a = ((a * b) * c) * d
  OBVIOUS
<1>6. /\ Signed(b, r) \in Int /\ Signed(b * c, r) \in Int
      /\ Signed(c, s) \in Int /\ Signed(d, t) \in Int
      /\ Signed(b, r) * c = Signed(b * c, r) /\ Signed(c, s) * d = Signed(c * d, s)
      /\ Signed(b * c, r) * d = Signed((b * c) * d, r)
  <2>1. Signed(b, r) \in Int /\ Signed(b, r) * c = Signed(b * c, r)
    BY SumsAndProducts
  <2>2. Signed(c, s) \in Int /\ Signed(c, s) * d = Signed(c * d, s)
    BY SumsAndProducts
  <2>3. Signed(d, t) \in Int
    BY SumsAndProducts
  <2>4. ASSUME NEW x \in Int
        PROVE  Signed(x, r) \in Int /\ Signed(x, r) * d = Signed(x * d, r)
    BY SumsAndProducts
  <2>. QED  BY <1>4, <2>1, <2>2, <2>3, <2>4
<1>7. CASE r = Times /\ s = Times /\ t = Times
  <2>1. z.sum + z.term = ((a * b) * c) * d
    BY <1>1, <1>2, <1>3, <1>4, <1>6, <1>7
  <2>2. Exact(Exact(Exact(c, d, t), b, s), a, r) = ((a * b) * c) * d
    BY <1>4, <1>5, <1>6, <1>7, SumsAndProducts, ExactIsInt
  <2>. QED  BY <1>t, <1>7, <2>1, <2>2 DEF InOrder
<1>8. CASE r # Times /\ s = Times /\ t = Times
  <2>1. z.sum + z.term = a + Signed((b * c) * d, r)
    BY <1>1, <1>2, <1>3, <1>4, <1>6, <1>8
  <2>2. Exact(a, Exact(Exact(b, c, s), d, t), r) = a + Signed((b * c) * d, r)
    BY <1>4, <1>5, <1>6, <1>8, SumsAndProducts, ExactIsInt
  <2>. QED  BY <1>t, <1>8, <2>1, <2>2 DEF InOrder
<1>9. CASE r # Times /\ s = Times /\ t # Times
  <2>1. z.sum + z.term = a + Signed(b * c, r) + Signed(d, t)
    BY <1>1, <1>2, <1>3, <1>4, <1>6, <1>9
  <2>2. Exact(Exact(a, Exact(b, c, s), r), d, t) = a + Signed(b * c, r) + Signed(d, t)
    BY <1>4, <1>5, <1>6, <1>9, SumsAndProducts, ExactIsInt
  <2>. QED  BY <1>t, <1>9, <2>1, <2>2 DEF InOrder
<1>10. CASE r = Times /\ s # Times /\ t = Times
  <2>1. z.sum + z.term = a * b + Signed(c * d, s)
    BY <1>1, <1>2, <1>3, <1>4, <1>6, <1>10
  <2>2. Exact(Exact(a, b, r), Exact(c, d, t), s) = a * b + Signed(c * d, s)
    BY <1>4, <1>5, <1>6, <1>10, SumsAndProducts, ExactIsInt
  <2>. QED  BY <1>t, <1>10, <2>1, <2>2 DEF InOrder
<1>11. CASE r # Times /\ s # Times /\ t = Times
  <2>1. z.sum + z.term = a + Signed(b, r) + Signed(c * d, s)
    BY <1>1, <1>2, <1>3, <1>4, <1>6, <1>11
  <2>2. Exact(Exact(a, b, r), Exact(c, d, t), s) = a + Signed(b, r) + Signed(c * d, s)
    BY <1>4, <1>5, <1>6, <1>11, SumsAndProducts, ExactIsInt
  <2>. QED  BY <1>t, <1>11, <2>1, <2>2 DEF InOrder
<1>12. CASE r = Times /\ s = Times /\ t # Times
  <2>1. z.sum + z.term = (a * b) * c + Signed(d, t)
    BY <1>1, <1>2, <1>3, <1>4, <1>6, <1>12
  <2>2. Exact(Exact(Exact(a, b, r), c, s), d, t) = (a * b) * c + Signed(d, t)
    BY <1>4, <1>5, <1>6, <1>12, SumsAndProducts, ExactIsInt
  <2>. QED  BY <1>t, <1>12, <2>1, <2>2 DEF InOrder
<1>13. CASE r = Times /\ s # Times /\ t # Times
  <2>1. z.sum + z.term = a * b + Signed(c, s) + Signed(d, t)
    BY <1>1, <1>2, <1>3, <1>4, <1>6, <1>13
  <2>2. Exact(Exact(Exact(a, b, r), c, s), d, t) = a * b + Signed(c, s) + Signed(d, t)
    BY <1>4, <1>5, <1>6, <1>13, SumsAndProducts, ExactIsInt
  <2>. QED  BY <1>t, <1>13, <2>1, <2>2 DEF InOrder
<1>14. CASE r # Times /\ s # Times /\ t # Times
  <2>1. z.sum + z.term = a + Signed(b, r) + Signed(c, s) + Signed(d, t)
    BY <1>1, <1>2, <1>3, <1>4, <1>6, <1>14
  <2>2. Exact(Exact(Exact(a, b, r), c, s), d, t) = a + Signed(b, r) + Signed(c, s) + Signed(d, t)
    BY <1>4, <1>5, <1>6, <1>14, SumsAndProducts, ExactIsInt
  <2>. QED  BY <1>t, <1>14, <2>1, <2>2 DEF InOrder
<1>. QED  BY <1>7, <1>8, <1>9, <1>10, <1>11, <1>12, <1>13, <1>14

(* The code's order of operations on the numbers and signs of an expression. *)
LEMMA EvaluateIsRight ==
  ASSUME NEW e \in Expressions, NEW n, NEW s \in [0..2 -> Signs],
         n[0] = e.n[0], n[1] = e.n[1], n[2] = e.n[2], n[3] = e.n[3], s = e.s
  PROVE  /\ Evaluate(n, s) \in 0..(W - 1)
         /\ Evaluate(n, s) % 4 = Meaning(e) % 4
<1>1. n[0] \in Int /\ n[1] \in Int /\ n[2] \in Int /\ n[3] \in Int
  <2>1. e.n \in [0..3 -> Numbers]
    BY DEF Expressions
  <2>2. \A k \in Numbers : k \in Int
    BY QRAssumption
  <2>. QED  BY <2>1, <2>2
<1>2. s[0] \in Signs /\ s[1] \in Signs /\ s[2] \in Signs
  OBVIOUS
<1>3. /\ Evaluate(n, s) \in 0..(W - 1) /\ Ordered(n, s) \in Int
      /\ Alike(Evaluate(n, s), Ordered(n, s))
  BY <1>1, EvaluateIsAlike
<1>4. /\ 0 \in Check(s) <=> s[0] = Times
      /\ 1 \in Check(s) <=> s[1] = Times
      /\ 2 \in Check(s) <=> s[2] = Times
  BY DEF Check
<1>5. Check(s) \in {{}, {0}, {1}, {2}, {0, 1}, {0, 2}, {1, 2}, {0, 1, 2}}
  BY Places
<1>6. Meaning(e) = Total(n[0], n[1], n[2], n[3], s[0], s[1], s[2])
  BY DEF Meaning, Total
<1>7. InOrder(n[0], n[1], n[2], n[3], s[0], s[1], s[2])
  BY <1>1, <1>2, OrderIsRight
<1>8. Ordered(n, s) = Total(n[0], n[1], n[2], n[3], s[0], s[1], s[2])
  <2>1. CASE Check(s) \in {{}, {0}, {0, 1}}
    <3>1. s[2] # Times /\ (s[1] = Times => s[0] = Times)
      BY <1>4, <2>1
    <3>. QED  BY <1>7, <2>1, <3>1 DEF Ordered, InOrder
  <2>2. CASE Check(s) = {1}
    <3>1. /\ Check(s) \notin {{}, {0}, {0, 1}}
          /\ s[0] # Times /\ s[1] = Times /\ s[2] # Times
      BY <1>4, <2>2
    <3>. QED  BY <1>7, <2>2, <3>1 DEF Ordered, InOrder
  <2>3. CASE Check(s) \in {{2}, {0, 2}}
    <3>1. Check(s) \notin {{}, {0}, {0, 1}, {1}} /\ s[1] # Times /\ s[2] = Times
      BY <1>4, <2>3
    <3>. QED  BY <1>7, <2>3, <3>1 DEF Ordered, InOrder
  <2>4. CASE Check(s) = {1, 2}
    <3>1. /\ Check(s) \notin {{}, {0}, {0, 1}, {1}, {2}, {0, 2}}
          /\ s[0] # Times /\ s[1] = Times /\ s[2] = Times
      BY <1>4, <2>4
    <3>. QED  BY <1>7, <2>4, <3>1 DEF Ordered, InOrder
  <2>5. CASE Check(s) = {0, 1, 2}
    <3>1. /\ Check(s) \notin {{}, {0}, {0, 1}, {1}, {2}, {0, 2}, {1, 2}}
          /\ s[0] = Times /\ s[1] = Times /\ s[2] = Times
      BY <1>4, <2>5
    <3>. QED  BY <1>7, <2>5, <3>1 DEF Ordered, InOrder
  <2>. QED  BY <1>5, <2>1, <2>2, <2>3, <2>4, <2>5
<1>9. Evaluate(n, s) \in Int
  <2>1. W \in Nat
    BY QRAssumption
  <2>. QED  BY <1>3, <2>1
<1>10. Evaluate(n, s) % 4 = Ordered(n, s) % 4
  <2>1. \A x, y \in Int : Alike(x, y) => x % 4 = y % 4
    BY SameRest
  <2>. QED  BY <1>3, <1>9, <2>1
<1>. QED  BY <1>3, <1>6, <1>8, <1>10

-----------------------------------------------------------------------------
(* THE TEXT                                                                *)

(* Characters of a number, and where number k begins in the text. *)
Length(n) == IF n < 10 THEN 1 ELSE 2

Begin(e, k) ==
  IF k = 0 THEN 0
  ELSE IF k = 1 THEN Length(e.n[0]) + 1
  ELSE IF k = 2 THEN Length(e.n[0]) + Length(e.n[1]) + 2
  ELSE IF k = 3 THEN Length(e.n[0]) + Length(e.n[1]) + Length(e.n[2]) + 3
  ELSE Length(e.n[0]) + Length(e.n[1]) + Length(e.n[2]) + Length(e.n[3]) + 4

(* In text, number n stands after the first b characters, followed by c. *)
Stands(text, b, n, c) ==
  /\ n < 10 => text[b + 1] = Digit(n)
  /\ n >= 10 => text[b + 1] = Digit(n \div 10) /\ text[b + 2] = Digit(n % 10)
  /\ text[b + Length(n) + 1] = c

LEMMA PrintedFacts ==
  ASSUME NEW n \in 0..99
  PROVE  /\ Printed(n) \in Seq(Int) /\ Len(Printed(n)) = Length(n)
         /\ n < 10 => Printed(n)[1] = Digit(n)
         /\ n >= 10 => Printed(n)[1] = Digit(n \div 10) /\ Printed(n)[2] = Digit(n % 10)
BY DEF Printed, Length, Digit

(* What is appended stands at the end, and nothing else moves. *)
Appended(text, n, c, longer) ==
  /\ longer \in Seq(Int) /\ Len(longer) = Len(text) + Length(n) + 1
  /\ \A j \in 1..Len(text) : longer[j] = text[j]
  /\ Stands(longer, Len(text), n, c)

LEMMA Appending ==
  ASSUME NEW text \in Seq(Int), NEW n \in 0..99, NEW c \in Int
  PROVE  Appended(text, n, c, (text \o Printed(n)) \o <<c>>)
<1>0. PICK longer : longer = (text \o Printed(n)) \o <<c>>
  OBVIOUS
<1>1. /\ Printed(n) \in Seq(Int) /\ Len(Printed(n)) = Length(n) /\ Length(n) \in 1..2
      /\ n < 10 => Length(n) = 1 /\ Printed(n)[1] = Digit(n)
      /\ n >= 10 => Length(n) = 2 /\ Printed(n)[1] = Digit(n \div 10)
                                 /\ Printed(n)[2] = Digit(n % 10)
  <2>1. Length(n) \in 1..2 /\ (n < 10 => Length(n) = 1) /\ (n >= 10 => Length(n) = 2)
    BY DEF Length
  <2>. QED  BY <2>1, PrintedFacts
<1>2. <<c>> \in Seq(Int) /\ Len(<<c>>) = 1 /\ <<c>>[1] = c
  OBVIOUS
<1>3. PICK s : s = text \o Printed(n)
  OBVIOUS
<1>4. /\ s \in Seq(Int) /\ Len(s) = Len(text) + Length(n)
      /\ \A j \in 1..Len(text) + Length(n) :
           s[j] = IF j <= Len(text) THEN text[j] ELSE Printed(n)[j - Len(text)]
  BY <1>1, <1>3, ConcatProperties
<1>5. Len(text) \in Nat /\ Len(s) \in Nat
  BY <1>4
<1>6. /\ longer \in Seq(Int) /\ Len(longer) = Len(s) + 1
      /\ \A j \in 1..Len(s) + 1 :
           longer[j] = IF j <= Len(s) THEN s[j] ELSE <<c>>[j - Len(s)]
  BY <1>0, <1>2, <1>3, <1>4, ConcatProperties
<1>7. \A j \in 1..Len(s) : longer[j] = s[j]
  BY <1>5, <1>6
<1>8. longer[Len(s) + 1] = c
  <2>1. Len(s) + 1 \in 1..Len(s) + 1 /\ ~(Len(s) + 1 <= Len(s)) /\ (Len(s) + 1) - Len(s) = 1
    BY <1>5
  <2>. QED  BY <1>2, <1>6, <2>1
<1>9. ASSUME NEW j \in 1..Length(n)
      PROVE  longer[Len(text) + j] = Printed(n)[j]
  <2>1. /\ Len(text) + j \in 1..Len(text) + Length(n) /\ ~(Len(text) + j <= Len(text))
        /\ (Len(text) + j) - Len(text) = j
    BY <1>1, <1>5
  <2>. QED  BY <1>4, <1>7, <2>1
<1>10. Stands(longer, Len(text), n, c)
  <2>1. longer[Len(text) + 1] = Printed(n)[1]
    BY <1>1, <1>9
  <2>2. Length(n) = 2 => longer[Len(text) + 2] = Printed(n)[2]
    <3>. SUFFICES ASSUME Length(n) = 2
                  PROVE  longer[Len(text) + 2] = Printed(n)[2]
      OBVIOUS
    <3>1. 2 \in 1..Length(n)
      OBVIOUS
    <3>. QED  BY <1>9, <3>1
  <2>. QED  BY <1>1, <1>4, <1>8, <2>1, <2>2 DEF Stands
<1>11. \A j \in 1..Len(text) : longer[j] = text[j]
  BY <1>1, <1>4, <1>5, <1>7
<1>. QED  BY <1>0, <1>4, <1>5, <1>6, <1>10, <1>11 DEF Appended

(* What follows a number. *)
Follower(e, k) == IF k = 3 THEN Tail8 ELSE e.s[k]

LEMMA ExpressionFacts ==
  ASSUME NEW e \in Expressions
  PROVE  /\ \A k \in 0..3 : e.n[k] \in 0..99 /\ Follower(e, k) \in 0..255
         /\ \A k \in 0..2 : e.s[k] \in Signs
         /\ e.s \in [0..2 -> Signs]
<1>1. e.n \in [0..3 -> Numbers] /\ e.s \in [0..2 -> Signs]
  BY DEF Expressions
<1>2. \A k \in Numbers : k \in 0..99
  BY QRAssumption
<1>3. \A k \in 0..2 : e.s[k] \in Signs /\ e.s[k] \in 0..255
  BY <1>1 DEF Signs, Plus, Minus, Times
<1>4. \A k \in 0..3 : Follower(e, k) \in 0..255
  BY <1>3 DEF Follower, Tail8
<1>. QED  BY <1>1, <1>2, <1>3, <1>4

(* The first l characters are the same, and so a word among them is. *)
Same(old, new, l) == \A j \in 1..l : new[j] = old[j]

LEMMA StaysThere ==
  ASSUME NEW old, NEW new, NEW b \in Nat, NEW n \in 0..99, NEW c, NEW l \in Nat,
         Stands(old, b, n, c), b + Length(n) + 1 <= l, Same(old, new, l)
  PROVE  Stands(new, b, n, c)
<1>1. /\ Length(n) \in 1..2 /\ (n >= 10 => Length(n) = 2)
  BY DEF Length
<1>2. /\ b + 1 \in 1..l /\ b + Length(n) + 1 \in 1..l
      /\ n >= 10 => b + 2 \in 1..l
  BY <1>1
<1>3. /\ new[b + 1] = old[b + 1] /\ new[b + Length(n) + 1] = old[b + Length(n) + 1]
      /\ n >= 10 => new[b + 2] = old[b + 2]
  BY <1>2 DEF Same
<1>. QED  BY <1>3 DEF Stands

(* Where the characters of the text stand. *)
LEMMA TextFacts ==
  ASSUME NEW e \in Expressions
  PROVE  /\ Text(e) \in Seq(Int) /\ Len(Text(e)) = Begin(e, 4)
         /\ \A k \in 0..3 : Stands(Text(e), Begin(e, k), e.n[k], Follower(e, k))
<1>1. /\ e.n[0] \in 0..99 /\ e.n[1] \in 0..99 /\ e.n[2] \in 0..99 /\ e.n[3] \in 0..99
      /\ e.s[0] \in Int /\ e.s[1] \in Int /\ e.s[2] \in Int /\ Tail8 \in Int
  BY ExpressionFacts DEF Signs, Plus, Minus, Times, Tail8
<1>2. /\ Length(e.n[0]) \in 1..2 /\ Length(e.n[1]) \in 1..2
      /\ Length(e.n[2]) \in 1..2 /\ Length(e.n[3]) \in 1..2
  BY DEF Length
<1>3. PICK t1, t2, t3, t4 :
        /\ t1 = (<<>> \o Printed(e.n[0])) \o <<e.s[0]>>
        /\ t2 = (t1 \o Printed(e.n[1])) \o <<e.s[1]>>
        /\ t3 = (t2 \o Printed(e.n[2])) \o <<e.s[2]>>
        /\ t4 = (t3 \o Printed(e.n[3])) \o <<Tail8>>
  OBVIOUS
<1>4. Text(e) = t4
  <2>1. <<>> \o Printed(e.n[0]) = Printed(e.n[0])
    BY <1>1, PrintedFacts, ConcatEmptySeq
  <2>. QED  BY <1>3, <2>1 DEF Text
<1>5. /\ t1 \in Seq(Int) /\ Len(t1) = Begin(e, 1)
      /\ Stands(t1, 0, e.n[0], e.s[0])
  <2>1. <<>> \in Seq(Int) /\ Len(<<>>) = 0
    OBVIOUS
  <2>2. Appended(<<>>, e.n[0], e.s[0], t1)
    BY <1>1, <1>3, <2>1, Appending
  <2>. QED  BY <1>2, <2>1, <2>2 DEF Begin, Appended
<1>6. /\ t2 \in Seq(Int) /\ Len(t2) = Begin(e, 2)
      /\ \A j \in 1..Begin(e, 1) : t2[j] = t1[j]
      /\ Stands(t2, Begin(e, 1), e.n[1], e.s[1])
  <2>1. Appended(t1, e.n[1], e.s[1], t2)
    BY <1>1, <1>3, <1>5, Appending
  <2>. QED  BY <1>2, <1>5, <2>1 DEF Begin, Appended
<1>7. /\ t3 \in Seq(Int) /\ Len(t3) = Begin(e, 3)
      /\ \A j \in 1..Begin(e, 2) : t3[j] = t2[j]
      /\ Stands(t3, Begin(e, 2), e.n[2], e.s[2])
  <2>1. Appended(t2, e.n[2], e.s[2], t3)
    BY <1>1, <1>3, <1>6, Appending
  <2>. QED  BY <1>2, <1>6, <2>1 DEF Begin, Appended
<1>8. /\ t4 \in Seq(Int) /\ Len(t4) = Begin(e, 4)
      /\ \A j \in 1..Begin(e, 3) : t4[j] = t3[j]
      /\ Stands(t4, Begin(e, 3), e.n[3], Tail8)
  <2>1. Appended(t3, e.n[3], Tail8, t4)
    BY <1>1, <1>3, <1>7, Appending
  <2>2. Begin(e, 4) = Begin(e, 3) + Length(e.n[3]) + 1
    BY <1>2 DEF Begin
  <2>. QED  BY <1>7, <2>1, <2>2 DEF Appended
<1>9. /\ Begin(e, 0) = 0 /\ Begin(e, 1) = Length(e.n[0]) + 1
      /\ Begin(e, 2) = Begin(e, 1) + Length(e.n[1]) + 1
      /\ Begin(e, 3) = Begin(e, 2) + Length(e.n[2]) + 1
  BY <1>2 DEF Begin
<1>10. /\ Begin(e, 1) \in Nat /\ Begin(e, 2) \in Nat /\ Begin(e, 3) \in Nat
       /\ Begin(e, 1) <= Begin(e, 2) /\ Begin(e, 2) <= Begin(e, 3)
  BY <1>2, <1>9
<1>11. Stands(t4, 0, e.n[0], e.s[0])
  <2>1. ASSUME NEW j \in 1..Begin(e, 1)
        PROVE  t4[j] = t1[j]
    <3>1. j \in 1..Begin(e, 2) /\ j \in 1..Begin(e, 3)
      BY <1>10
    <3>. QED  BY <1>6, <1>7, <1>8, <3>1
  <2>2. 0 + Length(e.n[0]) + 1 <= Begin(e, 1)
    BY <1>2, <1>9
  <2>3. Same(t1, t4, Begin(e, 1))
    BY <2>1 DEF Same
  <2>. QED  BY <1>1, <1>5, <1>10, <2>2, <2>3, StaysThere
<1>12. Stands(t4, Begin(e, 1), e.n[1], e.s[1])
  <2>1. ASSUME NEW j \in 1..Begin(e, 2)
        PROVE  t4[j] = t2[j]
    <3>1. j \in 1..Begin(e, 3)
      BY <1>10
    <3>. QED  BY <1>7, <1>8, <3>1
  <2>2. Begin(e, 1) + Length(e.n[1]) + 1 <= Begin(e, 2)
    BY <1>2, <1>9, <1>10
  <2>3. Same(t2, t4, Begin(e, 2))
    BY <2>1 DEF Same
  <2>. QED  BY <1>1, <1>6, <1>10, <2>2, <2>3, StaysThere
<1>13. Stands(t4, Begin(e, 2), e.n[2], e.s[2])
  <2>1. Begin(e, 2) + Length(e.n[2]) + 1 <= Begin(e, 3)
    BY <1>2, <1>9, <1>10
  <2>2. Same(t3, t4, Begin(e, 3))
    BY <1>8 DEF Same
  <2>. QED  BY <1>1, <1>7, <1>10, <2>1, <2>2, StaysThere
<1>. QED  BY <1>4, <1>8, <1>9, <1>11, <1>12, <1>13 DEF Follower

-----------------------------------------------------------------------------
(***************************************************************************)
(* THE INDUCTIVE INVARIANT: what has been read is stored as it is in the   *)
(* code, and the state of the number under way tells where the code is.    *)
(***************************************************************************)
Stored ==
  /\ \A j \in 0..3 : j < cont => num_value[j] = shown.n[j]
  /\ \A j \in 0..2 : j < cont => symbol_buf[j] = shown.s[j]

UnderWay(n, b) ==
  \/ i = b /\ num_flag = 0
  \/ i = b + 1 /\ num_flag = 1 /\ value = IF n < 10 THEN n ELSE n \div 10
  \/ i = b + 2 /\ num_flag = 0 /\ n >= 10 /\ value = n

Reading ==
  /\ cont < 4 => UnderWay(shown.n[cont], Begin(shown, cont))
  /\ cont = 4 => i = Begin(shown, 4)
  /\ result # 0 => cont = 4

QRInv == QRTypeOK /\ Stored /\ Reading /\ ResultIsRight

LEMMA QRInvInit == QRInit => QRInv
<1>. SUFFICES ASSUME QRInit
              PROVE  QRInv
  OBVIOUS
<1>1. \A r \in Rubbish : r \in 0..255
  BY QRAssumption
<1>2. symbol_buf \in [0..2 -> 0..255] /\ num_value \in [0..7 -> 0..255]
  BY <1>1 DEF QRInit
<1>3. Len(Text(shown)) \in Nat /\ W \in Nat \ {0}
  BY TextFacts, QRAssumption DEF QRInit
<1>4. QRTypeOK
  BY <1>2, <1>3 DEF QRInit, QRTypeOK
<1>5. Reading
  BY DEF QRInit, Reading, UnderWay, Begin
<1>. QED  BY <1>4, <1>5 DEF QRInit, QRInv, Stored, ResultIsRight

(* The next character, by what is known of the number under way. *)
LEMMA NextChar ==
  ASSUME QRInv
  PROVE  /\ Left <=> cont < 4
         /\ cont < 4 =>
              LET n == shown.n[cont]
              IN  \/ /\ num_flag = 0 /\ i = Begin(shown, cont)
                     /\ Char = Digit(IF n < 10 THEN n ELSE n \div 10)
                  \/ /\ num_flag = 1 /\ i = Begin(shown, cont) + 1 /\ n >= 10
                     /\ value = n \div 10 /\ Char = Digit(n % 10)
                  \/ /\ i = Begin(shown, cont) + Length(n) /\ value = n
                     /\ Char = Follower(shown, cont)
<1>1. cont \in 0..4 /\ i \in Nat /\ shown \in Expressions /\ Len(Text(shown)) = Begin(shown, 4)
  <2>1. shown \in Expressions
    BY DEF QRInv, QRTypeOK
  <2>2. Len(Text(shown)) = Begin(shown, 4) /\ Len(Text(shown)) \in Nat
    BY <2>1, TextFacts
  <2>. QED  BY <2>1, <2>2 DEF QRInv, QRTypeOK
<1>2. CASE cont = 4
  BY <1>1, <1>2 DEF QRInv, Reading, Left
<1>3. CASE cont < 4
  <2>1. cont \in 0..3
    BY <1>1, <1>3
  <2>2. PICK n : n = shown.n[cont]
    OBVIOUS
  <2>3. PICK b : b = Begin(shown, cont)
    OBVIOUS
  <2>4. n \in 0..99 /\ Length(n) = IF n < 10 THEN 1 ELSE 2
    BY <1>1, <2>1, <2>2, ExpressionFacts DEF Length
  <2>5. b \in Nat /\ b + Length(n) + 1 <= Begin(shown, 4)
    <3>1. /\ Length(shown.n[0]) \in 1..2 /\ Length(shown.n[1]) \in 1..2
          /\ Length(shown.n[2]) \in 1..2 /\ Length(shown.n[3]) \in 1..2
      BY DEF Length
    <3>2. cont = 0 \/ cont = 1 \/ cont = 2 \/ cont = 3
      BY <2>1
    <3>. QED  BY <2>2, <2>3, <3>1, <3>2 DEF Begin
  <2>6. Stands(Text(shown), b, n, Follower(shown, cont))
    BY <1>1, <2>1, <2>2, <2>3, TextFacts
  <2>7. UnderWay(n, b)
    BY <1>3, <2>2, <2>3 DEF QRInv, Reading
  <2>8. Left
    BY <1>1, <2>4, <2>5, <2>7 DEF Left, UnderWay
  <2>9. CASE i = b /\ num_flag = 0
    <3>1. Char = Digit(IF n < 10 THEN n ELSE n \div 10)
      BY <2>4, <2>6, <2>9 DEF Char, Stands
    <3>. QED  BY <1>3, <2>2, <2>3, <2>8, <2>9, <3>1
  <2>10. CASE i = b + 1 /\ num_flag = 1 /\ value = IF n < 10 THEN n ELSE n \div 10
    <3>1. CASE n < 10
      <4>1. i = b + Length(n) /\ value = n
        BY <2>4, <2>10, <3>1
      <4>2. Char = Follower(shown, cont)
        BY <2>6, <4>1 DEF Char, Stands
      <4>. QED  BY <1>3, <2>2, <2>3, <2>8, <4>1, <4>2
    <3>2. CASE n >= 10
      <4>1. i + 1 = b + 2 /\ value = n \div 10
        BY <2>4, <2>5, <2>10, <3>2
      <4>2. Char = Digit(n % 10)
        BY <2>6, <3>2, <4>1 DEF Char, Stands
      <4>. QED  BY <1>3, <2>2, <2>3, <2>8, <2>10, <3>2, <4>1, <4>2
    <3>. QED  BY <2>4, <3>1, <3>2
  <2>11. CASE i = b + 2 /\ num_flag = 0 /\ n >= 10 /\ value = n
    <3>1. i = b + Length(n) /\ value = n
      BY <2>4, <2>11
    <3>2. Char = Follower(shown, cont)
      BY <2>6, <3>1 DEF Char, Stands
    <3>. QED  BY <1>3, <2>2, <2>3, <2>8, <3>1, <3>2
  <2>. QED  BY <2>7, <2>9, <2>10, <2>11 DEF UnderWay
<1>. QED  BY <1>1, <1>2, <1>3

(* A follower is never taken for a digit. *)
LEMMA Digits ==
  /\ \A d \in 0..9 : Digit(d) \in Digit(0)..Digit(9) /\ Digit(d) - Digit(0) = d
  /\ \A e \in Expressions : \A k \in 0..3 : Follower(e, k) \notin Digit(0)..Digit(9)
<1>1. \A d \in 0..9 : Digit(d) \in Digit(0)..Digit(9) /\ Digit(d) - Digit(0) = d
  BY DEF Digit
<1>2. ASSUME NEW e \in Expressions, NEW k \in 0..3
      PROVE  Follower(e, k) \notin Digit(0)..Digit(9)
  <2>1. k # 3 => e.s[k] \in Signs
    BY ExpressionFacts
  <2>. QED  BY <2>1 DEF Follower, Digit, Signs, Plus, Minus, Times, Tail8
<1>. QED  BY <1>1, <1>2

LEMMA ReadDigitInv == QRInv /\ ReadDigit => QRInv'
<1>. SUFFICES ASSUME QRInv, ReadDigit
              PROVE  QRInv'
  OBVIOUS
<1>1. QRTypeOK /\ Stored /\ Reading /\ cont < 4 /\ cont \in 0..3 /\ result = 0
  BY NextChar DEF QRInv, ReadDigit, Reading, QRTypeOK
<1>2. PICK n : n = shown.n[cont]
  OBVIOUS
<1>3. PICK b : b = Begin(shown, cont)
  OBVIOUS
<1>4. n \in 0..99
  BY <1>1, <1>2, ExpressionFacts DEF QRTypeOK
<1>5. i + 1 \in 0..Len(Text(shown))
  <2>1. Len(Text(shown)) \in Nat
    BY <1>1, TextFacts DEF QRTypeOK
  <2>. QED  BY <1>1, <2>1 DEF ReadDigit, Left, QRTypeOK
<1>6. /\ UnderWay(n, b)' /\ value' \in 0..(W - 1)
      /\ value' \in 0..99 /\ (num_flag' = 1 => value' \in 0..9)
  <2>1. CASE num_flag = 0 /\ i = b /\ Char = Digit(IF n < 10 THEN n ELSE n \div 10)
    <3>1. value' = IF n < 10 THEN n ELSE n \div 10
      BY <1>4, <2>1, Digits DEF ReadDigit
    <3>2. value' \in 0..(W - 1)
      <4>1. W \in Nat /\ W >= 256
        BY QRAssumption
      <4>2. (IF n < 10 THEN n ELSE n \div 10) \in 0..99
        BY <1>4
      <4>3. value' \in 0..99
        BY <3>1, <4>2, Zenon
      <4>. QED  BY <4>1, <4>3
    <3>3. i' = b + 1 /\ num_flag' = 1
      BY <2>1 DEF ReadDigit
    <3>4. value' \in 0..9
      <4>1. (IF n < 10 THEN n ELSE n \div 10) \in 0..9
        BY <1>4
      <4>. QED  BY <3>1, <4>1, Zenon
    <3>. QED  BY <3>1, <3>2, <3>3, <3>4 DEF UnderWay
  <2>2. CASE num_flag = 1 /\ i = b + 1 /\ n >= 10 /\ value = n \div 10 /\ Char = Digit(n % 10)
    <3>1. Char - Digit(0) = n % 10
      BY <1>4, <2>2, Digits
    <3>2. value * 10 + (Char - Digit(0)) = n
      BY <1>4, <2>2, <3>1
    <3>3. n % W = n
      BY <1>4, QRAssumption
    <3>4. value' = n
      BY <2>2, <3>2, <3>3 DEF ReadDigit
    <3>5. value' \in 0..(W - 1)
      <4>1. W \in Nat /\ W >= 256
        BY QRAssumption
      <4>. QED  BY <1>4, <3>4, <4>1
    <3>6. i' = b + 2 /\ num_flag' = 0
      <4>1. b \in Int
        BY <1>3 DEF Begin, Length
      <4>. QED  BY <2>2, <4>1 DEF ReadDigit
    <3>. QED  BY <1>4, <2>2, <3>4, <3>5, <3>6 DEF UnderWay
  <2>3. Char # Follower(shown, cont)
    BY <1>1, Digits DEF ReadDigit, QRTypeOK
  <2>. QED  BY <1>1, <1>2, <1>3, <2>1, <2>2, <2>3, NextChar
<1>7. QRTypeOK'
  <2>1. /\ shown' \in Expressions /\ i' \in 0..Len(Text(shown')) /\ cont' \in 0..4
        /\ symbol_buf' \in [0..2 -> 0..255] /\ num_value' \in [0..7 -> 0..255]
        /\ result' \in 0..4 /\ cont' < 4
    BY <1>1, <1>5 DEF QRTypeOK, ReadDigit
  <2>2. num_flag' \in {0, 1}
    BY <1>1 DEF QRTypeOK, ReadDigit
  <2>3. value' < 100 /\ (num_flag' = 1 => value' < 10)
    BY <1>6
  <2>. QED  BY <1>6, <2>1, <2>2, <2>3, Zenon DEF QRTypeOK
<1>8. Stored' /\ Reading' /\ ResultIsRight'
  BY <1>1, <1>2, <1>3, <1>6 DEF Stored, Reading, ResultIsRight, ReadDigit, UnderWay
<1>. QED  BY <1>7, <1>8 DEF QRInv

LEMMA ReadSignInv == QRInv /\ ReadSign => QRInv'
<1>. SUFFICES ASSUME QRInv, ReadSign
              PROVE  QRInv'
  OBVIOUS
<1>1. QRTypeOK /\ Stored /\ Reading /\ cont \in 0..3 /\ result = 0 /\ shown \in Expressions
  BY NextChar DEF QRInv, ReadSign, Reading, QRTypeOK
<1>2. PICK n : n = shown.n[cont]
  OBVIOUS
<1>3. PICK b : b = Begin(shown, cont)
  OBVIOUS
<1>4. n \in 0..99 /\ Follower(shown, cont) \in 0..255
  BY <1>1, <1>2, ExpressionFacts
<1>5. i = b + Length(n) /\ value = n /\ Char = Follower(shown, cont)
  <2>1. \A d \in 0..9 : Char # Digit(d)
    BY Digits DEF ReadSign
  <2>2. (IF n < 10 THEN n ELSE n \div 10) \in 0..9 /\ n % 10 \in 0..9
    BY <1>4
  <2>. QED  BY <1>1, <1>2, <1>3, <2>1, <2>2, NextChar
<1>6. i + 1 \in 0..Len(Text(shown))
  <2>1. Len(Text(shown)) \in Nat
    BY <1>1, TextFacts
  <2>. QED  BY <1>1, <2>1 DEF ReadSign, Left, QRTypeOK
<1>7. i' = Begin(shown, cont + 1)
  <2>1. /\ Length(shown.n[0]) \in 1..2 /\ Length(shown.n[1]) \in 1..2
        /\ Length(shown.n[2]) \in 1..2 /\ Length(shown.n[3]) \in 1..2
    BY DEF Length
  <2>2. cont = 0 \/ cont = 1 \/ cont = 2 \/ cont = 3
    BY <1>1
  <2>3. i' = Begin(shown, cont) + Length(shown.n[cont]) + 1
    BY <1>2, <1>3, <1>5 DEF ReadSign
  <2>. QED  BY <2>1, <2>2, <2>3 DEF Begin
<1>8. num_value' \in [0..7 -> 0..255] /\ num_value' = [num_value EXCEPT ![cont] = n]
  <2>1. value % 256 = n
    BY <1>4, <1>5
  <2>2. num_value' = [num_value EXCEPT ![cont] = n]
    BY <2>1 DEF ReadSign
  <2>3. num_value \in [0..7 -> 0..255] /\ cont \in 0..7 /\ n \in 0..255
    BY <1>1, <1>4 DEF QRTypeOK
  <2>. QED  BY <2>2, <2>3
<1>9. /\ symbol_buf' \in [0..2 -> 0..255]
      /\ cont <= 2 => symbol_buf' = [symbol_buf EXCEPT ![cont] = shown.s[cont]]
      /\ cont = 3 => symbol_buf' = symbol_buf
  <2>1. symbol_buf \in [0..2 -> 0..255]
    BY <1>1 DEF QRTypeOK
  <2>2. CASE cont <= 2
    <3>1. cont \in 0..2 /\ Char = shown.s[cont] /\ Char \in 0..255
      BY <1>1, <1>4, <1>5, <2>2 DEF Follower
    <3>2. symbol_buf' = [symbol_buf EXCEPT ![cont] = Char]
      BY <2>2 DEF ReadSign
    <3>. QED  BY <2>1, <2>2, <3>1, <3>2
  <2>3. CASE cont = 3
    BY <2>1, <2>3 DEF ReadSign
  <2>. QED  BY <1>1, <2>2, <2>3
<1>10. QRTypeOK'
  <2>1. cont' < 4 \/ ~Left'
    <3>1. cont' = cont + 1 /\ shown' = shown
      BY DEF ReadSign
    <3>2. CASE cont = 3
      <4>1. Len(Text(shown)) = Begin(shown, 4) /\ i' = Begin(shown, 4)
        BY <1>1, <1>7, <3>2, TextFacts
      <4>2. Len(Text(shown)) \in Nat
        BY <1>1, TextFacts
      <4>. QED  BY <3>1, <4>1, <4>2 DEF Left
    <3>. QED  BY <1>1, <3>1, <3>2
  <2>2. value' = value /\ result' = 0 /\ (num_flag' = 1 => num_flag = 1)
    BY <1>1 DEF ReadSign
  <2>3. value < 100 /\ (num_flag = 1 => value < 10)
    BY <1>1 DEF QRTypeOK
  <2>4. /\ shown' \in Expressions /\ i' \in 0..Len(Text(shown'))
        /\ value' \in 0..(W - 1) /\ num_flag' \in {0, 1} /\ cont' \in 0..4
        /\ result' \in 0..4
    BY <1>1, <1>6 DEF QRTypeOK, ReadSign
  <2>. QED  BY <1>8, <1>9, <2>1, <2>2, <2>3, <2>4 DEF QRTypeOK
<1>11. Stored'
  <2>1. ASSUME NEW j \in 0..3, j < cont'
        PROVE  num_value'[j] = shown'.n[j]
    BY <1>1, <1>2, <1>8, <2>1 DEF Stored, ReadSign, QRTypeOK
  <2>2. ASSUME NEW j \in 0..2, j < cont'
        PROVE  symbol_buf'[j] = shown'.s[j]
    BY <1>1, <1>9, <2>2 DEF Stored, ReadSign, QRTypeOK
  <2>. QED  BY <2>1, <2>2 DEF Stored
<1>12. Reading'
  <2>1. cont' = cont + 1 /\ shown' = shown /\ result' = 0
    BY <1>1 DEF ReadSign
  <2>2. cont' < 4 => num_flag' = 0
    BY <1>1, <2>1 DEF ReadSign
  <2>. QED  BY <1>1, <1>7, <2>1, <2>2 DEF Reading, UnderWay
<1>. QED  BY <1>1, <1>10, <1>11, <1>12 DEF QRInv, ResultIsRight, ReadSign

(* What is returned is made of the expression's numbers and signs. *)
LEMMA ReturnInv == QRInv /\ Return => QRInv'
<1>. SUFFICES ASSUME QRInv, Return
              PROVE  QRInv'
  OBVIOUS
<1>1. QRTypeOK /\ Stored /\ Reading /\ cont = 4 /\ shown \in Expressions
  BY NextChar DEF QRInv, Return, QRTypeOK
<1>2. /\ num_value[0] = shown.n[0] /\ num_value[1] = shown.n[1]
      /\ num_value[2] = shown.n[2] /\ num_value[3] = shown.n[3]
      /\ \A j \in 0..2 : symbol_buf[j] = shown.s[j]
  BY <1>1 DEF Stored
<1>3. symbol_buf = shown.s /\ symbol_buf \in [0..2 -> Signs]
  <2>1. shown.s \in [0..2 -> Signs]
    BY <1>1, ExpressionFacts
  <2>2. symbol_buf \in [0..2 -> 0..255]
    BY <1>1 DEF QRTypeOK
  <2>. QED  BY <1>2, <2>1, <2>2
<1>4. value' \in 0..(W - 1) /\ value' % 4 = Meaning(shown) % 4
  BY <1>1, <1>2, <1>3, EvaluateIsRight DEF Return
<1>5. result' = (Meaning(shown) % 4) + 1
  BY <1>4 DEF Return
<1>6. result' \in 1..4
  <2>1. W \in Nat
    BY QRAssumption
  <2>2. \A v \in 0..(W - 1) : v % 4 \in 0..3
    BY <2>1
  <2>. QED  BY <1>4, <2>2 DEF Return
<1>7. QRTypeOK'
  BY <1>1, <1>4, <1>6 DEF QRTypeOK, Return, Left
<1>8. Stored' /\ Reading'
  BY <1>1, <1>2 DEF Stored, Reading, UnderWay, Return
<1>. QED  BY <1>5, <1>7, <1>8 DEF QRInv, ResultIsRight, Return

LEMMA QRInvStep == QRInv /\ [QRNext]_qrVars => QRInv'
<1>1. QRInv /\ UNCHANGED qrVars => QRInv'
  BY DEF qrVars, QRInv, QRTypeOK, Left, Stored, Reading, UnderWay, ResultIsRight
<1>. QED  BY <1>1, ReadDigitInv, ReadSignInv, ReturnInv DEF QRNext

LEMMA QRInvariant == QRSpec => []QRInv
<1>. QED  BY QRInvInit, QRInvStep, PTL DEF QRSpec

(* No number is cut off, in the uint16_t it is built in or in the byte it  *)
(* is stored in, and no store is outside of an array: what is built stays  *)
(* below a hundred, and below ten where a digit is to follow, and four     *)
(* numbers at most are stored.  It rests on the reset of num_flag.         *)
THEOREM QRTypes == QRSpec => []QRTypeOK
<1>. QED  BY QRInvariant, PTL DEF QRInv

(* What QR_Data_Handle() returns is the expression's true value modulo     *)
(* four, plus one, for every expression of numbers up to 99.               *)
THEOREM QRResult == QRSpec => []ResultIsRight
<1>. QED  BY QRInvariant, PTL DEF QRInv
=============================================================================
