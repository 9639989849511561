------------------------------ MODULE Channel ------------------------------
(***************************************************************************)
(* What an outgoing mailbox of the core board promises its callers: one    *)
(* message is under way at a time, it is delivered whole and at least      *)
(* once, possibly again while it is under way, and the next one is sent    *)
(* only after that.                                                        *)
(***************************************************************************)
CONSTANTS
  Messages,
  NoMsg

VARIABLES
  sending,   \* the message under way, or NoMsg
  received   \* the message delivered last, or NoMsg

channelVars == <<sending, received>>

ChannelInit ==
  /\ sending = NoMsg
  /\ received = NoMsg

Send(m) ==
  /\ sending = NoMsg
  /\ sending' = m
  /\ UNCHANGED received

Deliver ==
  /\ sending # NoMsg
  /\ received' = sending
  /\ sending' \in {sending, NoMsg}

ChannelNext == Deliver \/ \E m \in Messages : Send(m)

ChannelSpec == ChannelInit /\ [][ChannelNext]_channelVars

=============================================================================
