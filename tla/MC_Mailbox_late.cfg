\* Waits may time out: what is lost or torn, and that writes return.
SPECIFICATION FairMailboxSpec
CONSTANTS
  Messages = {m1, m2, m3}
  NoMsg = NoMsg
  Garbage = Garbage
  Size = 4
  Raw = {}
  Timeouts = TRUE
INVARIANT MailboxTypeOK
PROPERTIES TornOnlyIfLate LostOnlyIfLate WriteReturns
