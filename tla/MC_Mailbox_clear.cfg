\* The code disc's clear command goes into the mailbox flag first.
SPECIFICATION FairMailboxSpec
CONSTANTS
  Messages = {m1, clear}
  NoMsg = NoMsg
  Garbage = Garbage
  Size = 4
  Raw = {clear}
  Timeouts = FALSE
INVARIANT TakenCommandsAreJudged
