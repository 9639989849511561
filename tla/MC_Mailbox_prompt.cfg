\* The FPGA takes every message within the second: the mailbox is a channel.
SPECIFICATION FairMailboxSpec
CONSTANTS
  Messages = {m1, m2, m3}
  NoMsg = NoMsg
  Garbage = Garbage
  Size = 4
  Raw = {}
  Timeouts = FALSE
PROPERTIES ImplementsChannel EventuallyDelivered
