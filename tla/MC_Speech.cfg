\* Three calls: one that gives up, one that is late, one that suffers.
SPECIFICATION FairSpeechSpec
CONSTANTS
  Calls = 3
INVARIANTS SpeechTypeOK WordIsFresh HangsForGood
PROPERTY CallReturns
CHECK_DEADLOCK FALSE
