\* Three commands, two frames, two reports of each kind.
SPECIFICATION FairTaskSpec
CONSTANTS
  K = 3
  F = 2
  Repeats = 2
INVARIANTS TaskTypeOK OncePerCommand DoneMeansRun
PROPERTIES UnreadLosses AllDone
