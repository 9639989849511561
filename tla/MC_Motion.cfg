\* A 49-step disc of two base-7 digits; the margin is less than a byte, as on
\* the board.
SPECIFICATION FairMotionSpec
CONSTANTS
  Base = 7
  Margin = 5
  Arm = 4
  Checks = 2
  Lag = 2
  Distances <- MCDistances
INVARIANTS MotionTypeOK NeverFarShort OvershootBound HonestReturn
PROPERTY MoveEnds
