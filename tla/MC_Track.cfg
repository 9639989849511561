\* Legs with and without a card or a terrain; lines of one and two sensors.
SPECIFICATION FairTrackSpec
CONSTANTS
  Courses <- MCCourses
  Widths = {1, 2}
INVARIANTS TrackTypeOK NeverLost EndsAtCrossing TurnsToNextLine
PROPERTY TrackReturns
