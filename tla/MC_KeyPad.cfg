\* Two keys; three low samples make a press; millis() wraps at 7.
SPECIFICATION PadSpec
CONSTANTS
  N = 2
  Hold = 2
  Cap = 4
  Interval = 2
  Intervals <- MCIntervals
  M = 7
  Lag = 5
INVARIANTS TypeOK NoiseImmunity LatchTracksActivity ClockIsExact DebounceTime
PROPERTIES NoCallWhileHeld PressIsReported
