\* Three requests to the camera, or two to the garages with two messages in the air.
SPECIFICATION DialogueSpec
CONSTANTS
  CameraCalls = 3
  Sides = {5, 13}
  Layers = {1, 2, 3}
  Other <- MCOther
  GarageCalls = 2
  Room = 2
INVARIANTS DialogueTypeOK AnswerIsMine SuccessIsTrue
CHECK_DEADLOCK FALSE
