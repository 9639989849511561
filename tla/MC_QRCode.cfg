\* Products of the largest numbers exceed 16 bits.
SPECIFICATION QRSpec
CONSTANTS
  Numbers = {0, 7, 50, 99}
  W = 65536
  Rubbish = {0, 42}
INVARIANTS QRTypeOK ResultIsRight
CHECK_DEADLOCK FALSE
