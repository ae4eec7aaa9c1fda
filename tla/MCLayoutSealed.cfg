CONSTANTS
  MaxLeb = 8
  MAX_FIELD = 80
  MAX_ITEMS = 3
  MAX_U32 = 8
  MAX_U16 = 5
  MAX_DEPS = 2
  MAX_RECIPIENTS = 2
  MAX_BATCH = 2
  MAX_FRONTIER = 2
  MAX_SIGNERS = 2
  Marker = 8
  Messages = {}
  Symbols = {0, 1, 2, 3, 4, 5, 7, 9}
  AllCodecs = {"H264"}
  Frames <- MCFrames
  Cipher <- MCCipher
SPECIFICATION Spec
INVARIANTS SameUnits
CHECK_DEADLOCK FALSE
