SPECIFICATION Spec
CONSTANTS
  Units = {0, 65, 127, 128, 255, 256, 2047, 2048, 55296, 56319, 56320, 57343, 65279, 65535}
  MaxLen = 3
INVARIANT CrossesFaithfully
CHECK_DEADLOCK FALSE
