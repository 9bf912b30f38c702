SPECIFICATION Spec
CONSTANTS
  MaxSegment = 2
  MSS = 2
  MaxRead = 2
  MaxBytes = 3
CHECK_DEADLOCK FALSE
PROPERTY Reliable
