CONSTANTS
  MaxStarts = 1
  MaxEvents = 1
SPECIFICATION Spec
INVARIANT NoGdbLeftBehind
CHECK_DEADLOCK FALSE
