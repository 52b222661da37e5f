CONSTANTS
  b1 = b1
  b2 = b2
  Bps <- OneBp
  Lines <- TwoLines
  Counts <- TwoCounts
  Inputs <- ThreeInputs
  MaxEdits = 2
  MaxPlaced = 2
  MaxSessions = 2
SPECIFICATION FairSpec
INVARIANTS TypeOK SettledAgrees InsertedOnce NoUnexpectedTransition
PROPERTIES EditsReachGdb
CHECK_DEADLOCK FALSE
CONSTRAINT Followed
