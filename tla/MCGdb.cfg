CONSTANTS
  MaxStarts = 2
  MaxEvents = 3
SPECIFICATION FairSpec
INVARIANTS TypeOK FinishIsReported NeverStranded
PROPERTIES ImplementsSession BreakpointsBeforeRun StoppedSessionEnds
CHECK_DEADLOCK FALSE
