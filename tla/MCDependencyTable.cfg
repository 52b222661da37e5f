CONSTANTS
  a = a
  b = b
  c = c
  File <- ThreeFiles
SPECIFICATION FairSpec
INVARIANTS TypeOK RowsAreLeast NoDependentMissed
PROPERTIES SweepEnds
