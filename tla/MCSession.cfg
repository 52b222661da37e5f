CONSTANTS
  a = a
  b = b
  c = c
  work = work
  home = home
  default = default
  None = None
  Default = default
  Project <- TwoProjects
  Session <- ThreeSessions
SPECIFICATION Spec
SYMMETRY Symmetry
INVARIANTS TypeOK FilesConsistent NothingLost
CHECK_DEADLOCK FALSE
