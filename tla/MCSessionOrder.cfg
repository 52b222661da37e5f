CONSTANTS
  a = a
  b = b
  c = c
  work = work
  home = home
  default = default
  None = None
  Default = default
  Project <- ThreeProjects
  Session <- OneSession
SPECIFICATION Spec
SYMMETRY ProjectSymmetry
INVARIANTS DependenciesBuildable RoundProgresses
CHECK_DEADLOCK FALSE
