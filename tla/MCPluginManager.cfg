CONSTANTS
  a = a
  b = b
  c = c
  Plugin <- ThreePlugins
  Metas <- Graphs
  MaxOptions = 1
SPECIFICATION FairSpec
INVARIANTS TypeOK DependenciesAlive SoundPluginsRun
PROPERTIES OrderKept AlwaysReturns
CHECK_DEADLOCK FALSE
