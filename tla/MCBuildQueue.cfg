CONSTANTS
  lib = lib
  app = app
  libStep = libStep
  offStep = offStep
  appStep = appStep
  NoProject = NoProject
  Step = {libStep, offStep, appStep}
  Project = {lib, app}
  ProjectOf <- MCProjectOf
  GuiStep = {libStep}
  Lists <- MCLists
  MaxRequests = 3
SPECIFICATION FairSpec
INVARIANTS TypeOK ActiveCountsExact NoStepAfterFailure
PROPERTY EveryQueueEnds
CHECK_DEADLOCK FALSE
