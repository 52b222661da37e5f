CONSTANTS
  lib = lib
  app = app
  libStep = libStep
  offStep = offStep
  appStep = appStep
  NoProject = NoProject
  Step = {libStep, offStep, appStep}
  Project = {lib, app}
  ProjectOf <- MCProjectOf
  GuiStep = {libStep, offStep, appStep}
  Lists <- MCLists
  MaxRequests = 3
SPECIFICATION RFairSpec
INVARIANT NoDanglingStep
PROPERTIES NoRequestWhileCanceling LaunchedOnlyAfterItsSteps DelayedRunResolved
CHECK_DEADLOCK FALSE
