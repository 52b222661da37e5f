CONSTANTS
  lib = lib
  app = app
  libStep = libStep
  offStep = offStep
  appStep = appStep
  NoProject = NoProject
  Step = {libStep, offStep, appStep}
  Project = {lib, app}
  ProjectOf <- MCProjectOf
  GuiStep = {libStep, offStep, appStep}
  Lists <- EmptyLists
  MaxRequests = 3
SPECIFICATION RSpec
PROPERTY LaunchedOnlyAfterItsSteps
CHECK_DEADLOCK FALSE
