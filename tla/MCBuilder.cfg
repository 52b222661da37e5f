CONSTANTS
  r1 = r1
  r2 = r2
  Runner = {r1, r2}
  Jobs <- MCJobs
  StopOnError = TRUE
SPECIFICATION FairSpec
INVARIANTS TypeOK GroupBarrier NoDependentAfterFailure SuccessHidesOnlyLastGroup
PROPERTIES ImplementsContract EveryBuildEnds
