CONSTANTS
  r1 = r1
  r2 = r2
  Runner = {r1, r2}
  Jobs <- PlainJobs
  File <- PlainFileSet
  Files <- PlainFilesOf
  StopOnError = TRUE
  TrackHeaders = TRUE
  MaxTime = 4
SPECIFICATION FSpec
INVARIANT CompleteBuildIsUpToDate
