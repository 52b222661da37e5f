--------------------------- MODULE MCRunAfterBuild ---------------------------
(* Instances of BuildQueue and RunAfterBuild: two projects, app depends on  *)
(* lib, so a build of app has the steps of both; one step is switched off.  *)
EXTENDS RunAfterBuild, TLC

CONSTANTS lib, app, libStep, offStep, appStep

On(s)  == [step |-> s, enabled |-> TRUE]
Off(s) == [step |-> s, enabled |-> FALSE]

MCProjectOf == (libStep :> lib) @@ (offStep :> lib) @@ (appStep :> app)

BuildLib == <<On(libStep), Off(offStep)>>
BuildApp == <<On(libStep), Off(offStep), On(appStep)>>
AppOnly  == <<On(appStep)>>

MCLists    == {BuildLib, BuildApp, AppOnly}
EmptyLists == {AppOnly, <<>>}
=============================================================================
