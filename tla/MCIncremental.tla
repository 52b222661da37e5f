---------------------------- MODULE MCIncremental ----------------------------
(* Two sources, one of them with a header, linked into a program; and the   *)
(* list that builds the first object file alone.                            *)
EXTENDS IncrementalBuild

Op(g, k) == [group |-> g, kind |-> k]
F(in, headers, out) == [in |-> in, headers |-> headers, out |-> out]

PlainJob == <<Op(1, "entering"), Op(2, "tool"), Op(2, "tool"), Op(3, "tool")>>
PlainFiles ==
  <<F({}, {}, "none"), F({"a.cpp"}, {"a.h"}, "a.o"), F({"b.cpp"}, {}, "b.o"),
    F({"a.o", "b.o"}, {}, "prog")>>

OneJob == <<Op(1, "tool")>>
OneFile == <<F({"a.cpp"}, {"a.h"}, "a.o")>>

PlainJobs == {PlainJob, OneJob}
PlainFilesOf == [job \in PlainJobs |-> IF job = PlainJob THEN PlainFiles ELSE OneFile]
PlainFileSet == {"a.cpp", "a.h", "b.cpp", "a.o", "b.o", "prog"}

ASSUME InstanceAssumption == TimesSuffice
=============================================================================
