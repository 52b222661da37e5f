----------------------------- MODULE DebugSession -----------------------------
(***************************************************************************)
(* What a debugger owes the run control that started it: the session of    *)
(* every start is reported as finished once, and nothing is reported that   *)
(* was not started.                                                         *)
(***************************************************************************)
EXTENDS Naturals

VARIABLES
  starts,     (* sessions the run control has announced with started()       *)
  reports     (* sessions it has announced as over with finished()           *)

svars == <<starts, reports>>

SInit == starts = 0 /\ reports = 0

StartSession == reports = starts /\ starts' = starts + 1 /\ UNCHANGED reports

ReportFinished == reports < starts /\ reports' = reports + 1 /\ UNCHANGED starts

SNext == StartSession \/ ReportFinished

SSpec == SInit /\ [][SNext]_svars
=============================================================================
