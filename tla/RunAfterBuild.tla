---------------------------- MODULE RunAfterBuild ----------------------------
(***************************************************************************)
(* "Build, then run": ProjectExplorerPlugin (projectexplorer.cpp) queues    *)
(* the steps a run needs, remembers the run configuration, and starts it    *)
(* when the build queue reports its end.  The report is a queued call and   *)
(* does not say which request it is about.                                  *)
(*                                                                          *)
(* The run action of the tool bar is disabled while something is built and  *)
(* enabled again by the slot that handles the report.  The run actions of   *)
(* the project tree's context menu are not: they ask for a run at any time, *)
(* during a build and with a report still on its way.                       *)
(***************************************************************************)
EXTENDS BuildQueue

VARIABLES
  delayed,     (* m_delayedRunConfiguration: the request it waits for, or 0 *)
  launched,    (* history: the requests whose program has been started     *)
  hasty        (* history: runs asked for with a report still on its way   *)

rvars == <<vars, delayed, launched, hasty>>

RInit == Init /\ delayed = 0 /\ launched = {} /\ hasty = {}

(* The order of the projects of a request ends with the one it is for.      *)
MainProject(list) == ProjectOf[list[Len(list)].step]

(* queue() leaves out empty step lists; only the busy plugin's build of one  *)
(* file hands an empty list on.                                              *)
Build(list) ==
  /\ \/ list = <<>> /\ \E p \in Project : ~Building(p)
     \/ list # <<>> /\ ~Building(MainProject(list))
  /\ BuildLists(list)
  /\ UNCHANGED <<stepOk, delayed, launched, hasty>>

(* runRunConfiguration does not look at what is built or reported.          *)
Run(list) ==
  /\ list # <<>>
  /\ BuildLists(list)
  /\ delayed' = IF requests' > requests THEN requests' ELSE delayed
  /\ hasty' = IF posted # <<>> THEN hasty \cup ({requests'} \ {requests}) ELSE hasty
  /\ UNCHANGED <<stepOk, launched>>

(* The user may be asked whether to ignore reported errors, and the run      *)
(* configuration may prove to be unusable.                                   *)
Keeps == delayed
Resets == 0

AnyReport(ok) == delayed # 0
Launches(ok) == ok /\ delayed # 0

BuildQueueFinished ==
  /\ EventLoop /\ posted # <<>>
  /\ posted' = Tail(posted)
  /\ launched' \in {launched} \cup
        (IF Launches(Head(posted)) THEN {launched \cup {delayed}} ELSE {})
  /\ delayed' = Resets
  /\ UNCHANGED <<queue, current, work, stepOk, running, canceling, active, output,
                 progress, maxProgress, removing, removed, requests, failed, hasty>>

RNext ==
  \/ /\ \/ System \/ Cancel
        \/ \E p \in Project : AboutToRemoveProject(p)
     /\ UNCHANGED <<delayed, launched, hasty>>
  \/ \E list \in Lists : Build(list) \/ Run(list)
  \/ BuildQueueFinished

RSpec == RInit /\ [][RNext]_rvars

RFairSpec ==
  /\ RSpec
  /\ WF_rvars(System /\ UNCHANGED <<delayed, launched, hasty>>)
  /\ WF_rvars(BuildQueueFinished)

-----------------------------------------------------------------------------
(* What each variable holds. *)
RTypeOK == TypeOK /\ delayed \in 0..requests /\ launched \cup hasty \subseteq 1..requests

(* A program is started only when every step queued for it has succeeded:    *)
(* none is left in the queue and none has failed or was dropped.  Not so a   *)
(* run that is asked for while the report of an earlier build is still on    *)
(* its way: buildQueueFinished takes that report for the run's own.          *)
LaunchedOnlyAfterItsSteps ==
  [][\A r \in (launched' \ launched) \ hasty :
       r \notin failed /\ r \notin Reqs(current \o queue)]_rvars

(* A run that waits for its build does not wait for ever.                    *)
DelayedRunResolved == delayed # 0 ~> delayed = 0
=============================================================================
