----------------------------- MODULE BuildQueue -----------------------------
(***************************************************************************)
(* The build queue of the IDE (projectexplorer/buildmanager.cpp).          *)
(*                                                                         *)
(* Everything here runs in the GUI thread, so a slot is one step, with two *)
(* exceptions: a build step works on between two slots, and cancel() of a  *)
(* step that runs in the GUI thread spins the event loop, without user     *)
(* input, until the step has ended.  nextStep and nextBuildQueue call each *)
(* other for disabled steps; the recursion is unrolled here: Begin drops   *)
(* the disabled steps at the head and starts the first enabled one.        *)
(***************************************************************************)
EXTENDS Integers, Sequences, FiniteSets

CONSTANTS
  Step,          (* the build steps of the session                         *)
  Project,
  ProjectOf,     (* [Step -> Project]                                      *)
  GuiStep,       (* the steps whose runInGuiThread() is true               *)
  Lists,         (* the step lists a caller hands to buildLists            *)
  NoProject,
  MaxRequests    (* bound: the calls of buildLists of one behaviour        *)

ASSUME StepAssumption ==
  /\ ProjectOf \in [Step -> Project]
  /\ GuiStep \subseteq Step
  /\ NoProject \notin Project

ASSUME ListAssumption ==
  Lists \subseteq Seq([step : Step, enabled : BOOLEAN])

ASSUME BoundAssumption == MaxRequests \in Nat

VARIABLES
  queue,       (* m_buildQueue with m_enabledState and, as history, the request *)
  current,     (* m_currentBuildStep: the empty sequence or one entry      *)
  work,        (* of the current step: "none", "running" or, in a thread, "ended" *)
  stepOk,      (* what the current step has reported                       *)
  running,     (* m_running                                                *)
  canceling,   (* m_canceling                                              *)
  active,      (* m_activeBuildSteps                                       *)
  output,      (* how many times a step's output is connected to the panes *)
  progress, maxProgress,
  posted,      (* buildQueueFinished(bool) calls queued for the plugin     *)
  removing,    (* the project removeProjects is about to delete            *)
  removed,     (* the deleted projects                                     *)
  requests,    (* history: the number of accepted requests                 *)
  failed       (* history: requests with a step that failed or was dropped *)

vars == <<queue, current, work, stepOk, running, canceling, active, output,
          progress, maxProgress, posted, removing, removed, requests, failed>>

Entry == [step : Step, enabled : BOOLEAN, req : 1..MaxRequests]

Steps(entries) == {entries[i].step : i \in 1..Len(entries)}
Reqs(entries)  == {entries[i].req : i \in 1..Len(entries)}
Of(entries, p) == {i \in 1..Len(entries) : ProjectOf[entries[i].step] = p}

InGui == current # <<>> /\ current[1].step \in GuiStep

(* The while loop of cancel(): no user input, but everything else.         *)
InputDuringCancel == FALSE
InCancelLoop == canceling /\ InGui

EventLoop  == removing = NoProject \/ InCancelLoop
UserMayAct == removing = NoProject /\ ~InCancelLoop

Building(p) == active[p] > 0            (* isBuilding of a project *)

(* What a slot leaves in the counters and in the connections is a record of *)
(* these variables, changed for a list of entries at a time.                *)
Book == [active |-> active, output |-> output, done |-> progress, max |-> maxProgress,
         lost |-> failed]

(* decrementActiveBuildSteps and disconnectOutput for all the entries.     *)
ForgetTwice(b, entries) ==
  [b EXCEPT !.active = [p \in Project |-> @[p] - 2 * Cardinality(Of(entries, p))],
            !.output = [s \in Step |-> IF s \in Steps(entries) THEN 0 ELSE @[s]]]
ForgetOnePerProject(b, entries) ==
  [b EXCEPT !.active = [p \in Project |-> IF Of(entries, p) = {} THEN @[p] ELSE @[p] - 1],
            !.output = [s \in Step |-> IF s \in Steps(entries) THEN 0 ELSE @[s]]]
Forget(b, entries) ==
  [b EXCEPT !.active = [p \in Project |-> @[p] - Cardinality(Of(entries, p))],
            !.output = [s \in Step |-> IF s \in Steps(entries) THEN 0 ELSE @[s]]]

(* ++m_maxProgress for the enabled ones.                                    *)
EnabledOf(entries) == Cardinality({i \in 1..Len(entries) : entries[i].enabled})

(* buildQueueAppend: connect, incrementActiveBuildSteps.                    *)
Remember(b, entries) ==
  [b EXCEPT !.active = [p \in Project |-> @[p] + Cardinality(Of(entries, p))],
            !.output = [s \in Step |-> @[s] +
                          Cardinality({i \in 1..Len(entries) : entries[i].step = s})],
            !.max = @ + EnabledOf(entries)]

CountOne(b) == [b EXCEPT !.done = @ + 1]
Lose(b, entries) == [b EXCEPT !.lost = @ \cup Reqs(entries)]

Init ==
  /\ queue = <<>>
  /\ current = <<>>
  /\ work = "none"
  /\ stepOk = FALSE
  /\ running = FALSE
  /\ canceling = FALSE
  /\ active = [p \in Project |-> 0]
  /\ output = [s \in Step |-> 0]
  /\ progress = 0
  /\ maxProgress = 0
  /\ posted = <<>>
  /\ removing = NoProject
  /\ removed = {}
  /\ requests = 0
  /\ failed = {}

-----------------------------------------------------------------------------
(* nextStep() on the queue q, with the book b as its caller leaves it.  A   *)
(* GUI step may report its failure from run itself.                         *)
Leading(q, n) ==                      (* the first n entries are disabled  *)
  /\ \A i \in 1..n : ~q[i].enabled
  /\ n < Len(q) => q[n + 1].enabled

Booked(b) ==
  /\ active' = b.active /\ output' = b.output
  /\ progress' = b.done /\ maxProgress' = b.max
  /\ failed' = b.lost

StillRunning ==
  /\ queue' = <<>> /\ current' = <<>> /\ work' = "none"
  /\ running' = running
Idle ==
  /\ queue' = <<>> /\ current' = <<>> /\ work' = "none"
  /\ running' = FALSE

Drained(b) ==
  /\ Idle
  /\ Booked([b EXCEPT !.max = 0])
  /\ posted' = Append(posted, TRUE)

(* clearBuildQueue(): nothing is left of the entries, the current one       *)
(* included.                                                                *)
Cleared(b, entries) ==
  /\ Idle
  /\ Booked([Lose(Forget(b, entries), entries) EXCEPT !.max = 0])
  /\ posted' = Append(posted, FALSE)

Started(b, q) ==
  /\ current' = <<Head(q)>> /\ queue' = Tail(q) /\ work' = "running"
  /\ running' = TRUE
  /\ Booked(b)
  /\ UNCHANGED posted

NextStep(b, q) ==
  \E n \in 0..Len(q) :
    LET b1   == Forget(b, SubSeq(q, 1, n))
        rest == SubSeq(q, n + 1, Len(q))
    IN  /\ Leading(q, n)
        /\ \/ rest = <<>> /\ Drained(b1)
           \/ rest # <<>> /\ Started(b1, rest)
           \/ /\ rest # <<>> /\ Head(rest).step \in GuiStep
              /\ Cleared(CountOne(b1), rest)

(* buildLists(): init() of a step fails while its project is parsed, or      *)
(* while the step itself still has a job.                                   *)
Refusing(list, parsing) ==
  {i \in 1..Len(list) :
     /\ list[i].enabled
     /\ \/ ProjectOf[list[i].step] \in parsing
        \/ work = "running" /\ list[i].step \in Steps(current) \cap GuiStep}

Refused(list, parsing) ==
  \E i \in Refusing(list, parsing) :
    /\ \A j \in Refusing(list, parsing) : i <= j
    /\ Booked([Book EXCEPT !.output = Forget(Book, SubSeq(list, 1, i)).output])
    /\ UNCHANGED <<queue, current, work, running, posted, requests>>

Accepted(list) ==
  LET req   == requests + 1
      new   == [i \in 1..Len(list) |->
                  [step |-> list[i].step, enabled |-> list[i].enabled, req |-> req]]
      all   == queue \o new
      b     == Remember(Book, new)
  IN  /\ req <= MaxRequests
      /\ requests' = req
      /\ \/ /\ all = <<>>                                  (* startBuildQueue *)
            /\ posted' = Append(posted, TRUE)
            /\ UNCHANGED <<queue, current, work, running, active, output,
                           progress, maxProgress, failed>>
         \/ /\ all # <<>> /\ ~running
            /\ NextStep([b EXCEPT !.done = 0], all)
         \/ /\ all # <<>> /\ running
            /\ queue' = all
            /\ Booked(b)
            /\ UNCHANGED <<current, work, running, posted>>

BuildLists(list) ==
  /\ UserMayAct
  /\ Steps(list) \cap {s \in Step : ProjectOf[s] \in removed} = {}
  /\ \E parsing \in SUBSET Project :
       \/ Refused(list, parsing)
       \/ Refusing(list, parsing) = {} /\ Accepted(list)
  /\ UNCHANGED <<canceling, removing, removed>>

-----------------------------------------------------------------------------
(* nextBuildQueue(), at the end of the current step.  A GUI step calls it    *)
(* directly, the end of a thread is a queued call.                          *)
GoesOn(ok) == TRUE
StopsAtFailure(ok) == ok

CancelSeen == canceling

NextBuildQueue(ok) ==
  LET b == IF ok THEN Book ELSE Lose(Book, current)
  IN  /\ stepOk' = FALSE
      /\ \/ /\ CancelSeen
            /\ canceling' = FALSE
            /\ Cleared(b, current \o queue)
         \/ /\ ~CancelSeen /\ StopsAtFailure(ok)
            /\ NextStep(CountOne(Forget(b, current)), queue)
            /\ UNCHANGED canceling
         \/ /\ ~CancelSeen /\ ~StopsAtFailure(ok)
            /\ Cleared(CountOne(b), current \o queue)
            /\ UNCHANGED canceling
      /\ UNCHANGED <<removing, removed, requests>>

GuiStepFinished ==
  /\ EventLoop /\ work = "running" /\ InGui
  /\ \E ok \in BOOLEAN : NextBuildQueue(ok)

ThreadEnds ==
  /\ work = "running" /\ ~InGui
  /\ work' = "ended"
  /\ stepOk' \in BOOLEAN
  /\ UNCHANGED <<queue, current, running, canceling, active, output, progress,
                 maxProgress, posted, removing, removed, requests, failed>>

ThreadCollected == EventLoop /\ work = "ended" /\ NextBuildQueue(stepOk)

-----------------------------------------------------------------------------
(* cancel(): a GUI step is told and then waited for in the loop; a thread   *)
(* is waited for, but the queue is only cleared by its queued call.         *)
CancelQueue ==
  /\ running /\ ~canceling
  /\ canceling' = TRUE
  /\ work' = IF InGui THEN work ELSE "ended"
  /\ UNCHANGED <<queue, current, stepOk, running, active, output, progress,
                 maxProgress, posted, removed, requests, failed>>

Cancel == UserMayAct /\ CancelQueue /\ UNCHANGED removing

(* removeProjects: aboutToRemoveProject is emitted, and when its slot has   *)
(* returned the project is deleted with its steps.                          *)
CancelForgotten(p) == FALSE
MustCancel(p) == Building(p)

AboutToRemoveProject(p) ==
  /\ UserMayAct /\ p \notin removed
  /\ removing' = p
  /\ \/ MustCancel(p) /\ CancelQueue
     \/ /\ ~(MustCancel(p) /\ running /\ ~canceling)
        /\ UNCHANGED <<queue, current, work, stepOk, running, canceling, active, output,
                       progress, maxProgress, posted, removed, requests, failed>>

DeleteProject ==
  /\ removing # NoProject /\ ~InCancelLoop
  /\ removed' = removed \cup {removing}
  /\ removing' = NoProject
  /\ UNCHANGED <<queue, current, work, stepOk, running, canceling, active, output,
                 progress, maxProgress, posted, requests, failed>>

System == GuiStepFinished \/ ThreadEnds \/ ThreadCollected \/ DeleteProject

Next ==
  \/ System
  \/ \E list \in Lists : BuildLists(list) /\ UNCHANGED stepOk
  \/ Cancel
  \/ \E p \in Project : AboutToRemoveProject(p)

Spec == Init /\ [][Next]_vars

(* A started step ends (its own business), and the event loop delivers.     *)
FairSpec == Spec /\ WF_vars(System)

-----------------------------------------------------------------------------
(* What each variable holds. *)
TypeOK ==
  /\ queue \in Seq(Entry)
  /\ current \in Seq(Entry) /\ Len(current) <= 1
  /\ work \in {"none", "running", "ended"}
  /\ stepOk \in BOOLEAN /\ running \in BOOLEAN /\ canceling \in BOOLEAN
  /\ active \in [Project -> Nat]
  /\ output \in [Step -> Nat]
  /\ progress \in Nat /\ maxProgress \in Nat
  /\ posted \in Seq(BOOLEAN)
  /\ removing \in Project \cup {NoProject}
  /\ removed \subseteq Project
  /\ requests \in 0..MaxRequests
  /\ failed \subseteq 1..requests

(* m_running, m_currentBuildStep and the queue agree: cancel() and          *)
(* nextBuildQueue use the current step of a running queue unchecked, and    *)
(* only a running queue may hold steps or an unanswered cancel.             *)
RunningHasStep ==
  /\ running <=> current # <<>>
  /\ work # "none" <=> current # <<>>
  /\ ~running => queue = <<>> /\ ~canceling

(* isBuilding(project) is exact: the count of a project is the number of    *)
(* its steps that are queued or current, whatever was appended, refused,    *)
(* skipped, cancelled or dropped.                                           *)
ActiveCountsExact ==
  \A p \in Project : active[p] = Cardinality(Of(current \o queue, p))

(* The progress bar ends exactly at its maximum: what is done, what runs    *)
(* and what is still queued add up to m_maxProgress.                        *)
ProgressExact ==
  IF running
  THEN maxProgress = progress + Cardinality({i \in 1..Len(current \o queue) :
                                                (current \o queue)[i].enabled})
  ELSE maxProgress = 0

(* No connection to the output panes survives the request of its step.      *)
NoStrayOutput ==
  \A s \in Step : output[s] > 0 => s \in Steps(current \o queue)

(* The queue never refers to a step of a deleted project.                   *)
NoDanglingStep ==
  \A i \in 1..Len(current \o queue) :
    ProjectOf[(current \o queue)[i].step] \notin removed

(* A request is dropped as a whole: once one of its steps has failed or was *)
(* dropped none of the others is queued, let alone run.                     *)
NoStepAfterFailure == Reqs(current \o queue) \cap failed = {}

(* No request is accepted between a cancel and the clearing of the queue;   *)
(* it would be dropped without a word.                                      *)
NoRequestWhileCanceling == [][canceling => requests' = requests]_vars

(* After a cancel no further step is started. *)
NoStartAfterCancel == [][canceling => current' \in {current, <<>>}]_vars

(* Every build ends, and every cancel returns. *)
EveryQueueEnds == running ~> ~running
=============================================================================
