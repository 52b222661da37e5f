---------------------------- MODULE BuilderProofs ----------------------------
(***************************************************************************)
(* Theorems about Builder for every pool, every set of operation lists     *)
(* with nondecreasing groups, and both settings of stop-on-error.          *)
(*                                                                         *)
(* The safety properties are conjuncts of, or follow from, one inductive   *)
(* invariant IInv: what the main thread's position says of the flags       *)
(* (PhaseInv), what d_available says of the threads (PoolInv), how the     *)
(* list position, the outcomes and the runners belong together (WorkInv),  *)
(* which group they are of (GroupInv), and what a failed command has left  *)
(* in the flags (FailInv).                                                 *)
(***************************************************************************)
EXTENDS Builder, TLAPS

PhaseInv ==
  /\ thread = "none" => /\ pc = "loop" /\ ~startedEvent
                        /\ \A r \in Runner : rstate[r] = "idle"
  /\ thread = "running" => result = <<>>
  /\ thread # "running" => Len(result) <= 1 /\ NoneRunning /\ pc = "loop"
  /\ thread = "quit" => quitting \/ cancel
  /\ thread = "running" /\ pc = "loop" => ~quitting /\ ~cancel
  /\ pc \in {"switch", "fill"} => ~quitting /\ ~cancel /\ ~(StopOnError /\ ~success)
  /\ pc = "waitQuit" => quitting /\ ~cancel /\ StopsHere(success)
  /\ pc = "waitCancel" => cancel

PoolInv ==
  /\ \A r \in available : rstate[r] = "idle"
  /\ thread = "running" /\ ~cancel => \A r \in Runner : rstate[r] = "idle" => r \in available
  /\ pc \in {"switch", "fill"} /\ startedThread => \E r \in Runner : rstate[r] # "idle"

WorkInv ==
  /\ \A i \in Positions : outcome[i] = "todo" <=> i > done
  /\ \A r \in Runner : rstate[r] # "idle" =>
       /\ rop[r] \in 1..done
       /\ ops[rop[r]].kind # "entering"
       /\ \A q \in Runner : rstate[q] # "idle" /\ rop[q] = rop[r] => q = r
  /\ \A r \in Runner : rstate[r] = "running" => outcome[rop[r]] = "running" /\ rok[r]
  /\ \A r \in Runner : rstate[r] = "finished" =>
       /\ outcome[rop[r]] \in {"ok", "failed"}
       /\ rok[r] <=> outcome[rop[r]] = "ok" \/ ops[rop[r]].kind = "lua"
  /\ \A i \in Positions : outcome[i] = "running" =>
       \E r \in Runner : rstate[r] = "running" /\ rop[r] = i

GroupInv ==
  /\ done > 0 => ops[done].group = curGroup
  /\ \A r \in Runner : rstate[r] # "idle" => ops[rop[r]].group = curGroup

FailInv ==
  /\ SuccessTracksFailures
  /\ NoDependentAfterFailure
  /\ SuccessHidesOnlyLastGroup

IInv == TypeOK /\ PhaseInv /\ PoolInv /\ WorkInv /\ GroupInv /\ FailInv

-----------------------------------------------------------------------------
(* The list of a build is a sequence of operations with nondecreasing groups. *)
LEMMA OpsFacts ==
  ASSUME TypeOK
  PROVE  /\ Len(ops) \in Nat
         /\ \A i \in Positions : ops[i].group \in Nat /\ ops[i].kind \in Kind
         /\ \A i, j \in Positions : i < j => ops[i].group <= ops[j].group
<1>1. CASE ops = <<>>
  BY <1>1 DEF Positions
<1>2. CASE ops \in Jobs
  <2>1. ops \in Seq(Operation)
    BY <1>2, JobsAssumption
  <2>2. \A i \in Positions : ops[i] \in Operation
    BY <2>1 DEF Positions
  <2>3. QED
    BY <1>2, <2>1, <2>2, JobsAssumption DEF Operation, Positions
<1>3. QED
  BY <1>1, <1>2 DEF TypeOK

LEMMA InitInv == Init => IInv
<1> SUFFICES ASSUME Init PROVE IInv
  OBVIOUS
<1> USE DEF Init, Positions
<1>1. TypeOK
  <2>1. result \in Seq(BOOLEAN)
    OBVIOUS
  <2>2. /\ success \in BOOLEAN /\ cancel \in BOOLEAN /\ quitting \in BOOLEAN
        /\ startedEvent \in BOOLEAN /\ startedThread \in BOOLEAN
        /\ rok \in [Runner -> BOOLEAN]
    OBVIOUS
  <2>3. rop \in [Runner -> 0..Len(ops)] /\ done \in 0..Len(ops)
    OBVIOUS
  <2>4. QED
    BY <2>1, <2>2, <2>3 DEF TypeOK
<1>2. PhaseInv
  BY DEF PhaseInv, NoneRunning, StopsHere, WorkEmpty
<1>3. PoolInv /\ WorkInv /\ GroupInv
  BY DEF PoolInv, WorkInv, GroupInv
<1>4. FailInv
  BY DEF FailInv, SuccessTracksFailures, NoDependentAfterFailure, SuccessHidesOnlyLastGroup
<1>5. QED
  BY <1>1, <1>2, <1>3, <1>4 DEF IInv

LEMMA StartInv == ASSUME IInv, NEW job \in Jobs, Start(job) PROVE IInv'
<1> USE DEF IInv, Start
<1>0. job \in Seq(Operation) /\ Len(job) \in Nat
  BY JobsAssumption
<1>1. TypeOK'
  <2>1. result' \in Seq(BOOLEAN)
    OBVIOUS
  <2>2. outcome' \in [Positions' -> {"todo", "skipped", "running", "ok", "failed"}]
    BY DEF Positions
  <2>3. /\ success' \in BOOLEAN /\ cancel' \in BOOLEAN /\ quitting' \in BOOLEAN
        /\ startedEvent' \in BOOLEAN /\ startedThread' \in BOOLEAN
        /\ rok' \in [Runner -> BOOLEAN]
    BY DEF TypeOK
  <2>4. rop' \in [Runner -> 0..Len(job)] /\ done' \in 0..Len(job)
    BY <1>0
  <2>5. QED
    BY <1>0, <2>1, <2>2, <2>3, <2>4 DEF TypeOK
<1>2. PhaseInv'
  BY DEF PhaseInv, NoneRunning, StopsHere, WorkEmpty, TypeOK
<1>3. PoolInv' /\ GroupInv'
  BY DEF PoolInv, GroupInv, PhaseInv
<1>4. WorkInv'
  BY <1>0 DEF WorkInv, Positions
<1>5. FailInv'
  BY DEF FailInv, SuccessTracksFailures, NoDependentAfterFailure, SuccessHidesOnlyLastGroup,
         Positions
<1>6. QED
  BY <1>1, <1>2, <1>3, <1>4, <1>5

-----------------------------------------------------------------------------
(* startOne() called from one of the loops of select(): either the group is *)
(* switched, and then no runner is in use, or it stays the same.            *)
StartStep ==
  /\ pc \in {"switch", "fill"} /\ ~WorkEmpty
  /\ First.group # curGroup => AllIdle
  /\ curGroup' = First.group
  /\ UNCHANGED <<thread, ops, success, cancel, quitting, startedEvent, pc, result>>

LEMMA StartStepIntro ==
  ASSUME TypeOK, SwitchGroup \/ FillGroup
  PROVE  StartStep /\ StartOne
<1>1. CASE SwitchGroup
  BY <1>1 DEF SwitchGroup, MaySwitch, StartStep
<1>2. CASE FillGroup
  BY <1>2 DEF FillGroup, MayFill, StartStep
<1>3. QED
  BY <1>1, <1>2

(* What a step of startOne starts from. *)
LEMMA StartFacts ==
  ASSUME IInv, StartStep
  PROVE  /\ done \in Nat /\ done + 1 \in Positions
         /\ thread = "running" /\ ~cancel
         /\ StopOnError => success
         /\ First.group \in Nat /\ First.kind \in Kind
         /\ outcome[done + 1] = "todo"
         /\ \A i \in 1..done : ops[i].group <= First.group
         /\ First.group # curGroup => \A r \in Runner : rstate[r] = "idle"
<1> USE OpsFacts DEF IInv
<1>1. done \in Nat /\ done + 1 \in Positions
  BY DEF TypeOK, StartStep, WorkEmpty, Positions
<1>2. thread = "running" /\ ~cancel /\ (StopOnError => success)
  BY DEF TypeOK, StartStep, PhaseInv
<1>3. First.group \in Nat /\ First.kind \in Kind /\ outcome[done + 1] = "todo"
  BY <1>1 DEF First, WorkInv
<1>4. \A i \in 1..done : ops[i].group <= First.group
  BY <1>1 DEF First, Positions
<1>5. First.group # curGroup => \A r \in Runner : rstate[r] = "idle"
  BY DEF StartStep, AllIdle, PoolInv
<1>6. QED
  BY <1>1, <1>2, <1>3, <1>4, <1>5

LEMMA PassInv == ASSUME IInv, StartStep, Pass PROVE IInv'
<1> USE StartFacts, OpsFacts DEF IInv, StartStep, Pass, TakesOne
<1>1. TypeOK'
  <2>1. startedThread' \in BOOLEAN
    OBVIOUS
  <2>2. done' \in 0..Len(ops) /\ rop' \in [Runner -> 0..Len(ops)]
    BY DEF Positions, TypeOK
  <2>3. outcome' \in [Positions -> {"todo", "skipped", "running", "ok", "failed"}]
    BY DEF TypeOK
  <2>4. QED
    BY <2>1, <2>2, <2>3 DEF TypeOK, Positions
<1>2. PhaseInv'
  BY DEF PhaseInv, NoneRunning, StopsHere, WorkEmpty, TypeOK
<1>3. PoolInv'
  BY DEF PoolInv, TypeOK
<1>4. WorkInv'
  BY DEF WorkInv, Positions, TypeOK
<1>5. GroupInv'
  BY DEF GroupInv, First, WorkInv, Positions, TypeOK
<1>6. FailInv'
  <2>1. SuccessTracksFailures'
    BY DEF FailInv, SuccessTracksFailures, Positions, TypeOK
  <2>2. NoDependentAfterFailure'
    BY DEF FailInv, NoDependentAfterFailure, SuccessTracksFailures, GroupInv, First, Positions,
           TypeOK
  <2>3. SuccessHidesOnlyLastGroup'
    BY DEF SuccessHidesOnlyLastGroup, PhaseInv
  <2>4. QED
    BY <2>1, <2>2, <2>3 DEF FailInv
<1>7. QED
  BY <1>1, <1>2, <1>3, <1>4, <1>5, <1>6

LEMMA LaunchInv ==
  ASSUME IInv, StartStep, NEW r \in Runner, Launch(r) PROVE IInv'
<1> USE StartFacts, OpsFacts DEF IInv, StartStep, Launch, TakesOne, Taken
<1>1. TypeOK'
  BY DEF TypeOK, Positions
<1>2. PhaseInv'
  BY DEF PhaseInv, NoneRunning, StopsHere, WorkEmpty, TypeOK
<1>3. PoolInv'
  BY DEF PoolInv, TypeOK
<1>4. WorkInv'
  BY DEF WorkInv, Positions, TypeOK, PoolInv, First
<1>5. GroupInv'
  BY DEF GroupInv, First, WorkInv, Positions, TypeOK
<1>6. FailInv'
  <2>1. SuccessTracksFailures'
    BY DEF FailInv, SuccessTracksFailures, Positions, TypeOK, PoolInv
  <2>2. NoDependentAfterFailure'
    <3> SUFFICES ASSUME StopOnError, NEW i \in Positions, NEW j \in Positions,
                        outcome'[i] = "failed", ops[i].kind = "tool",
                        ops[i].group < ops[j].group
                 PROVE  outcome'[j] = "todo"
      BY DEF NoDependentAfterFailure, Positions
    <3>1. outcome[i] = "failed"
      BY DEF TypeOK
    <3>2. PICK q \in Runner : rstate[q] = "finished" /\ rop[q] = i
      BY <3>1 DEF FailInv, SuccessTracksFailures
    <3>3. ops[i].group = curGroup /\ First.group = curGroup
      BY <3>2 DEF GroupInv
    <3>4. outcome[j] = "todo" /\ j # done + 1
      BY <3>1, <3>3 DEF FailInv, NoDependentAfterFailure, First
    <3>5. QED
      BY <3>4 DEF TypeOK
  <2>3. SuccessHidesOnlyLastGroup'
    BY DEF SuccessHidesOnlyLastGroup, PhaseInv
  <2>4. QED
    BY <2>1, <2>2, <2>3 DEF FailInv
<1>7. QED
  BY <1>1, <1>2, <1>3, <1>4, <1>5, <1>6

-----------------------------------------------------------------------------
(* The steps of select() that start nothing. *)
LEMMA EndSwitchInv == ASSUME IInv, EndSwitch PROVE IInv'
<1> USE DEF IInv, EndSwitch
<1>1. TypeOK'
  BY DEF TypeOK, Positions
<1>2. PhaseInv'
  BY DEF PhaseInv, NoneRunning, StopsHere, WorkEmpty, TypeOK
<1>3. PoolInv' /\ GroupInv'
  BY DEF PoolInv, GroupInv
<1>4. WorkInv'
  BY DEF WorkInv, Positions
<1>5. FailInv'
  BY DEF FailInv, SuccessTracksFailures, NoDependentAfterFailure, SuccessHidesOnlyLastGroup,
         Positions
<1>6. QED
  BY <1>1, <1>2, <1>3, <1>4, <1>5

(* The emission of taskFinished when the pool has ended: a success then has *)
(* only the failures of the last group left to be delivered.                *)
LEMMA EmitSuccess ==
  ASSUME IInv, NoneRunning, WorkEmpty, success
  PROVE  /\ \A i \in Positions : outcome[i] \in {"skipped", "ok", "failed"}
         /\ \A i \in Positions :
              outcome[i] = "failed" /\ ops[i].kind = "tool"
                => ops[i].group = ops[Len(ops)].group
<1> USE OpsFacts DEF IInv
<1>1. ASSUME NEW i \in Positions PROVE outcome[i] \in {"skipped", "ok", "failed"}
  <2>1. outcome[i] # "todo"
    BY DEF WorkInv, WorkEmpty, Positions
  <2>2. outcome[i] # "running"
    BY DEF WorkInv, NoneRunning
  <2>3. QED
    BY <2>1, <2>2 DEF TypeOK
<1>2. ASSUME NEW i \in Positions, outcome[i] = "failed", ops[i].kind = "tool"
      PROVE  ops[i].group = ops[Len(ops)].group
  <2>1. PICK r \in Runner : rstate[r] = "finished" /\ rop[r] = i
    BY <1>2 DEF FailInv, SuccessTracksFailures
  <2>2. ops[i].group = curGroup
    BY <2>1 DEF GroupInv
  <2>3. done > 0
    BY DEF WorkEmpty, Positions
  <2>4. QED
    BY <2>2, <2>3 DEF GroupInv, WorkEmpty
<1>3. QED
  BY <1>1, <1>2

(* taskFinished goes out in a state whose runners have all ended. *)
EmitStep(ok) ==
  /\ EmitFinished(ok)
  /\ NoneRunning
  /\ thread = "running"
  /\ ok => success /\ WorkEmpty
  /\ quitting' \/ cancel
  /\ quitting' \in BOOLEAN
  /\ pc' = "loop"
  /\ UNCHANGED <<ops, done, curGroup, success, cancel, available, startedEvent,
                 startedThread, rstate, rop, rok, outcome>>

LEMMA EmitInv == ASSUME IInv, NEW ok \in BOOLEAN, EmitStep(ok) PROVE IInv'
<1> USE DEF IInv, EmitStep, EmitFinished
<1>1. result = <<>> /\ result' = <<ok>>
  BY DEF PhaseInv
<1>2. TypeOK'
  <2>1. result' \in Seq(BOOLEAN)
    BY DEF TypeOK
  <2>2. QED
    BY <2>1 DEF TypeOK, Positions
<1>3. PhaseInv'
  <2>1. Len(result') <= 1
    BY <1>1
  <2>2. QED
    BY <2>1 DEF PhaseInv, NoneRunning, TypeOK
<1>4. PoolInv' /\ GroupInv'
  BY DEF PoolInv, GroupInv
<1>5. WorkInv'
  BY DEF WorkInv, Positions
<1>6. FailInv'
  <2>1. SuccessTracksFailures' /\ NoDependentAfterFailure'
    BY DEF FailInv, SuccessTracksFailures, NoDependentAfterFailure, Positions
  <2>2. SuccessHidesOnlyLastGroup'
    <3>1. CASE ok
      BY <3>1, EmitSuccess DEF SuccessHidesOnlyLastGroup, Positions
    <3>2. CASE ~ok
      <4>1. <<ok>>[1] # <<TRUE>>[1]
        BY <3>2
      <4>2. result' # <<TRUE>>
        BY <1>1, <4>1
      <4>3. QED
        BY <4>2 DEF SuccessHidesOnlyLastGroup
    <3>3. QED
      BY <3>1, <3>2
  <2>3. QED
    BY <2>1, <2>2 DEF FailInv
<1>7. QED
  BY <1>2, <1>3, <1>4, <1>5, <1>6

LEMMA EndRoundInv == ASSUME IInv, EndRound PROVE IInv'
<1> USE DEF IInv
<1>1. CASE ~LeaveRound
  <2> USE <1>1 DEF EndRound
  <2>1. TypeOK'
    BY DEF TypeOK, Positions
  <2>2. PhaseInv'
    BY DEF PhaseInv, NoneRunning, TypeOK
  <2>3. PoolInv' /\ GroupInv'
    BY DEF PoolInv, GroupInv
  <2>4. WorkInv'
    BY DEF WorkInv, Positions
  <2>5. FailInv'
    BY DEF FailInv, SuccessTracksFailures, NoDependentAfterFailure, SuccessHidesOnlyLastGroup,
           Positions
  <2>6. QED
    BY <2>1, <2>2, <2>3, <2>4, <2>5
<1>2. CASE LeaveRound /\ WorkEmpty /\ AllIdle
  <2>1. NoneRunning
    BY <1>2 DEF AllIdle, PoolInv, NoneRunning
  <2>2. EmitStep(success)
    BY <1>2, <2>1 DEF EndRound, EmitStep, PhaseInv, TypeOK
  <2>3. QED
    BY <2>2, EmitInv DEF TypeOK
<1>3. CASE LeaveRound /\ ~(WorkEmpty /\ AllIdle)
  <2> USE <1>3 DEF EndRound
  <2>1. TypeOK'
    BY DEF TypeOK, Positions
  <2>2. PhaseInv'
    BY DEF PhaseInv, NoneRunning, TypeOK
  <2>3. PoolInv' /\ GroupInv'
    BY DEF PoolInv, GroupInv
  <2>4. WorkInv'
    BY DEF WorkInv, Positions
  <2>5. FailInv'
    BY DEF FailInv, SuccessTracksFailures, NoDependentAfterFailure, SuccessHidesOnlyLastGroup,
           Positions
  <2>6. QED
    BY <2>1, <2>2, <2>3, <2>4, <2>5
<1>4. QED
  BY <1>1, <1>2, <1>3 DEF EndRound

LEMMA OnQuitInv == ASSUME IInv, OnQuit PROVE IInv'
<1> USE DEF IInv
<1>1. success => WorkEmpty
  BY DEF OnQuit, PhaseInv, StopsHere
<1>2. EmitStep(success)
  BY <1>1 DEF OnQuit, PoolEnded, EmitStep, PhaseInv, TypeOK
<1>3. QED
  BY <1>2, EmitInv DEF TypeOK

LEMMA CancelledInv == ASSUME IInv, Cancelled PROVE IInv'
<1> USE DEF IInv
<1>1. EmitStep(FALSE)
  BY DEF Cancelled, PoolEnded, EmitStep, PhaseInv, TypeOK
<1>2. QED
  BY <1>1, EmitInv

-----------------------------------------------------------------------------
(* The slots called from the event loop. *)
LEMMA OnStartedInv == ASSUME IInv, OnStarted PROVE IInv'
<1> USE DEF IInv, OnStarted, SelectEntry, Cancelling
<1>1. TypeOK'
  BY DEF TypeOK, Positions
<1>2. PhaseInv'
  BY DEF PhaseInv, NoneRunning, TypeOK, StopsHere, WorkEmpty
<1>3. PoolInv' /\ GroupInv'
  BY DEF PoolInv, GroupInv, PhaseInv, TypeOK
<1>4. WorkInv'
  BY DEF WorkInv, Positions
<1>5. FailInv'
  BY DEF FailInv, SuccessTracksFailures, NoDependentAfterFailure, SuccessHidesOnlyLastGroup,
         Positions
<1>6. QED
  BY <1>1, <1>2, <1>3, <1>4, <1>5

LEMMA OnFinishedInv ==
  ASSUME IInv, NEW r \in Runner, OnFinished(r) PROVE IInv'
<1> USE DEF IInv, OnFinished, SelectEntry, Cancelling, Accumulated
<1>1. TypeOK'
  BY DEF TypeOK, Positions
<1>2. PhaseInv'
  BY DEF PhaseInv, NoneRunning, TypeOK, StopsHere, WorkEmpty
<1>3. PoolInv' /\ GroupInv'
  BY DEF PoolInv, GroupInv, PhaseInv, TypeOK
<1>4. WorkInv'
  BY DEF WorkInv, Positions, TypeOK
<1>5. FailInv'
  <2>1. SuccessTracksFailures'
    <3>0. /\ rop[r] \in Positions
          /\ outcome[rop[r]] \in {"ok", "failed"}
          /\ rok[r] <=> outcome[rop[r]] = "ok" \/ ops[rop[r]].kind = "lua"
      BY DEF WorkInv, TypeOK, Positions
    <3>1. CASE rok[r]
      <4>1. ~(outcome[rop[r]] = "failed" /\ ops[rop[r]].kind = "tool")
        BY <3>0, <3>1
      <4>2. success' <=> success
        BY <3>1
      <4>3. \A i \in Positions : outcome[i] = "failed" /\ ops[i].kind = "tool" =>
              ((\E q \in Runner : rstate'[q] = "finished" /\ rop'[q] = i)
               <=> (\E q \in Runner : rstate[q] = "finished" /\ rop[q] = i))
        BY <4>1 DEF TypeOK
      <4>4. QED
        BY <4>2, <4>3 DEF FailInv, SuccessTracksFailures, Positions
    <3>2. CASE ~rok[r]
      <4>1. outcome[rop[r]] = "failed" /\ ops[rop[r]].kind = "tool"
        BY <3>0, <3>2, OpsFacts DEF WorkInv, Kind
      <4>2. ~\E q \in Runner : rstate'[q] = "finished" /\ rop'[q] = rop[r]
        BY DEF WorkInv, TypeOK
      <4>3. ~success'
        BY <3>2
      <4>4. QED
        BY <3>0, <4>1, <4>2, <4>3 DEF SuccessTracksFailures, Positions
    <3>3. QED
      BY <3>1, <3>2
  <2>2. NoDependentAfterFailure' /\ SuccessHidesOnlyLastGroup'
    BY DEF FailInv, NoDependentAfterFailure, SuccessHidesOnlyLastGroup, Positions
  <2>3. QED
    BY <2>1, <2>2 DEF FailInv
<1>6. QED
  BY <1>1, <1>2, <1>3, <1>4, <1>5

LEMMA OnCancelInv == ASSUME IInv, OnCancel PROVE IInv'
<1> USE DEF IInv, OnCancel
<1>1. TypeOK'
  BY DEF TypeOK, Positions
<1>2. PhaseInv'
  BY DEF PhaseInv, NoneRunning, TypeOK, StopsHere, WorkEmpty
<1>3. PoolInv' /\ GroupInv'
  BY DEF PoolInv, GroupInv
<1>4. WorkInv'
  BY DEF WorkInv, Positions
<1>5. FailInv'
  BY DEF FailInv, SuccessTracksFailures, NoDependentAfterFailure, SuccessHidesOnlyLastGroup,
         Positions
<1>6. QED
  BY <1>1, <1>2, <1>3, <1>4, <1>5

LEMMA DestroyInv == ASSUME IInv, Destroy PROVE IInv'
<1> USE DEF IInv, Destroy
<1>1. TypeOK'
  BY DEF TypeOK, Positions
<1>2. PhaseInv'
  BY DEF PhaseInv, NoneRunning, TypeOK, StopsHere, WorkEmpty
<1>3. PoolInv' /\ GroupInv'
  BY DEF PoolInv, GroupInv
<1>4. WorkInv'
  BY DEF WorkInv, Positions
<1>5. FailInv'
  BY DEF FailInv, SuccessTracksFailures, NoDependentAfterFailure, SuccessHidesOnlyLastGroup,
         Positions
<1>6. QED
  BY <1>1, <1>2, <1>3, <1>4, <1>5

LEMMA RunnerDoneInv ==
  ASSUME IInv, NEW r \in Runner, NEW ok \in BOOLEAN, RunnerDone(r, ok) PROVE IInv'
<1> USE OpsFacts DEF IInv, RunnerDone
<1>0. rop[r] \in 1..done /\ rop[r] \in Positions /\ done \in Nat /\ outcome[rop[r]] = "running"
  BY DEF WorkInv, TypeOK, Positions
<1>1. TypeOK'
  BY <1>0 DEF TypeOK, Positions
<1>2. PhaseInv'
  BY DEF PhaseInv, NoneRunning, TypeOK, StopsHere, WorkEmpty
<1>3. PoolInv' /\ GroupInv'
  BY DEF PoolInv, GroupInv, TypeOK
<1>4. WorkInv'
  BY <1>0 DEF WorkInv, Positions, TypeOK
<1>5. FailInv'
  <2>1. SuccessTracksFailures'
    <3>1. rstate'[r] = "finished" /\ rop'[r] = rop[r]
      BY DEF TypeOK
    <3>2. \A i \in Positions : i # rop[r] => outcome'[i] = outcome[i]
      BY DEF TypeOK
    <3>3. \A i \in Positions : i # rop[r] =>
            ((\E q \in Runner : rstate'[q] = "finished" /\ rop'[q] = i)
             <=> (\E q \in Runner : rstate[q] = "finished" /\ rop[q] = i))
      BY DEF TypeOK
    <3>4. success' = success /\ ops' = ops /\ Positions' = Positions
      BY DEF Positions
    <3>5. QED
      BY <1>0, <3>1, <3>2, <3>3, <3>4 DEF FailInv, SuccessTracksFailures
  <2>2. NoDependentAfterFailure'
    <3> SUFFICES ASSUME StopOnError, NEW i \in Positions, NEW j \in Positions,
                        outcome'[i] = "failed", ops[i].kind = "tool",
                        ops[i].group < ops[j].group
                 PROVE  outcome'[j] = "todo"
      BY DEF NoDependentAfterFailure, Positions
    <3>1. CASE i = rop[r]
      <4>1. ops[i].group = curGroup /\ done > 0 /\ ops[done].group = curGroup
        BY <1>0, <3>1 DEF GroupInv
      <4>2. ~(j <= done)
        BY <1>0, <4>1 DEF TypeOK, Positions
      <4>3. outcome[j] = "todo" /\ j # rop[r]
        BY <1>0, <4>2 DEF WorkInv, Positions
      <4>4. QED
        BY <4>3 DEF TypeOK
    <3>2. CASE i # rop[r]
      <4>1. outcome[i] = "failed"
        BY <3>2 DEF TypeOK
      <4>2. outcome[j] = "todo"
        BY <4>1 DEF FailInv, NoDependentAfterFailure
      <4>3. QED
        BY <1>0, <4>2 DEF TypeOK
    <3>3. QED
      BY <3>1, <3>2
  <2>3. SuccessHidesOnlyLastGroup'
    BY DEF SuccessHidesOnlyLastGroup, PhaseInv, NoneRunning, TypeOK
  <2>4. QED
    BY <2>1, <2>2, <2>3 DEF FailInv
<1>6. QED
  BY <1>1, <1>2, <1>3, <1>4, <1>5

-----------------------------------------------------------------------------
(* Every step keeps the invariant.                                          *)
LEMMA NextInv == ASSUME IInv, [Next]_vars PROVE IInv'
<1>1. ASSUME NEW job \in Jobs, Start(job) PROVE IInv'
  BY <1>1, StartInv
<1>2. CASE SwitchGroup \/ FillGroup
  <2>1. StartStep /\ StartOne
    BY <1>2, StartStepIntro DEF IInv
  <2>2. QED
    BY <2>1, PassInv, LaunchInv DEF StartOne
<1>3. CASE EndSwitch \/ EndRound
  BY <1>3, EndSwitchInv, EndRoundInv
<1>4. CASE OnQuit \/ Cancelled
  BY <1>4, OnQuitInv, CancelledInv
<1>5. CASE OnStarted \/ OnCancel \/ Destroy
  BY <1>5, OnStartedInv, OnCancelInv, DestroyInv
<1>6. ASSUME NEW r \in Runner, OnFinished(r) PROVE IInv'
  BY <1>6, OnFinishedInv
<1>7. ASSUME NEW r \in Runner, NEW ok \in BOOLEAN, RunnerDone(r, ok) PROVE IInv'
  BY <1>7, RunnerDoneInv
<1>8. CASE UNCHANGED vars
  <2> USE <1>8 DEF vars, IInv
  <2>1. TypeOK'
    BY DEF TypeOK, Positions
  <2>2. PhaseInv'
    BY DEF PhaseInv, NoneRunning, StopsHere, WorkEmpty
  <2>3. PoolInv' /\ GroupInv'
    BY DEF PoolInv, GroupInv
  <2>4. WorkInv'
    BY DEF WorkInv, Positions
  <2>5. FailInv'
    BY DEF FailInv, SuccessTracksFailures, NoDependentAfterFailure, SuccessHidesOnlyLastGroup,
           Positions
  <2>6. QED
    BY <2>1, <2>2, <2>3, <2>4, <2>5
<1>9. QED
  BY <1>1, <1>2, <1>3, <1>4, <1>5, <1>6, <1>7, <1>8 DEF Next, Main

(* The inductive invariant holds throughout: the main thread's position,    *)
(* the pool, the operations' outcomes and the reported result fit together. *)
THEOREM Invariance == Spec => []IInv
<1>1. IInv /\ [Next]_vars => IInv'
  BY NextInv
<1>2. QED
  BY <1>1, InitInv, PTL DEF Spec

(* Every variable keeps its type. *)
THEOREM TypeCorrect == Spec => []TypeOK
<1>1. IInv => TypeOK
  BY DEF IInv
<1>2. QED
  BY <1>1, Invariance, PTL

(* The runners in use are of the current group, and nothing of a later group *)
(* has been taken.                                                           *)
LEMMA InvariantGivesBarrier == IInv => GroupBarrier
<1> SUFFICES ASSUME IInv, NEW i \in Positions, NEW j \in Positions,
                    outcome[i] = "running", ops[i].group < ops[j].group
             PROVE  outcome[j] = "todo"
  BY DEF GroupBarrier
<1> USE OpsFacts DEF IInv
<1>1. PICK r \in Runner : rstate[r] = "running" /\ rop[r] = i
  BY DEF WorkInv
<1>2. ops[i].group = curGroup /\ done > 0 /\ ops[done].group = curGroup
  BY <1>1 DEF GroupInv, WorkInv, TypeOK
<1>3. ASSUME ~(j > done) PROVE FALSE
  <2>1. done \in Positions /\ (j < done \/ j = done)
    BY <1>2, <1>3 DEF TypeOK, Positions
  <2>2. ops[j].group <= ops[done].group
    BY <2>1
  <2>3. QED
    BY <1>2, <2>1, <2>2
<1>4. QED
  BY <1>3 DEF WorkInv

(* No operation runs while one of an earlier group does. *)
THEOREM BarrierHolds == Spec => []GroupBarrier
<1> QED
  BY InvariantGivesBarrier, Invariance, PTL

(* The failure flag, the stop at a failed group, and what a reported success *)
(* can hide.                                                                *)
THEOREM FailuresAreTracked == Spec => []SuccessTracksFailures
<1>1. IInv => SuccessTracksFailures
  BY DEF IInv, FailInv
<1>2. QED
  BY <1>1, Invariance, PTL

(* With stop-on-error no operation of a later group is started once a tool  *)
(* has failed, whether or not its result has been delivered.                *)
THEOREM FailureStopsLaterGroups == Spec => []NoDependentAfterFailure
<1>1. IInv => NoDependentAfterFailure
  BY DEF IInv, FailInv
<1>2. QED
  BY <1>1, Invariance, PTL

(* A build that reports success has gone through the whole list and hides   *)
(* at most failures of the last group.                                      *)
THEOREM SuccessIsNearlySound == Spec => []SuccessHidesOnlyLastGroup
<1>1. IInv => SuccessHidesOnlyLastGroup
  BY DEF IInv, FailInv
<1>2. QED
  BY <1>1, Invariance, PTL

(* No two runners share an operation, and a runner in use is not available. *)
THEOREM RunnersStayDisjoint == Spec => []RunnersDisjoint
<1>1. IInv => RunnersDisjoint
  BY DEF IInv, RunnersDisjoint, PoolInv, WorkInv, TypeOK
<1>2. QED
  BY <1>1, Invariance, PTL

(* After taskFinished no runner thread is running, so deleting is safe, and *)
(* taskFinished is not emitted again.                                       *)
THEOREM FinishedIsQuiet == Spec => [](QuiescentAfterResult /\ OneResult)
<1>1. IInv => QuiescentAfterResult /\ OneResult
  BY DEF IInv, PhaseInv, QuiescentAfterResult, OneResult
<1>2. QED
  BY <1>1, Invariance, PTL

(* With at least one runner no wakeup is lost. *)
THEOREM NoWakeupIsLost == Runner # {} => (Spec => []NoStall)
<1> SUFFICES ASSUME Runner # {} PROVE Spec => []NoStall
  OBVIOUS
<1>1. Init => NoStall
  BY DEF Init, NoStall
<1>2. IInv /\ IInv' /\ NoStall /\ [Next]_vars => NoStall'
  <2> SUFFICES ASSUME IInv, IInv', NoStall, [Next]_vars PROVE NoStall'
    OBVIOUS
  <2>1. CASE SwitchGroup \/ FillGroup \/ EndSwitch \/ OnCancel \/ Destroy \/ Cancelled \/ OnQuit
    BY <2>1 DEF SwitchGroup, FillGroup, EndSwitch, OnCancel, Destroy, Cancelled, OnQuit,
       EmitFinished, NoStall
  <2>2. CASE EndRound
    BY <2>2 DEF EndRound, EmitFinished, NoStall, LeaveRound, AllIdle, IInv, PoolInv, PhaseInv, TypeOK
  <2>3. CASE OnStarted
    BY <2>3 DEF OnStarted, SelectEntry, NoStall, Cancelling, IInv, PoolInv, PhaseInv, TypeOK
  <2>4. ASSUME NEW r \in Runner, OnFinished(r) PROVE NoStall'
    BY <2>4 DEF OnFinished, SelectEntry, NoStall, Cancelling, IInv, PoolInv, PhaseInv, TypeOK
  <2>5. ASSUME NEW r \in Runner, NEW ok \in BOOLEAN, RunnerDone(r, ok) PROVE NoStall'
    BY <2>5 DEF RunnerDone, NoStall, IInv, TypeOK
  <2>6. ASSUME NEW job \in Jobs, Start(job) PROVE NoStall'
    BY <2>6 DEF Start, NoStall
  <2>7. CASE UNCHANGED vars
    BY <2>7 DEF vars, NoStall
  <2>8. QED
    BY <2>1, <2>2, <2>3, <2>4, <2>5, <2>6, <2>7 DEF Next, Main
<1>3. QED
  BY <1>1, <1>2, Invariance, PTL DEF Spec

(* After a cancel nothing is started any more. *)
THEOREM CancelStartsNothing == Spec => NoStartAfterCancel
<1>1. IInv /\ [Next]_vars =>
        [cancel => \A r \in Runner : rstate'[r] = "running" => rstate[r] = "running"]_vars
  <2> SUFFICES ASSUME IInv, Next, cancel, NEW q \in Runner, rstate'[q] = "running"
               PROVE  rstate[q] = "running"
    BY DEF vars
  <2> USE DEF IInv
  <2>1. ASSUME NEW job \in Jobs, Start(job) PROVE FALSE
    BY <2>1 DEF Start
  <2>2. ASSUME SwitchGroup \/ FillGroup PROVE FALSE
    BY <2>2 DEF SwitchGroup, FillGroup, PhaseInv
  <2>3. CASE EndSwitch \/ EndRound \/ OnQuit \/ OnStarted \/ OnCancel \/ Cancelled \/ Destroy
    BY <2>3 DEF EndSwitch, EndRound, OnQuit, OnStarted, OnCancel, Cancelled, Destroy
  <2>4. ASSUME NEW r \in Runner, OnFinished(r) PROVE rstate[q] = "running"
    BY <2>4 DEF OnFinished, TypeOK
  <2>5. ASSUME NEW r \in Runner, NEW ok \in BOOLEAN, RunnerDone(r, ok)
        PROVE  rstate[q] = "running"
    BY <2>5 DEF RunnerDone, TypeOK
  <2>6. QED
    BY <2>1, <2>2, <2>3, <2>4, <2>5 DEF Next, Main
<1>2. QED
  BY <1>1, Invariance, PTL DEF Spec, NoStartAfterCancel

-----------------------------------------------------------------------------
(* The scheduler keeps the promise of a build job: every step of it is one   *)
(* of the contract's, or leaves the contract's variables alone.              *)
LEMMA TakeImplemented ==
  ASSUME IInv, StartStep, StartOne
  PROVE  Contract!Next
<1> USE StartFacts, OpsFacts DEF IInv
<1> DEFINE o == outcome'[done + 1]
<1>1. outcome[done + 1] = "todo" /\ done + 1 \in 1..Len(ops)
  BY DEF Positions
<1>2. \A j \in 1..Len(ops) : j < done + 1 => outcome[j] # "todo"
  BY DEF WorkInv, Positions
<1>3. \A j \in 1..Len(ops) : outcome[j] = "running" => ops[j].group = ops[done + 1].group
  <2> SUFFICES ASSUME NEW j \in 1..Len(ops), outcome[j] = "running"
               PROVE  ops[j].group = ops[done + 1].group
    OBVIOUS
  <2>1. PICK r \in Runner : rstate[r] = "running" /\ rop[r] = j
    BY DEF WorkInv, Positions
  <2>2. QED
    BY <2>1 DEF GroupInv, First
<1>4. \E k \in {"skipped", "running"} : outcome' = [outcome EXCEPT ![done + 1] = k]
  BY DEF StartOne, Pass, Launch
<1>5. Contract!Take(done + 1)
  BY <1>1, <1>2, <1>3, <1>4 DEF Contract!Take, StartStep
<1>6. QED
  BY <1>1, <1>5 DEF Contract!Next

(* The only step the contract sees is the one that reports the result.      *)
LEMMA EmitImplemented ==
  ASSUME IInv, NEW ok \in BOOLEAN, EmitStep(ok)
  PROVE  Contract!Next
<1> USE DEF IInv, EmitStep, EmitFinished
<1>1. result' = <<ok>>
  BY DEF PhaseInv
<1>2. \A i \in 1..Len(ops) : outcome[i] # "running"
  BY DEF WorkInv, NoneRunning, Positions
<1>3. ok => \A i \in 1..Len(ops) : outcome[i] # "todo"
  BY DEF WorkInv, WorkEmpty, Positions, TypeOK
<1>4. Contract!Report(ok)
  BY <1>1, <1>2, <1>3 DEF Contract!Report
<1>5. QED
  BY <1>4 DEF Contract!Next

(* Every behaviour of the scheduler is one of the abstract build job.       *)
THEOREM BuilderImplementsContract == Spec => ImplementsContract
<1>1. Init => Contract!Init
  BY DEF Init, Contract!Init
<1>2. IInv /\ [Next]_vars => [Contract!Next]_(Contract!vars)
  <2> SUFFICES ASSUME IInv, [Next]_vars PROVE Contract!Next \/ UNCHANGED Contract!vars
    OBVIOUS
  <2> USE DEF Contract!vars
  <2>1. ASSUME NEW job \in Jobs, Start(job) PROVE Contract!Next
    BY <2>1 DEF Start, Contract!Begin, Contract!Next
  <2>2. CASE SwitchGroup \/ FillGroup
    BY <2>2, StartStepIntro, TakeImplemented DEF IInv
  <2>3. CASE EndRound /\ WorkEmpty /\ AllIdle
    <3>1. LeaveRound /\ NoneRunning
      BY <2>3 DEF LeaveRound, AllIdle, IInv, PoolInv, NoneRunning
    <3>2. EmitStep(success)
      BY <2>3, <3>1 DEF EndRound, EmitStep, IInv, PhaseInv, TypeOK
    <3>3. QED
      BY <3>2, EmitImplemented DEF IInv, TypeOK
  <2>4. CASE EndRound /\ ~(WorkEmpty /\ AllIdle)
    BY <2>4 DEF EndRound
  <2>5. CASE OnQuit
    <3>1. success => WorkEmpty
      BY <2>5 DEF OnQuit, IInv, PhaseInv, StopsHere
    <3>2. EmitStep(success)
      BY <2>5, <3>1 DEF OnQuit, PoolEnded, EmitStep, IInv, PhaseInv, TypeOK
    <3>3. QED
      BY <3>2, EmitImplemented DEF IInv, TypeOK
  <2>6. CASE Cancelled
    <3>1. EmitStep(FALSE)
      BY <2>6 DEF Cancelled, PoolEnded, EmitStep, IInv, PhaseInv, TypeOK
    <3>2. QED
      BY <3>1, EmitImplemented
  <2>7. CASE Destroy
    BY <2>7 DEF Destroy, Contract!Discard, Contract!Next
  <2>8. CASE EndSwitch \/ OnStarted \/ OnCancel
    BY <2>8 DEF EndSwitch, OnStarted, OnCancel
  <2>9. ASSUME NEW r \in Runner, OnFinished(r) PROVE UNCHANGED Contract!vars
    BY <2>9 DEF OnFinished
  <2>10. ASSUME NEW r \in Runner, NEW ok \in BOOLEAN, RunnerDone(r, ok) PROVE Contract!Next
    <3>1. rop[r] \in 1..Len(ops) /\ outcome[rop[r]] = "running" /\ thread = "running"
      BY <2>10 DEF RunnerDone, IInv, WorkInv, PhaseInv, NoneRunning, TypeOK
    <3>2. Contract!End(rop[r])
      BY <2>10, <3>1 DEF RunnerDone, Contract!End
    <3>3. QED
      BY <3>1, <3>2 DEF Contract!Next
  <2>11. CASE UNCHANGED vars
    BY <2>11 DEF vars
  <2>12. QED
    BY <2>1, <2>2, <2>3, <2>4, <2>5, <2>6, <2>7, <2>8, <2>9, <2>10, <2>11 DEF Next, Main
<1>3. QED
  BY <1>1, <1>2, Invariance, PTL DEF Spec, ImplementsContract, Contract!Spec
=============================================================================
