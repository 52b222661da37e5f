------------------------------- MODULE Builder -------------------------------
(***************************************************************************)
(* The parallel scheduler of the BUSY build (busytools/busyBuilder.cpp).   *)
(*                                                                         *)
(* A Builder owns a pool of Runner threads and a list of operations, each  *)
(* with a group number.  Operations of one group may run in parallel, a    *)
(* group starts only when every runner of the group before has been        *)
(* collected.  All slots of the Builder run in the main thread, whose      *)
(* position inside select() is pc: while pc # "loop" no event is           *)
(* delivered, but the runner threads go on.                                *)
(*                                                                         *)
(* The list d_work is the part of ops after position done (d_done counts   *)
(* the takeFirst calls).  Which operations are due is left open here; the  *)
(* module IncrementalBuild decides it from the files.                      *)
(***************************************************************************)
EXTENDS Integers, Sequences

CONSTANTS
  Runner,       (* the threads of d_pool                                   *)
  Jobs,         (* the operation lists a build may be started with         *)
  StopOnError   (* d_stopOnError, the step's option                        *)

Kind == {"entering", "lua", "tool"}       (* tool: compile, link, moc, copy *)
Operation == [group : Nat, kind : Kind]

ASSUME JobsAssumption ==
  /\ Jobs \subseteq Seq(Operation)
  /\ \A job \in Jobs : \A i, j \in 1..Len(job) :
       i < j => job[i].group <= job[j].group

ASSUME StopAssumption == StopOnError \in BOOLEAN

VARIABLES
  thread,      (* "none": no Builder, "running": m_job set, "quit": after taskFinished *)
  ops,         (* the list handed to start                                 *)
  done,        (* d_done: operations taken from d_work                     *)
  curGroup,    (* d_curGroup                                               *)
  success,     (* d_success of the Builder                                 *)
  cancel,      (* d_cancel                                                 *)
  quitting,    (* d_quitting                                               *)
  available,   (* d_available                                              *)
  startedEvent,  (* the queued started() of the Builder's own thread       *)
  pc,          (* where the main thread is                                 *)
  startedThread, (* the local of select()                                  *)
  rstate,      (* of each runner: idle, running, or finished() is queued   *)
  rop,         (* position of the operation the runner was prepared with   *)
  rok,         (* d_success of the runner                                  *)
  outcome,     (* history: what really became of each operation            *)
  result       (* history: the arguments of the emitted taskFinished       *)

flags   == <<success, cancel, quitting>>
runners == <<rstate, rop, rok>>
vars == <<thread, ops, done, curGroup, success, cancel, quitting, available,
          startedEvent, pc, startedThread, rstate, rop, rok, outcome, result>>

Positions == 1..Len(ops)
WorkEmpty == done = Len(ops)
First     == ops[done + 1]
AllIdle   == available = Runner     (* d_available.size() == d_pool.size() *)
NoneRunning == \A r \in Runner : rstate[r] # "running"

(* Small parts of the slots, each with a faulty variant next to it that the *)
(* properties below are able to tell from the real one.                     *)
PoolEnded == NoneRunning                    (* every d_pool[i]->wait() returned *)

Cancelling == cancel                        (* onStarted, onFinished: if( d_cancel ) return *)

Accumulated(r) == success /\ rok[r]        (* onFinished: if( !r->d_success ) ... *)

StopsWhenDone(ok) == WorkEmpty
StopsHere(ok) == WorkEmpty \/ (StopOnError /\ ~ok)

Taken(r) == available \ {r}                (* d_available.takeFirst() *)

TakesTwo == done + 2
TakesOne == done + 1                        (* d_work.takeFirst(), ++d_done *)

Init ==
  /\ thread = "none"
  /\ ops = <<>>
  /\ done = 0
  /\ curGroup = 0
  /\ success = TRUE
  /\ cancel = FALSE
  /\ quitting = FALSE
  /\ available = {}
  /\ startedEvent = FALSE
  /\ pc = "loop"
  /\ startedThread = FALSE
  /\ rstate = [r \in Runner |-> "idle"]
  /\ rop = [r \in Runner |-> 0]
  /\ rok = [r \in Runner |-> TRUE]
  /\ outcome = [i \in 1..Len(ops) |-> "todo"]
  /\ result = <<>>

-----------------------------------------------------------------------------
(* A new BuildJob creates its Builder and starts it.                       *)
Start(job) ==
  /\ thread = "none"
  /\ thread' = "running"
  /\ ops' = job
  /\ done' = 0
  /\ curGroup' = 0
  /\ success' = TRUE
  /\ cancel' = FALSE
  /\ quitting' = FALSE
  /\ available' = Runner
  /\ startedEvent' = TRUE
  /\ rstate' = [r \in Runner |-> "idle"]
  /\ rop' = [r \in Runner |-> 0]
  /\ rok' = [r \in Runner |-> TRUE]
  /\ outcome' = [i \in 1..Len(job) |-> "todo"]
  /\ result' = <<>>
  /\ UNCHANGED <<pc, startedThread>>

(* taskFinished and quit(): the step drops its job in the same call.       *)
EmitFinished(ok) ==
  /\ result' = Append(result, ok)
  /\ thread' = "quit"

(* The entry of select(), called with the flags as onStarted or onFinished *)
(* has just left them.                                                     *)
SelectEntry(ok, idle) ==
  \/ /\ quitting
     /\ pc' = "loop"
     /\ UNCHANGED <<quitting, startedThread>>
  \/ /\ ~quitting
     /\ StopsHere(ok)
     /\ quitting' = TRUE
     /\ pc' = "waitQuit"
     /\ UNCHANGED startedThread
  \/ /\ ~quitting
     /\ ~StopsHere(ok)
     /\ pc' = IF idle = {} THEN "loop" ELSE "switch"
     /\ startedThread' = FALSE
     /\ UNCHANGED quitting

(* startOne(): the first operation is taken; it may need no run at all.    *)
Pass ==
  /\ First.kind # "lua"
  /\ done' = TakesOne
  /\ startedThread' = FALSE
  /\ outcome' = [outcome EXCEPT ![done + 1] = "skipped"]
  /\ UNCHANGED <<available, rstate, rop, rok>>

Launch(r) ==
  /\ First.kind # "entering"
  /\ r \in available
  /\ done' = TakesOne
  /\ startedThread' = TRUE
  /\ available' = Taken(r)
  /\ rstate' = [rstate EXCEPT ![r] = "running"]
  /\ rop' = [rop EXCEPT ![r] = done + 1]
  /\ rok' = [rok EXCEPT ![r] = TRUE]
  /\ outcome' = [outcome EXCEPT ![done + 1] = "running"]

StartOne == Pass \/ \E r \in Runner : Launch(r)

(* The two inner loops of select() and the end of a round of the outer one. *)
SwitchEarly == ~WorkEmpty /\ First.group # curGroup /\ available # {}
MaySwitch == ~WorkEmpty /\ First.group # curGroup /\ AllIdle
MayFill   == ~WorkEmpty /\ First.group = curGroup /\ available # {}

SwitchGroup ==
  /\ pc = "switch" /\ MaySwitch
  /\ curGroup' = First.group
  /\ StartOne
  /\ UNCHANGED <<thread, ops, success, cancel, quitting, startedEvent, pc, result>>

EndSwitch ==
  /\ pc = "switch" /\ ~MaySwitch
  /\ pc' = "fill"
  /\ UNCHANGED <<thread, ops, done, curGroup, success, cancel, quitting, available,
                 startedEvent, startedThread, rstate, rop, rok, outcome, result>>

FillGroup ==
  /\ pc = "fill" /\ MayFill
  /\ StartOne
  /\ UNCHANGED <<thread, ops, curGroup, success, cancel, quitting, startedEvent, pc, result>>

LeavesAtGroupEnd == startedThread \/ WorkEmpty \/ (~WorkEmpty /\ First.group # curGroup)
LeaveRound ==
  \/ startedThread
  \/ WorkEmpty
  \/ ~WorkEmpty /\ First.group # curGroup /\ ~AllIdle

EndRound ==
  /\ pc = "fill" /\ ~MayFill
  /\ \/ /\ ~LeaveRound
        /\ pc' = "switch"
        /\ startedThread' = FALSE
        /\ UNCHANGED <<thread, quitting, result>>
     \/ /\ LeaveRound
        /\ pc' = "loop"
        /\ IF WorkEmpty /\ AllIdle
           THEN quitting' = TRUE /\ EmitFinished(success)
           ELSE UNCHANGED <<thread, quitting, result>>
        /\ UNCHANGED startedThread
  /\ UNCHANGED <<ops, done, curGroup, success, cancel, available, startedEvent,
                 rstate, rop, rok, outcome>>

(* select() has waited for the pool; onQuit is called directly because the *)
(* Builder lives in the calling thread.                                    *)
OnQuit ==
  /\ pc = "waitQuit" /\ PoolEnded
  /\ pc' = "loop"
  /\ EmitFinished(success)
  /\ UNCHANGED <<ops, done, curGroup, success, cancel, quitting, available, startedEvent,
                 startedThread, rstate, rop, rok, outcome>>

-----------------------------------------------------------------------------
(* Slots called from the event loop.                                       *)
OnStarted ==
  /\ pc = "loop" /\ startedEvent
  /\ startedEvent' = FALSE
  /\ IF Cancelling THEN UNCHANGED <<quitting, pc, startedThread>>
                   ELSE SelectEntry(success, available)
  /\ UNCHANGED <<thread, ops, done, curGroup, success, cancel, available,
                 rstate, rop, rok, outcome, result>>

OnFinished(r) ==
  /\ pc = "loop" /\ rstate[r] = "finished"
  /\ rstate' = [rstate EXCEPT ![r] = "idle"]
  /\ success' = Accumulated(r)
  /\ IF Cancelling
     THEN UNCHANGED <<available, quitting, pc, startedThread>>
     ELSE /\ available' = available \cup {r}
          /\ SelectEntry(success', available')
  /\ UNCHANGED <<thread, ops, done, curGroup, cancel, startedEvent, rop, rok, outcome, result>>

(* The step forwards a cancel only while it has a job; the slot then waits *)
(* for every runner.                                                       *)
OnCancel ==
  /\ pc = "loop" /\ thread = "running"
  /\ cancel' = TRUE
  /\ pc' = "waitCancel"
  /\ UNCHANGED <<thread, ops, done, curGroup, success, quitting, available, startedEvent,
                 startedThread, rstate, rop, rok, outcome, result>>

Cancelled ==
  /\ pc = "waitCancel" /\ PoolEnded
  /\ pc' = "loop"
  /\ EmitFinished(FALSE)
  /\ UNCHANGED <<ops, done, curGroup, success, cancel, quitting, available, startedEvent,
                 startedThread, rstate, rop, rok, outcome>>

(* The deferred deletes of the job and its Builder come after the events    *)
(* that were queued before them.                                            *)
Destroy ==
  /\ pc = "loop" /\ thread = "quit"
  /\ ~startedEvent /\ \A r \in Runner : rstate[r] = "idle"
  /\ thread' = "none"
  /\ UNCHANGED <<ops, done, curGroup, success, cancel, quitting, available, startedEvent, pc,
                 startedThread, rstate, rop, rok, outcome, result>>

-----------------------------------------------------------------------------
(* Runner::run ends: ok is what the program really did.  The result of a   *)
(* Lua script is compared with d_success, not assigned to it.              *)
RunnerDone(r, ok) ==
  /\ rstate[r] = "running"
  /\ rstate' = [rstate EXCEPT ![r] = "finished"]
  /\ rok' = [rok EXCEPT ![r] = IF ops[rop[r]].kind = "lua" THEN @ ELSE ok]
  /\ outcome' = [outcome EXCEPT ![rop[r]] = IF ok THEN "ok" ELSE "failed"]
  /\ UNCHANGED <<thread, ops, done, curGroup, success, cancel, quitting, available,
                 startedEvent, pc, startedThread, rop, result>>

Main ==
  \/ SwitchGroup \/ EndSwitch \/ FillGroup \/ EndRound
  \/ OnQuit \/ OnStarted \/ Cancelled \/ Destroy
  \/ \E r \in Runner : OnFinished(r)

Next ==
  \/ Main
  \/ \E job \in Jobs : Start(job)
  \/ OnCancel
  \/ \E r \in Runner : \E ok \in BOOLEAN : RunnerDone(r, ok)

Spec == Init /\ [][Next]_vars

(* The event loop runs, and every program a runner started ends: a process  *)
(* within its 240 s, a Lua script because build scripts terminate.          *)
Fairness ==
  /\ WF_vars(Main)
  /\ \A r \in Runner : WF_vars(\E ok \in BOOLEAN : RunnerDone(r, ok))

FairSpec == Spec /\ Fairness

-----------------------------------------------------------------------------
(* What each variable holds. *)
TypeOK ==
  /\ thread \in {"none", "running", "quit"}
  /\ ops \in Jobs \cup {<<>>}
  /\ done \in 0..Len(ops)
  /\ curGroup \in Nat
  /\ success \in BOOLEAN /\ cancel \in BOOLEAN /\ quitting \in BOOLEAN
  /\ available \subseteq Runner
  /\ startedEvent \in BOOLEAN
  /\ pc \in {"loop", "switch", "fill", "waitQuit", "waitCancel"}
  /\ startedThread \in BOOLEAN
  /\ rstate \in [Runner -> {"idle", "running", "finished"}]
  /\ rop \in [Runner -> 0..Len(ops)]
  /\ rok \in [Runner -> BOOLEAN]
  /\ outcome \in [Positions -> {"todo", "skipped", "running", "ok", "failed"}]
  /\ result \in Seq(BOOLEAN)

(* While an operation runs, nothing of a later group has been touched: the  *)
(* commands of a group may rely on everything the groups before produced.   *)
GroupBarrier ==
  \A i, j \in Positions :
    outcome[i] = "running" /\ ops[i].group < ops[j].group => outcome[j] = "todo"

(* With stop-on-error, nothing of a later group is ever started once a      *)
(* compiler, linker or copy has really failed, whatever the main thread      *)
(* knew of it at that time.                                                 *)
NoDependentAfterFailure ==
  StopOnError =>
    \A i, j \in Positions :
      outcome[i] = "failed" /\ ops[i].kind = "tool" /\ ops[i].group < ops[j].group
        => outcome[j] = "todo"

(* d_success is false exactly when some tool has failed and the finished()   *)
(* of its runner has been delivered.                                        *)
SuccessTracksFailures ==
  success <=> \A i \in Positions :
                outcome[i] = "failed" /\ ops[i].kind = "tool"
                  => \E r \in Runner : rstate[r] = "finished" /\ rop[r] = i

(* Two runners never work on the same operation, and the operation of a     *)
(* runner in use is the one recorded as running or just ended.              *)
RunnersDisjoint ==
  \A r \in Runner : rstate[r] # "idle" =>
    /\ r \notin available
    /\ rop[r] \in 1..done
    /\ outcome[rop[r]] \in
          IF rstate[r] = "running" THEN {"running"} ELSE {"ok", "failed"}
    /\ \A q \in Runner : rstate[q] # "idle" /\ rop[q] = rop[r] => q = r

(* Once taskFinished is out no runner thread is running: the Builder and    *)
(* its runners are deleted right after it.                                  *)
QuiescentAfterResult == thread # "running" => NoneRunning

(* A build reports its end at most once. *)
OneResult == Len(result) <= 1

(* A build that reports success has gone through its whole list, and the    *)
(* only failures it can hide are those of the last group (onQuit runs       *)
(* before the queued onFinished of the runners it waited for) and of Lua    *)
(* scripts, whose result is not stored.                                     *)
SuccessHidesOnlyLastGroup ==
  result = <<TRUE>> =>
    /\ \A i \in Positions : outcome[i] \in {"skipped", "ok", "failed"}
    /\ \A i \in Positions :
         outcome[i] = "failed" /\ ops[i].kind = "tool"
           => ops[i].group = ops[Len(ops)].group

(* No lost wakeup: whenever the main thread is back in its event loop with  *)
(* the build unfinished, some runner will still call it back.               *)
NoStall ==
  pc = "loop" /\ thread = "running" /\ ~startedEvent
    => \E r \in Runner : rstate[r] # "idle"

(* After a cancel no runner is started any more. *)
NoStartAfterCancel ==
  [][cancel => \A r \in Runner : rstate'[r] = "running" => rstate[r] = "running"]_vars

(* Every build that is started reports its end. *)
EveryBuildEnds == (thread = "running") ~> (thread = "quit")

(* The scheduler is an implementation of what a build job promises. *)
Contract == INSTANCE BuildContract WITH state <- thread
ImplementsContract == Contract!Spec
=============================================================================
