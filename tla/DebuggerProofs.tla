---------------------------- MODULE DebuggerProofs ----------------------------
(***************************************************************************)
(* Proofs about GdbEngine.  Every member function preserves Good, whatever  *)
(* state it is called in, and reports at most the session that runs; an     *)
(* action calls a few of them.                                              *)
(*                                                                          *)
(* The second part is about the order of the set-up: until it is over, one  *)
(* thing at a time is on its way that leads to the start of the program (a  *)
(* posted call, a command, its answer, or the callback that waits for all   *)
(* answers), and the callback is called when no command is unanswered.      *)
(***************************************************************************)
EXTENDS GdbEngine, FiniteSetTheorems, TLAPS

Has(e, S) == \E i \in DOMAIN e.posted : e.posted[i] \in S

Ends == {"SetupEngine", "ShutdownEngine", "FinishDebugger"}

(* The run control runs exactly while the engine knows it, and one session   *)
(* is open exactly then.                                                     *)
Accounts(e) ==
  /\ e.attached = e.running
  /\ e.running => e.starts = e.reports + 1
  /\ ~e.running => e.starts = e.reports

Promises(e) ==
  /\ e.state = "DebuggerFinished" /\ e.running => Has(e, {"FinishDebugger"})
  /\ e.running /\ e.proc = "NotRunning" => Has(e, Ends)

Good(e) == e \in Engine /\ Accounts(e) /\ Promises(e)

(* What a member function may do to the session that is open.                *)
Keeps(e, f) ==
  /\ f.starts = e.starts
  /\ \/ f.running = e.running /\ f.reports = e.reports
     \/ e.running /\ ~f.running /\ f.reports = e.reports + 1

Step(e, f) == Good(f) /\ Keeps(e, f)

-----------------------------------------------------------------------------
(* A call at the end of the queue takes nothing away from it. *)
LEMMA HasAppend ==
  ASSUME NEW q \in Seq(Call), NEW c \in Call, NEW S
  PROVE  /\ Append(q, c) \in Seq(Call)
         /\ (\E i \in DOMAIN q : q[i] \in S) =>
              \E i \in DOMAIN Append(q, c) : Append(q, c)[i] \in S
         /\ c \in S => \E i \in DOMAIN Append(q, c) : Append(q, c)[i] \in S
<1> DEFINE r == Append(q, c)
<1>1. /\ r \in Seq(Call) /\ Len(r) = Len(q) + 1 /\ r[Len(q) + 1] = c
      /\ \A i \in 1..Len(q) : r[i] = q[i]
  OBVIOUS
<1>2. DOMAIN q = 1..Len(q) /\ DOMAIN r = 1..Len(r) /\ Len(q) \in Nat
  BY <1>1
<1> HIDE DEF r
<1>3. ASSUME NEW i \in DOMAIN q, q[i] \in S
      PROVE  \E j \in DOMAIN r : r[j] \in S
  <2>1. i \in DOMAIN r /\ r[i] = q[i]
    BY <1>1, <1>2, <1>3
  <2> QED
    BY <2>1, <1>3
<1>4. ASSUME c \in S PROVE \E j \in DOMAIN r : r[j] \in S
  <2>1. Len(q) + 1 \in DOMAIN r
    BY <1>1, <1>2
  <2> QED
    BY <2>1, <1>1, <1>4
<1> QED
  BY <1>1, <1>3, <1>4 DEF r

(* Steps follow one another. *)
LEMMA StepTrans ==
  ASSUME NEW e, NEW f, NEW g, Keeps(e, f), Step(f, g), Accounts(f), Accounts(e),
         e \in Engine, f \in Engine
  PROVE  Step(e, g)
  BY DEF Step, Keeps, Good, Accounts, Engine

(* Good depends on few of the fields. *)
LEMMA Similar ==
  ASSUME NEW e, NEW f, Good(e), f \in Engine,
         f.state = e.state, f.attached = e.attached, f.running = e.running,
         f.posted = e.posted, f.starts = e.starts, f.reports = e.reports,
         e.proc # "NotRunning" => f.proc # "NotRunning"
  PROVE  Step(e, f)
  BY DEF Step, Keeps, Good, Accounts, Promises, Has

(* Setting the state and queueing a call. *)
LEMMA QueueStep ==
  ASSUME NEW e, Good(e), NEW s \in DebuggerState, NEW c \in Call,
         s = "DebuggerFinished" => c = "FinishDebugger"
  PROVE  Step(e, Queue(e, s, c))
<1> DEFINE f == Queue(e, s, c)
<1>1. e \in Engine /\ e.posted \in Seq(Call)
  BY DEF Good, Engine
<1>2. f.posted = Append(e.posted, c) /\ f.state = s
  BY <1>1 DEF Queue, Engine
<1>3. f \in Engine
  BY <1>1, HasAppend DEF Queue, Engine
<1>4. /\ f.attached = e.attached /\ f.running = e.running /\ f.starts = e.starts
      /\ f.reports = e.reports /\ f.proc = e.proc
  BY <1>1 DEF Queue, Engine
<1> HIDE DEF f
<1>5. /\ Has(e, Ends) => Has(f, Ends)
      /\ c = "FinishDebugger" => Has(f, {"FinishDebugger"})
  BY <1>1, <1>2, HasAppend DEF Has
<1> QED
  BY <1>3, <1>4, <1>5, <1>2 DEF Step, Keeps, Good, Accounts, Promises, f

LEMMA SetStateStep ==
  ASSUME NEW e, Good(e), NEW s \in DebuggerState, s # "DebuggerFinished"
  PROVE  Step(e, SetState(e, s))
<1> DEFINE f == SetState(e, s)
<1>1. e \in Engine
  BY DEF Good
<1>2. f \in Engine
  BY <1>1 DEF SetState, Engine
<1>3. /\ f.attached = e.attached /\ f.running = e.running /\ f.starts = e.starts
      /\ f.reports = e.reports /\ f.proc = e.proc /\ f.posted = e.posted /\ f.state = s
  BY <1>1 DEF SetState, Engine
<1> HIDE DEF f
<1> QED
  BY <1>2, <1>3 DEF Step, Keeps, Good, Accounts, Promises, Has, f

(* The same, from a good engine. *)
LEMMA Follows ==
  ASSUME NEW e, NEW f, NEW g, Good(e), Step(e, f), Step(f, g)
  PROVE  Step(e, g)
  BY StepTrans DEF Step, Good

(* Doing nothing is a step. *)
LEMMA Stays == ASSUME NEW e, Good(e) PROVE Step(e, e)
  BY DEF Step, Keeps

(* finished() closes the session that is open. *)
LEMMA ReportStep ==
  ASSUME NEW e, e \in Engine, Accounts(e)
  PROVE  LET f == IF e.attached THEN Report(e) ELSE e IN
           /\ f \in Engine /\ Accounts(f) /\ Keeps(e, f) /\ ~f.running
           /\ f.posted = e.posted /\ f.proc = e.proc
<1>1. CASE e.attached
  BY <1>1 DEF Report, Engine, Accounts, Keeps
<1>2. CASE ~e.attached
  BY <1>2 DEF Accounts, Keeps
<1> QED
  BY <1>1, <1>2

(* A set-up that fails leaves nothing open. *)
LEMMA SetupFailedStep ==
  ASSUME NEW e, e \in Engine, Accounts(e)
  PROVE  Step(e, NotifyEngineSetupFailed(e))
<1> DEFINE f == IF e.attached THEN Report(e) ELSE e
           g == SetState(f, "DebuggerFinished")
<1>1. f \in Engine /\ Accounts(f) /\ Keeps(e, f) /\ ~f.running
  BY ReportStep
<1> HIDE DEF f
<1>2. /\ g \in Engine /\ g.running = f.running /\ g.attached = f.attached
      /\ g.starts = f.starts /\ g.reports = f.reports
  BY <1>1 DEF SetState, Engine, DebuggerState
<1>3. g = NotifyEngineSetupFailed(e)
  BY DEF f, NotifyEngineSetupFailed
<1> HIDE DEF g
<1>4. Step(e, g)
  BY <1>1, <1>2 DEF Step, Keeps, Good, Accounts, Promises
<1> QED
  BY <1>3, <1>4

(* So does the end of the debugger. *)
LEMMA FinishStep ==
  ASSUME NEW e, e \in Engine, Accounts(e)
  PROVE  Step(e, DoFinishDebugger(e))
<1>1. DoFinishDebugger(e) = IF e.attached THEN Report(e) ELSE e
  BY DEF DoFinishDebugger
<1> QED
  BY <1>1, ReportStep DEF Step, Good, Promises

-----------------------------------------------------------------------------
(* The fields Good does not look at. *)
LEMMA Untouched ==
  ASSUME NEW e, Good(e)
  PROVE  /\ \A b \in {"DebuggerNotReady", "DebuggerFinished"} :
              Step(e, [e EXCEPT !.target = b])
         /\ \A b \in BOOLEAN : /\ Step(e, [e EXCEPT !.callback = b])
                               /\ Step(e, [e EXCEPT !.interrupt = b])
                               /\ Step(e, [e EXCEPT !.temporaryStop = b])
                               /\ Step(e, [e EXCEPT !.box = b])
                               /\ Step(e, [e EXCEPT !.dirty = b])
         /\ Step(e, [e EXCEPT !.tokens = @ - 1])
         /\ \A c \in Cmd : Step(e, [e EXCEPT !.wire = Append(@, c), !.tokens = @ + 1])
         /\ Step(e, KillGdb(e))
<1>0. e \in Engine
  BY DEF Good
<1>1. ASSUME NEW b \in {"DebuggerNotReady", "DebuggerFinished"}
      PROVE  Step(e, [e EXCEPT !.target = b])
  <2> DEFINE f == [e EXCEPT !.target = b]
  <2>1. f \in Engine
    BY <1>0 DEF Engine
  <2>2. /\ f.state = e.state /\ f.attached = e.attached /\ f.running = e.running
        /\ f.posted = e.posted /\ f.starts = e.starts /\ f.reports = e.reports
        /\ f.proc = e.proc
    BY <1>0 DEF Engine
  <2> HIDE DEF f
  <2> QED
    BY <2>1, <2>2, Similar DEF f
<1>2. ASSUME NEW b \in BOOLEAN PROVE Step(e, [e EXCEPT !.callback = b])
  <2> DEFINE f == [e EXCEPT !.callback = b]
  <2>1. f \in Engine
    BY <1>0 DEF Engine
  <2>2. /\ f.state = e.state /\ f.attached = e.attached /\ f.running = e.running
        /\ f.posted = e.posted /\ f.starts = e.starts /\ f.reports = e.reports
        /\ f.proc = e.proc
    BY <1>0 DEF Engine
  <2> HIDE DEF f
  <2> QED
    BY <2>1, <2>2, Similar DEF f
<1>3. ASSUME NEW b \in BOOLEAN PROVE Step(e, [e EXCEPT !.interrupt = b])
  <2> DEFINE f == [e EXCEPT !.interrupt = b]
  <2>1. f \in Engine
    BY <1>0 DEF Engine
  <2>2. /\ f.state = e.state /\ f.attached = e.attached /\ f.running = e.running
        /\ f.posted = e.posted /\ f.starts = e.starts /\ f.reports = e.reports
        /\ f.proc = e.proc
    BY <1>0 DEF Engine
  <2> HIDE DEF f
  <2> QED
    BY <2>1, <2>2, Similar DEF f
<1>4. ASSUME NEW b \in BOOLEAN PROVE Step(e, [e EXCEPT !.temporaryStop = b])
  <2> DEFINE f == [e EXCEPT !.temporaryStop = b]
  <2>1. f \in Engine
    BY <1>0 DEF Engine
  <2>2. /\ f.state = e.state /\ f.attached = e.attached /\ f.running = e.running
        /\ f.posted = e.posted /\ f.starts = e.starts /\ f.reports = e.reports
        /\ f.proc = e.proc
    BY <1>0 DEF Engine
  <2> HIDE DEF f
  <2> QED
    BY <2>1, <2>2, Similar DEF f
<1>5. ASSUME NEW b \in BOOLEAN PROVE Step(e, [e EXCEPT !.box = b])
  <2> DEFINE f == [e EXCEPT !.box = b]
  <2>1. f \in Engine
    BY <1>0 DEF Engine
  <2>2. /\ f.state = e.state /\ f.attached = e.attached /\ f.running = e.running
        /\ f.posted = e.posted /\ f.starts = e.starts /\ f.reports = e.reports
        /\ f.proc = e.proc
    BY <1>0 DEF Engine
  <2> HIDE DEF f
  <2> QED
    BY <2>1, <2>2, Similar DEF f
<1>6. ASSUME NEW b \in BOOLEAN PROVE Step(e, [e EXCEPT !.dirty = b])
  <2> DEFINE f == [e EXCEPT !.dirty = b]
  <2>1. f \in Engine
    BY <1>0 DEF Engine
  <2>2. /\ f.state = e.state /\ f.attached = e.attached /\ f.running = e.running
        /\ f.posted = e.posted /\ f.starts = e.starts /\ f.reports = e.reports
        /\ f.proc = e.proc
    BY <1>0 DEF Engine
  <2> HIDE DEF f
  <2> QED
    BY <2>1, <2>2, Similar DEF f
<1>7. Step(e, [e EXCEPT !.tokens = @ - 1])
  <2> DEFINE f == [e EXCEPT !.tokens = @ - 1]
  <2>1. f \in Engine
    BY <1>0 DEF Engine
  <2>2. /\ f.state = e.state /\ f.attached = e.attached /\ f.running = e.running
        /\ f.posted = e.posted /\ f.starts = e.starts /\ f.reports = e.reports
        /\ f.proc = e.proc
    BY <1>0 DEF Engine
  <2> HIDE DEF f
  <2> QED
    BY <2>1, <2>2, Similar DEF f
<1>8. ASSUME NEW c \in Cmd
      PROVE  Step(e, [e EXCEPT !.wire = Append(@, c), !.tokens = @ + 1])
  <2> DEFINE w == Append(e.wire, c)
             g == [e EXCEPT !.wire = w]
             f == [g EXCEPT !.tokens = @ + 1]
  <2>0. w \in Seq(Cmd)
    BY <1>0 DEF Engine
  <2> HIDE DEF w
  <2>1. /\ g \in Engine
        /\ g.state = e.state /\ g.attached = e.attached /\ g.running = e.running
        /\ g.posted = e.posted /\ g.starts = e.starts /\ g.reports = e.reports
        /\ g.proc = e.proc
    BY <1>0, <2>0 DEF Engine
  <2>2. [e EXCEPT !.wire = Append(@, c), !.tokens = @ + 1] = f
    BY <1>0 DEF w, Engine
  <2> HIDE DEF g
  <2>3. /\ f \in Engine
        /\ f.state = g.state /\ f.attached = g.attached /\ f.running = g.running
        /\ f.posted = g.posted /\ f.starts = g.starts /\ f.reports = g.reports
        /\ f.proc = g.proc
    BY <2>1 DEF Engine
  <2> HIDE DEF f
  <2> QED
    BY <2>1, <2>2, <2>3, Similar
<1>9. Step(e, KillGdb(e))
  <2> DEFINE f == KillGdb(e)
  <2>1. f \in Engine
    BY <1>0 DEF Engine, KillGdb
  <2>2. /\ f.state = e.state /\ f.attached = e.attached /\ f.running = e.running
        /\ f.posted = e.posted /\ f.starts = e.starts /\ f.reports = e.reports
        /\ e.proc # "NotRunning" => f.proc # "NotRunning"
    BY <1>0 DEF Engine, KillGdb
  <2> HIDE DEF f
  <2> QED
    BY <2>1, <2>2, Similar DEF f
<1> QED
  BY <1>1, <1>2, <1>3, <1>4, <1>5, <1>6, <1>7, <1>8, <1>9

-----------------------------------------------------------------------------
(* The calls that end a session restore the promise, whatever was kept of it. *)
LEMMA QueueEndStep ==
  ASSUME NEW e, e \in Engine, Accounts(e), NEW s \in DebuggerState,
         NEW c \in {"ShutdownEngine", "FinishDebugger"},
         s = "DebuggerFinished" => c = "FinishDebugger"
  PROVE  Step(e, Queue(e, s, c))
<1> DEFINE f == Queue(e, s, c)
<1>1. e.posted \in Seq(Call) /\ c \in Call /\ c \in Ends
  BY DEF Engine, Call, Ends
<1>2. f.posted = Append(e.posted, c) /\ f.state = s
  BY DEF Queue, Engine
<1>3. f \in Engine
  BY <1>1, HasAppend DEF Queue, Engine
<1>4. /\ f.attached = e.attached /\ f.running = e.running /\ f.starts = e.starts
      /\ f.reports = e.reports /\ f.proc = e.proc
  BY DEF Queue, Engine
<1> HIDE DEF f
<1>5. /\ Has(f, Ends)
      /\ c = "FinishDebugger" => Has(f, {"FinishDebugger"})
  BY <1>1, <1>2, HasAppend DEF Has
<1> QED
  BY <1>3, <1>4, <1>5, <1>2 DEF Step, Keeps, Good, Accounts, Promises, f

(* The functions that queue the next stage of the set-up or the shut-down. *)
LEMMA QueueSteps ==
  ASSUME NEW e, Good(e)
  PROVE  /\ Step(e, QueueSetupInferior(e)) /\ Step(e, QueueRunEngine(e))
         /\ Step(e, QueueShutdownEngine(e)) /\ Step(e, QueueShutdownInferior(e))
         /\ Step(e, QueueFinishDebugger(e))
<1>1. Step(e, Queue(e, "InferiorSetupRequested", "SetupInferior"))
  BY QueueStep DEF DebuggerState, Call
<1>2. Step(e, Queue(e, "EngineRunRequested", "RunEngine"))
  BY QueueStep DEF DebuggerState, Call
<1>3. Step(e, Queue(e, "EngineShutdownRequested", "ShutdownEngine"))
  BY QueueStep DEF DebuggerState, Call
<1>4. Step(e, Queue(e, "InferiorShutdownRequested", "ShutdownInferior"))
  BY QueueStep DEF DebuggerState, Call
<1>5. Step(e, Queue(e, "DebuggerFinished", "FinishDebugger"))
  BY QueueStep DEF DebuggerState, Call
<1> QED
  BY <1>1, <1>2, <1>3, <1>4, <1>5 DEF QueueSetupInferior, QueueRunEngine,
     QueueShutdownEngine, QueueShutdownInferior, QueueFinishDebugger

(* The notify functions of the base class. *)
LEMMA NotifySteps ==
  ASSUME NEW e, Good(e)
  PROVE  /\ Step(e, NotifyEngineSetupOk(e)) /\ Step(e, NotifyEngineSetupFailed(e))
         /\ Step(e, NotifyInferiorSetupOk(e)) /\ Step(e, NotifyInferiorSetupFailed(e))
         /\ Step(e, NotifyEngineRunAndInferiorRunOk(e))
         /\ Step(e, NotifyEngineRunAndInferiorStopOk(e))
         /\ Step(e, NotifyEngineRunFailed(e)) /\ Step(e, NotifyInferiorRunRequested(e))
         /\ Step(e, NotifyInferiorRunOk(e)) /\ Step(e, NotifyInferiorRunFailed(e))
         /\ Step(e, NotifyInferiorStopOk(e)) /\ Step(e, NotifyInferiorSpontaneousStop(e))
         /\ Step(e, NotifyInferiorStopFailed(e)) /\ Step(e, NotifyInferiorExited(e))
         /\ Step(e, NotifyInferiorShutdownFailed(e)) /\ Step(e, NotifyEngineShutdownOk(e))
         /\ Step(e, NotifyEngineShutdownFailed(e))
         /\ Step(e, NotifyEngineSpontaneousShutdown(e)) /\ Step(e, NotifyInferiorIll(e))
<1>1. /\ Step(e, SetState(e, "InferiorRunOk")) /\ Step(e, SetState(e, "InferiorStopOk"))
      /\ Step(e, SetState(e, "InferiorRunRequested"))
  BY SetStateStep DEF DebuggerState
<1>2. Step(e, e)
  BY Stays
<1>3. Step(e, NotifyEngineSetupFailed(e))
  BY SetupFailedStep DEF Good
<1>4. Step(e, NotifyInferiorIll(e))
  <2> DEFINE f == [e EXCEPT !.target = "DebuggerFinished"]
  <2>1. Step(e, f)
    BY Untouched
  <2>2. Good(f)
    BY <2>1 DEF Step
  <2> HIDE DEF f
  <2>3. Step(f, QueueShutdownInferior(f))
    BY <2>2, QueueSteps
  <2>4. Step(e, QueueShutdownInferior(f))
    BY <2>1, <2>3, Follows
  <2> QED
    BY <2>4 DEF NotifyInferiorIll, f
<1>5. /\ Step(e, NotifyInferiorRunFailed(e)) /\ Step(e, NotifyInferiorStopOk(e))
  BY <1>1, <1>2, QueueSteps DEF NotifyInferiorRunFailed, NotifyInferiorStopOk
<1> QED
  BY <1>1, <1>3, <1>4, <1>5, QueueSteps DEF NotifyEngineSetupOk, NotifyInferiorSetupOk,
     NotifyInferiorSetupFailed, NotifyEngineRunAndInferiorRunOk,
     NotifyEngineRunAndInferiorStopOk, NotifyEngineRunFailed, NotifyInferiorRunRequested,
     NotifyInferiorRunOk, NotifyInferiorSpontaneousStop, NotifyInferiorStopFailed,
     NotifyInferiorExited, NotifyInferiorShutdownFailed, NotifyEngineShutdownOk,
     NotifyEngineShutdownFailed, NotifyEngineSpontaneousShutdown

(* An interrupt either reaches the program or shuts the engine down. *)
LEMMA InterruptStep ==
  ASSUME NEW e, Good(e), NEW reached \in BOOLEAN
  PROVE  Step(e, DoInterruptInferior(e, reached))
<1> DEFINE f == SetState(e, "InferiorStopRequested")
<1>1. Step(e, f)
  BY SetStateStep DEF DebuggerState
<1>2. Good(f)
  BY <1>1 DEF Step
<1> HIDE DEF f
<1>3. Step(f, [f EXCEPT !.interrupt = TRUE]) /\ Step(f, NotifyInferiorStopFailed(f))
  BY <1>2, Untouched, NotifySteps
<1>4. Step(f, InterruptInferior(f, reached))
  BY <1>3 DEF InterruptInferior
<1>5. Step(e, InterruptInferior(f, reached))
  BY <1>1, <1>4, Follows
<1> QED
  BY <1>5 DEF DoInterruptInferior, f

(* quitDebugger, in whatever state. *)
LEMMA QuitStep ==
  ASSUME NEW e, Good(e), NEW reached \in BOOLEAN
  PROVE  Step(e, QuitDebugger(e, reached))
<1> DEFINE f == [e EXCEPT !.target = "DebuggerFinished"]
<1>1. Step(e, f)
  BY Untouched
<1>2. Good(f)
  BY <1>1 DEF Step
<1>3. QuitDebugger(e, reached) \in
        { QueueShutdownInferior(f), DoInterruptInferior(f, reached),
          NotifyEngineSetupFailed(f), NotifyInferiorSetupFailed(f),
          NotifyEngineRunFailed(f), f, NotifyInferiorIll(f) }
  BY DEF QuitDebugger
<1> HIDE DEF f
<1>4. \A g \in { QueueShutdownInferior(f), DoInterruptInferior(f, reached),
                 NotifyEngineSetupFailed(f), NotifyInferiorSetupFailed(f),
                 NotifyEngineRunFailed(f), f, NotifyInferiorIll(f) } : Step(f, g)
  BY <1>2, QueueSteps, NotifySteps, InterruptStep, Stays
<1>5. Step(f, QuitDebugger(e, reached))
  BY <1>3, <1>4
<1> QED
  BY <1>1, <1>5, Follows

(* A gdb whose process is gone: the engine finishes or shuts down. *)
LEMMA ProcessFinishedStep ==
  ASSUME NEW e, e \in Engine, Accounts(e),
         e.state = "DebuggerFinished" /\ e.running => Has(e, {"FinishDebugger"})
  PROVE  Step(e, NotifyDebuggerProcessFinished(e, FALSE))
<1> DEFINE r == NotifyDebuggerProcessFinished(e, FALSE)
<1>1. CASE e.state = "DebuggerFinished"
  <2>1. Has(e, {"FinishDebugger"}) => Has(e, Ends)
    BY DEF Has, Ends
  <2>2. r = e
    BY <1>1 DEF NotifyDebuggerProcessFinished
  <2> QED
    BY <2>1, <2>2, <1>1 DEF Step, Keeps, Good, Promises
<1>2. CASE e.state \in {"EngineShutdownRequested", "InferiorRunOk"}
  <2>1. r = Queue(e, "DebuggerFinished", "FinishDebugger")
    BY <1>2 DEF NotifyDebuggerProcessFinished, NotifyEngineShutdownOk,
       NotifyEngineSpontaneousShutdown, QueueFinishDebugger
  <2>2. Step(e, Queue(e, "DebuggerFinished", "FinishDebugger"))
    BY QueueEndStep DEF DebuggerState
  <2> QED
    BY <2>1, <2>2
<1>3. CASE e.state \notin {"DebuggerFinished", "EngineShutdownRequested", "InferiorRunOk"}
  <2> DEFINE f == [e EXCEPT !.target = "DebuggerFinished"]
             g == SetState(f, "InferiorStopRequested")
  <2>1. /\ f \in Engine /\ f.attached = e.attached /\ f.running = e.running
        /\ f.starts = e.starts /\ f.reports = e.reports
    BY DEF Engine
  <2>2. r = NotifyEngineIll(e, FALSE)
    BY <1>3 DEF NotifyDebuggerProcessFinished
  <2>3. r = IF e.state \in Interruptible THEN NotifyInferiorStopFailed(g)
            ELSE QueueShutdownEngine(f)
    BY <2>2 DEF NotifyEngineIll, DoInterruptInferior, InterruptInferior
  <2> HIDE DEF f, r
  <2>4. /\ g \in Engine /\ g.attached = f.attached /\ g.running = f.running
        /\ g.starts = f.starts /\ g.reports = f.reports
    BY <2>1 DEF SetState, Engine, DebuggerState
  <2> HIDE DEF g
  <2>5. Accounts(f) /\ Keeps(e, f)
    BY <2>1 DEF Accounts, Keeps
  <2>6. Accounts(g) /\ Keeps(e, g)
    BY <2>5, <2>1, <2>4 DEF Accounts, Keeps
  <2>7. Step(f, QueueShutdownEngine(f))
    BY <2>1, <2>5, QueueEndStep DEF QueueShutdownEngine, DebuggerState
  <2>8. Step(g, NotifyInferiorStopFailed(g))
    BY <2>4, <2>6, QueueEndStep DEF NotifyInferiorStopFailed, QueueShutdownEngine,
       DebuggerState
  <2>9. Step(e, QueueShutdownEngine(f))
    BY <2>1, <2>5, <2>7, StepTrans
  <2>10. Step(e, NotifyInferiorStopFailed(g))
    BY <2>4, <2>6, <2>8, StepTrans
  <2> QED
    BY <2>3, <2>9, <2>10 DEF r
<1> QED
  BY <1>1, <1>2, <1>3

-----------------------------------------------------------------------------
(* Commands and answers. *)
LEMMA CommandStep ==
  ASSUME NEW e, Good(e), NEW c \in Cmd
  PROVE  Step(e, RunCommand(e, c))
<1> DEFINE f == [e EXCEPT !.temporaryStop = TRUE]
           g == DoInterruptInferior(f, Reached)
<1>1. Step(e, f)
  BY Untouched
<1>2. Good(f)
  BY <1>1 DEF Step
<1>3. \A h : Good(h) => Step(h, Write(h, c))
  BY Untouched, Stays DEF Write
<1>4. RunCommand(e, c) \in {e, NotifyInferiorIll(e), Write(g, c), Write(e, c)}
  BY DEF RunCommand
<1> HIDE DEF f
<1>5. Reached \in BOOLEAN
  BY DEF Reached
<1>6. Step(f, g)
  BY <1>2, <1>5, InterruptStep
<1>7. Good(g) /\ Step(e, g)
  BY <1>1, <1>6, Follows DEF Step
<1> HIDE DEF g
<1>8. Step(e, Write(g, c))
  BY <1>3, <1>7, Follows
<1>9. Step(e, Write(e, c)) /\ Step(e, NotifyInferiorIll(e)) /\ Step(e, e)
  BY <1>3, NotifySteps, Stays
<1> QED
  BY <1>4, <1>8, <1>9

LEMMA SynchronizeStep == ASSUME NEW e, Good(e) PROVE Step(e, Synchronize(e))
<1> DEFINE f == [e EXCEPT !.dirty = FALSE]
<1>1. Step(e, f)
  BY Untouched
<1>2. Good(f)
  BY <1>1 DEF Step
<1>3. Synchronize(e) \in {e, RunCommand(f, "break")}
  BY DEF Synchronize
<1> HIDE DEF f
<1>4. Step(f, RunCommand(f, "break"))
  BY <1>2, CommandStep DEF Cmd
<1> QED
  BY <1>1, <1>3, <1>4, Follows, Stays

LEMMA ContinueStep == ASSUME NEW e, Good(e) PROVE Step(e, ContinueInferiorInternal(e))
<1> DEFINE f == NotifyInferiorRunRequested(e)
<1>1. Step(e, f)
  BY NotifySteps
<1>2. Good(f)
  BY <1>1 DEF Step
<1> HIDE DEF f
<1>3. Step(f, RunCommand(f, "continue"))
  BY <1>2, CommandStep DEF Cmd
<1>4. Step(e, RunCommand(f, "continue"))
  BY <1>1, <1>3, Follows
<1> QED
  BY <1>4 DEF ContinueInferiorInternal, f

(* The set-up of the program is finished, or waits for the last answer. *)
LEMMA PreparedStep == ASSUME NEW e, Good(e) PROVE Step(e, HandleInferiorPrepared(e))
<1> DEFINE f == Synchronize(e)
<1>1. Step(e, f)
  BY SynchronizeStep
<1>2. Good(f)
  BY <1>1 DEF Step
<1>3. HandleInferiorPrepared(e) \in {NotifyInferiorSetupOk(f), [f EXCEPT !.callback = TRUE]}
  BY DEF HandleInferiorPrepared, FinishInferiorSetup
<1> HIDE DEF f
<1>4. Step(f, NotifyInferiorSetupOk(f)) /\ Step(f, [f EXCEPT !.callback = TRUE])
  BY <1>2, NotifySteps, Untouched
<1> QED
  BY <1>1, <1>3, <1>4, Follows

LEMMA CallbackStep ==
  ASSUME NEW e, Good(e), NEW c, NEW class
  PROVE  Step(e, Callback(e, c, class))
<1> DEFINE k == KillGdb(e)
<1>1. Step(e, k)
  BY Untouched
<1>2. Good(k)
  BY <1>1 DEF Step
<1> HIDE DEF k
<1>3. Step(k, NotifyEngineShutdownFailed(k))
  BY <1>2, NotifySteps
<1>4. Step(e, NotifyEngineShutdownFailed(k))
  BY <1>1, <1>3, Follows
<1>5. Step(e, HandleGdbExit(e, class))
  BY <1>4, Stays DEF HandleGdbExit, k
<1>6. Step(e, HandlePythonSetup(e, class)) /\ Step(e, HandleFileExecAndSymbols(e, class))
  BY NotifySteps, PreparedStep DEF HandlePythonSetup, HandleFileExecAndSymbols
<1>7. Step(e, HandleExecRun(e, class)) /\ Step(e, HandleInferiorShutdown(e, class))
  BY NotifySteps, Stays DEF HandleExecRun, HandleInferiorShutdown
<1>8. Step(e, HandleExecuteContinue(e, class))
  BY NotifySteps, Stays DEF HandleExecuteContinue
<1> QED
  BY <1>5, <1>6, <1>7, <1>8, Stays DEF Callback

(* The callback of the last answer finishes the set-up. *)
LEMMA DoneStep == ASSUME NEW e, Good(e), NEW class PROVE Step(e, AllCommandsDone(e, class))
<1> DEFINE f == [e EXCEPT !.callback = FALSE]
<1>1. Step(e, f)
  BY Untouched
<1>2. Good(f)
  BY <1>1 DEF Step
<1>3. AllCommandsDone(e, class) \in {e, f, NotifyInferiorSetupOk(f)}
  BY DEF AllCommandsDone, FinishInferiorSetup
<1> HIDE DEF f
<1>4. Step(f, NotifyInferiorSetupOk(f))
  BY <1>2, NotifySteps
<1> QED
  BY <1>1, <1>3, <1>4, Follows, Stays

LEMMA ResultStep ==
  ASSUME NEW e, Good(e), NEW c, NEW class
  PROVE  Step(e, HandleResultRecord(e, c, class))
<1> DEFINE f == [e EXCEPT !.tokens = @ - 1]
           g == Callback(f, c, class)
<1>1. Step(e, f)
  BY Untouched
<1>2. Good(f)
  BY <1>1 DEF Step
<1> HIDE DEF f
<1>3. Step(f, g)
  BY <1>2, CallbackStep
<1>4. Good(g) /\ Step(e, g)
  BY <1>1, <1>3, Follows DEF Step
<1> HIDE DEF g
<1>5. Step(g, AllCommandsDone(g, class))
  BY <1>4, DoneStep
<1>6. Step(e, AllCommandsDone(g, class))
  BY <1>4, <1>5, Follows
<1> QED
  BY <1>6 DEF HandleResultRecord, g, f

-----------------------------------------------------------------------------
(* Asynchronous output. *)
LEMMA StopStep == ASSUME NEW e, Good(e) PROVE Step(e, HandleStop(e))
<1>1. e \in Engine /\ "Stop2" \in Call
  BY DEF Good, Engine, Call
<1> DEFINE f == HandleStop(e)
<1>3. f.posted = Append(e.posted, "Stop2") /\ e.posted \in Seq(Call)
  BY <1>1 DEF HandleStop, Engine
<1>4. f \in Engine
  BY <1>1, <1>3, HasAppend DEF HandleStop, Engine
<1>5. /\ f.state = e.state /\ f.attached = e.attached /\ f.running = e.running
      /\ f.starts = e.starts /\ f.reports = e.reports /\ f.proc = e.proc
  BY <1>1 DEF HandleStop, Engine
<1> HIDE DEF f
<1>6. \A S : Has(e, S) => Has(f, S)
  BY <1>1, <1>3, HasAppend DEF Has
<1> QED
  BY <1>4, <1>5, <1>6 DEF Step, Keeps, Good, Accounts, Promises, f

LEMMA StopResponseStep ==
  ASSUME NEW e, Good(e), NEW reason
  PROVE  Step(e, HandleStopResponse(e, reason))
<1> DEFINE f == [e EXCEPT !.temporaryStop = FALSE]
           g == NotifyInferiorStopOk(f)
           h == NotifyInferiorSpontaneousStop(e)
           k == NotifyInferiorStopOk(e)
<1>1. Step(e, f) /\ Step(e, h) /\ Step(e, k)
  BY Untouched, NotifySteps
<1>2. Good(f) /\ Good(h) /\ Good(k)
  BY <1>1 DEF Step
<1>3. HandleStopResponse(e, reason) \in
        { k, e, ContinueInferiorInternal(g), HandleStop(h), HandleStop(k),
          NotifyEngineRunAndInferiorStopOk(e), HandleStop(e) }
  BY DEF HandleStopResponse
<1> HIDE DEF f, h, k
<1>4. Step(f, g)
  BY <1>2, NotifySteps
<1>5. Good(g) /\ Step(e, g)
  BY <1>1, <1>4, Follows DEF Step
<1> HIDE DEF g
<1>6. Step(g, ContinueInferiorInternal(g))
  BY <1>5, ContinueStep
<1>7. Step(e, ContinueInferiorInternal(g))
  BY <1>5, <1>6, Follows
<1>8. Step(h, HandleStop(h)) /\ Step(k, HandleStop(k)) /\ Step(e, HandleStop(e))
  BY <1>2, StopStep
<1>9. Step(e, HandleStop(h)) /\ Step(e, HandleStop(k))
  BY <1>1, <1>8, Follows
<1>10. Step(e, e) /\ Step(e, NotifyEngineRunAndInferiorStopOk(e))
  BY Stays, NotifySteps
<1> QED
  BY <1>1, <1>3, <1>7, <1>8, <1>9, <1>10

LEMMA LineStep == ASSUME NEW e, Good(e), NEW line PROVE Step(e, HandleLine(e, line))
<1>1. Step(e, HandleRunning(e))
  BY NotifySteps, Stays DEF HandleRunning
<1>2. Step(e, HandleResultRecord(e, line.cmd, line.class))
  BY ResultStep
<1>3. Step(e, NotifyInferiorExited(e)) /\ Step(e, HandleStopResponse(e, line.reason))
  BY NotifySteps, StopResponseStep
<1> QED
  BY <1>1, <1>2, <1>3 DEF HandleLine

-----------------------------------------------------------------------------
(* The event loop takes the first posted call away. *)
LEMMA HasTail ==
  ASSUME NEW q \in Seq(Call), q # <<>>, NEW S, Head(q) \notin S,
         \E i \in DOMAIN q : q[i] \in S
  PROVE  \E i \in DOMAIN Tail(q) : Tail(q)[i] \in S
<1> DEFINE r == Tail(q)
<1>1. /\ Len(q) \in Nat \ {0} /\ DOMAIN q = 1..Len(q) /\ Len(r) = Len(q) - 1
      /\ DOMAIN r = 1..Len(r) /\ \A i \in 1..Len(r) : r[i] = q[i + 1]
      /\ Head(q) = q[1]
  OBVIOUS
<1> HIDE DEF r
<1>2. PICK i \in DOMAIN q : q[i] \in S
  OBVIOUS
<1>3. i # 1
  BY <1>1, <1>2
<1>4. i - 1 \in 1..Len(r) /\ (i - 1) + 1 = i
  BY <1>1, <1>2, <1>3
<1>5. r[i - 1] = q[i]
  BY <1>1, <1>4
<1> QED
  BY <1>1, <1>2, <1>4, <1>5 DEF r

LEMMA TakenCall ==
  ASSUME Good(d), d.posted # <<>>
  PROVE  /\ Next1 \in Engine /\ Accounts(Next1) /\ Keeps(d, Next1)
         /\ Head(d.posted) # "FinishDebugger" =>
              (Next1.state = "DebuggerFinished" /\ Next1.running
                 => Has(Next1, {"FinishDebugger"}))
         /\ Head(d.posted) \notin Ends => Good(Next1)
<1>1. d \in Engine /\ d.posted \in Seq(Call)
  BY DEF Good, Engine
<1>2. Tail(d.posted) \in Seq(Call)
  BY <1>1
<1>3. Next1 \in Engine /\ Next1.posted = Tail(d.posted)
  BY <1>1, <1>2 DEF Next1, Engine
<1>4. /\ Next1.state = d.state /\ Next1.attached = d.attached /\ Next1.running = d.running
      /\ Next1.starts = d.starts /\ Next1.reports = d.reports /\ Next1.proc = d.proc
  BY <1>1 DEF Next1, Engine
<1>5. \A S : Has(d, S) /\ Head(d.posted) \notin S => Has(Next1, S)
  BY <1>1, <1>3, HasTail DEF Has
<1>6. Accounts(Next1) /\ Keeps(d, Next1)
  BY <1>4 DEF Good, Accounts, Keeps
<1>7. Head(d.posted) # "FinishDebugger" =>
        (Next1.state = "DebuggerFinished" /\ Next1.running
           => Has(Next1, {"FinishDebugger"}))
  BY <1>4, <1>5 DEF Good, Promises
<1>8. Head(d.posted) \notin Ends => Good(Next1)
  BY <1>3, <1>4, <1>5, <1>6, <1>7 DEF Good, Promises, Ends
<1> QED
  BY <1>3, <1>6, <1>7, <1>8

(* gdb has been started when the set-up goes on, or the set-up has failed. *)
LEMMA SetupStep ==
  ASSUME Good(d), d.posted # <<>>, Head(d.posted) = "SetupEngine"
  PROVE  Step(d, SetupEngine(Next1)) /\ Step(d, NotifyEngineSetupFailed(Next1))
<1>0. d \in Engine /\ Accounts(d)
  BY DEF Good
<1>1. /\ Next1 \in Engine /\ Accounts(Next1) /\ Keeps(d, Next1)
      /\ Next1.state = "DebuggerFinished" /\ Next1.running => Has(Next1, {"FinishDebugger"})
  BY TakenCall
<1> DEFINE f == IF Next1.proc = "NotRunning" THEN [Next1 EXCEPT !.proc = "Running"] ELSE Next1
<1>2. /\ f \in Engine /\ f.proc # "NotRunning"
      /\ f.state = Next1.state /\ f.attached = Next1.attached
      /\ f.running = Next1.running /\ f.posted = Next1.posted
      /\ f.starts = Next1.starts /\ f.reports = Next1.reports
  BY <1>1 DEF Engine
<1>3. SetupEngine(Next1) = RunCommand(f, "setup")
  BY DEF SetupEngine
<1> HIDE DEF f
<1>4. Good(f) /\ Keeps(d, f)
  BY <1>1, <1>2 DEF Good, Accounts, Promises, Has, Keeps
<1>5. Step(f, RunCommand(f, "setup"))
  BY <1>4, CommandStep DEF Cmd
<1>6. Step(d, RunCommand(f, "setup"))
  BY <1>0, <1>4, <1>5, StepTrans DEF Good
<1>7. Step(Next1, NotifyEngineSetupFailed(Next1))
  BY <1>1, SetupFailedStep
<1>8. Step(d, NotifyEngineSetupFailed(Next1))
  BY <1>0, <1>1, <1>7, StepTrans
<1> QED
  BY <1>3, <1>6, <1>8

(* The other posted calls. *)
LEMMA PerformStep ==
  ASSUME Good(d), d.posted # <<>>, Head(d.posted) # "SetupEngine"
  PROVE  Step(d, Perform(Next1, Head(d.posted)))
<1> DEFINE call == Head(d.posted)
           f == Dying(Next1)
           k == [f EXCEPT !.callback = FALSE]
<1>0. d \in Engine /\ Accounts(d)
  BY DEF Good
<1>1. /\ Next1 \in Engine /\ Accounts(Next1) /\ Keeps(d, Next1)
      /\ call # "FinishDebugger" =>
           (Next1.state = "DebuggerFinished" /\ Next1.running
              => Has(Next1, {"FinishDebugger"}))
      /\ call \notin Ends => Good(Next1)
  BY TakenCall
<1>2. CASE call = "FinishDebugger"
  <2>1. Step(Next1, DoFinishDebugger(Next1))
    BY <1>1, FinishStep
  <2>2. Step(d, DoFinishDebugger(Next1))
    BY <1>0, <1>1, <2>1, StepTrans
  <2> QED
    BY <1>2, <2>2 DEF Perform
<1>3. CASE call = "ShutdownEngine"
  <2>1. /\ k \in Engine /\ k.state = Next1.state /\ k.attached = Next1.attached
        /\ k.running = Next1.running /\ k.posted = Next1.posted /\ k.proc = Next1.proc
        /\ k.starts = Next1.starts /\ k.reports = Next1.reports
    BY <1>1 DEF Dying, Engine
  <2>2. Perform(Next1, call) = IF k.proc = "NotRunning" THEN NotifyEngineShutdownOk(k)
                               ELSE RunCommand(k, "exit")
    BY <1>3, <1>1 DEF Perform, NotifyAdapterShutdownOk, Dying, Engine
  <2> HIDE DEF k
  <2>3. Accounts(k) /\ Keeps(d, k)
    BY <1>1, <2>1 DEF Accounts, Keeps
  <2>4. Step(k, NotifyEngineShutdownOk(k))
    BY <2>1, <2>3, QueueEndStep DEF NotifyEngineShutdownOk, QueueFinishDebugger,
       DebuggerState
  <2>5. ASSUME k.proc # "NotRunning" PROVE Step(k, RunCommand(k, "exit"))
    <3>1. Good(k)
      BY <1>1, <1>3, <2>1, <2>3, <2>5 DEF Good, Promises, Has
    <3> QED
      BY <3>1, CommandStep DEF Cmd
  <2>6. Step(k, Perform(Next1, call))
    BY <2>2, <2>4, <2>5
  <2> QED
    BY <1>0, <2>1, <2>3, <2>6, StepTrans
<1>4. CASE call \notin Ends
  <2>1. Good(Next1)
    BY <1>1, <1>4
  <2>2. Step(Next1, f)
    BY <2>1, Untouched DEF Dying
  <2>3. Good(f)
    BY <2>2 DEF Step
  <2>4. Perform(Next1, call) \in
          { RunCommand(f, "kill"), RunCommand(Next1, "file"), RunCommand(Next1, "run"),
            RunCommand(Next1, "threads") }
    BY <1>4 DEF Perform, Ends
  <2> HIDE DEF f
  <2>5. Step(f, RunCommand(f, "kill"))
    BY <2>3, CommandStep DEF Cmd
  <2>6. /\ Step(Next1, RunCommand(Next1, "file")) /\ Step(Next1, RunCommand(Next1, "run"))
        /\ Step(Next1, RunCommand(Next1, "threads"))
    BY <2>1, CommandStep DEF Cmd
  <2>7. Step(Next1, Perform(Next1, call))
    BY <2>1, <2>2, <2>4, <2>5, <2>6, Follows
  <2> QED
    BY <1>0, <1>1, <2>7, StepTrans
<1>5. call \in Ends => call \in {"ShutdownEngine", "FinishDebugger"}
  BY DEF Ends
<1> QED
  BY <1>2, <1>3, <1>4, <1>5

-----------------------------------------------------------------------------
(* The inductive invariant: the engine is good, and no program outlives its   *)
(* gdb, so a gdb that is gone cannot be waited for with an interrupt.         *)
Safe ==
  /\ Good(d)
  /\ d.proc = "Ended" => inferior = "none"
  /\ inferior \in {"none", "stopped", "running"}
  /\ out \in Seq(Line)
  /\ events \in 0..MaxEvents

(* A step of the application or of the user, seen from the run control. *)
LEMMA BecomesStep ==
  ASSUME Safe, NEW e, Step(d, e), Becomes(e), out' \in Seq(Line), events' \in 0..MaxEvents
  PROVE  Safe' /\ Keeps(d, d')
<1>1. d' = e /\ inferior' = IF e.proc = "Ended" THEN "none" ELSE inferior
  BY DEF Becomes
<1>2. Good(d)' /\ Keeps(d, d')
  BY <1>1 DEF Step, Good, Accounts, Promises, Has
<1> QED
  BY <1>1, <1>2 DEF Safe

(* gdb's own steps touch the process, the pipe and the interrupt. *)
LEMMA GdbStep ==
  ASSUME Safe, d' \in Engine, d'.state = d.state, d'.attached = d.attached,
         d'.running = d.running, d'.posted = d.posted, d'.starts = d.starts,
         d'.reports = d.reports, d.proc # "NotRunning" => d'.proc # "NotRunning",
         d'.proc = "Ended" => inferior' = "none",
         inferior' \in {"none", "stopped", "running"},
         out' \in Seq(Line), events' \in 0..MaxEvents
  PROVE  Safe' /\ Keeps(d, d')
<1>1. Step(d, d')
  BY Similar DEF Safe
<1>2. Good(d)' /\ Keeps(d, d')
  BY <1>1 DEF Step, Good, Accounts, Promises, Has
<1> QED
  BY <1>2 DEF Safe

LEMMA Events == ASSUME Safe, Event PROVE events' \in 0..MaxEvents
  BY BoundsAssumption DEF Safe, Event

(* What gdb writes is lines. *)
LEMMA Lines ==
  ASSUME NEW c \in Cmd, NEW class \in ResultClass
  PROVE  /\ <<Answer(c, class)>> \in Seq(Line) /\ <<GroupExited>> \in Seq(Line)
         /\ <<Answer(c, class), Running>> \in Seq(Line)
         /\ <<GroupExited, Answer(c, class)>> \in Seq(Line)
         /\ <<GroupExited, Stopped("exited")>> \in Seq(Line)
         /\ <<Stopped("hit")>> \in Seq(Line) /\ <<>> \in Seq(Line)
<1>1. Answer(c, class) \in Line
  BY DEF Answer, Line
<1>2. GroupExited \in Line /\ Running \in Line
  BY DEF GroupExited, Running, Line
<1>3. Stopped("exited") \in Line /\ Stopped("hit") \in Line
  BY DEF Stopped, Line, Reason
<1> HIDE DEF Line
<1> QED
  BY <1>1, <1>2, <1>3

LEMMA EmitType ==
  ASSUME out \in Seq(Line), NEW lines \in Seq(Line), Emit(lines)
  PROVE  out' \in Seq(Line)
  BY DEF Emit

-----------------------------------------------------------------------------
(* The application. *)
LEMMA ApplicationStep ==
  ASSUME Safe, Application
  PROVE  Safe' /\ Keeps(d, d')
<1>0. Good(d) /\ out \in Seq(Line) /\ events \in 0..MaxEvents
  BY DEF Safe
<1>1. CASE EventLoop
  <2>1. d.posted # <<>> /\ out' \in Seq(Line) /\ events' \in 0..MaxEvents
    BY <1>0, <1>1 DEF EventLoop
  <2>2. CASE Head(d.posted) = "SetupEngine"
    <3>1. Becomes(SetupEngine(Next1)) \/ Becomes(NotifyEngineSetupFailed(Next1))
      BY <1>1, <2>2 DEF EventLoop
    <3>2. Step(d, SetupEngine(Next1)) /\ Step(d, NotifyEngineSetupFailed(Next1))
      BY <1>0, <2>1, <2>2, SetupStep
    <3> QED
      BY <2>1, <3>1, <3>2, BecomesStep
  <2>3. CASE Head(d.posted) # "SetupEngine"
    <3>1. Becomes(Perform(Next1, Head(d.posted)))
      BY <1>1, <2>3 DEF EventLoop
    <3>2. Step(d, Perform(Next1, Head(d.posted)))
      BY <1>0, <2>1, <2>3, PerformStep
    <3> QED
      BY <2>1, <3>1, <3>2, BecomesStep
  <2> QED
    BY <2>2, <2>3
<1>2. CASE ReadGdbStandardOutput
  <2>1. /\ out # <<>> /\ out' = Tail(out) /\ events' = events
        /\ Becomes(HandleLine(d, Head(out)))
    BY <1>2 DEF ReadGdbStandardOutput
  <2>2. out' \in Seq(Line)
    BY <1>0, <2>1
  <2>3. Step(d, HandleLine(d, Head(out)))
    BY <1>0, LineStep
  <2> QED
    BY <1>0, <2>1, <2>2, <2>3, BecomesStep
<1>3. CASE HandleGdbFinished
  <2> DEFINE f == [d EXCEPT !.proc = "NotRunning", !.wire = <<>>]
  <2>1. /\ d.proc = "Ended" /\ out' = out /\ events' = events
        /\ Becomes(NotifyDebuggerProcessFinished(f, Reached))
    BY <1>3 DEF HandleGdbFinished
  <2>2. Reached = FALSE
    BY <2>1 DEF Safe, Reached
  <2>3. d \in Engine /\ <<>> \in Seq(Cmd)
    BY <1>0 DEF Good
  <2>4. /\ f \in Engine /\ f.state = d.state /\ f.attached = d.attached
        /\ f.running = d.running /\ f.posted = d.posted /\ f.starts = d.starts
        /\ f.reports = d.reports
    BY <2>3 DEF Engine
  <2> HIDE DEF f
  <2>5. /\ Accounts(f) /\ Keeps(d, f) /\ Accounts(d)
        /\ f.state = "DebuggerFinished" /\ f.running => Has(f, {"FinishDebugger"})
    BY <1>0, <2>4 DEF Good, Accounts, Promises, Has, Keeps
  <2>6. Step(f, NotifyDebuggerProcessFinished(f, FALSE))
    BY <2>4, <2>5, ProcessFinishedStep
  <2>7. Step(d, NotifyDebuggerProcessFinished(f, FALSE))
    BY <2>3, <2>4, <2>5, <2>6, StepTrans
  <2> QED
    BY <1>0, <2>1, <2>2, <2>7, BecomesStep
<1> QED
  BY <1>1, <1>2, <1>3 DEF Application

(* The watchdog and its message box. *)
LEMMA WatchdogStep ==
  ASSUME Safe, CommandTimeout \/ \E stop \in BOOLEAN : AnswerBox(stop)
  PROVE  Safe' /\ Keeps(d, d')
<1>0. Good(d) /\ out \in Seq(Line) /\ events \in 0..MaxEvents
  BY DEF Safe
<1>1. CASE CommandTimeout
  <2>1. Becomes([d EXCEPT !.box = TRUE]) /\ out' = out /\ Event
    BY <1>1 DEF CommandTimeout
  <2> QED
    BY <1>0, <2>1, Untouched, Events, BecomesStep
<1>2. CASE \E stop \in BOOLEAN : AnswerBox(stop)
  <2> DEFINE f == [d EXCEPT !.box = FALSE]
             k == KillGdb(f)
  <2>1. /\ Becomes(NotifyEngineShutdownFailed(k)) \/ Becomes(f)
        /\ out' = out /\ events' = events
    BY <1>2 DEF AnswerBox
  <2>2. Step(d, f)
    BY <1>0, Untouched
  <2>3. Good(f)
    BY <2>2 DEF Step
  <2> HIDE DEF f
  <2>4. Step(f, k)
    BY <2>3, Untouched
  <2>5. Step(d, k) /\ Good(k)
    BY <1>0, <2>2, <2>4, Follows DEF Step
  <2> HIDE DEF k
  <2>6. Step(k, NotifyEngineShutdownFailed(k))
    BY <2>5, NotifySteps
  <2>7. Step(d, NotifyEngineShutdownFailed(k))
    BY <1>0, <2>5, <2>6, Follows
  <2> QED
    BY <1>0, <2>1, <2>2, <2>7, BecomesStep
<1> QED
  BY <1>1, <1>2

-----------------------------------------------------------------------------
(* The user: a start opens a session, everything else keeps it. *)
LEMMA StartStep ==
  ASSUME Safe, Start
  PROVE  Safe' /\ d.reports = d.starts /\ d'.starts = d.starts + 1 /\ d'.reports = d.reports
<1> DEFINE f == [d EXCEPT !.dirty = TRUE,
                    !.overlap = @ \/ d.proc # "NotRunning" \/ d.posted # <<>>]
           k == [f EXCEPT !.running = TRUE, !.starts = @ + 1]
           g == [k EXCEPT !.attached = TRUE, !.target = "DebuggerNotReady"]
           h == Queue(g, "EngineSetupRequested", "SetupEngine")
<1>1. ~d.running /\ Becomes(StartDebugger(f)) /\ out' = out /\ events' = events
  BY DEF Start
<1>2. /\ d \in Engine /\ Accounts(d) /\ out \in Seq(Line) /\ events \in 0..MaxEvents
      /\ inferior \in {"none", "stopped", "running"}
  BY DEF Safe, Good
<1>3. /\ f \in Engine /\ f.attached = d.attached /\ f.running = d.running
      /\ f.starts = d.starts /\ f.reports = d.reports /\ f.posted = d.posted
  BY <1>2 DEF Engine
<1> HIDE DEF f
<1>4. ~f.attached
  BY <1>1, <1>2, <1>3 DEF Accounts
<1>5. ~k.attached
  BY <1>3, <1>4 DEF Engine
<1>6. StartDebugger(f) = h
  BY <1>5 DEF StartDebugger, QueueSetupEngine
<1>7. /\ g \in Engine /\ g.attached /\ g.running /\ g.starts = d.starts + 1
      /\ g.reports = d.reports
  <2>1. k.starts = f.starts + 1 /\ f.starts \in Nat
    BY <1>3 DEF Engine
  <2>2. k.starts \in Nat
    BY <2>1
  <2>3. k = [f EXCEPT !.running = TRUE, !.starts = k.starts]
    BY <2>1
  <2> DEFINE n == k.starts
  <2> HIDE DEF n
  <2>4. n \in Nat /\ k = [f EXCEPT !.running = TRUE, !.starts = n]
    BY <2>2, <2>3 DEF n
  <2>5. /\ k \in Engine /\ k.running /\ k.reports = f.reports
    BY <1>3, <2>4 DEF Engine
  <2> HIDE DEF k
  <2>6. /\ g \in Engine /\ g.attached /\ g.running = k.running /\ g.starts = k.starts
        /\ g.reports = k.reports
    BY <2>5 DEF Engine
  <2> QED
    BY <1>3, <2>1, <2>5, <2>6
<1> HIDE DEF g
<1>8. g.posted \in Seq(Call) /\ "SetupEngine" \in Call
  BY <1>7 DEF Engine, Call
<1>9. /\ h.posted = Append(g.posted, "SetupEngine") /\ h.state = "EngineSetupRequested"
      /\ h.attached = g.attached /\ h.running = g.running /\ h.starts = g.starts
      /\ h.reports = g.reports
  BY <1>7 DEF Queue, Engine
<1>10. h \in Engine
  BY <1>7, <1>8, <1>9, HasAppend DEF Queue, Engine, DebuggerState
<1> HIDE DEF h
<1>11. Has(h, Ends)
  BY <1>8, <1>9, HasAppend DEF Has, Ends
<1>12. d.reports = d.starts
  BY <1>1, <1>2 DEF Accounts
<1>13. Good(h)
  BY <1>7, <1>9, <1>10, <1>11, <1>12 DEF Good, Accounts, Promises, Engine
<1>14. d' = h /\ inferior' = IF h.proc = "Ended" THEN "none" ELSE inferior
  BY <1>1, <1>6 DEF Becomes
<1>15. Good(d)'
  BY <1>13, <1>14 DEF Good, Accounts, Promises, Has
<1> QED
  BY <1>1, <1>2, <1>7, <1>9, <1>12, <1>14, <1>15 DEF Safe

LEMMA UserStep ==
  ASSUME Safe, Stop \/ AbortDebugger \/ Continue \/ Interrupt \/ ChangeBreakpoint
                 \/ SynchronizeBreakpoints
  PROVE  Safe' /\ Keeps(d, d')
<1>0. Good(d) /\ out \in Seq(Line) /\ events \in 0..MaxEvents /\ Reached \in BOOLEAN
  BY DEF Safe, Reached
<1>1. CASE Stop
  <2>1. Becomes(QuitDebugger(d, Reached)) /\ out' = out /\ Event
    BY <1>1 DEF Stop
  <2> QED
    BY <1>0, <2>1, QuitStep, Events, BecomesStep
<1>2. CASE AbortDebugger
  <2>1. Becomes(KillGdb(d)) \/ Becomes(QuitDebugger(d, Reached))
    BY <1>2 DEF AbortDebugger
  <2>2. out' = out /\ Event
    BY <1>2 DEF AbortDebugger
  <2>3. Step(d, KillGdb(d)) /\ Step(d, QuitDebugger(d, Reached))
    BY <1>0, Untouched, QuitStep
  <2> QED
    BY <1>0, <2>1, <2>2, <2>3, Events, BecomesStep
<1>3. CASE Continue
  <2>1. Becomes(ContinueInferiorInternal(d)) /\ out' = out /\ Event
    BY <1>3 DEF Continue
  <2> QED
    BY <1>0, <2>1, ContinueStep, Events, BecomesStep
<1>4. CASE Interrupt
  <2>1. Becomes(DoInterruptInferior(d, Reached)) /\ out' = out /\ Event
    BY <1>4 DEF Interrupt
  <2> QED
    BY <1>0, <2>1, InterruptStep, Events, BecomesStep
<1>5. CASE ChangeBreakpoint
  <2>1. Becomes([d EXCEPT !.dirty = TRUE]) /\ out' = out /\ Event
    BY <1>5 DEF ChangeBreakpoint
  <2> QED
    BY <1>0, <2>1, Untouched, Events, BecomesStep
<1>6. CASE SynchronizeBreakpoints
  <2>1. Becomes(Synchronize(d)) /\ out' = out /\ events' = events
    BY <1>6 DEF SynchronizeBreakpoints
  <2> QED
    BY <1>0, <2>1, SynchronizeStep, BecomesStep
<1> QED
  BY <1>1, <1>2, <1>3, <1>4, <1>5, <1>6

-----------------------------------------------------------------------------
(* What gdb and the program do leaves the session as it is. *)
LEMMA GdbReadsStep ==
  ASSUME Safe, GdbReads
  PROVE  Safe' /\ Keeps(d, d')
<1> DEFINE c == Head(d.wire)
           read == [d EXCEPT !.wire = Tail(@)]
<1>0. /\ d \in Engine /\ out \in Seq(Line) /\ events \in 0..MaxEvents
      /\ inferior \in {"none", "stopped", "running"}
  BY DEF Safe, Good
<1>1. d.proc = "Running" /\ d.wire # <<>> /\ events' = events
  BY DEF GdbReads
<1>2. c \in Cmd /\ Tail(d.wire) \in Seq(Cmd)
  BY <1>0, <1>1 DEF Engine
<1> DEFINE w == Tail(d.wire)
<1>3. read = [d EXCEPT !.wire = w]
  OBVIOUS
<1> HIDE DEF w
<1>4. /\ read \in Engine /\ read.state = d.state /\ read.attached = d.attached
      /\ read.running = d.running /\ read.posted = d.posted /\ read.starts = d.starts
      /\ read.reports = d.reports /\ read.proc = d.proc
  BY <1>0, <1>2, <1>3 DEF Engine, w
<1> DEFINE taken == [read EXCEPT !.interrupt = FALSE]
           gone == [read EXCEPT !.proc = "Ended", !.interrupt = FALSE]
<1>5. \/ d' \in {read, taken}
      \/ d' = gone /\ inferior' = "none"
  BY DEF GdbReads
<1>6. inferior' \in {"none", "stopped", "running"}
  BY <1>0 DEF GdbReads, GdbRuns
<1>7. out' \in Seq(Line)
  <2>1. \A class \in ResultClass :
          /\ <<Answer(c, class)>> \in Seq(Line)
          /\ <<Answer(c, class), Running>> \in Seq(Line)
          /\ <<GroupExited, Answer(c, class)>> \in Seq(Line)
    BY <1>2, Lines
  <2>2. <<>> \in Seq(Line) /\ <<GroupExited>> \in Seq(Line)
    BY <1>2, Lines DEF ResultClass
  <2>3. {"done", "running", "exit", "error", "runFailed", "ignored"} = ResultClass
    BY DEF ResultClass
  <2>4. \A one, two \in Seq(Line) : one \o two \in Seq(Line)
    OBVIOUS
  <2>5. ASSUME GdbRuns(c) PROVE out' \in Seq(Line)
    <3> DEFINE before == IF c = "run" /\ inferior # "none" THEN <<GroupExited>> ELSE <<>>
               lines == before \o <<Answer(c, "running"), Running>>
    <3>1. before \in Seq(Line)
      BY <2>2
    <3>2. lines \in Seq(Line)
      BY <2>1, <2>3, <2>4, <3>1
    <3>3. \/ Emit(lines)
          \/ \E class \in {"error", "runFailed", "ignored"} : Emit(<<Answer(c, class)>>)
      BY <2>5 DEF GdbRuns
    <3> QED
      BY <1>0, <2>1, <2>3, <3>2, <3>3, EmitType
  <2>6. \/ GdbRuns(c)
        \/ \E class \in ResultClass :
             Emit(<<Answer(c, class)>>) \/ Emit(<<GroupExited, Answer(c, class)>>)
        \/ Emit(<<>>)
    BY <2>3 DEF GdbReads
  <2> QED
    BY <1>0, <2>1, <2>2, <2>5, <2>6, EmitType
<1> HIDE DEF read
<1>8. /\ taken \in Engine /\ taken.state = d.state /\ taken.attached = d.attached
      /\ taken.running = d.running /\ taken.posted = d.posted /\ taken.starts = d.starts
      /\ taken.reports = d.reports /\ taken.proc = d.proc
  BY <1>4 DEF Engine
<1>9. /\ gone \in Engine /\ gone.state = d.state /\ gone.attached = d.attached
      /\ gone.running = d.running /\ gone.posted = d.posted /\ gone.starts = d.starts
      /\ gone.reports = d.reports /\ gone.proc = "Ended"
  BY <1>4 DEF Engine
<1> HIDE DEF taken, gone
<1>10. /\ d' \in Engine /\ d'.state = d.state /\ d'.attached = d.attached
       /\ d'.running = d.running /\ d'.posted = d.posted /\ d'.starts = d.starts
       /\ d'.reports = d.reports /\ d'.proc # "NotRunning"
       /\ d'.proc = "Ended" => inferior' = "none"
  BY <1>1, <1>4, <1>5, <1>8, <1>9
<1> QED
  BY <1>0, <1>1, <1>6, <1>7, <1>10, GdbStep

LEMMA ProgramStep ==
  ASSUME Safe, TakesInterrupt \/ ProgramStops \/ ProgramExits \/ GdbDies
  PROVE  Safe' /\ Keeps(d, d')
<1> DEFINE taken == [d EXCEPT !.interrupt = FALSE]
           gone == [d EXCEPT !.proc = "Ended", !.interrupt = FALSE]
<1>0. /\ d \in Engine /\ out \in Seq(Line) /\ events \in 0..MaxEvents
      /\ inferior \in {"none", "stopped", "running"}
  BY DEF Safe, Good
<1>1. /\ d.proc = "Running" /\ inferior' \in {"none", "stopped"}
      /\ \/ d' \in {d, taken}
         \/ d' = gone /\ inferior' = "none"
  BY DEF TakesInterrupt, ProgramStops, ProgramExits, GdbDies
<1>2. out' \in Seq(Line)
  <2>1. <<Stopped("hit")>> \in Seq(Line) /\ <<GroupExited, Stopped("exited")>> \in Seq(Line)
    BY Lines DEF Cmd, ResultClass
  <2>2. \/ Emit(<<Stopped("hit")>>) \/ Emit(<<GroupExited, Stopped("exited")>>)
        \/ out' = out
    BY DEF TakesInterrupt, ProgramStops, ProgramExits, GdbDies
  <2> QED
    BY <1>0, <2>1, <2>2, EmitType
<1>3. events' \in 0..MaxEvents
  BY <1>0, Events DEF TakesInterrupt, ProgramStops, ProgramExits, GdbDies
<1>4. /\ taken \in Engine /\ taken.state = d.state /\ taken.attached = d.attached
      /\ taken.running = d.running /\ taken.posted = d.posted /\ taken.starts = d.starts
      /\ taken.reports = d.reports /\ taken.proc = d.proc
  BY <1>0 DEF Engine
<1>5. /\ gone \in Engine /\ gone.state = d.state /\ gone.attached = d.attached
      /\ gone.running = d.running /\ gone.posted = d.posted /\ gone.starts = d.starts
      /\ gone.reports = d.reports /\ gone.proc = "Ended"
  BY <1>0 DEF Engine
<1> HIDE DEF taken, gone
<1>6. /\ d' \in Engine /\ d'.state = d.state /\ d'.attached = d.attached
      /\ d'.running = d.running /\ d'.posted = d.posted /\ d'.starts = d.starts
      /\ d'.reports = d.reports /\ d'.proc # "NotRunning"
      /\ d'.proc = "Ended" => inferior' = "none"
  BY <1>0, <1>1, <1>4, <1>5
<1> QED
  BY <1>0, <1>1, <1>2, <1>3, <1>6, GdbStep

-----------------------------------------------------------------------------
(* Every step keeps Safe, and is a step of the session or none. *)
LEMMA SafeInit == Init => Safe
<1> SUFFICES ASSUME Init PROVE Safe
  OBVIOUS
<1>1. d = InitEngine /\ inferior = "none" /\ out = <<>> /\ events = 0
  BY DEF Init
<1>2. <<>> \in Seq(Call) /\ <<>> \in Seq(Cmd) /\ <<>> \in Seq(Line)
  OBVIOUS
<1>3. InitEngine \in Engine
  BY <1>2 DEF InitEngine, Engine, DebuggerState
<1>4. Accounts(InitEngine) /\ Promises(InitEngine) /\ InitEngine.proc = "NotRunning"
  BY DEF InitEngine, Accounts, Promises
<1> QED
  BY <1>1, <1>2, <1>3, <1>4, BoundsAssumption DEF Safe, Good

LEMMA SafeNext == Safe /\ [Next]_vars => Safe' /\ [Session!SNext]_(Session!svars)
<1> SUFFICES ASSUME Safe, [Next]_vars
             PROVE  Safe' /\ [Session!SNext]_(Session!svars)
  OBVIOUS
<1>1. d.running => d.reports < d.starts
  BY DEF Safe, Good, Accounts, Engine
<1>2. ASSUME Safe', Keeps(d, d') PROVE Safe' /\ [Session!SNext]_(Session!svars)
  BY <1>1, <1>2 DEF Keeps, Session!SNext, Session!ReportFinished, Session!svars
<1>3. CASE Start
  BY <1>3, StartStep DEF Session!SNext, Session!StartSession
<1>4. CASE Application
  BY <1>4, <1>2, ApplicationStep
<1>5. CASE CommandTimeout \/ \E stop \in BOOLEAN : AnswerBox(stop)
  BY <1>5, <1>2, WatchdogStep
<1>6. CASE Stop \/ AbortDebugger \/ Continue \/ Interrupt \/ ChangeBreakpoint
             \/ SynchronizeBreakpoints
  BY <1>6, <1>2, UserStep
<1>7. CASE GdbReads
  BY <1>7, <1>2, GdbReadsStep
<1>8. CASE TakesInterrupt \/ ProgramStops \/ ProgramExits \/ GdbDies
  BY <1>8, <1>2, ProgramStep
<1>9. CASE UNCHANGED vars
  <2>1. Safe'
    BY <1>9 DEF Safe, Good, Accounts, Promises, Has, vars
  <2> QED
    BY <1>9, <2>1 DEF vars, Session!svars
<1> QED
  BY <1>3, <1>4, <1>5, <1>6, <1>7, <1>8, <1>9 DEF Next, Application, User, Gdb

(* Whatever the user, gdb and the program do, in whatever order the answers   *)
(* come: Safe holds.                                                          *)
THEOREM SafeInvariant == Spec => []Safe
<1>1. Safe /\ [Next]_vars => Safe'
  BY SafeNext
<1> QED
  BY SafeInit, <1>1, PTL DEF Spec

(* The engine's fields, the program and gdb's output are what they should be  *)
(* (debuggerengine.cpp, gdbengine.cpp).                                       *)
THEOREM TypeCorrect == Spec => []TypeOK
<1>1. Safe => TypeOK
  BY DEF Safe, Good, TypeOK
<1> QED
  BY <1>1, SafeInvariant, PTL

(* A run control that still runs when its debugger is finished has the report *)
(* on its way (queueFinishDebugger, doFinishDebugger).                        *)
THEOREM FinishReported == Spec => []FinishIsReported
<1>1. Safe => FinishIsReported
  BY DEF Safe, Good, Promises, Has, FinishIsReported
<1> QED
  BY <1>1, SafeInvariant, PTL

(* A run control whose gdb does not run is never left without a call that     *)
(* starts gdb or ends the session (notifyDebuggerProcessFinished).            *)
THEOREM NotStranded == Spec => []NeverStranded
<1>1. Safe => NeverStranded
  BY DEF Safe, Good, Promises, Has, Ends, NeverStranded
<1> QED
  BY <1>1, SafeInvariant, PTL

(* GdbEngine implements DebugSession: every start is reported as finished at  *)
(* most once, and nothing is reported that was not started.                   *)
THEOREM Implements == Spec => ImplementsSession
<1>1. Init => Session!SInit
  BY DEF Init, InitEngine, Session!SInit
<1>2. Safe /\ [Next]_vars => [Session!SNext]_(Session!svars)
  BY SafeNext
<1> QED
  BY <1>1, <1>2, SafeInvariant, PTL DEF Spec, ImplementsSession, Session!SSpec

-----------------------------------------------------------------------------
(* The order of the set-up.  No: a sequence has none of a set; One: it has    *)
(* one at most.                                                              *)
No(s, T) == \A i \in DOMAIN s : s[i] \notin T
One(s, T) == \A i, j \in DOMAIN s : s[i] \in T /\ s[j] \in T => i = j

LEMMA TailNo ==
  ASSUME NEW S, NEW s \in Seq(S), s # <<>>, NEW T
  PROVE  /\ Tail(s) \in Seq(S) /\ Head(s) \in S /\ Len(Tail(s)) = Len(s) - 1
         /\ No(s, T) => No(Tail(s), T) /\ Head(s) \notin T
         /\ One(s, T) => One(Tail(s), T)
         /\ One(s, T) /\ Head(s) \in T => No(Tail(s), T)
<1> DEFINE r == Tail(s)
<1>1. /\ Len(s) \in Nat \ {0} /\ DOMAIN s = 1..Len(s) /\ Len(r) = Len(s) - 1
      /\ DOMAIN r = 1..Len(r) /\ \A i \in 1..Len(r) : r[i] = s[i + 1]
      /\ Head(s) = s[1] /\ r \in Seq(S) /\ Head(s) \in S
  OBVIOUS
<1> HIDE DEF r
<1>2. \A i \in DOMAIN r : i + 1 \in DOMAIN s /\ r[i] = s[i + 1] /\ i \in Nat \ {0}
  BY <1>1
<1>3. 1 \in DOMAIN s
  BY <1>1
<1>4. No(s, T) => No(r, T) /\ Head(s) \notin T
  BY <1>1, <1>2, <1>3 DEF No
<1>5. ASSUME One(s, T), NEW i \in DOMAIN r, NEW j \in DOMAIN r, r[i] \in T, r[j] \in T
      PROVE  i = j
  <2>1. i + 1 = j + 1
    BY <1>5, <1>2 DEF One
  <2> QED
    BY <2>1, <1>2
<1>6. ASSUME One(s, T), Head(s) \in T, NEW i \in DOMAIN r, r[i] \in T PROVE FALSE
  <2>1. i + 1 = 1
    BY <1>6, <1>1, <1>2, <1>3 DEF One
  <2> QED
    BY <2>1, <1>2
<1> QED
  BY <1>1, <1>4, <1>5, <1>6 DEF No, One, r

LEMMA AppendNo ==
  ASSUME NEW S, NEW s \in Seq(S), NEW c \in S, NEW T
  PROVE  /\ Append(s, c) \in Seq(S) /\ Len(Append(s, c)) = Len(s) + 1
         /\ c \notin T => /\ No(s, T) => No(Append(s, c), T)
                          /\ One(s, T) => One(Append(s, c), T)
         /\ No(s, T) => One(Append(s, c), T)
<1> DEFINE r == Append(s, c)
<1>1. /\ r \in Seq(S) /\ Len(r) = Len(s) + 1 /\ r[Len(s) + 1] = c
      /\ \A i \in 1..Len(s) : r[i] = s[i]
      /\ DOMAIN s = 1..Len(s) /\ DOMAIN r = 1..(Len(s) + 1) /\ Len(s) \in Nat
  OBVIOUS
<1> HIDE DEF r
<1>2. \A i \in DOMAIN r : \/ i \in DOMAIN s /\ r[i] = s[i]
                          \/ i = Len(s) + 1 /\ r[i] = c
  BY <1>1
<1> QED
  BY <1>1, <1>2 DEF No, One, r

LEMMA ConcatNo ==
  ASSUME NEW S, NEW s \in Seq(S), NEW t \in Seq(S), NEW T
  PROVE  /\ s \o t \in Seq(S)
         /\ No(s, T) /\ No(t, T) => No(s \o t, T)
         /\ One(s, T) /\ No(t, T) => One(s \o t, T)
         /\ No(s, T) /\ One(t, T) => One(s \o t, T)
<1> DEFINE r == s \o t
<1>1. /\ r \in Seq(S) /\ Len(s) \in Nat /\ Len(t) \in Nat /\ Len(r) = Len(s) + Len(t)
      /\ DOMAIN s = 1..Len(s) /\ DOMAIN t = 1..Len(t) /\ DOMAIN r = 1..Len(r)
      /\ \A i \in 1..Len(r) : r[i] = IF i <= Len(s) THEN s[i] ELSE t[i - Len(s)]
  OBVIOUS
<1> HIDE DEF r
<1>2. \A i \in DOMAIN r : \/ i \in DOMAIN s /\ r[i] = s[i]
                          \/ i - Len(s) \in DOMAIN t /\ r[i] = t[i - Len(s)] /\ i \in Nat
  BY <1>1
<1>3. No(s, T) /\ No(t, T) => No(r, T)
  BY <1>2 DEF No
<1>4. One(s, T) /\ No(t, T) => One(r, T)
  BY <1>2 DEF No, One
<1>5. ASSUME No(s, T), One(t, T), NEW i \in DOMAIN r, NEW j \in DOMAIN r,
             r[i] \in T, r[j] \in T
      PROVE  i = j
  <2>1. /\ i - Len(s) \in DOMAIN t /\ r[i] = t[i - Len(s)] /\ i \in Nat
        /\ j - Len(s) \in DOMAIN t /\ r[j] = t[j - Len(s)] /\ j \in Nat
    BY <1>2, <1>5 DEF No
  <2>2. i - Len(s) = j - Len(s)
    BY <2>1, <1>5 DEF One
  <2> QED
    BY <2>1, <2>2, <1>1
<1> QED
  BY <1>1, <1>3, <1>4, <1>5 DEF One, r

(* Less of a set is none or one all the more. *)
LEMMA SubsetNo ==
  ASSUME NEW s, NEW T, NEW U \in SUBSET T
  PROVE  (No(s, T) => No(s, U)) /\ (One(s, T) => One(s, U))
  BY DEF No, One

LEMMA NoEmpty == \A T : No(<<>>, T) /\ One(<<>>, T)
  BY DEF No, One

-----------------------------------------------------------------------------
(* The lines that are answers, and those that tell that a program has run.   *)
AnswersTo(C) == [what : {"answer"}, cmd : C, class : ResultClass]

Runs == {"run", "continue"}
Told == [what : {"running"}] \cup [what : {"stopped"}, reason : Reason]

Answered(o) == {i \in DOMAIN o : o[i] \in AnswersTo(Cmd)}

(* What gdb has still to read, and the answers nobody has read yet.          *)
Pending(e, o) == Len(e.wire) + Cardinality(Answered(o))

LEMMA LineKinds ==
  ASSUME NEW l \in Line
  PROVE  /\ l.what = "answer" <=> l \in AnswersTo(Cmd)
         /\ l.what = "answer" => l.cmd \in Cmd /\ \A C : l \in AnswersTo(C) <=> l.cmd \in C
         /\ l.what = "running" \/ l.what = "stopped" <=> l \in Told
         /\ l.what # "answer" => \A C : l \notin AnswersTo(C)
  BY DEF Line, AnswersTo, Told

LEMMA AnsweredFinite ==
  ASSUME NEW o \in Seq(Line)
  PROVE  /\ IsFiniteSet(Answered(o)) /\ Cardinality(Answered(o)) \in Nat
         /\ Cardinality(Answered(o)) = 0 <=> No(o, AnswersTo(Cmd))
<1>1. IsFiniteSet(1..Len(o)) /\ DOMAIN o = 1..Len(o)
  <2>1. Len(o) \in Int /\ 1 \in Int /\ DOMAIN o = 1..Len(o)
    OBVIOUS
  <2> QED
    BY <2>1, FS_Interval
<1>2. Answered(o) \in SUBSET (1..Len(o))
  BY <1>1 DEF Answered
<1>3. IsFiniteSet(Answered(o))
  BY <1>1, <1>2, FS_Subset
<1>4. Answered(o) = {} <=> No(o, AnswersTo(Cmd))
  BY DEF Answered, No
<1> QED
  BY <1>3, <1>4, FS_CardinalityType, FS_EmptySet

LEMMA AnsweredEmpty == Len(<<>>) = 0 /\ Cardinality(Answered(<<>>)) = 0
<1>1. <<>> \in Seq(Line) /\ Len(<<>>) = 0
  OBVIOUS
<1>2. No(<<>>, AnswersTo(Cmd))
  BY NoEmpty
<1> QED
  BY <1>1, <1>2, AnsweredFinite

LEMMA AnsweredTail ==
  ASSUME NEW o \in Seq(Line), o # <<>>
  PROVE  Cardinality(Answered(Tail(o))) =
           Cardinality(Answered(o)) - IF Head(o) \in AnswersTo(Cmd) THEN 1 ELSE 0
<1> DEFINE r == Tail(o)
           A == Answered(o) \ {1}
           f == [i \in A |-> i - 1]
<1>1. /\ Len(o) \in Nat \ {0} /\ DOMAIN o = 1..Len(o) /\ Len(r) = Len(o) - 1
      /\ DOMAIN r = 1..Len(r) /\ \A i \in 1..Len(r) : r[i] = o[i + 1]
      /\ Head(o) = o[1] /\ r \in Seq(Line)
  OBVIOUS
<1> HIDE DEF r
<1>2. \A i \in A : i \in Int /\ i - 1 \in Answered(r)
  <2> SUFFICES ASSUME NEW i \in A PROVE i \in Int /\ i - 1 \in Answered(r)
    OBVIOUS
  <2>1. i \in DOMAIN o /\ o[i] \in AnswersTo(Cmd) /\ i # 1
    BY DEF Answered
  <2>2. i - 1 \in 1..Len(r) /\ i = (i - 1) + 1 /\ i \in Int
    BY <1>1, <2>1
  <2>3. r[i - 1] = o[i]
    BY <1>1, <2>2
  <2> QED
    BY <1>1, <2>1, <2>2, <2>3 DEF Answered
<1>3. \A j \in Answered(r) : j \in Int /\ j + 1 \in A /\ (j + 1) - 1 = j
  BY <1>1 DEF Answered
<1>4. f \in Bijection(A, Answered(r))
  <2>1. f \in [A -> Answered(r)]
    BY <1>2
  <2>2. \A i, j \in A : f[i] = f[j] => i = j
    BY <1>2
  <2>3. \A j \in Answered(r) : \E i \in A : f[i] = j
    <3> SUFFICES ASSUME NEW j \in Answered(r) PROVE \E i \in A : f[i] = j
      OBVIOUS
    <3>1. f[j + 1] = j /\ j + 1 \in A
      BY <1>3
    <3> QED
      BY <3>1
  <2> HIDE DEF f
  <2> QED
    BY <2>1, <2>2, <2>3 DEF Bijection, Injection, Surjection, IsInjective
<1>5. ExistsBijection(A, Answered(r))
  BY <1>4 DEF ExistsBijection
<1>6. /\ IsFiniteSet(A)
      /\ Cardinality(A) = IF 1 \in Answered(o) THEN Cardinality(Answered(o)) - 1
                                               ELSE Cardinality(Answered(o))
  BY AnsweredFinite, FS_RemoveElement
<1>7. Cardinality(Answered(r)) = Cardinality(A)
  BY <1>5, <1>6, FS_Bijection
<1>8. 1 \in Answered(o) <=> Head(o) \in AnswersTo(Cmd)
  BY <1>1 DEF Answered
<1>9. Cardinality(Answered(o)) \in Nat
  BY AnsweredFinite
<1> QED
  BY <1>6, <1>7, <1>8, <1>9 DEF r

(* Lines with one answer at most add one at most. *)
LEMMA AnsweredConcat ==
  ASSUME NEW o \in Seq(Line), NEW l \in Seq(Line), One(l, AnswersTo(Cmd))
  PROVE  /\ Cardinality(Answered(o \o l)) <= Cardinality(Answered(o)) + 1
         /\ No(l, AnswersTo(Cmd)) =>
              Cardinality(Answered(o \o l)) = Cardinality(Answered(o))
<1> DEFINE r == o \o l
<1>1. /\ r \in Seq(Line) /\ Len(o) \in Nat /\ Len(l) \in Nat /\ Len(r) = Len(o) + Len(l)
      /\ DOMAIN o = 1..Len(o) /\ DOMAIN l = 1..Len(l) /\ DOMAIN r = 1..Len(r)
      /\ \A i \in 1..Len(r) : r[i] = IF i <= Len(o) THEN o[i] ELSE l[i - Len(o)]
  OBVIOUS
<1> HIDE DEF r
<1>2. \A i \in DOMAIN o : i \in DOMAIN r /\ r[i] = o[i]
  BY <1>1
<1>3. \A i \in DOMAIN r \ DOMAIN o : i - Len(o) \in DOMAIN l /\ r[i] = l[i - Len(o)]
  BY <1>1
<1>4. IsFiniteSet(Answered(o)) /\ Cardinality(Answered(o)) \in Nat
  BY AnsweredFinite
<1>5. CASE No(l, AnswersTo(Cmd))
  <2>1. Answered(r) = Answered(o)
    BY <1>2, <1>3, <1>5 DEF Answered, No
  <2> QED
    BY <1>4, <2>1 DEF r
<1>6. CASE ~No(l, AnswersTo(Cmd))
  <2>1. PICK k \in DOMAIN l : l[k] \in AnswersTo(Cmd)
    BY <1>6 DEF No
  <2>2. k + Len(o) \in DOMAIN r /\ k + Len(o) \notin DOMAIN o /\ (k + Len(o)) - Len(o) = k
    BY <1>1
  <2>3. r[k + Len(o)] = l[k]
    BY <2>2, <1>3
  <2>4. \A i \in Answered(r) \ DOMAIN o : i = k + Len(o)
    <3> SUFFICES ASSUME NEW i \in Answered(r) \ DOMAIN o PROVE i = k + Len(o)
      OBVIOUS
    <3>1. i \in DOMAIN r /\ r[i] \in AnswersTo(Cmd) /\ i \in Int
      BY <1>1 DEF Answered
    <3>2. i - Len(o) \in DOMAIN l /\ l[i - Len(o)] \in AnswersTo(Cmd)
      BY <3>1, <1>3
    <3>3. i - Len(o) = k
      BY <3>2, <2>1 DEF One
    <3> QED
      BY <3>1, <3>3, <1>1
  <2>5. Answered(r) = Answered(o) \cup {k + Len(o)}
    BY <1>2, <2>1, <2>2, <2>3, <2>4 DEF Answered
  <2>6. Cardinality(Answered(o) \cup {k + Len(o)}) \in
          {Cardinality(Answered(o)), Cardinality(Answered(o)) + 1}
    BY <1>4, FS_AddElement
  <2> QED
    BY <1>4, <1>6, <2>5, <2>6 DEF r
<1> QED
  BY <1>5, <1>6

-----------------------------------------------------------------------------
(* The set-up is one thing on its way: a posted call, a command, its answer   *)
(* that nobody has read, or the callback that waits for the last answer.      *)
Preparing == {"SetupEngine", "SetupInferior", "RunEngine"}
Prepares == {"setup", "file"}

Posts(e) == ~No(e.posted, Preparing)
Asks(e) == ~No(e.wire, Prepares)
Answers(o) == ~No(o, AnswersTo(Prepares))
Live(e, o) == e.callback /\ e.tokens = Pending(e, o)

Idle(e, o) == ~Posts(e) /\ ~Asks(e) /\ ~Answers(o) /\ ~Live(e, o)

Once(e, o) ==
  /\ One(e.posted, Preparing) /\ One(e.wire, Prepares) /\ One(o, AnswersTo(Prepares))
  /\ Posts(e) => ~Asks(e) /\ ~Answers(o) /\ ~Live(e, o)
  /\ Asks(e) => ~Answers(o) /\ ~Live(e, o)
  /\ Answers(o) => ~Live(e, o)

(* Until it is over no program has run, p is "none", and none is told to.     *)
Busy == {"InferiorRunRequested", "InferiorRunOk", "InferiorStopRequested", "InferiorStopOk"}

Quiet(e, o, p) ==
  /\ p = "none" /\ e.state \notin Busy
  /\ No(e.wire, Runs) /\ No(o, AnswersTo(Runs)) /\ No(o, Told)

(* From the posted runEngine() on no breakpoint is told to gdb.              *)
Agreed(e, o) ==
  /\ No(e.wire, {"break"}) /\ No(o, AnswersTo({"break"}))
  /\ e.state # "InferiorSetupRequested"

Order(e, o, p) ==
  /\ Once(e, o)
  /\ Idle(e, o) \/ Quiet(e, o, p)
  /\ No(e.posted, {"RunEngine"}) \/ Agreed(e, o)

Counts(e, o, p) ==
  /\ e.proc = "NotRunning" => e.wire = <<>> /\ o = <<>> /\ p = "none"
  /\ Pending(e, o) <= e.tokens

Fine(e, o, p) ==
  /\ e \in Engine /\ o \in Seq(Line)
  /\ Counts(e, o, p)
  /\ e.overlap \/ Order(e, o, p)

(* The callback is set only while an answer is missing.                      *)
Waits(e) == e.callback => e.tokens # 0

Free(e, o) == e.overlap \/ Idle(e, o)

Unrun(e) == No(e.wire, {"run"})

(* What a member function leaves of the order, the callback and the runs.    *)
Leads(e, f, o, p) ==
  Fine(f, o, p) /\ (Waits(e) => Waits(f)) /\ (Unrun(e) => Unrun(f))

-----------------------------------------------------------------------------
(* A member function that writes nothing and posts no call of the set-up.    *)
Mild(e, f) ==
  /\ f \in Engine
  /\ f.wire = e.wire /\ f.tokens = e.tokens /\ f.callback = e.callback
  /\ f.overlap = e.overlap
  /\ f.proc = e.proc \/ (e.proc # "NotRunning" /\ f.proc # "NotRunning")
  /\ No(e.posted, Preparing) => No(f.posted, Preparing)
  /\ No(e.posted, {"RunEngine"}) => No(f.posted, {"RunEngine"})
  /\ One(e.posted, Preparing) => One(f.posted, Preparing)

(* It does not start to run, to stop, or to set up.                          *)
Calm(e, f) == f.state = e.state \/ f.state \notin Busy \cup {"InferiorSetupRequested"}

LEMMA MildLeads ==
  ASSUME NEW e, NEW f, NEW o, NEW p, Fine(e, o, p), Mild(e, f),
         Calm(e, f) \/ Free(e, o)
  PROVE  /\ Leads(e, f, o, p)
         /\ Free(e, o) => Free(f, o)
         /\ Quiet(e, o, p) /\ Calm(e, f) => Quiet(f, o, p)
<1>1. /\ Pending(f, o) = Pending(e, o) /\ Live(f, o) = Live(e, o) /\ Asks(f) = Asks(e)
      /\ Waits(e) => Waits(f)
      /\ Unrun(e) => Unrun(f)
      /\ Posts(f) => Posts(e)
  BY DEF Mild, Pending, Live, Asks, Waits, Unrun, Posts
<1>2. Counts(f, o, p)
  BY <1>1 DEF Fine, Counts, Mild
<1>3. Idle(e, o) => Idle(f, o)
  BY <1>1 DEF Idle
<1>4. Once(e, o) => Once(f, o)
  BY <1>1 DEF Once, Mild
<1>5. Quiet(e, o, p) /\ Calm(e, f) => Quiet(f, o, p)
  BY DEF Quiet, Calm, Mild
<1>6. Agreed(e, o) /\ Calm(e, f) => Agreed(f, o)
  BY DEF Agreed, Calm, Mild
<1>7. Idle(e, o) => No(e.posted, {"RunEngine"})
  BY SubsetNo DEF Idle, Posts, Preparing
<1>8. No(e.posted, {"RunEngine"}) => No(f.posted, {"RunEngine"})
  BY DEF Mild
<1>9. e.overlap = f.overlap /\ f \in Engine
  BY DEF Mild
<1>10. ~e.overlap => Order(f, o, p)
  BY <1>3, <1>4, <1>5, <1>6, <1>7, <1>8 DEF Fine, Order, Free
<1> QED
  BY <1>1, <1>2, <1>3, <1>5, <1>9, <1>10 DEF Fine, Leads, Free

LEMMA MildTrans ==
  ASSUME NEW e, NEW f, NEW g, Mild(e, f), Mild(f, g)
  PROVE  Mild(e, g)
  BY DEF Mild

LEMMA MildSame == ASSUME NEW e \in Engine PROVE Mild(e, e)
  BY DEF Mild

LEMMA LeadsTrans ==
  ASSUME NEW e, NEW f, NEW g, NEW o, NEW p, Leads(e, f, o, p), Leads(f, g, o, p)
  PROVE  Leads(e, g, o, p)
  BY DEF Leads

LEMMA LeadsSame == ASSUME NEW e, NEW o, NEW p, Fine(e, o, p) PROVE Leads(e, e, o, p)
  BY DEF Leads

(* Queueing a call, setting a state, and the fields the order does not read.  *)
LEMMA QueueMild ==
  ASSUME NEW e \in Engine, NEW s \in DebuggerState, NEW c \in Call \ Preparing
  PROVE  Mild(e, Queue(e, s, c)) /\ Queue(e, s, c).state = s
<1> DEFINE q == Append(e.posted, c)
           f == Queue(e, s, c)
<1>1. /\ q \in Seq(Call)
      /\ No(e.posted, Preparing) => No(q, Preparing)
      /\ No(e.posted, {"RunEngine"}) => No(q, {"RunEngine"})
      /\ One(e.posted, Preparing) => One(q, Preparing)
  <2>1. e.posted \in Seq(Call) /\ c \in Call /\ c \notin Preparing /\ c \notin {"RunEngine"}
    BY DEF Engine, Preparing
  <2> QED
    BY <2>1, AppendNo
<1>2. f.posted = q
  BY DEF Queue, Engine
<1> HIDE DEF q
<1>3. f = [e EXCEPT !.state = s, !.posted = q]
  BY DEF Queue, q
<1> HIDE DEF f
<1>4. /\ f \in Engine /\ f.wire = e.wire /\ f.tokens = e.tokens
      /\ f.callback = e.callback /\ f.overlap = e.overlap /\ f.proc = e.proc
      /\ f.state = s /\ f.posted = q
  BY <1>1, <1>3 DEF Engine
<1> QED
  BY <1>1, <1>4 DEF Mild, f

LEMMA SetStateMild ==
  ASSUME NEW e \in Engine, NEW s \in DebuggerState
  PROVE  Mild(e, SetState(e, s)) /\ SetState(e, s).state = s
<1> DEFINE f == SetState(e, s)
<1>1. /\ f \in Engine /\ f.wire = e.wire /\ f.tokens = e.tokens
      /\ f.callback = e.callback /\ f.overlap = e.overlap /\ f.proc = e.proc
      /\ f.state = s /\ f.posted = e.posted
  BY DEF SetState, Engine
<1> HIDE DEF f
<1> QED
  BY <1>1 DEF Mild, f

LEMMA FieldMild ==
  ASSUME NEW e \in Engine, NEW f \in Engine,
         f.wire = e.wire, f.tokens = e.tokens, f.callback = e.callback,
         f.overlap = e.overlap, f.posted = e.posted, f.state = e.state,
         f.proc = e.proc \/ (e.proc # "NotRunning" /\ f.proc # "NotRunning")
  PROVE  Mild(e, f) /\ Calm(e, f)
  BY DEF Mild, Calm

LEMMA FieldsMild ==
  ASSUME NEW e \in Engine
  PROVE  /\ LET f == [e EXCEPT !.target = "DebuggerFinished"] IN
              Mild(e, f) /\ Calm(e, f) /\ f.state = e.state
         /\ LET f == [e EXCEPT !.interrupt = TRUE] IN
              Mild(e, f) /\ Calm(e, f) /\ f.state = e.state
         /\ LET f == KillGdb(e) IN Mild(e, f) /\ Calm(e, f) /\ f.state = e.state
         /\ LET f == DoFinishDebugger(e) IN Mild(e, f) /\ Calm(e, f) /\ f.state = e.state
         /\ \A b \in BOOLEAN :
              LET f == [e EXCEPT !.temporaryStop = b]
                  g == [e EXCEPT !.dirty = b]
                  h == [e EXCEPT !.box = b] IN
              /\ Mild(e, f) /\ Calm(e, f) /\ f.state = e.state
              /\ Mild(e, g) /\ Calm(e, g) /\ g.state = e.state
              /\ Mild(e, h) /\ Calm(e, h) /\ h.state = e.state
<1>1. LET f == [e EXCEPT !.target = "DebuggerFinished"] IN
        Mild(e, f) /\ Calm(e, f) /\ f.state = e.state
  <2> DEFINE f == [e EXCEPT !.target = "DebuggerFinished"]
  <2>1. /\ f \in Engine /\ f.wire = e.wire /\ f.tokens = e.tokens /\ f.callback = e.callback
        /\ f.overlap = e.overlap /\ f.posted = e.posted /\ f.state = e.state
        /\ f.proc = e.proc
    BY DEF Engine
  <2> HIDE DEF f
  <2>2. Mild(e, f) /\ Calm(e, f) /\ f.state = e.state
    BY <2>1, FieldMild
  <2> QED
    BY <2>2 DEF f
<1>2. LET f == [e EXCEPT !.interrupt = TRUE] IN
        Mild(e, f) /\ Calm(e, f) /\ f.state = e.state
  <2> DEFINE f == [e EXCEPT !.interrupt = TRUE]
  <2>1. /\ f \in Engine /\ f.wire = e.wire /\ f.tokens = e.tokens /\ f.callback = e.callback
        /\ f.overlap = e.overlap /\ f.posted = e.posted /\ f.state = e.state
        /\ f.proc = e.proc
    BY DEF Engine
  <2> HIDE DEF f
  <2>2. Mild(e, f) /\ Calm(e, f) /\ f.state = e.state
    BY <2>1, FieldMild
  <2> QED
    BY <2>2 DEF f
<1>3. LET f == KillGdb(e) IN Mild(e, f) /\ Calm(e, f) /\ f.state = e.state
  <2> DEFINE f == KillGdb(e)
  <2>1. /\ f \in Engine /\ f.wire = e.wire /\ f.tokens = e.tokens /\ f.callback = e.callback
        /\ f.overlap = e.overlap /\ f.posted = e.posted /\ f.state = e.state
        /\ f.proc = e.proc \/ (e.proc # "NotRunning" /\ f.proc # "NotRunning")
    BY DEF Engine, KillGdb
  <2> HIDE DEF f
  <2>2. Mild(e, f) /\ Calm(e, f) /\ f.state = e.state
    BY <2>1, FieldMild
  <2> QED
    BY <2>2 DEF f
<1>4. LET f == DoFinishDebugger(e) IN Mild(e, f) /\ Calm(e, f) /\ f.state = e.state
  <2> DEFINE f == DoFinishDebugger(e)
  <2>1. /\ f \in Engine /\ f.wire = e.wire /\ f.tokens = e.tokens /\ f.callback = e.callback
        /\ f.overlap = e.overlap /\ f.posted = e.posted /\ f.state = e.state
        /\ f.proc = e.proc
    <3>1. CASE e.attached
      <4> DEFINE n == e.reports + 1
      <4>1. n \in Nat /\ f = [e EXCEPT !.running = FALSE, !.attached = FALSE, !.reports = n]
        BY <3>1 DEF Engine, DoFinishDebugger, Report
      <4> HIDE DEF n, f
      <4> QED
        BY <4>1 DEF Engine
    <3>2. CASE ~e.attached
      BY <3>2 DEF DoFinishDebugger
    <3> QED
      BY <3>1, <3>2
  <2> HIDE DEF f
  <2>2. Mild(e, f) /\ Calm(e, f) /\ f.state = e.state
    BY <2>1, FieldMild
  <2> QED
    BY <2>2 DEF f
<1>5. ASSUME NEW b \in BOOLEAN
      PROVE  LET f == [e EXCEPT !.temporaryStop = b]
                 g == [e EXCEPT !.dirty = b]
                 h == [e EXCEPT !.box = b] IN
             /\ Mild(e, f) /\ Calm(e, f) /\ f.state = e.state
             /\ Mild(e, g) /\ Calm(e, g) /\ g.state = e.state
             /\ Mild(e, h) /\ Calm(e, h) /\ h.state = e.state
  <2> DEFINE f == [e EXCEPT !.temporaryStop = b]
             g == [e EXCEPT !.dirty = b]
             h == [e EXCEPT !.box = b]
  <2>1. /\ f \in Engine /\ f.wire = e.wire /\ f.tokens = e.tokens /\ f.callback = e.callback
        /\ f.overlap = e.overlap /\ f.posted = e.posted /\ f.state = e.state
        /\ f.proc = e.proc
    BY DEF Engine
  <2>2. /\ g \in Engine /\ g.wire = e.wire /\ g.tokens = e.tokens /\ g.callback = e.callback
        /\ g.overlap = e.overlap /\ g.posted = e.posted /\ g.state = e.state
        /\ g.proc = e.proc
    BY DEF Engine
  <2>3. /\ h \in Engine /\ h.wire = e.wire /\ h.tokens = e.tokens /\ h.callback = e.callback
        /\ h.overlap = e.overlap /\ h.posted = e.posted /\ h.state = e.state
        /\ h.proc = e.proc
    BY DEF Engine
  <2> HIDE DEF f, g, h
  <2>4. /\ Mild(e, f) /\ Calm(e, f) /\ f.state = e.state
        /\ Mild(e, g) /\ Calm(e, g) /\ g.state = e.state
        /\ Mild(e, h) /\ Calm(e, h) /\ h.state = e.state
    BY <2>1, <2>2, <2>3, FieldMild
  <2> QED
    BY <2>4 DEF f, g, h
<1> QED
  BY <1>1, <1>2, <1>3, <1>4, <1>5

-----------------------------------------------------------------------------
(* The functions that only end things are mild and calm in every state.      *)
LEMMA EndsMild ==
  ASSUME NEW e \in Engine
  PROVE  \A f \in { QueueShutdownEngine(e), QueueShutdownInferior(e), QueueFinishDebugger(e),
                    NotifyEngineSetupFailed(e), NotifyInferiorSetupFailed(e),
                    NotifyEngineRunFailed(e), NotifyInferiorStopFailed(e),
                    NotifyInferiorShutdownFailed(e), NotifyInferiorExited(e),
                    NotifyEngineShutdownOk(e), NotifyEngineShutdownFailed(e),
                    NotifyEngineSpontaneousShutdown(e), NotifyInferiorIll(e) } :
           Mild(e, f) /\ Calm(e, f)
<1>1. \A x \in Engine :
        /\ Mild(x, QueueShutdownEngine(x)) /\ Mild(x, QueueShutdownInferior(x))
        /\ Mild(x, QueueFinishDebugger(x))
        /\ QueueShutdownEngine(x).state = "EngineShutdownRequested"
        /\ QueueShutdownInferior(x).state = "InferiorShutdownRequested"
        /\ QueueFinishDebugger(x).state = "DebuggerFinished"
  <2> SUFFICES ASSUME NEW x \in Engine
               PROVE  /\ Mild(x, QueueShutdownEngine(x)) /\ Mild(x, QueueShutdownInferior(x))
                      /\ Mild(x, QueueFinishDebugger(x))
                      /\ QueueShutdownEngine(x).state = "EngineShutdownRequested"
                      /\ QueueShutdownInferior(x).state = "InferiorShutdownRequested"
                      /\ QueueFinishDebugger(x).state = "DebuggerFinished"
    OBVIOUS
  <2>1. /\ {"EngineShutdownRequested", "InferiorShutdownRequested", "DebuggerFinished"}
             \subseteq DebuggerState
        /\ {"ShutdownEngine", "ShutdownInferior", "FinishDebugger"} \subseteq Call \ Preparing
    BY DEF DebuggerState, Call, Preparing
  <2> QED
    BY <2>1, QueueMild DEF QueueShutdownEngine, QueueShutdownInferior, QueueFinishDebugger
<1>2. /\ Calm(e, QueueShutdownEngine(e)) /\ Calm(e, QueueShutdownInferior(e))
      /\ Calm(e, QueueFinishDebugger(e))
  BY <1>1 DEF Calm, Busy
<1>3. Mild(e, NotifyInferiorIll(e)) /\ Calm(e, NotifyInferiorIll(e))
  <2> DEFINE f == [e EXCEPT !.target = "DebuggerFinished"]
  <2>1. Mild(e, f)
    BY FieldsMild
  <2>2. f \in Engine
    BY <2>1 DEF Mild
  <2>3. NotifyInferiorIll(e) = QueueShutdownInferior(f)
    BY DEF NotifyInferiorIll
  <2> HIDE DEF f
  <2> QED
    BY <1>1, <2>1, <2>2, <2>3, MildTrans DEF Calm, Busy
<1>4. Mild(e, NotifyEngineSetupFailed(e)) /\ Calm(e, NotifyEngineSetupFailed(e))
  <2> DEFINE f == DoFinishDebugger(e)
  <2>1. Mild(e, f)
    BY FieldsMild
  <2>2. f \in Engine
    BY <2>1 DEF Mild
  <2>3. NotifyEngineSetupFailed(e) = SetState(f, "DebuggerFinished")
    BY DEF NotifyEngineSetupFailed, DoFinishDebugger
  <2> HIDE DEF f
  <2>4. "DebuggerFinished" \in DebuggerState
    BY DEF DebuggerState
  <2> QED
    BY <2>1, <2>2, <2>3, <2>4, SetStateMild, MildTrans DEF Calm, Busy
<1> QED
  BY <1>1, <1>2, <1>3, <1>4 DEF NotifyInferiorSetupFailed, NotifyEngineRunFailed,
     NotifyInferiorStopFailed, NotifyInferiorShutdownFailed, NotifyInferiorExited,
     NotifyEngineShutdownOk, NotifyEngineShutdownFailed, NotifyEngineSpontaneousShutdown

(* The others are mild: they are called where the set-up is over.            *)
LEMMA NotifyMild ==
  ASSUME NEW e \in Engine
  PROVE  \A f \in { NotifyEngineRunAndInferiorRunOk(e), NotifyEngineRunAndInferiorStopOk(e),
                    NotifyInferiorRunRequested(e), NotifyInferiorRunOk(e),
                    NotifyInferiorRunFailed(e), NotifyInferiorStopOk(e),
                    NotifyInferiorSpontaneousStop(e), HandleStop(e), e } : Mild(e, f)
<1>1. /\ Mild(e, SetState(e, "InferiorRunOk")) /\ Mild(e, SetState(e, "InferiorStopOk"))
      /\ Mild(e, SetState(e, "InferiorRunRequested"))
  BY SetStateMild DEF DebuggerState
<1>2. Mild(e, e) /\ Mild(e, QueueShutdownInferior(e))
  BY MildSame, EndsMild
<1>3. Mild(e, HandleStop(e))
  <2>1. e.state \in DebuggerState /\ "Stop2" \in Call \ Preparing
    BY DEF Engine, Call, Preparing
  <2>2. HandleStop(e) = Queue(e, e.state, "Stop2")
    BY DEF HandleStop, Queue, Engine
  <2> QED
    BY <2>1, <2>2, QueueMild
<1> QED
  BY <1>1, <1>2, <1>3 DEF NotifyEngineRunAndInferiorRunOk, NotifyEngineRunAndInferiorStopOk,
     NotifyInferiorRunRequested, NotifyInferiorRunOk, NotifyInferiorRunFailed,
     NotifyInferiorStopOk, NotifyInferiorSpontaneousStop

LEMMA InterruptMild ==
  ASSUME NEW e \in Engine, NEW reached \in BOOLEAN
  PROVE  /\ Mild(e, DoInterruptInferior(e, reached))
         /\ ~reached => Calm(e, DoInterruptInferior(e, reached))
<1> DEFINE f == SetState(e, "InferiorStopRequested")
<1>1. Mild(e, f) /\ f \in Engine
  BY SetStateMild DEF DebuggerState, Mild
<1>2. DoInterruptInferior(e, reached) = IF reached THEN [f EXCEPT !.interrupt = TRUE]
                                        ELSE QueueShutdownEngine(f)
  BY DEF DoInterruptInferior, InterruptInferior, NotifyInferiorStopFailed
<1> HIDE DEF f
<1>3. Mild(f, [f EXCEPT !.interrupt = TRUE]) /\ Mild(f, QueueShutdownEngine(f))
  BY <1>1, FieldsMild, EndsMild
<1>4. QueueShutdownEngine(f).state = "EngineShutdownRequested"
  BY <1>1, QueueMild DEF QueueShutdownEngine, DebuggerState, Call, Preparing
<1> QED
  BY <1>1, <1>2, <1>3, <1>4, MildTrans DEF Calm, Busy

LEMMA QuitMild ==
  ASSUME NEW e \in Engine, NEW reached \in BOOLEAN
  PROVE  /\ Mild(e, QuitDebugger(e, reached))
         /\ Calm(e, QuitDebugger(e, reached)) \/ e.state \in Busy
<1> DEFINE f == [e EXCEPT !.target = "DebuggerFinished"]
<1>1. Mild(e, f) /\ f.state = e.state
  BY FieldsMild
<1>2. f \in Engine
  BY <1>1 DEF Mild
<1>3. \/ QuitDebugger(e, reached) \in
          { QueueShutdownInferior(f), NotifyEngineSetupFailed(f),
            NotifyInferiorSetupFailed(f), NotifyEngineRunFailed(f), NotifyInferiorIll(f) }
      \/ QuitDebugger(e, reached) = f
      \/ QuitDebugger(e, reached) = DoInterruptInferior(f, reached) /\ e.state \in Busy
  BY DEF QuitDebugger, Busy
<1> HIDE DEF f
<1>4. CASE QuitDebugger(e, reached) \in
          { QueueShutdownInferior(f), NotifyEngineSetupFailed(f),
            NotifyInferiorSetupFailed(f), NotifyEngineRunFailed(f), NotifyInferiorIll(f) }
  <2>1. Mild(f, QuitDebugger(e, reached)) /\ Calm(f, QuitDebugger(e, reached))
    BY <1>2, <1>4, EndsMild
  <2> QED
    BY <1>1, <2>1, MildTrans DEF Calm
<1>5. CASE QuitDebugger(e, reached) = f
  BY <1>1, <1>5 DEF Calm
<1>6. CASE QuitDebugger(e, reached) = DoInterruptInferior(f, reached) /\ e.state \in Busy
  BY <1>1, <1>2, <1>6, InterruptMild, MildTrans
<1> QED
  BY <1>3, <1>4, <1>5, <1>6

LEMMA ProcessFinishedMild ==
  ASSUME NEW e \in Engine
  PROVE  LET f == NotifyDebuggerProcessFinished(e, FALSE) IN Mild(e, f) /\ Calm(e, f)
<1> DEFINE f == NotifyDebuggerProcessFinished(e, FALSE)
           t == [e EXCEPT !.target = "DebuggerFinished"]
<1>1. Mild(e, t) /\ t.state = e.state
  BY FieldsMild
<1>2. t \in Engine
  BY <1>1 DEF Mild
<1>3. f \in {e, NotifyEngineShutdownOk(e), NotifyEngineSpontaneousShutdown(e),
             DoInterruptInferior(t, FALSE), QueueShutdownEngine(t)}
  BY DEF NotifyDebuggerProcessFinished, NotifyEngineIll
<1> HIDE DEF t
<1>4. \A g \in {DoInterruptInferior(t, FALSE), QueueShutdownEngine(t)} :
        Mild(t, g) /\ Calm(t, g)
  BY <1>2, InterruptMild, EndsMild
<1>5. \A g \in {e, NotifyEngineShutdownOk(e), NotifyEngineSpontaneousShutdown(e)} :
        Mild(e, g) /\ Calm(e, g)
  BY EndsMild, MildSame DEF Calm
<1>6. \A g \in {DoInterruptInferior(t, FALSE), QueueShutdownEngine(t)} :
        Mild(e, g) /\ Calm(e, g)
  <2> SUFFICES ASSUME NEW g \in {DoInterruptInferior(t, FALSE), QueueShutdownEngine(t)}
               PROVE  Mild(e, g) /\ Calm(e, g)
    OBVIOUS
  <2>1. Mild(t, g) /\ Calm(t, g)
    BY <1>4
  <2>2. Mild(e, g)
    BY <1>1, <2>1, MildTrans
  <2> QED
    BY <1>1, <2>1, <2>2 DEF Calm
<1> QED
  BY <1>3, <1>5, <1>6

-----------------------------------------------------------------------------
(* A command that is written.  A run or a command of the set-up is written    *)
(* when the set-up has nothing else on its way, a breakpoint before the run.  *)
Timely(e, o, p, c) ==
  \/ c \in {"threads", "kill", "exit"}
  \/ c = "break" /\ (e.overlap \/ No(e.posted, {"RunEngine"}))
  \/ c \in Runs /\ Free(e, o)
  \/ c \in Prepares /\ (e.overlap \/ (Idle(e, o) /\ Quiet(e, o, p)))

LEMMA WriteLeads ==
  ASSUME NEW e, NEW o, NEW p, Fine(e, o, p), NEW c \in Cmd, Timely(e, o, p, c)
  PROVE  LET f == Write(e, c) IN
         /\ Fine(f, o, p) /\ (Waits(e) => Waits(f))
         /\ c # "run" /\ Unrun(e) => Unrun(f)
         /\ c \notin Prepares /\ Idle(e, o) => Idle(f, o)
         /\ c \notin Runs /\ Quiet(e, o, p) => Quiet(f, o, p)
         /\ f.posted = e.posted /\ f.overlap = e.overlap /\ f.callback = e.callback
         /\ f.state = e.state
<1> DEFINE w == Append(e.wire, c)
           n == e.tokens + 1
           f == Write(e, c)
<1>0. e \in Engine /\ o \in Seq(Line)
  BY DEF Fine
<1>1. CASE e.proc = "NotRunning"
  BY <1>1 DEF Write
<1>2. CASE e.proc # "NotRunning"
  <2>1. /\ w \in Seq(Cmd) /\ Len(w) = Len(e.wire) + 1
        /\ \A T : c \notin T => /\ No(e.wire, T) => No(w, T)
                                /\ One(e.wire, T) => One(w, T)
        /\ \A T : No(e.wire, T) => One(w, T)
    BY <1>0, AppendNo DEF Engine
  <2>2. f = [e EXCEPT !.wire = w, !.tokens = n]
    BY <1>0, <1>2 DEF Write, Engine
  <2>3. n \in Int /\ e.tokens \in Int /\ Len(e.wire) \in Nat
        /\ Cardinality(Answered(o)) \in Nat
    BY <1>0, AnsweredFinite DEF Engine
  <2>4. n = e.tokens + 1 /\ Pending(e, o) \in Nat
    BY <2>3 DEF Pending
  <2> HIDE DEF w, n, f
  <2>5. /\ f \in Engine /\ f.posted = e.posted /\ f.overlap = e.overlap
        /\ f.callback = e.callback /\ f.proc = e.proc /\ f.state = e.state
        /\ f.wire = w /\ f.tokens = n
    BY <1>0, <2>1, <2>2, <2>3 DEF Engine
  <2>6. Pending(f, o) = Pending(e, o) + 1
    BY <2>1, <2>3, <2>5 DEF Pending
  <2>7. Live(f, o) = Live(e, o)
    BY <2>3, <2>4, <2>5, <2>6 DEF Live
  <2>8. Counts(f, o, p)
    BY <1>2, <2>3, <2>4, <2>5, <2>6 DEF Counts, Fine
  <2>9. Waits(e) => Waits(f)
    BY <2>3, <2>4, <2>5 DEF Waits, Counts, Fine
  <2>10. c # "run" /\ Unrun(e) => Unrun(f)
    BY <2>1, <2>5 DEF Unrun
  <2>12. c \notin Prepares /\ Idle(e, o) => Idle(f, o)
    BY <2>1, <2>5, <2>7 DEF Idle, Posts, Asks
  <2>13. c \notin Runs /\ Quiet(e, o, p) => Quiet(f, o, p)
    BY <2>1, <2>5 DEF Quiet
  <2>14. ASSUME ~e.overlap PROVE Order(f, o, p)
    <3>1. Order(e, o, p)
      BY <2>14 DEF Fine
    <3>2. CASE c \in Runs \cup Prepares
      <4>1. Idle(e, o)
        BY <2>14, <3>2 DEF Timely, Free, Runs, Prepares
      <4>2. No(f.posted, {"RunEngine"})
        BY <2>5, <4>1, SubsetNo DEF Idle, Posts, Preparing
      <4>3. One(f.wire, Prepares)
        BY <2>1, <2>5, <4>1 DEF Idle, Asks
      <4>4. Once(f, o)
        BY <2>5, <2>7, <3>1, <4>1, <4>3 DEF Order, Once, Idle, Posts, Answers
      <4>5. CASE c \in Prepares
        <5>1. c \notin Runs
          BY <4>5 DEF Prepares, Runs
        <5>2. Quiet(e, o, p)
          BY <2>14, <4>5 DEF Timely, Prepares, Runs
        <5> QED
          BY <2>13, <4>2, <4>4, <5>1, <5>2 DEF Order
      <4>6. CASE c \notin Prepares
        BY <2>12, <4>1, <4>2, <4>4, <4>6 DEF Order
      <4> QED
        BY <4>5, <4>6
    <3>3. CASE c \notin Runs \cup Prepares
      <4>1. Asks(f) => Asks(e)
        BY <2>1, <2>5, <3>3 DEF Asks
      <4>2. Once(f, o)
        BY <2>1, <2>5, <2>7, <3>1, <3>3, <4>1 DEF Order, Once, Posts
      <4>3. Idle(f, o) \/ Quiet(f, o, p)
        BY <2>12, <2>13, <3>1, <3>3 DEF Order
      <4>4. No(f.posted, {"RunEngine"}) \/ Agreed(f, o)
        <5>1. CASE c = "break"
          BY <2>5, <2>14, <3>3, <5>1 DEF Timely
        <5>2. CASE c # "break"
          BY <2>1, <2>5, <3>1, <5>2 DEF Order, Agreed
        <5> QED
          BY <5>1, <5>2
      <4> QED
        BY <4>2, <4>3, <4>4 DEF Order
    <3> QED
      BY <3>2, <3>3
  <2> QED
    BY <1>0, <2>5, <2>8, <2>9, <2>10, <2>12, <2>13, <2>14 DEF Fine, f
<1> QED
  BY <1>1, <1>2

(* Once a program has run, or is told to, the set-up is over.                *)
LEMMA OverIsFree ==
  ASSUME NEW e, NEW o, NEW p, Fine(e, o, p), ~Quiet(e, o, p)
  PROVE  Free(e, o)
  BY DEF Fine, Order, Free

LEMMA CommandLeads ==
  ASSUME NEW e, NEW o, NEW p, Fine(e, o, p), NEW c \in Cmd, Timely(e, o, p, c)
  PROVE  LET f == RunCommand(e, c) IN
         /\ Fine(f, o, p) /\ (Waits(e) => Waits(f))
         /\ c # "run" /\ Unrun(e) => Unrun(f)
         /\ f.overlap = e.overlap /\ f.callback = e.callback
         /\ c \notin Runs /\ Quiet(e, o, p) => Quiet(f, o, p)
         /\ c \notin Runs \cup Prepares /\ Quiet(e, o, p) /\ Idle(e, o) => Idle(f, o)
<1> DEFINE t == [e EXCEPT !.temporaryStop = TRUE]
           i == DoInterruptInferior(t, Reached)
           f == RunCommand(e, c)
<1>0. e \in Engine
  BY DEF Fine
<1>1. CASE f = e
  BY <1>1
<1>2. CASE f = NotifyInferiorIll(e)
  <2>1. Mild(e, f) /\ Calm(e, f)
    BY <1>0, <1>2, EndsMild
  <2>2. Leads(e, f, o, p) /\ (Quiet(e, o, p) => Quiet(f, o, p)) /\ (Free(e, o) => Free(f, o))
    BY <2>1, MildLeads
  <2>3. f.overlap = e.overlap /\ f.callback = e.callback
    BY <2>1 DEF Mild
  <2>4. Idle(e, o) => Idle(f, o)
    BY <2>1 DEF Mild, Idle, Posts, Asks, Live, Pending
  <2> HIDE DEF f
  <2> QED
    BY <2>2, <2>3, <2>4 DEF Leads, f
<1>3. CASE f = Write(i, c) /\ e.state = "InferiorRunOk" /\ c \in NeedsStop
  <2>1. Mild(e, t)
    BY <1>0, FieldsMild
  <2>2. t \in Engine /\ Reached \in BOOLEAN
    BY <2>1 DEF Mild, Reached
  <2> HIDE DEF t
  <2>3. Mild(t, i)
    BY <2>2, InterruptMild
  <2> HIDE DEF i
  <2>4. Mild(e, i)
    BY <2>1, <2>3, MildTrans
  <2>5. ~Quiet(e, o, p)
    BY <1>3 DEF Quiet, Busy
  <2>6. Leads(e, i, o, p)
    BY <2>4, <2>5, OverIsFree, MildLeads
  <2>7. i.overlap = e.overlap /\ i.callback = e.callback
        /\ (No(e.posted, {"RunEngine"}) => No(i.posted, {"RunEngine"}))
    BY <2>4 DEF Mild
  <2>8. Timely(i, o, p, c)
    BY <1>3, <2>7 DEF Timely, NeedsStop, Runs, Prepares
  <2>9. Fine(i, o, p)
    BY <2>6 DEF Leads
  <2>10. LET g == Write(i, c) IN
         /\ Fine(g, o, p) /\ (Waits(i) => Waits(g))
         /\ c # "run" /\ Unrun(i) => Unrun(g)
         /\ g.overlap = i.overlap /\ g.callback = i.callback
    BY <2>8, <2>9, WriteLeads
  <2> HIDE DEF f
  <2> QED
    BY <1>3, <2>5, <2>6, <2>7, <2>10 DEF Leads, f
<1>4. CASE f = Write(e, c)
  <2>1. LET g == Write(e, c) IN
         /\ Fine(g, o, p) /\ (Waits(e) => Waits(g))
         /\ c # "run" /\ Unrun(e) => Unrun(g)
         /\ c \notin Prepares /\ Idle(e, o) => Idle(g, o)
         /\ c \notin Runs /\ Quiet(e, o, p) => Quiet(g, o, p)
         /\ g.overlap = e.overlap /\ g.callback = e.callback
    BY WriteLeads
  <2> HIDE DEF f
  <2> QED
    BY <1>4, <2>1 DEF f
<1>5. \/ f = e \/ f = NotifyInferiorIll(e) \/ f = Write(e, c)
      \/ f = Write(i, c) /\ e.state = "InferiorRunOk" /\ c \in NeedsStop
  BY DEF RunCommand
<1> QED
  BY <1>1, <1>2, <1>3, <1>4, <1>5

LEMMA SynchronizeLeads ==
  ASSUME NEW e, NEW o, NEW p, Fine(e, o, p)
  PROVE  LET f == Synchronize(e) IN
         /\ Leads(e, f, o, p)
         /\ f.overlap = e.overlap /\ f.callback = e.callback
         /\ Quiet(e, o, p) => Quiet(f, o, p)
         /\ Quiet(e, o, p) /\ Idle(e, o) => Idle(f, o)
<1> DEFINE f == Synchronize(e)
           k == [e EXCEPT !.dirty = FALSE]
<1>1. CASE ~(e.dirty /\ AcceptsBreakpoints(e.state))
  BY <1>1, LeadsSame DEF Synchronize
<1>2. CASE e.dirty /\ AcceptsBreakpoints(e.state)
  <2>1. Mild(e, k) /\ Calm(e, k) /\ f = RunCommand(k, "break")
    BY <1>2, FieldsMild DEF Fine, Synchronize
  <2>2. /\ k.overlap = e.overlap /\ k.callback = e.callback
        /\ No(e.posted, {"RunEngine"}) => No(k.posted, {"RunEngine"})
        /\ Idle(e, o) => Idle(k, o)
    BY <2>1 DEF Mild, Idle, Posts, Asks, Live, Pending
  <2> HIDE DEF k
  <2>3. Leads(e, k, o, p) /\ (Quiet(e, o, p) => Quiet(k, o, p))
    BY <2>1, MildLeads
  <2>4. e.overlap \/ No(e.posted, {"RunEngine"})
    <3> SUFFICES ASSUME ~e.overlap, ~No(e.posted, {"RunEngine"}) PROVE FALSE
      OBVIOUS
    <3>1. Order(e, o, p)
      BY DEF Fine
    <3>2. ~Idle(e, o)
      BY SubsetNo DEF Idle, Posts, Preparing
    <3>3. e.state \notin Busy /\ e.state # "InferiorSetupRequested"
      BY <3>1, <3>2 DEF Order, Quiet, Agreed
    <3> QED
      BY <1>2, <3>3 DEF AcceptsBreakpoints, Busy
  <2>5. Timely(k, o, p, "break") /\ Fine(k, o, p)
    BY <2>2, <2>3, <2>4 DEF Timely, Leads
  <2>6. "break" \in Cmd /\ "break" \notin Runs \cup Prepares /\ "break" # "run"
    BY DEF Cmd, Runs, Prepares
  <2>7. LET g == RunCommand(k, "break") IN
         /\ Fine(g, o, p) /\ (Waits(k) => Waits(g)) /\ (Unrun(k) => Unrun(g))
         /\ g.overlap = k.overlap /\ g.callback = k.callback
         /\ Quiet(k, o, p) => Quiet(g, o, p)
         /\ Quiet(k, o, p) /\ Idle(k, o) => Idle(g, o)
    BY <2>5, <2>6, CommandLeads
  <2> HIDE DEF f
  <2> QED
    BY <2>1, <2>2, <2>3, <2>7 DEF Leads, f
<1> QED
  BY <1>1, <1>2

LEMMA ContinueLeads ==
  ASSUME NEW e, NEW o, NEW p, Fine(e, o, p), Free(e, o)
  PROVE  Leads(e, ContinueInferiorInternal(e), o, p)
<1> DEFINE k == NotifyInferiorRunRequested(e)
<1>1. Mild(e, k)
  BY NotifyMild DEF Fine
<1> HIDE DEF k
<1>2. Leads(e, k, o, p) /\ Free(k, o)
  BY <1>1, MildLeads
<1>3. Timely(k, o, p, "continue") /\ Fine(k, o, p) /\ "continue" \in Cmd
  BY <1>2 DEF Timely, Runs, Leads, Cmd
<1>4. Leads(k, RunCommand(k, "continue"), o, p)
  BY <1>3, CommandLeads DEF Leads
<1>5. Leads(e, RunCommand(k, "continue"), o, p)
  BY <1>2, <1>4, LeadsTrans
<1> QED
  BY <1>5 DEF ContinueInferiorInternal, k

-----------------------------------------------------------------------------
(* Answers.  The set-up goes on to the run when no answer is missing.        *)
LEMMA NothingPending ==
  ASSUME NEW e, NEW o, NEW p, Fine(e, o, p), e.tokens = 0
  PROVE  Pending(e, o) = 0 /\ \A T : No(e.wire, T) /\ No(o, AnswersTo(T \cap Cmd))
<1>1. /\ e.wire \in Seq(Cmd) /\ Len(e.wire) \in Nat /\ Cardinality(Answered(o)) \in Nat
      /\ Pending(e, o) <= 0
  BY AnsweredFinite DEF Fine, Counts, Engine
<1>2. Len(e.wire) = 0 /\ Cardinality(Answered(o)) = 0
  BY <1>1 DEF Pending
<1>3. e.wire = <<>> /\ No(o, AnswersTo(Cmd))
  BY <1>1, <1>2, AnsweredFinite DEF Fine
<1>4. \A T : No(o, AnswersTo(T \cap Cmd))
  BY <1>3 DEF No, AnswersTo
<1>5. \A T : No(e.wire, T)
  BY <1>3, NoEmpty
<1>6. Pending(e, o) = 0
  BY <1>2 DEF Pending
<1> QED
  BY <1>4, <1>5, <1>6

LEMMA FinishLeads ==
  ASSUME NEW e, NEW o, NEW p, Fine(e, o, p), e.tokens = 0,
         e.overlap \/ (~e.callback /\ ~Posts(e) /\ Quiet(e, o, p))
  PROVE  Leads(e, FinishInferiorSetup(e), o, p)
<1> DEFINE f == FinishInferiorSetup(e)
           q == Append(e.posted, "RunEngine")
<1>0. e \in Engine /\ o \in Seq(Line)
  BY DEF Fine
<1>1. /\ q \in Seq(Call) /\ (~Posts(e) => One(q, Preparing))
      /\ "EngineRunRequested" \in DebuggerState
  BY <1>0, AppendNo DEF Engine, Call, Posts, DebuggerState
<1>2. f = [e EXCEPT !.state = "EngineRunRequested", !.posted = q]
  BY <1>0 DEF FinishInferiorSetup, NotifyInferiorSetupOk, QueueRunEngine, Queue, Engine
<1> HIDE DEF q, f
<1>3. /\ f \in Engine /\ f.posted = q /\ f.state = "EngineRunRequested"
      /\ f.wire = e.wire /\ f.tokens = e.tokens /\ f.callback = e.callback
      /\ f.overlap = e.overlap /\ f.proc = e.proc
  BY <1>0, <1>1, <1>2 DEF Engine
<1>4. Counts(f, o, p)
  BY <1>3 DEF Fine, Counts, Pending
<1>5. /\ No(f.wire, Prepares) /\ No(o, AnswersTo(Prepares))
      /\ No(f.wire, {"break"}) /\ No(o, AnswersTo({"break"}))
  <2>1. {"break"} \cap Cmd = {"break"} /\ Prepares \cap Cmd = Prepares
    BY DEF Cmd, Prepares
  <2>2. \A T : No(e.wire, T) /\ No(o, AnswersTo(T \cap Cmd))
    BY NothingPending
  <2>3. No(o, AnswersTo({"break"} \cap Cmd)) /\ No(o, AnswersTo(Prepares \cap Cmd))
    BY <2>2
  <2> QED
    BY <1>3, <2>1, <2>2, <2>3
<1>6. ASSUME ~e.overlap PROVE Order(f, o, p)
  <2>1. One(f.posted, Preparing) /\ Quiet(e, o, p) /\ ~f.callback
    BY <1>1, <1>3, <1>6
  <2>2. Once(f, o)
    BY <1>3, <1>5, <2>1, SubsetNo DEF Once, Asks, Answers, Live, One, No
  <2>3. Quiet(f, o, p)
    BY <1>3, <2>1 DEF Quiet, Busy
  <2>4. Agreed(f, o)
    BY <1>3, <1>5 DEF Agreed
  <2> QED
    BY <2>2, <2>3, <2>4 DEF Order
<1>7. (Waits(e) => Waits(f)) /\ (Unrun(e) => Unrun(f))
  BY <1>3 DEF Waits, Unrun
<1> QED
  BY <1>0, <1>3, <1>4, <1>6, <1>7 DEF Leads, Fine, f

LEMMA SetCallbackFine ==
  ASSUME NEW e, NEW o, NEW p, Fine(e, o, p),
         e.overlap \/ (Idle(e, o) /\ Quiet(e, o, p))
  PROVE  LET f == [e EXCEPT !.callback = TRUE] IN Fine(f, o, p) /\ (Unrun(e) => Unrun(f))
<1> DEFINE f == [e EXCEPT !.callback = TRUE]
<1>1. /\ f \in Engine /\ f.posted = e.posted /\ f.state = e.state
      /\ f.wire = e.wire /\ f.tokens = e.tokens
      /\ f.overlap = e.overlap /\ f.proc = e.proc
  BY DEF Fine, Engine
<1> HIDE DEF f
<1>2. Counts(f, o, p)
  BY <1>1 DEF Fine, Counts, Pending
<1>3. ASSUME ~e.overlap PROVE Order(f, o, p)
  <2>1. Idle(e, o) /\ Quiet(e, o, p) /\ Once(e, o)
    BY <1>3 DEF Fine, Order
  <2>2. Once(f, o)
    BY <1>1, <2>1 DEF Once, Idle, Posts, Asks
  <2>3. Quiet(f, o, p)
    BY <1>1, <2>1 DEF Quiet
  <2>4. No(f.posted, {"RunEngine"})
    BY <1>1, <2>1, SubsetNo DEF Idle, Posts, Preparing
  <2> QED
    BY <2>2, <2>3, <2>4 DEF Order
<1> QED
  BY <1>1, <1>2, <1>3 DEF Fine, Unrun, f

LEMMA ClearCallbackLeads ==
  ASSUME NEW e, NEW o, NEW p, Fine(e, o, p)
  PROVE  LET f == [e EXCEPT !.callback = FALSE] IN
         /\ Leads(e, f, o, p) /\ ~f.callback /\ f \in Engine
         /\ f.posted = e.posted /\ f.tokens = e.tokens /\ f.overlap = e.overlap
         /\ f.proc = e.proc /\ f.wire = e.wire
         /\ Free(e, o) => Free(f, o)
         /\ Quiet(e, o, p) => Quiet(f, o, p)
<1> DEFINE f == [e EXCEPT !.callback = FALSE]
<1>1. /\ f \in Engine /\ f.posted = e.posted /\ f.state = e.state
      /\ f.wire = e.wire /\ f.tokens = e.tokens /\ ~f.callback
      /\ f.overlap = e.overlap /\ f.proc = e.proc
  BY DEF Fine, Engine
<1> HIDE DEF f
<1>2. Counts(f, o, p)
  BY <1>1 DEF Fine, Counts, Pending
<1>3. /\ Idle(e, o) => Idle(f, o)
      /\ Quiet(e, o, p) => Quiet(f, o, p)
  BY <1>1 DEF Idle, Posts, Asks, Live, Quiet
<1>4. ASSUME ~e.overlap PROVE Order(f, o, p)
  <2>1. Once(f, o)
    BY <1>1, <1>4 DEF Fine, Order, Once, Posts, Asks, Live
  <2>2. Agreed(e, o) => Agreed(f, o)
    BY <1>1 DEF Agreed
  <2> QED
    BY <1>1, <1>3, <1>4, <2>1, <2>2 DEF Fine, Order
<1> QED
  BY <1>1, <1>2, <1>3, <1>4 DEF Fine, Leads, Waits, Unrun, Free, f

LEMMA PreparedLeads ==
  ASSUME NEW e, NEW o, NEW p, Fine(e, o, p),
         e.overlap \/ (Idle(e, o) /\ Quiet(e, o, p))
  PROVE  LET f == HandleInferiorPrepared(e) IN Fine(f, o, p) /\ (Unrun(e) => Unrun(f))
<1> DEFINE t == Synchronize(e)
           f == HandleInferiorPrepared(e)
<1>1. /\ Leads(e, t, o, p) /\ t.overlap = e.overlap
      /\ Quiet(e, o, p) => Quiet(t, o, p)
      /\ Quiet(e, o, p) /\ Idle(e, o) => Idle(t, o)
  BY SynchronizeLeads
<1>2. f = IF t.tokens = 0 THEN FinishInferiorSetup(t) ELSE [t EXCEPT !.callback = TRUE]
  BY DEF HandleInferiorPrepared
<1> HIDE DEF t, f
<1>3. Fine(t, o, p) /\ (Unrun(e) => Unrun(t))
  BY <1>1 DEF Leads
<1>4. CASE t.tokens = 0
  <2>1. Pending(t, o) = 0
    BY <1>3, <1>4, NothingPending
  <2>2. t.overlap \/ (~t.callback /\ ~Posts(t) /\ Quiet(t, o, p))
    BY <1>1, <1>4, <2>1 DEF Idle, Live
  <2>3. Leads(t, FinishInferiorSetup(t), o, p)
    BY <1>3, <1>4, <2>2, FinishLeads
  <2> QED
    BY <1>2, <1>3, <1>4, <2>3 DEF Leads, f
<1>5. CASE t.tokens # 0
  <2>1. t.overlap \/ (Idle(t, o) /\ Quiet(t, o, p))
    BY <1>1
  <2> QED
    BY <1>2, <1>3, <1>5, <2>1, SetCallbackFine DEF f
<1> QED
  BY <1>4, <1>5

LEMMA DoneLeads ==
  ASSUME NEW e, NEW o, NEW p, Fine(e, o, p), NEW class
  PROVE  LET f == AllCommandsDone(e, class) IN
           Fine(f, o, p) /\ Waits(f) /\ (Unrun(e) => Unrun(f))
<1> DEFINE k == [e EXCEPT !.callback = FALSE]
           f == AllCommandsDone(e, class)
<1>1. CASE ~(e.callback /\ e.tokens = 0)
  BY <1>1 DEF AllCommandsDone, Waits
<1>2. CASE e.callback /\ e.tokens = 0
  <2>1. /\ Leads(e, k, o, p) /\ ~k.callback /\ k.posted = e.posted /\ k.tokens = 0
        /\ k.overlap = e.overlap
        /\ Quiet(e, o, p) => Quiet(k, o, p)
    BY <1>2, ClearCallbackLeads
  <2>2. f \in {k, FinishInferiorSetup(k)}
    BY <1>2 DEF AllCommandsDone
  <2> HIDE DEF k, f
  <2>3. Fine(k, o, p) /\ (Unrun(e) => Unrun(k)) /\ Waits(k)
    BY <2>1 DEF Leads, Waits
  <2>4. ASSUME ~e.overlap PROVE ~Posts(k) /\ Quiet(k, o, p)
    <3>1. Live(e, o)
      BY <1>2, NothingPending DEF Live
    <3>2. Order(e, o, p)
      BY <2>4 DEF Fine
    <3>3. ~Posts(e) /\ Quiet(e, o, p)
      BY <3>1, <3>2 DEF Order, Once, Idle
    <3> QED
      BY <2>1, <3>3 DEF Posts
  <2>5. Leads(k, FinishInferiorSetup(k), o, p)
    BY <2>1, <2>3, <2>4, FinishLeads
  <2> QED
    BY <2>2, <2>3, <2>5 DEF Leads, f
<1> QED
  BY <1>1, <1>2

(* The first line is read: an answer takes its entry with it.                *)
LEMMA TakenLine ==
  ASSUME NEW e, NEW o, NEW p, Fine(e, o, p), o # <<>>,
         NEW f, f = IF Head(o).what = "answer" THEN [e EXCEPT !.tokens = @ - 1] ELSE e
  PROVE  /\ Fine(f, Tail(o), p) /\ (Unrun(e) => Unrun(f)) /\ f.overlap = e.overlap
         /\ f.callback = e.callback /\ Head(o) \in Line
         /\ Head(o).what = "answer" /\ Head(o).cmd \in Prepares =>
              f.overlap \/ (Idle(f, Tail(o)) /\ Quiet(f, Tail(o), p))
         /\ Head(o).what = "answer" /\ Head(o).cmd \in Runs => Free(f, Tail(o))
         /\ Head(o) \in Told => Free(f, Tail(o))
<1> DEFINE r == Tail(o)
           l == Head(o)
           n == e.tokens - 1
<1>0. e \in Engine /\ o \in Seq(Line) /\ e.tokens \in Int /\ Len(e.wire) \in Nat
  BY DEF Fine, Engine
<1>1. /\ r \in Seq(Line) /\ l \in Line
      /\ \A T : No(o, T) => No(r, T) /\ l \notin T
      /\ \A T : One(o, T) => One(r, T)
      /\ \A T : One(o, T) /\ l \in T => No(r, T)
  BY <1>0, TailNo
<1>2. /\ l.what = "answer" <=> l \in AnswersTo(Cmd)
      /\ l.what = "answer" => \A C : l \in AnswersTo(C) <=> l.cmd \in C
      /\ l.what = "answer" => l \notin Told
  BY <1>1, LineKinds DEF Told
<1>3. Cardinality(Answered(r)) = Cardinality(Answered(o)) - IF l.what = "answer" THEN 1 ELSE 0
  BY <1>0, <1>2, AnsweredTail
<1>4. Cardinality(Answered(r)) \in Nat /\ Cardinality(Answered(o)) \in Nat
  BY <1>0, <1>1, AnsweredFinite
<1>5. n \in Int /\ f = IF l.what = "answer" THEN [e EXCEPT !.tokens = n] ELSE e
  BY <1>0
<1> HIDE DEF r, l
<1>6. /\ f \in Engine /\ f.posted = e.posted /\ f.state = e.state
      /\ f.wire = e.wire /\ f.callback = e.callback
      /\ f.overlap = e.overlap /\ f.proc = e.proc
      /\ f.tokens = e.tokens - IF l.what = "answer" THEN 1 ELSE 0
  <2>1. CASE l.what = "answer"
    <3> HIDE DEF n
    <3>1. /\ f \in Engine /\ f.posted = e.posted /\ f.state = e.state
          /\ f.wire = e.wire /\ f.callback = e.callback
          /\ f.overlap = e.overlap /\ f.proc = e.proc /\ f.tokens = n
      BY <1>0, <1>5, <2>1 DEF Engine
    <3> QED
      BY <2>1, <3>1 DEF n
  <2>2. CASE l.what # "answer"
    <3>1. f = e
      BY <1>5, <2>2
    <3>2. e.tokens = e.tokens - 0
      BY <1>0
    <3> QED
      BY <1>0, <2>2, <3>1, <3>2
  <2> QED
    BY <2>1, <2>2
<1>7. /\ Pending(f, r) = Pending(e, o) - IF l.what = "answer" THEN 1 ELSE 0
      /\ Pending(e, o) \in Int
  BY <1>0, <1>3, <1>4, <1>6 DEF Pending
<1>8. Live(f, r) = Live(e, o)
  BY <1>0, <1>6, <1>7 DEF Live
<1>9. Counts(f, r, p)
  <2>1. e.proc # "NotRunning"
    BY DEF Fine, Counts
  <2>2. Pending(e, o) <= e.tokens
    BY DEF Fine, Counts
  <2> QED
    BY <1>0, <1>6, <1>7, <2>1, <2>2 DEF Counts
<1>10. (Idle(e, o) => Idle(f, r)) /\ (Quiet(e, o, p) => Quiet(f, r, p))
  BY <1>1, <1>6, <1>8 DEF Idle, Posts, Asks, Answers, Quiet
<1>11. ASSUME ~e.overlap PROVE Order(f, r, p)
  <2>1. Order(e, o, p)
    BY <1>11 DEF Fine
  <2>2. Once(f, r)
    BY <1>1, <1>6, <1>8, <2>1 DEF Order, Once, Posts, Asks, Answers
  <2>3. Agreed(e, o) => Agreed(f, r)
    BY <1>1, <1>6 DEF Agreed
  <2> QED
    BY <1>6, <1>10, <2>1, <2>2, <2>3 DEF Order
<1>12. ASSUME l.what = "answer", l.cmd \in Prepares, ~e.overlap
       PROVE  Idle(f, r) /\ Quiet(f, r, p)
  <2>1. Order(e, o, p) /\ l \in AnswersTo(Prepares)
    BY <1>2, <1>12 DEF Fine
  <2>2. Answers(o)
    BY <1>1, <2>1 DEF Answers
  <2>3. ~Posts(e) /\ ~Asks(e) /\ ~Live(e, o) /\ Quiet(e, o, p) /\ No(r, AnswersTo(Prepares))
    BY <1>1, <2>1, <2>2 DEF Order, Once, Idle
  <2> QED
    BY <1>6, <1>8, <1>10, <2>3 DEF Idle, Posts, Asks, Answers
<1>13. ASSUME (l.what = "answer" /\ l.cmd \in Runs) \/ l \in Told
       PROVE  Free(f, r)
  <2>1. l \in AnswersTo(Runs) \/ l \in Told
    BY <1>2, <1>13
  <2>2. ~Quiet(e, o, p)
    BY <1>1, <2>1 DEF Quiet
  <2>3. Free(e, o)
    BY <2>2, OverIsFree
  <2> QED
    BY <1>6, <1>10, <2>3 DEF Free
<1> QED
  BY <1>1, <1>6, <1>9, <1>11, <1>12, <1>13 DEF Fine, Unrun, r, l

LEMMA SetupOkFine ==
  ASSUME NEW e, NEW o, NEW p, Fine(e, o, p),
         e.overlap \/ (Idle(e, o) /\ Quiet(e, o, p))
  PROVE  LET f == NotifyEngineSetupOk(e) IN Fine(f, o, p) /\ (Unrun(e) => Unrun(f))
<1> DEFINE f == NotifyEngineSetupOk(e)
           q == Append(e.posted, "SetupInferior")
<1>0. e \in Engine /\ o \in Seq(Line)
  BY DEF Fine
<1>1. /\ q \in Seq(Call) /\ (~Posts(e) => One(q, Preparing))
      /\ No(e.posted, {"RunEngine"}) => No(q, {"RunEngine"})
      /\ "InferiorSetupRequested" \in DebuggerState
  BY <1>0, AppendNo DEF Engine, Call, Posts, DebuggerState
<1>2. f = [e EXCEPT !.state = "InferiorSetupRequested", !.posted = q]
  BY <1>0 DEF NotifyEngineSetupOk, QueueSetupInferior, Queue, Engine
<1> HIDE DEF q, f
<1>3. /\ f \in Engine /\ f.posted = q /\ f.state = "InferiorSetupRequested"
      /\ f.wire = e.wire /\ f.tokens = e.tokens /\ f.callback = e.callback
      /\ f.overlap = e.overlap /\ f.proc = e.proc
  BY <1>0, <1>1, <1>2 DEF Engine
<1>4. Counts(f, o, p)
  BY <1>3 DEF Fine, Counts, Pending
<1>5. ASSUME ~e.overlap PROVE Order(f, o, p)
  <2>1. Idle(e, o) /\ Quiet(e, o, p) /\ Once(e, o)
    BY <1>5 DEF Fine, Order
  <2>2. Once(f, o)
    BY <1>1, <1>3, <2>1 DEF Once, Idle, Asks, Live, Pending
  <2>3. Quiet(f, o, p)
    BY <1>3, <2>1 DEF Quiet, Busy
  <2>4. No(f.posted, {"RunEngine"})
    BY <1>1, <1>3, <2>1, SubsetNo DEF Idle, Posts, Preparing
  <2> QED
    BY <2>2, <2>3, <2>4 DEF Order
<1> QED
  BY <1>0, <1>3, <1>4, <1>5 DEF Fine, Unrun, f

LEMMA CallbackFine ==
  ASSUME NEW e, NEW o, NEW p, Fine(e, o, p), NEW c \in Cmd, NEW class,
         c \in Prepares => e.overlap \/ (Idle(e, o) /\ Quiet(e, o, p)),
         c \in Runs => Free(e, o)
  PROVE  LET f == Callback(e, c, class) IN Fine(f, o, p) /\ (Unrun(e) => Unrun(f))
<1> DEFINE Kept(f) == Fine(f, o, p) /\ (Unrun(e) => Unrun(f))
<1>0. e \in Engine
  BY DEF Fine
<1>1. \A f : Mild(e, f) /\ (Calm(e, f) \/ Free(e, o)) => Kept(f)
  BY MildLeads DEF Leads
<1>2. Kept(e)
  OBVIOUS
<1>3. CASE c = "setup"
  <2>1. Callback(e, c, class) \in {NotifyEngineSetupOk(e), NotifyEngineSetupFailed(e)}
    BY <1>3 DEF Callback, HandlePythonSetup
  <2>2. Kept(NotifyEngineSetupOk(e))
    BY <1>3, SetupOkFine DEF Prepares
  <2>3. Kept(NotifyEngineSetupFailed(e))
    BY <1>0, <1>1, EndsMild
  <2> QED
    BY <2>1, <2>2, <2>3
<1>4. CASE c = "file"
  <2>1. Callback(e, c, class) \in {HandleInferiorPrepared(e), NotifyInferiorSetupFailed(e)}
    BY <1>4 DEF Callback, HandleFileExecAndSymbols
  <2>2. Kept(HandleInferiorPrepared(e))
    BY <1>4, PreparedLeads DEF Prepares
  <2>3. Kept(NotifyInferiorSetupFailed(e))
    BY <1>0, <1>1, EndsMild
  <2> QED
    BY <2>1, <2>2, <2>3
<1>5. CASE c \in Runs
  <2>1. Callback(e, c, class) \in
          { NotifyEngineRunAndInferiorRunOk(e), NotifyEngineRunFailed(e),
            NotifyInferiorRunOk(e), NotifyInferiorRunFailed(e), e, NotifyInferiorIll(e) }
    BY <1>5 DEF Runs, Callback, HandleExecRun, HandleExecuteContinue
  <2>2. \A f \in { NotifyEngineRunAndInferiorRunOk(e), NotifyEngineRunFailed(e),
                   NotifyInferiorRunOk(e), NotifyInferiorRunFailed(e), e,
                   NotifyInferiorIll(e) } : Mild(e, f)
    BY <1>0, EndsMild, NotifyMild
  <2> HIDE DEF Kept
  <2>3. Kept(Callback(e, c, class))
    BY <1>1, <1>5, <2>1, <2>2
  <2> QED
    BY <2>3 DEF Kept
<1>6. CASE c = "kill"
  <2>1. Callback(e, c, class) \in {e, NotifyInferiorShutdownFailed(e)}
    BY <1>6 DEF Callback, HandleInferiorShutdown
  <2>2. Kept(NotifyInferiorShutdownFailed(e))
    BY <1>0, <1>1, EndsMild
  <2> QED
    BY <1>2, <2>1, <2>2
<1>7. CASE c = "exit"
  <2> DEFINE k == KillGdb(e)
  <2>1. Mild(e, k) /\ Calm(e, k)
    BY <1>0, FieldsMild
  <2>2. Callback(e, c, class) \in {e, NotifyEngineShutdownFailed(k)}
    BY <1>7 DEF Callback, HandleGdbExit
  <2> HIDE DEF k
  <2>3. k \in Engine /\ Kept(k)
    BY <1>1, <2>1 DEF Mild
  <2>4. Leads(k, NotifyEngineShutdownFailed(k), o, p)
    BY <2>3, EndsMild, MildLeads
  <2>5. Kept(NotifyEngineShutdownFailed(k))
    BY <2>3, <2>4 DEF Leads
  <2> QED
    BY <1>2, <2>2, <2>5
<1>8. CASE c \in {"break", "threads"}
  <2>1. Callback(e, c, class) = e
    BY <1>8 DEF Callback
  <2> QED
    BY <1>2, <2>1
<1> QED
  BY <1>3, <1>4, <1>5, <1>6, <1>7, <1>8 DEF Cmd, Runs

(* Asynchronous output: a program has run, so the set-up is over.            *)
LEMMA StopResponseLeads ==
  ASSUME NEW e, NEW o, NEW p, Fine(e, o, p), Free(e, o), NEW reason
  PROVE  Leads(e, HandleStopResponse(e, reason), o, p)
<1> DEFINE t == [e EXCEPT !.temporaryStop = FALSE]
           u == NotifyInferiorStopOk(t)
           h == NotifyInferiorSpontaneousStop(e)
           k == NotifyInferiorStopOk(e)
<1>0. e \in Engine
  BY DEF Fine
<1>1. HandleStopResponse(e, reason) \in
        { k, e, ContinueInferiorInternal(u), HandleStop(h), HandleStop(k),
          NotifyEngineRunAndInferiorStopOk(e), HandleStop(e) }
  BY DEF HandleStopResponse
<1>2. Mild(e, t) /\ Mild(e, h) /\ Mild(e, k) /\ Mild(e, e) /\ Mild(e, HandleStop(e))
      /\ Mild(e, NotifyEngineRunAndInferiorStopOk(e))
  BY <1>0, FieldsMild, NotifyMild
<1>3. t \in Engine /\ h \in Engine /\ k \in Engine
  BY <1>2 DEF Mild
<1> HIDE DEF t, h, k
<1>4. Mild(t, u) /\ Mild(h, HandleStop(h)) /\ Mild(k, HandleStop(k))
  BY <1>3, NotifyMild
<1> HIDE DEF u
<1>5. Mild(e, u) /\ Mild(e, HandleStop(h)) /\ Mild(e, HandleStop(k))
  BY <1>2, <1>4, MildTrans
<1>6. Leads(e, u, o, p) /\ Free(u, o)
  BY <1>5, MildLeads
<1>7. Fine(u, o, p)
  BY <1>6 DEF Leads
<1>8. Leads(u, ContinueInferiorInternal(u), o, p)
  BY <1>6, <1>7, ContinueLeads
<1>9. Leads(e, ContinueInferiorInternal(u), o, p)
  BY <1>6, <1>8, LeadsTrans
<1>10. \A f : Mild(e, f) => Leads(e, f, o, p)
  BY MildLeads
<1> QED
  BY <1>1, <1>2, <1>5, <1>9, <1>10

LEMMA LineLeads ==
  ASSUME NEW e, NEW o, NEW p, Fine(e, o, p), o # <<>>
  PROVE  Leads(e, HandleLine(e, Head(o)), Tail(o), p)
<1> DEFINE l == Head(o)
           r == Tail(o)
           k == [e EXCEPT !.tokens = @ - 1]
<1>1. l \in Line
  BY TailNo DEF Fine
<1>2. CASE l.what = "answer"
  <2>1. /\ Fine(k, r, p) /\ (Unrun(e) => Unrun(k))
        /\ l.cmd \in Prepares => k.overlap \/ (Idle(k, r) /\ Quiet(k, r, p))
        /\ l.cmd \in Runs => Free(k, r)
    BY <1>2, TakenLine
  <2>2. l.cmd \in Cmd
    BY <1>1, <1>2, LineKinds
  <2> DEFINE c == Callback(k, l.cmd, l.class)
  <2>3. HandleLine(e, l) = AllCommandsDone(c, l.class)
    BY <1>2 DEF HandleLine, HandleResultRecord
  <2> HIDE DEF k, l, r
  <2>4. Fine(c, r, p) /\ (Unrun(k) => Unrun(c))
    BY <2>1, <2>2, CallbackFine
  <2> HIDE DEF c
  <2>5. LET f == AllCommandsDone(c, l.class) IN
          Fine(f, r, p) /\ Waits(f) /\ (Unrun(c) => Unrun(f))
    BY <2>4, DoneLeads
  <2>6. Leads(e, HandleLine(e, l), r, p)
    BY <2>1, <2>3, <2>4, <2>5 DEF Leads
  <2> QED
    BY <2>6 DEF l, r
<1>3. CASE l.what # "answer"
  <2>1. Fine(e, r, p) /\ (l \in Told => Free(e, r)) /\ e \in Engine
    BY <1>3, TakenLine DEF Fine
  <2>2. \/ l.what = "running" \/ l.what = "groupExited" \/ l.what = "stopped"
    BY <1>1, <1>3 DEF Line
  <2>3. l.what = "running" \/ l.what = "stopped" => l \in Told
    BY <1>1, LineKinds
  <2> HIDE DEF k, l, r
  <2>4. CASE l.what = "running"
    <3>1. HandleLine(e, l) \in {e, NotifyInferiorRunOk(e)}
      BY <2>4 DEF HandleLine, HandleRunning
    <3>2. Mild(e, HandleLine(e, l))
      BY <2>1, <3>1, NotifyMild
    <3>3. Leads(e, HandleLine(e, l), r, p)
      BY <2>1, <2>3, <2>4, <3>2, MildLeads
    <3> QED
      BY <3>3 DEF l, r
  <2>5. CASE l.what = "groupExited"
    <3>1. HandleLine(e, l) = NotifyInferiorExited(e)
      BY <2>5 DEF HandleLine
    <3>2. Leads(e, HandleLine(e, l), r, p)
      BY <2>1, <3>1, EndsMild, MildLeads
    <3> QED
      BY <3>2 DEF l, r
  <2>6. CASE l.what = "stopped"
    <3>1. HandleLine(e, l) = HandleStopResponse(e, l.reason)
      BY <2>6 DEF HandleLine
    <3>2. Leads(e, HandleLine(e, l), r, p)
      BY <2>1, <2>3, <2>6, <3>1, StopResponseLeads
    <3> QED
      BY <3>2 DEF l, r
  <2> QED
    BY <2>2, <2>4, <2>5, <2>6
<1> QED
  BY <1>2, <1>3

-----------------------------------------------------------------------------
(* The order of the engine that is there.                                    *)
Ready == Fine(d, out, inferior) /\ Waits(d)

(* Nobody has told gdb to run the program, and no answer says that it does.   *)
Unsent(e, o) == Unrun(e) /\ No(o, AnswersTo({"run"}))

(* The run is written by the posted runEngine() alone.                       *)
Rises ==
  Unsent(d, out) =>
    Unsent(d, out)' \/ d.overlap \/ (No(d.wire, {"break"}) /\ No(out, AnswersTo({"break"})))

LEMMA FineNone == ASSUME NEW e, NEW o, NEW p, Fine(e, o, p) PROVE Fine(e, o, "none")
  BY DEF Fine, Counts, Order, Quiet

LEMMA BecomesReady ==
  ASSUME Ready, NEW e, Leads(d, e, out', inferior), Becomes(e),
         out' = out \/ (out # <<>> /\ out' = Tail(out))
  PROVE  Ready' /\ Rises
<1>1. d' = e /\ (inferior' = inferior \/ inferior' = "none")
  BY DEF Becomes
<1>2. Fine(e, out', inferior')
  BY <1>1, FineNone DEF Leads
<1>3. Waits(e) /\ (Unrun(d) => Unrun(e))
  BY DEF Leads, Ready
<1>4. No(out, AnswersTo({"run"})) => No(out', AnswersTo({"run"}))
  BY TailNo DEF Ready, Fine
<1> QED
  BY <1>1, <1>2, <1>3, <1>4 DEF Ready, Rises, Unsent, Fine, Waits, Unrun,
     Counts, Pending, Answered, Order, Once, Idle, Posts, Asks, Answers, Live, Quiet,
     Agreed

(* The event loop takes a call: one of the set-up was all that was on its way. *)
LEMMA TakenCallLeads ==
  ASSUME Ready, d.posted # <<>>
  PROVE  /\ Leads(d, Next1, out, inferior)
         /\ Next1.overlap = d.overlap
         /\ Next1.wire = d.wire
         /\ Head(d.posted) \in Preparing =>
              Next1.overlap \/ (Idle(Next1, out) /\ Quiet(Next1, out, inferior))
<1> DEFINE q == Tail(d.posted)
           c == Head(d.posted)
<1>0. d \in Engine /\ out \in Seq(Line) /\ d.posted \in Seq(Call)
  BY DEF Ready, Fine, Engine
<1>1. /\ q \in Seq(Call)
      /\ \A T : No(d.posted, T) => No(q, T) /\ c \notin T
      /\ \A T : One(d.posted, T) => One(q, T)
      /\ \A T : One(d.posted, T) /\ c \in T => No(q, T)
  BY <1>0, TailNo
<1>2. Next1 = [d EXCEPT !.posted = q]
  BY DEF Next1
<1> HIDE DEF q, c
<1>3. /\ Next1 \in Engine /\ Next1.posted = q /\ Next1.state = d.state
      /\ Next1.wire = d.wire /\ Next1.tokens = d.tokens /\ Next1.callback = d.callback
      /\ Next1.overlap = d.overlap /\ Next1.proc = d.proc
  BY <1>0, <1>1, <1>2 DEF Engine
<1>4. Mild(d, Next1) /\ Calm(d, Next1)
  BY <1>1, <1>3 DEF Mild, Calm
<1>5. Leads(d, Next1, out, inferior)
      /\ (Quiet(d, out, inferior) => Quiet(Next1, out, inferior))
  BY <1>4, MildLeads DEF Ready
<1>6. ASSUME c \in Preparing, ~d.overlap
      PROVE  Idle(Next1, out) /\ Quiet(Next1, out, inferior)
  <2>1. Order(d, out, inferior) /\ Posts(d)
    BY <1>1, <1>6 DEF Ready, Fine, Posts
  <2>2. Quiet(d, out, inferior) /\ No(q, Preparing)
        /\ ~Asks(d) /\ ~Answers(out) /\ ~Live(d, out)
    BY <1>1, <1>6, <2>1 DEF Order, Once, Idle
  <2> QED
    BY <1>3, <1>5, <2>2 DEF Idle, Posts, Asks, Live, Pending
<1> QED
  BY <1>3, <1>5, <1>6 DEF c

LEMMA EventLoopReady ==
  ASSUME Ready, EventLoop
  PROVE  Ready' /\ Rises
<1> DEFINE c == Head(d.posted)
           n == Next1
<1>1. d.posted # <<>> /\ out' = out /\ UNCHANGED events
  BY DEF EventLoop
<1>2. /\ Leads(d, n, out, inferior) /\ n.overlap = d.overlap /\ n.wire = d.wire
      /\ c \in Preparing => n.overlap \/ (Idle(n, out) /\ Quiet(n, out, inferior))
  BY <1>1, TakenCallLeads
<1>3. \/ c = "SetupEngine" /\ (Becomes(SetupEngine(n)) \/ Becomes(NotifyEngineSetupFailed(n)))
      \/ c # "SetupEngine" /\ Becomes(Perform(n, c))
  BY DEF EventLoop
<1>4. c \in Call /\ Fine(n, out, inferior) /\ n \in Engine
  BY <1>1, <1>2, TailNo DEF Ready, Leads, Fine, Engine
<1> HIDE DEF n, c
<1>5. \A e : Leads(n, e, out, inferior) /\ Becomes(e) => Ready' /\ Rises
  BY <1>1, <1>2, LeadsTrans, BecomesReady
<1>6. CASE Becomes(NotifyEngineSetupFailed(n))
  <2>1. Leads(n, NotifyEngineSetupFailed(n), out, inferior)
    BY <1>4, EndsMild, MildLeads
  <2> QED
    BY <1>5, <1>6, <2>1
<1>7. CASE c = "SetupEngine" /\ Becomes(SetupEngine(n))
  <2> DEFINE f == IF n.proc = "NotRunning" THEN [n EXCEPT !.proc = "Running"] ELSE n
  <2>1. SetupEngine(n) = RunCommand(f, "setup")
    BY DEF SetupEngine
  <2>2. /\ f \in Engine /\ f.posted = n.posted /\ f.state = n.state
        /\ f.wire = n.wire /\ f.tokens = n.tokens /\ f.callback = n.callback
        /\ f.overlap = n.overlap /\ f.proc # "NotRunning"
    BY <1>4 DEF Engine
  <2> HIDE DEF f
  <2>3. /\ Idle(n, out) => Idle(f, out)
        /\ Quiet(n, out, inferior) => Quiet(f, out, inferior)
        /\ Once(n, out) => Once(f, out)
        /\ Agreed(n, out) => Agreed(f, out)
    BY <2>2 DEF Idle, Quiet, Once, Agreed, Posts, Asks, Live, Pending
  <2>4. Fine(f, out, inferior)
    BY <1>4, <2>2, <2>3 DEF Fine, Order, Counts, Pending
  <2>5. Timely(f, out, inferior, "setup") /\ "setup" \in Cmd
    BY <1>2, <1>7, <2>2, <2>3 DEF Timely, Preparing, Prepares, Cmd
  <2>6. LET g == RunCommand(f, "setup") IN
         /\ Fine(g, out, inferior) /\ (Waits(f) => Waits(g)) /\ (Unrun(f) => Unrun(g))
    BY <2>4, <2>5, CommandLeads
  <2>7. Leads(n, RunCommand(f, "setup"), out, inferior)
    BY <2>2, <2>6 DEF Leads, Waits, Unrun
  <2> QED
    BY <1>5, <1>7, <2>1, <2>7
<1>8. CASE c = "RunEngine" /\ Becomes(Perform(n, c))
  <2>1. Perform(n, c) = RunCommand(n, "run")
    BY <1>8 DEF Perform
  <2>2. Timely(n, out, inferior, "run") /\ "run" \in Cmd
    BY <1>2, <1>8 DEF Timely, Preparing, Runs, Cmd, Free
  <2>3. Fine(RunCommand(n, "run"), out, inferior)
        /\ (Waits(n) => Waits(RunCommand(n, "run")))
    BY <1>4, <2>2, CommandLeads
  <2>4. d.overlap \/ (No(d.wire, {"break"}) /\ No(out, AnswersTo({"break"})))
    <3>1. c \in {"RunEngine"}
      BY <1>8
    <3>2. ~No(d.posted, {"RunEngine"})
      BY <1>1, <3>1, TailNo DEF c, Ready, Fine, Engine
    <3> QED
      BY <3>2 DEF Ready, Fine, Order, Agreed
  <2> DEFINE e == RunCommand(n, "run")
  <2>5. /\ d' = e /\ (inferior' = inferior \/ inferior' = "none")
        /\ Fine(e, out, inferior) /\ Waits(e)
    BY <1>2, <1>8, <2>1, <2>3 DEF Becomes, Leads, Ready
  <2> HIDE DEF e
  <2>6. Fine(d', out', inferior') /\ Waits(d')
    BY <1>1, <2>5, FineNone
  <2>7. Ready'
    BY <2>6 DEF Ready, Fine, Waits, Counts, Pending, Answered, Order, Once, Idle, Posts,
       Asks, Answers, Live, Quiet, Agreed
  <2> QED
    BY <2>4, <2>7 DEF Rises
<1>9. CASE c = "SetupInferior" /\ Becomes(Perform(n, c))
  <2>1. Perform(n, c) = RunCommand(n, "file")
    BY <1>9 DEF Perform
  <2>2. Timely(n, out, inferior, "file") /\ "file" \in Cmd
    BY <1>2, <1>9 DEF Timely, Preparing, Prepares, Cmd
  <2>3. Leads(n, RunCommand(n, "file"), out, inferior)
    BY <1>4, <2>2, CommandLeads DEF Leads
  <2> QED
    BY <1>5, <1>9, <2>1, <2>3
<1>10. CASE c \in {"ShutdownInferior", "ShutdownEngine"} /\ Becomes(Perform(n, c))
  <2> DEFINE f == Dying(n)
             k == [f EXCEPT !.callback = FALSE]
  <2>1. Perform(n, c) \in {RunCommand(f, "kill"), NotifyEngineShutdownOk(k), RunCommand(k, "exit")}
    BY <1>10 DEF Perform, NotifyAdapterShutdownOk
  <2>2. Mild(n, f) /\ Calm(n, f)
    BY <1>4, FieldsMild DEF Dying
  <2> HIDE DEF f
  <2>3. Leads(n, f, out, inferior) /\ Fine(f, out, inferior)
    BY <1>4, <2>2, MildLeads DEF Leads
  <2>4. Leads(f, k, out, inferior) /\ Fine(k, out, inferior)
    BY <2>3, ClearCallbackLeads DEF Leads
  <2> HIDE DEF k
  <2>5. \A g \in Engine : Timely(g, out, inferior, "kill") /\ Timely(g, out, inferior, "exit")
    BY DEF Timely
  <2>6. "kill" \in Cmd /\ "exit" \in Cmd /\ f \in Engine /\ k \in Engine
    BY <2>3, <2>4 DEF Cmd, Fine
  <2>7. /\ Leads(f, RunCommand(f, "kill"), out, inferior)
        /\ Leads(k, RunCommand(k, "exit"), out, inferior)
    BY <2>3, <2>4, <2>5, <2>6, CommandLeads DEF Leads
  <2>8. Leads(k, NotifyEngineShutdownOk(k), out, inferior)
    BY <2>4, <2>6, EndsMild, MildLeads
  <2>9. Leads(n, Perform(n, c), out, inferior)
    BY <2>1, <2>3, <2>4, <2>7, <2>8, LeadsTrans
  <2> QED
    BY <1>5, <1>10, <2>9
<1>11. CASE c = "FinishDebugger" /\ Becomes(Perform(n, c))
  <2>1. Perform(n, c) = DoFinishDebugger(n)
    BY <1>11 DEF Perform
  <2>2. Mild(n, DoFinishDebugger(n)) /\ Calm(n, DoFinishDebugger(n))
    BY <1>4, FieldsMild
  <2>3. Leads(n, DoFinishDebugger(n), out, inferior)
    BY <1>4, <2>2, MildLeads
  <2> QED
    BY <1>5, <1>11, <2>1, <2>3
<1>12. CASE c = "Stop2" /\ Becomes(Perform(n, c))
  <2>1. Perform(n, c) = RunCommand(n, "threads")
    BY <1>12 DEF Perform
  <2>2. Timely(n, out, inferior, "threads") /\ "threads" \in Cmd
    BY DEF Timely, Cmd
  <2>3. Leads(n, RunCommand(n, "threads"), out, inferior)
    BY <1>4, <2>2, CommandLeads DEF Leads
  <2> QED
    BY <1>5, <1>12, <2>1, <2>3
<1> QED
  BY <1>3, <1>4, <1>6, <1>7, <1>8, <1>9, <1>10, <1>11, <1>12 DEF Call

LEMMA ProcessFinishedReady ==
  ASSUME Safe, Ready, HandleGdbFinished
  PROVE  Ready' /\ Rises
<1> DEFINE f == [d EXCEPT !.proc = "NotRunning", !.wire = <<>>]
<1>1. /\ d.proc = "Ended" /\ out = <<>> /\ out' = out /\ inferior = "none" /\ Reached = FALSE
      /\ Becomes(NotifyDebuggerProcessFinished(f, Reached))
  BY DEF HandleGdbFinished, Safe, Reached
<1>2. /\ f \in Engine /\ f.posted = d.posted /\ f.state = d.state /\ f.tokens = d.tokens
      /\ f.callback = d.callback /\ f.overlap = d.overlap /\ f.proc = "NotRunning"
      /\ f.wire = <<>>
  <2>1. d \in Engine /\ <<>> \in Seq(Cmd)
    BY DEF Ready, Fine
  <2> QED
    BY <2>1 DEF Engine
<1> HIDE DEF f
<1>3. Len(<<>>) = 0 /\ Cardinality(Answered(<<>>)) = 0
  BY AnsweredEmpty
<1>4. Pending(f, out) = 0 /\ d.tokens \in Int /\ Pending(d, out) \in Nat
  BY <1>1, <1>2, <1>3, AnsweredFinite DEF Pending, Ready, Fine, Engine
<1>5. Counts(f, out, inferior)
  BY <1>1, <1>2, <1>4 DEF Counts, Ready, Fine
<1>6. ~Live(f, out) /\ ~Asks(f) /\ ~Answers(out)
  BY <1>1, <1>2, <1>4, NoEmpty DEF Live, Ready, Waits, Asks, Answers
<1>7. ASSUME ~d.overlap PROVE Order(f, out, inferior)
  <2>1. Order(d, out, inferior)
    BY <1>7 DEF Ready, Fine
  <2>2. Once(f, out)
    BY <1>1, <1>2, <1>6, <2>1, NoEmpty DEF Order, Once
  <2>3. Idle(d, out) => Idle(f, out)
    BY <1>2, <1>6 DEF Idle, Posts
  <2>4. Quiet(d, out, inferior) => Quiet(f, out, inferior)
    BY <1>2, NoEmpty DEF Quiet
  <2>5. Agreed(d, out) => Agreed(f, out)
    BY <1>2, NoEmpty DEF Agreed
  <2> QED
    BY <1>2, <2>1, <2>2, <2>3, <2>4, <2>5 DEF Order
<1>8. Leads(d, f, out, inferior)
  BY <1>2, <1>5, <1>7, NoEmpty DEF Leads, Ready, Fine, Waits, Unrun
<1> DEFINE g == NotifyDebuggerProcessFinished(f, FALSE)
<1>9. Mild(f, g) /\ Calm(f, g) /\ Becomes(g)
  BY <1>1, <1>2, ProcessFinishedMild
<1> HIDE DEF g
<1>10. Leads(f, g, out, inferior)
  BY <1>8, <1>9, MildLeads DEF Leads
<1>11. Leads(d, g, out, inferior)
  BY <1>8, <1>10, LeadsTrans
<1> QED
  BY <1>1, <1>9, <1>11, BecomesReady

(* Everything of an earlier start is gone, or the order is not claimed.      *)
LEMMA StartReady ==
  ASSUME Safe, Ready, Start
  PROVE  Ready' /\ Rises
<1> DEFINE f == [d EXCEPT !.dirty = TRUE,
                    !.overlap = @ \/ d.proc # "NotRunning" \/ d.posted # <<>>]
           k == [f EXCEPT !.running = TRUE, !.starts = @ + 1]
           g == [k EXCEPT !.attached = TRUE, !.target = "DebuggerNotReady"]
           q == Append(d.posted, "SetupEngine")
           h == Queue(g, "EngineSetupRequested", "SetupEngine")
<1>0. d \in Engine /\ Accounts(d) /\ out \in Seq(Line)
  BY DEF Safe, Good
<1>1. ~d.running /\ Becomes(StartDebugger(f)) /\ out' = out
  BY DEF Start
<1>2. /\ f \in Engine /\ f.attached = d.attached /\ f.posted = d.posted /\ f.wire = d.wire
      /\ f.tokens = d.tokens /\ f.callback = d.callback /\ f.proc = d.proc
      /\ f.overlap = (d.overlap \/ d.proc # "NotRunning" \/ d.posted # <<>>)
  BY <1>0 DEF Engine
<1> HIDE DEF f
<1>3. ~k.attached
  BY <1>0, <1>1, <1>2 DEF Accounts, Engine
<1>4. StartDebugger(f) = h
  BY <1>3 DEF StartDebugger, QueueSetupEngine
<1> DEFINE m == f.starts + 1
<1>5. m \in Nat /\ k = [f EXCEPT !.running = TRUE, !.starts = m]
  BY <1>2 DEF Engine
<1> HIDE DEF m
<1>6. /\ k \in Engine /\ k.posted = d.posted /\ k.wire = d.wire /\ k.tokens = d.tokens
      /\ k.callback = d.callback /\ k.proc = d.proc /\ k.overlap = f.overlap
  BY <1>2, <1>5 DEF Engine
<1> HIDE DEF k
<1>7. /\ g \in Engine /\ g.posted = d.posted /\ g.wire = d.wire /\ g.tokens = d.tokens
      /\ g.callback = d.callback /\ g.proc = d.proc /\ g.overlap = f.overlap
  BY <1>6 DEF Engine
<1> HIDE DEF g
<1>8. /\ q \in Seq(Call) /\ (No(d.posted, Preparing) => One(q, Preparing))
      /\ No(d.posted, {"RunEngine"}) => No(q, {"RunEngine"})
      /\ "EngineSetupRequested" \in DebuggerState
  BY <1>0, AppendNo DEF Engine, Call, DebuggerState
<1>9. h = [g EXCEPT !.state = "EngineSetupRequested", !.posted = q]
  BY <1>7 DEF Queue, Engine
<1> HIDE DEF q, h
<1>10. /\ h \in Engine /\ h.posted = q /\ h.wire = d.wire /\ h.tokens = d.tokens
       /\ h.callback = d.callback /\ h.proc = d.proc /\ h.overlap = f.overlap
       /\ h.state = "EngineSetupRequested"
  BY <1>7, <1>8, <1>9 DEF Engine
<1>11. Counts(h, out, inferior) /\ Pending(h, out) = Pending(d, out)
  BY <1>10 DEF Ready, Fine, Counts, Pending
<1>12. ASSUME ~h.overlap PROVE Order(h, out, inferior)
  <2>1. d.proc = "NotRunning" /\ d.posted = <<>>
    BY <1>2, <1>10, <1>12
  <2>2. d.wire = <<>> /\ out = <<>> /\ inferior = "none"
    BY <2>1 DEF Ready, Fine, Counts
  <2>3. Len(<<>>) = 0 /\ Cardinality(Answered(<<>>)) = 0
    BY AnsweredEmpty
  <2>4. Pending(h, out) = 0
    BY <1>10, <2>2, <2>3 DEF Pending
  <2>5. ~Live(h, out)
    BY <1>10, <2>4 DEF Live, Ready, Waits
  <2>6. One(h.posted, Preparing) /\ No(h.posted, {"RunEngine"})
    BY <1>8, <1>10, <2>1, NoEmpty
  <2>7. Once(h, out)
    BY <1>10, <2>2, <2>5, <2>6, NoEmpty DEF Once, Asks, Answers
  <2>8. Quiet(h, out, inferior)
    BY <1>10, <2>2, NoEmpty DEF Quiet, Busy
  <2> QED
    BY <2>6, <2>7, <2>8 DEF Order
<1>13. Leads(d, h, out, inferior)
  BY <1>0, <1>10, <1>11, <1>12 DEF Leads, Fine, Waits, Unrun
<1> QED
  BY <1>1, <1>4, <1>13, BecomesReady

(* The rest of the application and of the user.                              *)
LEMMA BusyIsFree ==
  ASSUME Ready, d.state \in Busy
  PROVE  Free(d, out)
<1>1. ~Quiet(d, out, inferior)
  BY DEF Quiet
<1> QED
  BY <1>1, OverIsFree DEF Ready

LEMMA UserReady ==
  ASSUME Ready,
         ReadGdbStandardOutput \/ CommandTimeout \/ (\E stop \in BOOLEAN : AnswerBox(stop))
           \/ Stop \/ AbortDebugger \/ Continue \/ Interrupt \/ ChangeBreakpoint
           \/ SynchronizeBreakpoints
  PROVE  Ready' /\ Rises
<1>0. d \in Engine /\ Fine(d, out, inferior) /\ Reached \in BOOLEAN
  BY DEF Ready, Fine, Reached
<1>1. \A e : Mild(d, e) /\ (Calm(d, e) \/ Free(d, out)) /\ Becomes(e) /\ out' = out
               => Ready' /\ Rises
  BY <1>0, MildLeads, BecomesReady
<1>2. CASE ReadGdbStandardOutput
  <2>1. out # <<>> /\ out' = Tail(out) /\ Becomes(HandleLine(d, Head(out)))
    BY <1>2 DEF ReadGdbStandardOutput
  <2>2. Leads(d, HandleLine(d, Head(out)), out', inferior)
    BY <1>0, <2>1, LineLeads
  <2> QED
    BY <2>1, <2>2, BecomesReady
<1>3. CASE CommandTimeout
  <2>1. Becomes([d EXCEPT !.box = TRUE]) /\ out' = out
    BY <1>3 DEF CommandTimeout
  <2> QED
    BY <1>0, <1>1, <2>1, FieldsMild
<1>4. CASE \E stop \in BOOLEAN : AnswerBox(stop)
  <2> DEFINE f == [d EXCEPT !.box = FALSE]
             k == KillGdb(f)
             e == NotifyEngineShutdownFailed(k)
  <2>1. (Becomes(e) \/ Becomes(f)) /\ out' = out
    BY <1>4 DEF AnswerBox
  <2>2. Mild(d, f) /\ Calm(d, f)
    BY <1>0, FieldsMild
  <2>3. f \in Engine
    BY <2>2 DEF Mild
  <2> HIDE DEF f
  <2>4. Mild(f, k) /\ Calm(f, k) /\ k.state = f.state
    BY <2>3, FieldsMild
  <2>5. k \in Engine
    BY <2>4 DEF Mild
  <2> HIDE DEF k
  <2>6. Mild(k, e) /\ Calm(k, e)
    BY <2>5, EndsMild
  <2> HIDE DEF e
  <2>7. Mild(d, e)
    BY <2>2, <2>4, <2>6, MildTrans
  <2>8. Calm(d, e)
    BY <2>2, <2>4, <2>6 DEF Calm
  <2> QED
    BY <1>1, <2>1, <2>2, <2>7, <2>8
<1>5. CASE Stop \/ AbortDebugger
  <2>1. (Becomes(QuitDebugger(d, Reached)) \/ Becomes(KillGdb(d))) /\ out' = out
    BY <1>5 DEF Stop, AbortDebugger
  <2>2. Mild(d, KillGdb(d)) /\ Calm(d, KillGdb(d))
    BY <1>0, FieldsMild
  <2>3. /\ Mild(d, QuitDebugger(d, Reached))
        /\ Calm(d, QuitDebugger(d, Reached)) \/ Free(d, out)
    BY <1>0, QuitMild, BusyIsFree
  <2> QED
    BY <1>1, <2>1, <2>2, <2>3
<1>6. CASE Continue
  <2>1. Becomes(ContinueInferiorInternal(d)) /\ out' = out /\ d.state \in Busy
    BY <1>6 DEF Continue, Busy
  <2>2. Leads(d, ContinueInferiorInternal(d), out, inferior)
    BY <1>0, <2>1, BusyIsFree, ContinueLeads
  <2> QED
    BY <2>1, <2>2, BecomesReady
<1>7. CASE Interrupt
  <2>1. Becomes(DoInterruptInferior(d, Reached)) /\ out' = out /\ d.state \in Busy
    BY <1>7 DEF Interrupt, Busy
  <2>2. Mild(d, DoInterruptInferior(d, Reached))
    BY <1>0, InterruptMild
  <2> QED
    BY <1>1, <2>1, <2>2, BusyIsFree
<1>8. CASE ChangeBreakpoint
  <2>1. Becomes([d EXCEPT !.dirty = TRUE]) /\ out' = out
    BY <1>8 DEF ChangeBreakpoint
  <2> QED
    BY <1>0, <1>1, <2>1, FieldsMild
<1>9. CASE SynchronizeBreakpoints
  <2>1. Becomes(Synchronize(d)) /\ out' = out
    BY <1>9 DEF SynchronizeBreakpoints
  <2>2. Leads(d, Synchronize(d), out, inferior)
    BY <1>0, SynchronizeLeads
  <2> QED
    BY <2>1, <2>2, BecomesReady
<1> QED
  BY <1>2, <1>3, <1>4, <1>5, <1>6, <1>7, <1>8, <1>9

-----------------------------------------------------------------------------
(* What gdb writes: one answer at most, to the command it reads, and the      *)
(* news of a program only when it runs one.                                  *)
LEMMA LinesNo ==
  ASSUME NEW c \in Cmd, NEW class \in ResultClass, NEW T, c \notin T
  PROVE  /\ \A s \in { <<>>, <<GroupExited>>, <<Answer(c, class)>>,
                       <<Answer(c, class), Running>>, <<GroupExited, Answer(c, class)>> } :
              One(s, AnswersTo(Cmd)) /\ No(s, AnswersTo(T))
         /\ \A s \in { <<>>, <<GroupExited>>, <<Answer(c, class)>>,
                       <<GroupExited, Answer(c, class)>> } : No(s, Told)
<1> DEFINE a == Answer(c, class)
<1>1. a \notin AnswersTo(T) /\ a \notin Told
  BY DEF Answer, AnswersTo, Told
<1>2. /\ \A C : GroupExited \notin AnswersTo(C) /\ Running \notin AnswersTo(C)
      /\ GroupExited \notin Told
  BY DEF GroupExited, Running, AnswersTo, Told
<1> HIDE DEF a
<1>4. \A x, C : x \notin C => No(<<x>>, C)
  BY DEF No
<1>5. \A x, y, C : x \notin C /\ y \notin C => No(<<x, y>>, C)
  BY DEF No
<1>6. \A x, y, C : One(<<x>>, C) /\ (x \notin C \/ y \notin C => One(<<x, y>>, C))
  BY DEF One
<1> QED
  BY <1>1, <1>2, <1>4, <1>5, <1>6, NoEmpty DEF a

(* The news of a program are no answers. *)
LEMMA NewsNo ==
  \A C : /\ No(<<GroupExited>>, AnswersTo(C)) /\ No(<<Stopped("hit")>>, AnswersTo(C))
        /\ No(<<GroupExited, Stopped("exited")>>, AnswersTo(C))
<1>1. \A C : /\ GroupExited \notin AnswersTo(C) /\ Stopped("hit") \notin AnswersTo(C)
            /\ Stopped("exited") \notin AnswersTo(C)
  BY DEF GroupExited, Stopped, AnswersTo
<1> QED
  BY <1>1 DEF No

LEMMA ReadsFine ==
  ASSUME NEW e, NEW o, NEW p, Fine(e, o, p), e.wire # <<>>,
         NEW c, c = Head(e.wire), NEW l \in Seq(Line), NEW p2,
         One(l, AnswersTo(Cmd)), \A T : c \notin T => No(l, AnswersTo(T)),
         \/ c \in Runs
         \/ No(l, Told) /\ p2 \in {p, "none"}
  PROVE  LET f == [e EXCEPT !.wire = Tail(@)] IN
         /\ Leads(e, f, o \o l, p2) /\ f.overlap = e.overlap
         /\ Unsent(e, o) => Unsent(f, o \o l)
<1> DEFINE w == Tail(e.wire)
           r == o \o l
           f == [e EXCEPT !.wire = Tail(@)]
<1>0. e \in Engine /\ o \in Seq(Line) /\ e.wire \in Seq(Cmd) /\ e.tokens \in Int
  BY DEF Fine, Engine
<1>1. /\ w \in Seq(Cmd) /\ c \in Cmd /\ Len(w) = Len(e.wire) - 1 /\ Len(e.wire) \in Nat
      /\ \A T : No(e.wire, T) => No(w, T) /\ c \notin T
      /\ \A T : One(e.wire, T) => One(w, T)
      /\ \A T : One(e.wire, T) /\ c \in T => No(w, T)
  BY <1>0, TailNo
<1>2. /\ r \in Seq(Line)
      /\ \A T : No(o, T) /\ No(l, T) => No(r, T)
      /\ \A T : One(o, T) /\ No(l, T) => One(r, T)
      /\ \A T : No(o, T) /\ One(l, T) => One(r, T)
  BY <1>0, ConcatNo
<1>3. /\ Cardinality(Answered(r)) <= Cardinality(Answered(o)) + 1
      /\ Cardinality(Answered(r)) \in Nat /\ Cardinality(Answered(o)) \in Nat
  BY <1>0, <1>2, AnsweredConcat, AnsweredFinite
<1>4. f = [e EXCEPT !.wire = w]
  OBVIOUS
<1> HIDE DEF w, r, f
<1>5. /\ f \in Engine /\ f.posted = e.posted /\ f.state = e.state
      /\ f.wire = w /\ f.tokens = e.tokens /\ f.callback = e.callback
      /\ f.overlap = e.overlap /\ f.proc = e.proc
  BY <1>0, <1>1, <1>4 DEF Engine
<1>6. Pending(f, r) <= Pending(e, o) /\ Pending(e, o) \in Int /\ Pending(f, r) \in Int
  BY <1>1, <1>3, <1>5 DEF Pending
<1>7. Pending(e, o) <= e.tokens
  BY DEF Fine, Counts
<1>8. Counts(f, r, p2)
  <2>1. e.proc # "NotRunning"
    BY DEF Fine, Counts
  <2> QED
    BY <1>0, <1>5, <1>6, <1>7, <2>1 DEF Counts
<1>9. Live(f, r) => Live(e, o)
  BY <1>0, <1>5, <1>6, <1>7 DEF Live
<1>10. Unsent(e, o) => Unsent(f, r)
  <2>1. Unrun(e) => c \notin {"run"} /\ No(w, {"run"})
    BY <1>1 DEF Unrun
  <2> QED
    BY <1>2, <1>5, <2>1 DEF Unsent, Unrun
<1>11. (Waits(e) => Waits(f)) /\ (Unrun(e) => Unrun(f))
  BY <1>1, <1>5 DEF Waits, Unrun
<1>12. Agreed(e, o) => Agreed(f, r)
  <2>1. Agreed(e, o) => c \notin {"break"} /\ No(w, {"break"})
    BY <1>1 DEF Agreed
  <2> QED
    BY <1>2, <1>5, <2>1 DEF Agreed
<1>13. ASSUME ~e.overlap PROVE Order(f, r, p2)
  <2>1. Order(e, o, p)
    BY <1>13 DEF Fine
  <2>2. CASE c \in Runs
    <3>1. ~No(e.wire, Runs)
      BY <1>1, <2>2
    <3>2. Idle(e, o)
      BY <2>1, <3>1 DEF Order, Quiet
    <3>3. c \notin Prepares
      BY <2>2 DEF Runs, Prepares
    <3>4. No(r, AnswersTo(Prepares)) /\ No(w, Prepares)
      BY <1>1, <1>2, <3>2, <3>3 DEF Idle, Asks, Answers
    <3>5. Idle(f, r)
      BY <1>5, <1>9, <3>2, <3>4 DEF Idle, Posts, Asks, Answers
    <3>6. Once(f, r)
      BY <1>5, <2>1, <3>4, <3>5 DEF Order, Once, Idle, Posts, One, No
    <3>7. No(f.posted, {"RunEngine"})
      BY <3>5, SubsetNo DEF Idle, Posts, Preparing
    <3> QED
      BY <3>5, <3>6, <3>7 DEF Order
  <2>3. CASE c \in Prepares
    <3>1. Asks(e)
      BY <1>1, <2>3 DEF Asks
    <3>2. ~Posts(e) /\ ~Answers(o) /\ ~Live(e, o) /\ No(w, Prepares)
          /\ Quiet(e, o, p)
      BY <1>1, <2>1, <2>3, <3>1 DEF Order, Once, Idle
    <3>3. One(l, AnswersTo(Prepares))
      <4>1. AnswersTo(Prepares) \in SUBSET AnswersTo(Cmd)
        BY DEF AnswersTo, Prepares, Cmd
      <4> QED
        BY <4>1, SubsetNo
    <3>4. One(r, AnswersTo(Prepares))
      BY <1>2, <3>2, <3>3 DEF Answers
    <3>5. Once(f, r)
      BY <1>5, <1>9, <2>1, <3>2, <3>4 DEF Order, Once, Posts, Asks, One, No
    <3>6. c \notin Runs
      BY <2>3 DEF Prepares, Runs
    <3>7. Quiet(f, r, p2)
      BY <1>1, <1>2, <1>5, <3>2, <3>6 DEF Quiet
    <3>8. No(f.posted, {"RunEngine"})
      BY <1>5, <3>2, SubsetNo DEF Posts, Preparing
    <3> QED
      BY <3>5, <3>7, <3>8 DEF Order
  <2>4. CASE c \notin Runs \cup Prepares
    <3>1. No(l, AnswersTo(Prepares)) /\ No(l, AnswersTo(Runs)) /\ No(l, Told)
          /\ p2 \in {p, "none"}
      BY <2>4
    <3>2. Answers(r) => Answers(o)
      BY <1>2, <3>1 DEF Answers
    <3>3. Asks(f) => Asks(e)
      BY <1>1, <1>5 DEF Asks
    <3>4. Posts(f) = Posts(e)
      BY <1>5 DEF Posts
    <3>5. Once(f, r)
      BY <1>1, <1>2, <1>5, <1>9, <2>1, <3>1, <3>2, <3>3, <3>4 DEF Order, Once
    <3>6. Idle(e, o) => Idle(f, r)
      BY <1>9, <3>2, <3>3, <3>4 DEF Idle
    <3>7. Quiet(e, o, p) => Quiet(f, r, p2)
      BY <1>1, <1>2, <1>5, <3>1 DEF Quiet
    <3> QED
      BY <1>5, <1>12, <2>1, <3>5, <3>6, <3>7 DEF Order
  <2> QED
    BY <2>2, <2>3, <2>4
<1> QED
  BY <1>2, <1>5, <1>8, <1>10, <1>11, <1>13 DEF Leads, Fine, r, f

(* gdb's steps, seen from the order: what it read, and what happened then.   *)
LEMMA GdbReady ==
  ASSUME Ready, NEW f, Fine(f, out', inferior'), Waits(d) => Waits(f),
         Unsent(d, out) => Unsent(f, out'), Mild(f, d'), Calm(f, d')
  PROVE  Ready' /\ Rises
<1>1. Leads(f, d', out', inferior')
  BY MildLeads
<1>2. Fine(d', out', inferior') /\ Waits(d') /\ (Unsent(d, out) => Unsent(d', out'))
  BY <1>1 DEF Leads, Ready, Unsent
<1> QED
  BY <1>2 DEF Ready, Rises, Unsent, Unrun, Fine, Waits, Counts, Pending, Answered, Order,
     Once, Idle, Posts, Asks, Answers, Live, Quiet, Agreed

LEMMA GdbReadsReady ==
  ASSUME Ready, GdbReads
  PROVE  Ready' /\ Rises
<1> DEFINE c == Head(d.wire)
           f == [d EXCEPT !.wire = Tail(@)]
           taken == [f EXCEPT !.interrupt = FALSE]
           gone == [f EXCEPT !.proc = "Ended", !.interrupt = FALSE]
<1>0. d \in Engine /\ Fine(d, out, inferior) /\ d.proc = "Running" /\ d.wire # <<>>
  BY DEF Ready, Fine, GdbReads
<1>1. c \in Cmd
  BY <1>0, TailNo DEF Engine
<1>2. d' \in {f, taken, gone}
  BY DEF GdbReads
<1>3. \E l \in Seq(Line) :
        /\ out' = out \o l
        /\ One(l, AnswersTo(Cmd)) /\ \A T : c \notin T => No(l, AnswersTo(T))
        /\ \/ c \in Runs
           \/ No(l, Told) /\ inferior' \in {inferior, "none"}
  <2> DEFINE Says(l) ==
        /\ l \in Seq(Line)
        /\ One(l, AnswersTo(Cmd)) /\ \A T : c \notin T => No(l, AnswersTo(T))
        /\ c \in Runs \/ No(l, Told)
  <2>1. ASSUME NEW class \in ResultClass
        PROVE  /\ Says(<<Answer(c, class)>>) /\ Says(<<>>)
               /\ Says(<<GroupExited, Answer(c, class)>>)
               /\ c \in Runs => Says(<<Answer(c, class), Running>>)
                                /\ Says(<<GroupExited>> \o <<Answer(c, class), Running>>)
    <3>1. \A T : c \notin T =>
            /\ \A s \in { <<>>, <<GroupExited>>, <<Answer(c, class)>>,
                          <<Answer(c, class), Running>>,
                          <<GroupExited, Answer(c, class)>> } :
                 One(s, AnswersTo(Cmd)) /\ No(s, AnswersTo(T))
            /\ \A s \in { <<>>, <<GroupExited>>, <<Answer(c, class)>>,
                          <<GroupExited, Answer(c, class)>> } : No(s, Told)
      BY <1>1, LinesNo
    <3>2. c \notin {}
      OBVIOUS
    <3>3. /\ <<Answer(c, class)>> \in Seq(Line) /\ <<GroupExited>> \in Seq(Line)
          /\ <<Answer(c, class), Running>> \in Seq(Line)
          /\ <<GroupExited, Answer(c, class)>> \in Seq(Line) /\ <<>> \in Seq(Line)
      BY <1>1, Lines
    <3>4. \A C : No(<<GroupExited>>, AnswersTo(C))
      BY NewsNo
    <3> DEFINE s == <<GroupExited>>
               t == <<Answer(c, class), Running>>
    <3>5. /\ s \o t \in Seq(Line)
          /\ \A T : No(s, T) /\ No(t, T) => No(s \o t, T)
          /\ \A T : No(s, T) /\ One(t, T) => One(s \o t, T)
      BY <3>3, ConcatNo
    <3>6. One(t, AnswersTo(Cmd)) /\ \A T : c \notin T => No(t, AnswersTo(T))
      BY <3>1, <3>2
    <3>7. c \in Runs => Says(s \o t)
      BY <3>4, <3>5, <3>6
    <3> QED
      BY <3>1, <3>2, <3>3, <3>7
  <2>2. {"done", "running", "exit", "error", "runFailed", "ignored"} = ResultClass
    BY DEF ResultClass
  <2> HIDE DEF Says, f, taken, gone
  <2>3. CASE c \in Runs
    <3>1. \/ Emit(<<GroupExited>> \o <<Answer(c, "running"), Running>>)
          \/ Emit(<<>> \o <<Answer(c, "running"), Running>>)
          \/ \E class \in ResultClass : Emit(<<Answer(c, class)>>)
      BY <2>2, <2>3 DEF GdbReads, GdbRuns, Runs
    <3>2. <<>> \o <<Answer(c, "running"), Running>> = <<Answer(c, "running"), Running>>
      OBVIOUS
    <3>3. \E l : out' = out \o l /\ Says(l)
      BY <2>1, <2>2, <2>3, <3>1, <3>2 DEF Emit
    <3> QED
      BY <2>3, <3>3 DEF Says
  <2>4. CASE c \notin Runs
    <3>1. /\ \/ Emit(<<>>)
             \/ \E class \in ResultClass :
                  Emit(<<Answer(c, class)>>) \/ Emit(<<GroupExited, Answer(c, class)>>)
          /\ inferior' \in {inferior, "none"}
      BY <2>2, <2>4 DEF GdbReads, Runs
    <3>2. \E l : out' = out \o l /\ Says(l)
      BY <2>1, <2>2, <3>1 DEF Emit
    <3> QED
      BY <2>4, <3>1, <3>2 DEF Says
  <2> QED
    BY <2>3, <2>4
<1>4. PICK l \in Seq(Line) :
        /\ out' = out \o l
        /\ One(l, AnswersTo(Cmd)) /\ \A T : c \notin T => No(l, AnswersTo(T))
        /\ \/ c \in Runs
           \/ No(l, Told) /\ inferior' \in {inferior, "none"}
  BY <1>3
<1>5. Leads(d, f, out \o l, inferior') /\ (Unsent(d, out) => Unsent(f, out \o l))
  BY <1>0, <1>4, ReadsFine
<1>6. Fine(f, out', inferior') /\ (Waits(d) => Waits(f)) /\ f \in Engine
      /\ f.proc = "Running"
  <2>1. f.proc = "Running"
    BY <1>0 DEF Engine
  <2> QED
    BY <1>4, <1>5, <2>1 DEF Leads, Fine
<1> HIDE DEF f
<1>7. Mild(f, f) /\ Calm(f, f)
  BY <1>6, MildSame DEF Calm
<1>8. Mild(f, taken) /\ Calm(f, taken)
  <2>1. /\ taken \in Engine /\ taken.wire = f.wire /\ taken.tokens = f.tokens
        /\ taken.callback = f.callback /\ taken.overlap = f.overlap
        /\ taken.posted = f.posted /\ taken.state = f.state /\ taken.proc = f.proc
    BY <1>6 DEF Engine
  <2> HIDE DEF taken
  <2> QED
    BY <1>6, <2>1, FieldMild
<1>9. Mild(f, gone) /\ Calm(f, gone)
  <2>1. /\ gone \in Engine /\ gone.wire = f.wire /\ gone.tokens = f.tokens
        /\ gone.callback = f.callback /\ gone.overlap = f.overlap
        /\ gone.posted = f.posted /\ gone.state = f.state /\ gone.proc = "Ended"
    BY <1>6 DEF Engine
  <2> HIDE DEF gone
  <2> QED
    BY <1>6, <2>1, FieldMild
<1> HIDE DEF taken, gone
<1>10. Mild(f, d') /\ Calm(f, d')
  BY <1>2, <1>7, <1>8, <1>9
<1> QED
  BY <1>4, <1>5, <1>6, <1>10, GdbReady

(* The program tells of itself only when it has been started.                *)
LEMMA SaysFine ==
  ASSUME NEW e, NEW o, NEW p, Fine(e, o, p), Free(e, o), e.proc = "Running",
         NEW l \in Seq(Line), \A C : No(l, AnswersTo(C)), NEW p2
  PROVE  Fine(e, o \o l, p2) /\ (Unsent(e, o) => Unsent(e, o \o l))
<1> DEFINE r == o \o l
<1>0. e \in Engine /\ o \in Seq(Line)
  BY DEF Fine
<1>1. /\ r \in Seq(Line)
      /\ \A C : No(o, AnswersTo(C)) => No(r, AnswersTo(C))
  BY <1>0, ConcatNo
<1>2. One(l, AnswersTo(Cmd))
  BY DEF No, One
<1>3. Cardinality(Answered(r)) = Cardinality(Answered(o))
  BY <1>0, <1>2, AnsweredConcat
<1> HIDE DEF r
<1>4. Pending(e, r) = Pending(e, o) /\ Live(e, r) = Live(e, o)
  BY <1>3 DEF Pending, Live
<1>5. Counts(e, r, p2)
  BY <1>4 DEF Fine, Counts
<1>6. ASSUME ~e.overlap PROVE Order(e, r, p2)
  <2>1. Idle(e, o) /\ Order(e, o, p)
    BY <1>6 DEF Free, Fine
  <2>2. Idle(e, r)
    BY <1>1, <1>4, <2>1 DEF Idle, Answers
  <2>3. Once(e, r)
    BY <2>1, <2>2 DEF Order, Once, Idle, Answers, One, No
  <2>4. No(e.posted, {"RunEngine"})
    BY <2>1, SubsetNo DEF Idle, Posts, Preparing
  <2> QED
    BY <2>2, <2>3, <2>4 DEF Order
<1> QED
  BY <1>0, <1>1, <1>5, <1>6 DEF Fine, Unsent, r

LEMMA ProgramReady ==
  ASSUME Ready, TakesInterrupt \/ ProgramStops \/ ProgramExits \/ GdbDies
  PROVE  Ready' /\ Rises
<1> DEFINE taken == [d EXCEPT !.interrupt = FALSE]
           gone == [d EXCEPT !.proc = "Ended", !.interrupt = FALSE]
<1>0. d \in Engine /\ Fine(d, out, inferior) /\ Waits(d)
  BY DEF Ready, Fine
<1>1. /\ d.proc = "Running"
      /\ \/ /\ inferior = "running" /\ d' \in {d, taken}
            /\ Emit(<<Stopped("hit")>>) \/ Emit(<<GroupExited, Stopped("exited")>>)
         \/ d' = gone /\ inferior' = "none" /\ out' = out
  BY DEF TakesInterrupt, ProgramStops, ProgramExits, GdbDies
<1>2. Mild(d, d) /\ Calm(d, d)
  BY <1>0, MildSame DEF Calm
<1>3. Mild(d, taken) /\ Calm(d, taken)
  <2>1. /\ taken \in Engine /\ taken.wire = d.wire /\ taken.tokens = d.tokens
        /\ taken.callback = d.callback /\ taken.overlap = d.overlap
        /\ taken.posted = d.posted /\ taken.state = d.state /\ taken.proc = d.proc
    BY <1>0 DEF Engine
  <2> HIDE DEF taken
  <2> QED
    BY <1>0, <2>1, FieldMild
<1>4. Mild(d, gone) /\ Calm(d, gone)
  <2>1. /\ gone \in Engine /\ gone.wire = d.wire /\ gone.tokens = d.tokens
        /\ gone.callback = d.callback /\ gone.overlap = d.overlap
        /\ gone.posted = d.posted /\ gone.state = d.state /\ gone.proc = "Ended"
    BY <1>0 DEF Engine
  <2> HIDE DEF gone
  <2> QED
    BY <1>0, <1>1, <2>1, FieldMild
<1> HIDE DEF taken, gone
<1>5. CASE d' = gone /\ inferior' = "none" /\ out' = out
  <2>1. Fine(d, out', inferior')
    BY <1>0, <1>5, FineNone
  <2>2. Mild(d, d') /\ Calm(d, d') /\ (Unsent(d, out) => Unsent(d, out'))
    BY <1>4, <1>5
  <2> QED
    BY <2>1, <2>2, GdbReady
<1>6. CASE /\ inferior = "running" /\ d' \in {d, taken}
           /\ Emit(<<Stopped("hit")>>) \/ Emit(<<GroupExited, Stopped("exited")>>)
  <2>1. ~Quiet(d, out, inferior)
    BY <1>6 DEF Quiet
  <2>2. Free(d, out)
    BY <1>0, <2>1, OverIsFree
  <2>3. <<Stopped("hit")>> \in Seq(Line) /\ <<GroupExited, Stopped("exited")>> \in Seq(Line)
    BY Lines DEF Cmd, ResultClass
  <2>4. \A C : /\ No(<<Stopped("hit")>>, AnswersTo(C))
               /\ No(<<GroupExited, Stopped("exited")>>, AnswersTo(C))
    BY NewsNo
  <2>5. PICK l \in Seq(Line) : out' = out \o l /\ \A C : No(l, AnswersTo(C))
    BY <1>6, <2>3, <2>4 DEF Emit
  <2>6. Fine(d, out', inferior') /\ (Unsent(d, out) => Unsent(d, out'))
    BY <1>0, <1>1, <2>2, <2>5, SaysFine
  <2>7. Mild(d, d') /\ Calm(d, d')
    BY <1>2, <1>3, <1>6
  <2> QED
    BY <2>6, <2>7, GdbReady
<1> QED
  BY <1>1, <1>5, <1>6

-----------------------------------------------------------------------------
(* Every step keeps the order, and tells gdb to run the program only when no  *)
(* breakpoint is on its way.                                                 *)
LEMMA ReadyInit == Init => Ready
<1> SUFFICES ASSUME Init PROVE Ready
  OBVIOUS
<1>1. d = InitEngine /\ inferior = "none" /\ out = <<>> /\ d \in Engine
  BY SafeInit DEF Init, Safe, Good
<1>2. /\ d.posted = <<>> /\ d.wire = <<>> /\ d.tokens = 0 /\ d.callback = FALSE
      /\ d.state = "DebuggerNotReady"
  BY <1>1 DEF InitEngine
<1>3. Pending(d, out) = 0
  BY <1>1, <1>2, AnsweredEmpty DEF Pending
<1>4. Order(d, out, inferior)
  BY <1>1, <1>2, NoEmpty DEF Order, Once, Idle, Posts, Asks, Answers, Live
<1>5. out \in Seq(Line)
  BY <1>1
<1> QED
  BY <1>1, <1>2, <1>3, <1>4, <1>5 DEF Ready, Fine, Counts, Waits

LEMMA ReadyNext == Safe /\ Ready /\ [Next]_vars => Ready' /\ Rises
<1> SUFFICES ASSUME Safe, Ready, [Next]_vars
             PROVE  Ready' /\ Rises
  OBVIOUS
<1>1. CASE EventLoop
  BY <1>1, EventLoopReady
<1>2. CASE HandleGdbFinished
  BY <1>2, ProcessFinishedReady
<1>3. CASE Start
  BY <1>3, StartReady
<1>4. CASE \/ ReadGdbStandardOutput \/ CommandTimeout
           \/ (\E stop \in BOOLEAN : AnswerBox(stop))
           \/ Stop \/ AbortDebugger \/ Continue \/ Interrupt \/ ChangeBreakpoint
           \/ SynchronizeBreakpoints
  BY <1>4, UserReady
<1>5. CASE GdbReads
  BY <1>5, GdbReadsReady
<1>6. CASE TakesInterrupt \/ ProgramStops \/ ProgramExits \/ GdbDies
  BY <1>6, ProgramReady
<1>7. CASE UNCHANGED vars
  BY <1>7 DEF vars, Ready, Rises, Unsent, Unrun, Fine, Waits, Counts, Pending, Answered,
     Order, Once, Idle, Posts, Asks, Answers, Live, Quiet, Agreed
<1> QED
  BY <1>1, <1>2, <1>3, <1>4, <1>5, <1>6, <1>7 DEF Next, Application, User, Gdb

LEMMA ReadyInvariant == Spec => [](Safe /\ Ready)
<1>1. Safe /\ Ready /\ [Next]_vars => (Safe /\ Ready)'
  BY SafeNext, ReadyNext
<1> QED
  BY SafeInit, ReadyInit, <1>1, PTL DEF Spec

(* What is on its way, said of the pipe and of the lines.                    *)
LEMMA FlightIsSent ==
  ASSUME Ready, NEW c \in Cmd
  PROVE  InFlight(c) <=> ~(No(d.wire, {c}) /\ No(out, AnswersTo({c})))
<1>1. \A i \in DOMAIN out : out[i] \in Line
  BY DEF Ready, Fine
<1>2. \A i \in DOMAIN out :
        out[i].what = "answer" /\ out[i].cmd = c <=> out[i] \in AnswersTo({c})
  <2> SUFFICES ASSUME NEW l \in Line
               PROVE  l.what = "answer" /\ l.cmd = c <=> l \in AnswersTo({c})
    BY <1>1
  <2> QED
    BY LineKinds
<1> QED
  BY <1>2 DEF InFlight, No

LEMMA RunIsSent == Ready => (InFlight("run") <=> ~Unsent(d, out))
<1>1. "run" \in Cmd
  BY DEF Cmd
<1> QED
  BY <1>1, FlightIsSent DEF Unsent, Unrun

(* The program is started only when every breakpoint gdb was told of has been *)
(* answered: "Continue only if there are no commands wire anymore"            *)
(* (handleInferiorPrepared, m_commandsDoneCallback, notifyInferiorSetupOk).   *)
THEOREM BreakpointsAreToldFirst == Spec => BreakpointsBeforeRun
<1>0. (Ready => (InFlight("run") <=> ~Unsent(d, out)))'
  BY RunIsSent, PTL
<1>1. Safe /\ Ready /\ (Safe /\ Ready)' /\ [Next]_vars =>
        [~d.overlap /\ InFlight("run")' /\ ~InFlight("run") => ~InFlight("break")]_vars
  <2> SUFFICES ASSUME Safe, Ready, Ready', [Next]_vars, ~d.overlap, InFlight("run")',
                      ~InFlight("run"), InFlight("break")
               PROVE  FALSE
    OBVIOUS
  <2>1. "break" \in Cmd
    BY DEF Cmd
  <2>2. Rises
    BY ReadyNext
  <2>3. Unsent(d, out) /\ ~(No(d.wire, {"break"}) /\ No(out, AnswersTo({"break"})))
    BY <2>1, RunIsSent, FlightIsSent
  <2>4. Unsent(d, out)'
    BY <2>2, <2>3 DEF Rises
  <2> QED
    BY <1>0, <2>4
<1> QED
  BY <1>1, ReadyInvariant, PTL DEF Spec, BreakpointsBeforeRun
=============================================================================
