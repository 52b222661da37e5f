------------------------------ MODULE GdbEngine ------------------------------
(***************************************************************************)
(* GdbEngine and GdbPlainEngine (gdbengine.cpp, gdbplainengine.cpp): one    *)
(* engine object on top of DebuggerEngine, the gdb process it talks to, and *)
(* the program gdb runs.                                                    *)
(*                                                                          *)
(* The object is the record d: the fields of the base class and of its own. *)
(* gdb runs with target-async off, so it reads no command while the program *)
(* runs; what it writes is read one line at a time.  A batch of commands    *)
(* without callbacks is the one command that ends it.                       *)
(***************************************************************************)
EXTENDS DebuggerEngine, Integers

CONSTANTS
  MaxStarts,      (* times the run control is started: once, then re-run     *)
  MaxEvents       (* actions of the user, deaths of gdb, watchdog boxes      *)

ASSUME BoundsAssumption == MaxStarts \in Nat /\ MaxEvents \in Nat

VARIABLES
  d,              (* the engine                                              *)
  inferior,       (* external: the program under gdb                         *)
  out,            (* external: what gdb has written and nobody has read      *)
  events          (* how many of the bounded events have happened            *)

vars == <<d, inferior, out, events>>

Cmd == {"setup", "file", "break", "run", "continue", "threads", "kill", "exit"}
ResultClass == {"done", "running", "exit", "error", "runFailed", "ignored"}
Reason == {"hit", "exited"}

(* A line of gdb's output. *)
Line ==
  [what : {"answer"}, cmd : Cmd, class : ResultClass]
    \cup [what : {"running", "groupExited"}]
    \cup [what : {"stopped"}, reason : Reason]

Answer(c, class) == [what |-> "answer", cmd |-> c, class |-> class]
Running == [what |-> "running"]
GroupExited == [what |-> "groupExited"]
Stopped(reason) == [what |-> "stopped", reason |-> reason]

InitEngine ==
  [ state |-> "DebuggerNotReady", target |-> "DebuggerNotReady", attached |-> FALSE,
    running |-> FALSE, posted |-> <<>>, starts |-> 0, reports |-> 0,
    proc     |-> "NotRunning",  (* m_gdbProc; Ended: dead, and not yet noticed *)
    wire     |-> <<>>,          (* commands written and not read by gdb        *)
    tokens   |-> 0,             (* the number of entries of m_commandForToken  *)
    callback |-> FALSE,         (* m_commandsDoneCallback is set               *)
    temporaryStop |-> FALSE,    (* m_temporaryStopPending                      *)
    interrupt |-> FALSE,        (* the program has a SIGINT to take            *)
    box      |-> FALSE,         (* the message box of the watchdog is open     *)
    dirty    |-> FALSE,         (* breakpoints to be told to gdb               *)
    overlap  |-> FALSE ]        (* history: started over what an earlier start *)
                                (*   has left: a gdb, or a posted call         *)

Init ==
  d = InitEngine /\ inferior = "none" /\ out = <<>> /\ events = 0

-----------------------------------------------------------------------------
(* Commands. *)
AcceptsCommands(s) ==
  s \notin { "DebuggerNotReady", "InferiorStopFailed", "InferiorSetupOk",
             "EngineRunFailed", "InferiorRunFailed", "EngineShutdownOk",
             "EngineShutdownFailed", "DebuggerFinished" }

AcceptsBreakpoints(s) ==
  s \in { "InferiorSetupRequested", "InferiorRunRequested", "InferiorRunOk",
          "InferiorStopRequested", "InferiorStopOk" }

NeedsStop == {"break", "kill"}
LosesChild == {"kill"}

(* Interrupting a program that is gone fails at once. *)
Reached == inferior # "none"

Write(e, c) ==
  IF e.proc = "NotRunning" THEN e
  ELSE [e EXCEPT !.wire = Append(@, c), !.tokens = @ + 1]

RunCommand(e, c) ==
  IF ~AcceptsCommands(e.state) THEN e
  ELSE IF c \in LosesChild /\ e.state = "InferiorStopRequested" THEN NotifyInferiorIll(e)
  ELSE IF c \in NeedsStop /\ e.state = "InferiorRunOk" /\ ~e.temporaryStop
       THEN Write(DoInterruptInferior([e EXCEPT !.temporaryStop = TRUE], Reached), c)
       ELSE Write(e, c)

(* attemptBreakpointSynchronization, for as much as reaches the pipe. *)
Synchronize(e) ==
  IF e.dirty /\ AcceptsBreakpoints(e.state)
  THEN RunCommand([e EXCEPT !.dirty = FALSE], "break") ELSE e

ContinueInferiorInternal(e) == RunCommand(NotifyInferiorRunRequested(e), "continue")

KillGdb(e) == IF e.proc = "Running" THEN [e EXCEPT !.proc = "Ended"] ELSE e

-----------------------------------------------------------------------------
(* Answers. *)
FinishInferiorSetup(e) == NotifyInferiorSetupOk(e)

PreparedAtOnce(e) == FinishInferiorSetup(Synchronize(e))
HandleInferiorPrepared(e) ==
  LET told == Synchronize(e) IN
  IF told.tokens = 0 THEN FinishInferiorSetup(told) ELSE [told EXCEPT !.callback = TRUE]

HandlePythonSetup(e, class) ==
  IF class = "done" THEN NotifyEngineSetupOk(e) ELSE NotifyEngineSetupFailed(e)

HandleFileExecAndSymbols(e, class) ==
  IF class = "done" THEN HandleInferiorPrepared(e) ELSE NotifyInferiorSetupFailed(e)

HandleExecRun(e, class) ==
  IF class = "running" THEN NotifyEngineRunAndInferiorRunOk(e) ELSE NotifyEngineRunFailed(e)

(* "Cannot access memory at address" is not answered in any way. *)
HandleExecuteContinue(e, class) ==
  CASE class = "running" -> NotifyInferiorRunOk(e)
    [] class = "runFailed" -> NotifyInferiorRunFailed(e)
    [] class = "ignored" -> e
    [] OTHER -> NotifyInferiorIll(e)

HandleInferiorShutdown(e, class) ==
  IF class = "done" THEN e ELSE NotifyInferiorShutdownFailed(e)

ExitErrorIgnored(e, class) == e
HandleGdbExit(e, class) ==
  IF class = "exit" THEN e ELSE NotifyEngineShutdownFailed(KillGdb(e))

Callback(e, c, class) ==
  CASE c = "setup" -> HandlePythonSetup(e, class)
    [] c = "file" -> HandleFileExecAndSymbols(e, class)
    [] c = "run" -> HandleExecRun(e, class)
    [] c = "continue" -> HandleExecuteContinue(e, class)
    [] c = "kill" -> HandleInferiorShutdown(e, class)
    [] c = "exit" -> HandleGdbExit(e, class)
    [] OTHER -> e

AllCommandsDone(e, class) ==
  IF ~(e.callback /\ e.tokens = 0) THEN e
  ELSE IF class = "running" THEN [e EXCEPT !.callback = FALSE]
  ELSE FinishInferiorSetup([e EXCEPT !.callback = FALSE])

HandleResultRecord(e, c, class) ==
  AllCommandsDone(Callback([e EXCEPT !.tokens = @ - 1], c, class), class)

-----------------------------------------------------------------------------
(* Asynchronous output. *)
HandleRunning(e) ==
  IF e.state \in {"InferiorRunOk", "InferiorSetupRequested"} THEN e ELSE NotifyInferiorRunOk(e)

(* handleStop1 and handleStop2: the stack is asked for from the event loop. *)
HandleStop(e) == [e EXCEPT !.posted = Append(@, "Stop2")]

HandleStopResponse(e, reason) ==
  CASE IsDying(e) -> NotifyInferiorStopOk(e)
    [] ~IsDying(e) /\ reason = "exited" -> e
    [] ~IsDying(e) /\ reason # "exited" /\ e.temporaryStop ->
         ContinueInferiorInternal(NotifyInferiorStopOk([e EXCEPT !.temporaryStop = FALSE]))
    [] OTHER ->
         CASE e.state \in {"InferiorRunOk", "InferiorRunRequested"} ->
                HandleStop(NotifyInferiorSpontaneousStop(e))
           [] e.state = "InferiorStopRequested" -> HandleStop(NotifyInferiorStopOk(e))
           [] e.state = "EngineRunRequested" -> NotifyEngineRunAndInferiorStopOk(e)
           [] OTHER -> HandleStop(e)

HandleLine(e, line) ==
  CASE line.what = "answer" -> HandleResultRecord(e, line.cmd, line.class)
    [] line.what = "running" -> HandleRunning(e)
    [] line.what = "groupExited" -> NotifyInferiorExited(e)
    [] OTHER -> HandleStopResponse(e, line.reason)

-----------------------------------------------------------------------------
Event == events < MaxEvents /\ events' = events + 1

-----------------------------------------------------------------------------
(* The event loop. *)
SetupEngine(e) ==
  RunCommand(IF e.proc = "NotRunning" THEN [e EXCEPT !.proc = "Running"] ELSE e, "setup")

NotifyAdapterShutdownOk(e) ==
  IF e.proc = "NotRunning" THEN NotifyEngineShutdownOk([e EXCEPT !.callback = FALSE])
  ELSE RunCommand([e EXCEPT !.callback = FALSE], "exit")

TargetOfInferior(e) == [e EXCEPT !.target = "InferiorShutdownOk"]
Dying(e) == [e EXCEPT !.target = "DebuggerFinished"]

(* What a posted call does; SetupEngine may also find that gdb cannot start. *)
Perform(e, call) ==
  CASE call = "SetupInferior" -> RunCommand(e, "file")
    [] call = "RunEngine" -> RunCommand(e, "run")
    [] call = "ShutdownInferior" -> RunCommand(Dying(e), "kill")
    [] call = "ShutdownEngine" -> NotifyAdapterShutdownOk(Dying(e))
    [] call = "FinishDebugger" -> DoFinishDebugger(e)
    [] OTHER -> RunCommand(e, "threads")

(* A program does not outlive its gdb. *)
Becomes(e) == d' = e /\ inferior' = IF e.proc = "Ended" THEN "none" ELSE inferior

Next1 == [d EXCEPT !.posted = Tail(@)]

EventLoop ==
  /\ d.posted # <<>>
  /\ \/ /\ Head(d.posted) = "SetupEngine"
        /\ Becomes(SetupEngine(Next1)) \/ Becomes(NotifyEngineSetupFailed(Next1))
     \/ /\ Head(d.posted) # "SetupEngine"
        /\ Becomes(Perform(Next1, Head(d.posted)))
  /\ UNCHANGED <<out, events>>

ReadGdbStandardOutput ==
  /\ out # <<>>
  /\ Becomes(HandleLine(d, Head(out)))
  /\ out' = Tail(out)
  /\ UNCHANGED events

(* The process object reads what is left of the output before it reports.   *)
HandleGdbFinished ==
  /\ d.proc = "Ended" /\ out = <<>>
  /\ Becomes(NotifyDebuggerProcessFinished(
               [d EXCEPT !.proc = "NotRunning", !.wire = <<>>], Reached))
  /\ UNCHANGED <<out, events>>

(* m_commandTimer runs while a command is not answered: the answer may be     *)
(* late or never come.  The box runs an event loop of its own; one box at a   *)
(* time.                                                                      *)
CommandTimeout ==
  /\ d.tokens # 0 /\ ~d.box /\ Event
  /\ Becomes([d EXCEPT !.box = TRUE])
  /\ UNCHANGED out

AnswerBox(stop) ==
  /\ d.box
  /\ LET closed == [d EXCEPT !.box = FALSE] IN
     Becomes(IF stop THEN NotifyEngineShutdownFailed(KillGdb(closed)) ELSE closed)
  /\ UNCHANGED <<out, events>>

-----------------------------------------------------------------------------
(* The user.  The actions go to the current engine, which is the engine of a *)
(* run control that runs, and no box may be open.                            *)
Start ==
  /\ ~d.running /\ d.starts < MaxStarts /\ ~d.box
  /\ Becomes(StartDebugger([d EXCEPT !.dirty = TRUE,
                       !.overlap = @ \/ d.proc # "NotRunning" \/ d.posted # <<>>]))
  /\ UNCHANGED <<out, events>>

Stop ==
  /\ d.running /\ ~d.box /\ Event
  /\ Becomes(QuitDebugger(d, Reached))
  /\ UNCHANGED out

AbortDebugger ==
  /\ d.running /\ ~d.box /\ d.state # "DebuggerFinished" /\ Event
  /\ Becomes(IF IsDying(d) THEN KillGdb(d) ELSE QuitDebugger(d, Reached))
  /\ UNCHANGED out

Continue ==
  /\ d.running /\ ~d.box /\ d.state = "InferiorStopOk" /\ Event
  /\ Becomes(ContinueInferiorInternal(d))
  /\ UNCHANGED out

Interrupt ==
  /\ d.running /\ ~d.box /\ d.state = "InferiorRunOk" /\ Event
  /\ Becomes(DoInterruptInferior(d, Reached))
  /\ UNCHANGED out

ChangeBreakpoint ==
  /\ d.running /\ ~d.box /\ ~d.dirty /\ Event
  /\ Becomes([d EXCEPT !.dirty = TRUE])
  /\ UNCHANGED out

(* The timer of a change, or the answer to the last breakpoint command.      *)
SynchronizeBreakpoints ==
  /\ d.dirty /\ AcceptsBreakpoints(d.state)
  /\ Becomes(Synchronize(d))
  /\ UNCHANGED <<out, events>>

-----------------------------------------------------------------------------
(* External: gdb and the program. *)
Emit(lines) == out' = out \o lines

GdbRuns(c) ==
  \/ /\ inferior' = "running"
     /\ Emit((IF c = "run" /\ inferior # "none" THEN <<GroupExited>> ELSE <<>>)
               \o <<Answer(c, "running"), Running>>)
  \/ /\ inferior' = inferior
     /\ Emit(<<Answer(c, "error")>>)
  \/ /\ c = "continue" /\ inferior' = inferior
     /\ \E class \in {"runFailed", "ignored"} : Emit(<<Answer(c, class)>>)

GdbReads ==
  /\ d.proc = "Running" /\ inferior # "running" /\ d.wire # <<>>
  /\ LET c == Head(d.wire)
         read == [d EXCEPT !.wire = Tail(@)] IN
     \/ /\ c \in {"setup", "file"}
        /\ \E class \in {"done", "error"} : Emit(<<Answer(c, class)>>)
        /\ d' = read /\ UNCHANGED inferior
     \/ /\ c \in {"break", "threads"}
        /\ Emit(<<Answer(c, "done")>>)
        /\ d' = read /\ UNCHANGED inferior
     \/ /\ \/ c = "run"
           \/ c = "continue" /\ inferior = "stopped"
        /\ GdbRuns(c) /\ d' = read
     \/ /\ c \in {"continue", "kill"} /\ inferior = "none"
        /\ Emit(<<Answer(c, "error")>>)
        /\ d' = read /\ UNCHANGED inferior
     \/ /\ c = "kill" /\ inferior = "stopped"
        /\ Emit(<<GroupExited, Answer(c, "done")>>)
        /\ inferior' = "none" /\ d' = [read EXCEPT !.interrupt = FALSE]
     \/ /\ c = "exit"
        /\ \/ Emit(<<>>) \/ Emit(<<Answer(c, "exit")>>)
        /\ inferior' = "none"
        /\ d' = [read EXCEPT !.proc = "Ended", !.interrupt = FALSE]
     \/ /\ c = "exit"
        /\ Emit(<<Answer(c, "error")>>)
        /\ d' = read /\ UNCHANGED inferior
  /\ UNCHANGED events

ProgramStops ==
  /\ d.proc = "Running" /\ inferior = "running"
  /\ inferior' = "stopped" /\ Emit(<<Stopped("hit")>>)
  /\ UNCHANGED <<d, events>>

TakesInterrupt ==
  /\ d.proc = "Running" /\ inferior = "running" /\ d.interrupt
  /\ inferior' = "stopped" /\ Emit(<<Stopped("hit")>>)
  /\ d' = [d EXCEPT !.interrupt = FALSE]
  /\ UNCHANGED events

ProgramExits ==
  /\ d.proc = "Running" /\ inferior = "running"
  /\ inferior' = "none" /\ Emit(<<GroupExited, Stopped("exited")>>)
  /\ d' = [d EXCEPT !.interrupt = FALSE]
  /\ UNCHANGED events

GdbDies ==
  /\ d.proc = "Running" /\ Event
  /\ d' = [d EXCEPT !.proc = "Ended", !.interrupt = FALSE] /\ inferior' = "none"
  /\ UNCHANGED out

Application == EventLoop \/ ReadGdbStandardOutput \/ HandleGdbFinished
User == Start \/ Stop \/ AbortDebugger \/ Continue \/ Interrupt \/ ChangeBreakpoint
Gdb == GdbReads \/ TakesInterrupt

Next ==
  \/ Application \/ User \/ Gdb
  \/ CommandTimeout \/ \E stop \in BOOLEAN : AnswerBox(stop)
  \/ SynchronizeBreakpoints
  \/ ProgramStops \/ ProgramExits \/ GdbDies

Spec == Init /\ [][Next]_vars

(* The event loop runs what is due, gdb reads and answers what it is sent    *)
(* while the program does not run, and a program that runs takes an          *)
(* interrupt.  Nobody promises that the program ever stops, that the user    *)
(* acts, or that the message box is answered.                                *)
FairSpec ==
  /\ Spec
  /\ WF_vars(EventLoop) /\ WF_vars(ReadGdbStandardOutput) /\ WF_vars(HandleGdbFinished)
  /\ WF_vars(GdbReads) /\ WF_vars(TakesInterrupt)

-----------------------------------------------------------------------------
(* What each variable holds. *)
Engine ==
  [ state : DebuggerState, target : {"DebuggerNotReady", "DebuggerFinished"},
    attached : BOOLEAN, running : BOOLEAN, posted : Seq(Call), starts : Nat,
    reports : Nat, proc : {"NotRunning", "Running", "Ended"}, wire : Seq(Cmd),
    tokens : Int, callback : BOOLEAN, temporaryStop : BOOLEAN, interrupt : BOOLEAN,
    box : BOOLEAN, dirty : BOOLEAN, overlap : BOOLEAN ]

TypeOK ==
  /\ d \in Engine
  /\ inferior \in {"none", "stopped", "running"}
  /\ out \in Seq(Line)
  /\ events \in 0..MaxEvents

(* Every start is reported as finished once, and nothing else is.            *)
Session == INSTANCE DebugSession WITH starts <- d.starts, reports <- d.reports
ImplementsSession == Session!SSpec

(* A debugger that has reached its last state tells its run control.         *)
FinishIsReported ==
  d.state = "DebuggerFinished" /\ d.running =>
    \E i \in DOMAIN d.posted : d.posted[i] = "FinishDebugger"

(* A run control that waits for a debugger whose gdb does not run waits for  *)
(* a call that is on its way: it is never left behind.                       *)
NeverStranded ==
  d.running /\ d.proc = "NotRunning" =>
    \E i \in DOMAIN d.posted :
      d.posted[i] \in {"SetupEngine", "ShutdownEngine", "FinishDebugger"}

(* A command that gdb has not answered, or whose answer has not been read.   *)
InFlight(c) ==
  (\E i \in DOMAIN d.wire : d.wire[i] = c)
    \/ \E i \in DOMAIN out : out[i].what = "answer" /\ out[i].cmd = c

(* The program is started only when every breakpoint gdb was told of before  *)
(* has been answered ("Continue only if there are no commands wire anymore").*)
BreakpointsBeforeRun ==
  [][~d.overlap /\ InFlight("run")' /\ ~InFlight("run") => ~InFlight("break")]_vars

(* When a session is over its gdb is gone: "before calling                   *)
(* notifyEngineSetupFailed() any process started during setupEngine() so far *)
(* must be terminated" (debuggerplugin.cpp:184).                             *)
NoGdbLeftBehind == ~d.running => d.proc # "Running"

(* A session the user has stopped ends, unless the program keeps gdb from    *)
(* reading what it is told.                                                  *)
StoppedSessionEnds ==
  d.running /\ IsDying(d) /\ ~d.overlap ~> ~d.running \/ inferior = "running"
=============================================================================
