---------------------------- MODULE DebuggerEngine ----------------------------
(***************************************************************************)
(* DebuggerEngine (debuggerengine.cpp): the state machine every back end    *)
(* drives with its notify functions, and what the base class does with the  *)
(* run control (debuggerruncontrol.cpp).                                    *)
(*                                                                          *)
(* The engine is a record e; an operator is a member function and yields    *)
(* the engine afterwards.  Its fields are                                   *)
(*   state, target   m_state and m_targetState                              *)
(*   attached        m_runControl is not 0                                  *)
(*   running         the run control's m_running                            *)
(*   posted          the calls that wait in the event loop                  *)
(*   interrupt       the program has an interrupt to take                   *)
(*   starts, reports history: started() and finished() emitted              *)
(* setState only logs an unexpected transition, and QTC_ASSERT only logs    *)
(* its condition, so neither guards anything here.                          *)
(***************************************************************************)
EXTENDS Naturals, Sequences

DebuggerState ==
  { "DebuggerNotReady", "EngineSetupRequested", "EngineSetupFailed", "EngineSetupOk",
    "InferiorSetupRequested", "InferiorSetupFailed", "InferiorSetupOk",
    "EngineRunRequested", "EngineRunFailed", "InferiorRunRequested", "InferiorRunOk",
    "InferiorRunFailed", "InferiorStopRequested", "InferiorStopOk",
    "InferiorStopFailed", "InferiorShutdownRequested", "InferiorShutdownOk",
    "InferiorShutdownFailed", "EngineShutdownRequested", "EngineShutdownOk",
    "EngineShutdownFailed", "DebuggerFinished" }

(* The do* functions that wait in the event loop (QTimer::singleShot(0)).   *)
Call == { "SetupEngine", "SetupInferior", "RunEngine", "ShutdownEngine",
          "ShutdownInferior", "FinishDebugger", "Stop2" }

SetState(e, s) == [e EXCEPT !.state = s]

Queue(e, s, call) == [e EXCEPT !.state = s, !.posted = Append(@, call)]

IsDying(e) == e.target = "DebuggerFinished"

-----------------------------------------------------------------------------
(* The run control: finished() makes it let go of the engine.               *)
Report(e) ==
  [e EXCEPT !.running = FALSE, !.attached = FALSE, !.reports = @ + 1]

QueueSetupEngine(e)      == Queue(e, "EngineSetupRequested", "SetupEngine")
QueueSetupInferior(e)    == Queue(e, "InferiorSetupRequested", "SetupInferior")
QueueRunEngine(e)        == Queue(e, "EngineRunRequested", "RunEngine")
QueueShutdownEngine(e)   == Queue(e, "EngineShutdownRequested", "ShutdownEngine")
QueueShutdownInferior(e) == Queue(e, "InferiorShutdownRequested", "ShutdownInferior")
QueueFinishDebugger(e)   == Queue(e, "DebuggerFinished", "FinishDebugger")

ReportsAgain(e) == Report(e)
DoFinishDebugger(e) == IF e.attached THEN Report(e) ELSE e

-----------------------------------------------------------------------------
(* Setting up. *)
UnreportedFailure(e) == SetState(e, "DebuggerFinished")
NotifyEngineSetupFailed(e) ==
  SetState(IF e.attached THEN Report(e) ELSE e, "DebuggerFinished")

(* The run control's start(), with a target state that is neutral again.     *)
StartDebugger(e) ==
  LET started == [e EXCEPT !.running = TRUE, !.starts = @ + 1] IN
  IF e.attached THEN NotifyEngineSetupFailed(started)
  ELSE QueueSetupEngine([started EXCEPT !.attached = TRUE, !.target = "DebuggerNotReady"])

(* EngineSetupOk is left in the same call.                                   *)
NotifyEngineSetupOk(e) == QueueSetupInferior(e)

NotifyInferiorSetupFailed(e) == QueueShutdownEngine(e)
NotifyInferiorSetupOk(e) == QueueRunEngine(e)

NotifyEngineRunFailed(e) == QueueShutdownEngine(e)
NotifyEngineRunAndInferiorRunOk(e) == SetState(e, "InferiorRunOk")
NotifyEngineRunAndInferiorStopOk(e) == SetState(e, "InferiorStopOk")

-----------------------------------------------------------------------------
(* Running and stopping. *)
NotifyInferiorRunRequested(e) == SetState(e, "InferiorRunRequested")
NotifyInferiorRunOk(e) == SetState(e, "InferiorRunOk")

NotifyInferiorRunFailed(e) ==
  IF IsDying(e) THEN QueueShutdownInferior(e) ELSE SetState(e, "InferiorStopOk")

NotifyInferiorStopOk(e) ==
  IF ~IsDying(e) THEN SetState(e, "InferiorStopOk")
  ELSE IF e.state \in { "InferiorStopRequested", "InferiorRunRequested",
                        "InferiorRunOk", "InferiorStopOk", "InferiorStopFailed" }
       THEN QueueShutdownInferior(e)
       ELSE e

NotifyInferiorSpontaneousStop(e) == SetState(e, "InferiorStopOk")
NotifyInferiorStopFailed(e) == QueueShutdownEngine(e)

(* interruptInferior is the back end's; the engines of local programs signal *)
(* the process, and report at once when it cannot be signalled.              *)
InterruptInferior(e, reached) ==
  IF reached THEN [e EXCEPT !.interrupt = TRUE] ELSE NotifyInferiorStopFailed(e)

DoInterruptInferior(e, reached) ==
  InterruptInferior(SetState(e, "InferiorStopRequested"), reached)

-----------------------------------------------------------------------------
(* Shutting down. *)
NotifyInferiorShutdownOk(e) == QueueShutdownEngine(e)
NotifyInferiorShutdownFailed(e) == QueueShutdownEngine(e)
NotifyInferiorExited(e) == QueueShutdownEngine(e)

NotifyInferiorIll(e) ==
  QueueShutdownInferior([e EXCEPT !.target = "DebuggerFinished"])

NotifyEngineShutdownOk(e) == QueueFinishDebugger(e)
NotifyEngineShutdownFailed(e) == QueueFinishDebugger(e)
NotifyEngineSpontaneousShutdown(e) == QueueFinishDebugger(e)

Interruptible == { "InferiorRunRequested", "InferiorRunOk" }

NotifyEngineIll(e, reached) ==
  LET dying == [e EXCEPT !.target = "DebuggerFinished"] IN
  IF e.state \in Interruptible THEN DoInterruptInferior(dying, reached)
  ELSE QueueShutdownEngine(dying)

OnlyUnexpected(e, reached) ==
  IF e.state \in {"DebuggerFinished", "EngineShutdownRequested"} THEN e
  ELSE NotifyEngineIll(e, reached)
(* Whether a program receives the interrupt that NotifyEngineIll may send.   *)
NotifyDebuggerProcessFinished(e, reached) ==
  CASE e.state = "DebuggerFinished" -> e
    [] e.state = "EngineShutdownRequested" -> NotifyEngineShutdownOk(e)
    [] e.state = "InferiorRunOk" -> NotifyEngineSpontaneousShutdown(e)
    [] OTHER -> NotifyEngineIll(e, reached)

QuitDebugger(e, reached) ==
  LET dying == [e EXCEPT !.target = "DebuggerFinished"] IN
  CASE e.state \in {"InferiorStopOk", "InferiorStopFailed"} -> QueueShutdownInferior(dying)
    [] e.state = "InferiorRunOk" -> DoInterruptInferior(dying, reached)
    [] e.state = "EngineSetupRequested" -> NotifyEngineSetupFailed(dying)
    [] e.state \in {"EngineSetupOk", "InferiorSetupRequested"} ->
         NotifyInferiorSetupFailed(dying)
    [] e.state = "EngineRunRequested" -> NotifyEngineRunFailed(dying)
    [] e.state \in {"EngineShutdownRequested", "EngineRunFailed", "DebuggerFinished",
                    "InferiorShutdownOk"} -> dying
    [] OTHER -> NotifyInferiorIll(dying)
=============================================================================
