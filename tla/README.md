# Verification of LeanCreator: TLA+ models, model checking and proofs

LeanCreator is a stripped-down Qt Creator: a C++ IDE whose native build system is
BUSY, a library that parses a build description and hands out a list of
operations. This directory holds TLA+ modules that model the parts of the IDE where
the order of events decides whether it is right, the TLC configurations that check
them on small instances, and TLAPS proofs for every value of the constants.

Source paths are relative to the repository's root (`src/`).

## 1. Inventory

Nearly all state of the IDE belongs to the GUI thread. What makes it hard is
that slots are re-entered (nested event loops in `cancel()`, message boxes,
`processEvents`), that ends of work arrive as queued calls, and that a few
components own threads or child processes.

| Component | State | Operations | What is hard | What makes it correct |
|---|---|---|---|---|
| BUSY build scheduler, `busytools/busyBuilder.cpp` | the list of operations, the current group, the pool of runner threads, success/cancel/quitting flags | start, started(), finished() of a runner, select, cancel, the end of a runner | runner threads end at any time; their ends are queued calls; two ways to end a build; cancel blocks | groups are barriers; nothing starts after a failure or a cancel; one result; always a result |
| Incremental decision, `isDue` in the same file | file times, a copy of the header times | decide whether an operation runs | edits, failures and cancels between builds; times taken at one moment and compared at another | no output is left stale that a complete build takes for up to date |
| C++ dependency table, `cplusplus/DependencyTable.cpp`, cached by `CppDocument.cpp` | the rows and their bits; the snapshot's documents | insert, remove, build, ask | in-place iteration in hash order; a cache that is told of inserts only | the bits are exactly reachability; no dependent is missed |
| Build queue, `projectexplorer/buildmanager.cpp` | queued steps, the current step, running/canceling, counters per project | buildLists, cancel, removal of a project, end of a step | recursion of nextStep and nextBuildQueue; a loop of events within cancel; GUI steps and thread steps end differently | counters and connections are exact; a failure drops the rest; every build ends |
| Build and run, `projectexplorer/projectexplorer.cpp` | the delayed run | queue, run, report of the end | the report is queued and anonymous | the program starts only after the steps queued for it |
| Sessions, `projectexplorer/session.cpp` | open projects, dependencies, failed projects, the active project, session files | open, close, save, load, clone, rename, delete, order | files written for one set of projects are read with another; switches that are cut short; projects that do not load | there is always an order to build in; no project is lost |
| BUSY projects and steps, `busyprojectmanager/` | parse state, the job of a step | parse, build, run, cancel | a parse and a build exclude each other; jobs are deleted late | one job per step; a build sees a parsed project |
| BUSY engine, `busytools/Engine.cpp`, `busyapi.cpp` | a Lua state | parse, visit | external library | groups of operations are numbered in order |
| Targets, kits, tool chains, run controls, `projectexplorer/` | registries, active choices, running programs | add, remove, activate, start, stop | asynchronous stop; removal while running | the active choice is a member |
| Debugger engine, `debugger/debuggerengine.cpp` | the state of an engine and of its inferior | set-up, run, stop, interrupt, shutdown | every notification may come late; two parties may end the session | only legal transitions; shutdown always completes |
| GDB engine, `debugger/gdb/gdbengine.cpp` | commands with tokens, flags, time-out | send, answer, time out, interrupt for a command | answers out of order, discarded, lost | every answer reaches its own callback once |
| Breakpoints, `debugger/breakhandler.cpp` with the commands of `gdbengine.cpp` | a state, a number in gdb, the user's parameters and gdb's per breakpoint | add, edit, remove, synchronize, release at the end of a session | edits race the answers; refusals; gdb dies with answers unread | once all is answered gdb has what the user sees, once each |
| CDB, LLDB, PDB engines, views, `debugger/` | further back ends, watch trees | as the gdb engine | as the gdb engine | as the gdb engine |
| Plugin system, `extensionsystem/`; aggregation | plugin states, load queue, options | resolve, list, enable, load, initialize, extend, stop, wait, delete | any graph of dependencies, cycles; failures half-way; asynchronous shutdown | the promised order; no object without what it requires; one failure hits its dependents only |
| Core: editors, documents, progress, find, locator, actions, `core/` | open editors, watched files, futures | open, close, save, changed on disk | changes seen while being made; modal dialogs | no document is lost or saved over |
| C++ code model, `cpptools/`, `cppeditor/`, `cplusplus/` | snapshot, project parts, working copy | update, index, collect garbage | worker threads on copies of a snapshot | the snapshot ends up with the newest revision |
| Text editor, viewers, help, resource editor, class view, generic projects, wizards | documents and models | editing and display | little beyond presentation | – |
| Application, utilities, assets | – | start-up, helpers, a vendored SQLite | – | – |

How they interact: a build request goes from the user or the plugin to the build
queue (`SessionManager` supplies the order of the projects), the queue runs build
steps one at a time, a BUSY step creates a `BuildJob`, whose `Builder` distributes
the operations to runner threads; the `Builder` takes the dependency table of the
code model to decide what is due; its result travels back to the step, to the
queue, and as a queued call to the plugin, which may then start a program.

A debugger is started by a run control. The engine object and its run control call
each other directly; everything else in the engine goes through zero timers and
through the two pipes of gdb. The break handler belongs to all engines: it asks the
current one for a synchronization by a timer, and the engine reports back state by
state. The plugin manager runs before all of these and after them, from `main()`.

## 2. Modules

| Module | Models | Proofs | Checked by |
|---|---|---|---|
| `BuildContract` | what a build job promises (abstract) | | `builder` |
| `Builder` | the scheduler | `BuilderProofs` | `builder` |
| `IncrementalBuild` | the scheduler with files and times | `IncrementalProofs` | `incremental` |
| `DependencyTable` | dependency table and its cache | `DependencyProofs` | `dependency_table` |
| `BuildQueue` | the build queue | `QueueProofs` | `build_queue` |
| `RunAfterBuild` | build and run on top of the queue | `QueueProofs` | `run_after_build`, `early_launch` |
| `SessionProjects` | sessions and project order | `SessionProofs` | `session`, `session_order` |
| `DebugSession` | what a debugger owes its run control (abstract) | | `gdb` |
| `DebuggerEngine` | the notify, queue and do functions of the engine's state machine, as operators on an engine | | `gdb`, `aborted_setup` |
| `GdbEngine` | the gdb engine on top of it, gdb and its program | `DebuggerProofs` | `gdb`, `aborted_setup` |
| `Breakpoints` | break handler, synchronization, gdb's table | `BreakpointProofs` | `breakpoints` |
| `PluginManager` | the life of all plugins | `PluginProofs` | `plugins` |
| `MC*` | instances for TLC | | |

### Builder
`ops` and `done` are `d_work`: the list handed to `start` and how many operations
`takeFirst` has taken. `available` is `d_available`, `rstate`/`rop`/`rok` describe
the runner threads: idle, running, or ended with `finished()` still in the event
queue. All slots run in the thread that created the Builder, the GUI thread, so
they are atomic towards each other but not towards the runners: `pc` is the position
inside `select()`, and a runner may end (`RunnerDone`) between any two steps of it.
`SwitchGroup`/`FillGroup` are the two inner loops, `EndRound` the end of a round,
`waitQuit` and `waitCancel` are the two waits for the pool. `OnQuit` follows the wait
directly: `invokeMethod` is a direct call there. `outcome` and `result` are history:
what an operation really did, and what was reported. Where two alternatives of a
small part are of interest (how the flag is accumulated, how much of the list is
taken), that part is an operator of its own, next to a wrong variant that is used by
nothing and shows what the properties tell apart; the other modules do the same.

### IncrementalBuild
Extends every action of Builder by the files. `isDue` is `IsDue`; `headerTime` is the
table that `start` copies; `stale` is history, the outputs that do not reflect
their inputs. A failing tool may delete its output, leave the old one or, as one that is killed
at its time limit, leave what it has written so far (`partial`, history). An edit
takes place between builds and in a second of its own. `FilesAssumption` is what the visitors of
`busyapi.cpp` guarantee of a list: a file is made once in it, by a group behind the
groups that make what it is made from, and from the same files in every list.
`TimesSuffice` names the builds for which a comparison of times can be right at all (see the
proofs for why each part is needed).

### DependencyTable
`documents`/`includedFiles` are the snapshot, `files` the order of the rows (empty: "build on
the next access"), `includes`/`includeMap` the rows, named by files instead of
numbers. One step is one row of a sweep. `Index` has `QHash::value`'s default: an
unknown file is row 0.

### BuildQueue and RunAfterBuild
An entry carries the request it belongs to (history). `work` tells what the
current step does; a GUI step ends by calling the queue, a thread step ends in its
thread and is collected by a queued call. `cancel()` of a GUI step spins the event
loop (`InCancelLoop`): everything but user input may happen in it. `nextStep` and
`nextBuildQueue` call each other for disabled steps; `NextStep` drops the leading
disabled entries at once. `Book` collects the counters and connections that every
path has to update. RunAfterBuild adds the delayed run of the plugin and the delivery
of the queued report `buildQueueFinished`. `Run` has no guard beyond that of the queue: the tool
bar's run action is disabled during a build, but those of the project tree's context menu
are not. `hasty` is history: the runs asked for while a report is still posted.

### SessionProjects
`deps`, `failed`, `startup` are `m_depMap`, `m_failedProjects`, `m_startupProject`; `file` is
what is on disk per session. `LoadSession` is one step: no user input is processed
until its last line, the question about failed projects, whose two answers are the two
alternatives of `Switch`. `LoadCancelled` is a switch refused by an editor;
`RenameCancelled` the rename that goes on regardless. `want` is history: which
projects the user has put into each session and not taken out. A clone or rename is to have
what the user has put into the original (`WantedCopy`), whatever is in the file that is copied;
it has, since the dialog saves the open session first (`SavedForDialog`). `nameless` marks an
active session whose name and file are gone (see Deviations). `m_projects` is a set:
its order only decides which project becomes active when the active one goes, and the
model leaves that choice open.

### DebugSession, DebuggerEngine and GdbEngine
The engine object is one record, since nearly every function of it changes a state
and goes on to call another one: an operator of `DebuggerEngine` is a member function
and yields the object after it, with everything it calls. `posted` are the calls made
by `QTimer::singleShot(0, ...)`. `setState` and `QTC_ASSERT` only log, so they guard nothing:
a notification that comes in an unexpected state does what the code does then.
`GdbEngine` adds the object's own members, the command pipe `wire`, the output pipe `out`,
and the program. gdb runs with target-async off: it reads no command while the
program runs, which is why the code interrupts the program for a command
(`temporaryStop`). `HandleStopResponse`, `RunCommand` and the callbacks are the functions
of their names; commands without a callback that follow each other are one. A
second start re-uses the object, as *Debug > re-run* does. `overlap` is history: a start
over what an earlier one has left behind (see `aborted_setup`).

### Breakpoints
`h.item` is the tree of `BreakpointItem`s, `params` what the user wants and `resp` what gdb
is known to have; `wire`, `answers` and `table` are the two pipes and gdb's own table. The
engine is reduced to the phases in which its breakpoint code acts differently. A member function that
concerns one breakpoint is an operator on its item that yields the item afterwards and
what it sends; `AttemptBreakpointSynchronization` makes one visit to each item, and the
order of the visits, which is that of the tree, is left open.
`raced`, `refused`, `hurried` are history and mark the windows in which the code is known to
lose track (listed under Deviations); so are `astray`, a breakpoint whose line in gdb nobody
compares any more, and `stale`, a session that begins with an item
that still has a number from the gdb before. Outside of them the properties hold without
exception. The line, the counts and the enabled flag stand for the three ways a
parameter is treated: inserted again, taken over from the answer, compared with it.
gdb may keep a breakpoint pending, say another line than the one asked for (`Placed`), and
resolve a pending one at any line later (`GdbResolves`); `UpdateResponse` reads what it says.

### PluginManager
One step per plugin for every loop, and one per call of the recursive `loadQueue`,
whose recursion is `stack`. `pc` is the loop the manager is in, `goal` what the list is made
for. `meta` is what the plugin files say, chosen at the start and never changed.
`faulty` is history: plugins whose own library or `initialize()` has failed, as opposed
to those that fail through others.

## 3. Runs

Passing runs:

- `builder`: two runners; lists with parallel groups, single operations, product
  starts and a Lua step, up to six operations; failures and cancels anywhere,
  builds in succession. Two runners suffice for a runner that is busy while
  another ends; a group of three has one operation more than runners. It also checks
  that Builder implements `BuildContract` (identity on `ops`, `outcome`, `result`).
- `incremental`: two sources, one with a header, linked into a program, and a second list that
  makes one of the objects alone, so that builds of different extent alternate; four
  seconds, so up to three edits or ticks spread over any number of builds, with tools that
  fail or are killed at any time.
- `dependency_table`: three files, every include relation, every row order. Three give
  cycles, orders that need several sweeps, and includes of removed files.
- `build_queue`: two projects, three steps of which one is disabled and one runs in
  the GUI thread, three requests. Three requests overlap in every way two can, with
  one more arriving while a cancel is pending.
- `run_after_build`: the same with GUI steps only, as all step factories of the
  repository create, and with runs asked for at any time. `NoDanglingStep` and
  `NoRequestWhileCanceling` need the GUI steps: with a thread step, `cancel` returns before the
  queue is cleared. `LaunchedOnlyAfterItsSteps` says nothing of the runs in `hasty`.
- `session`: two projects, the default and two named sessions, up to symmetry of the
  projects and of the named sessions: a clone of a rename, a switch away and back, a restart.
- `session_order`: three projects, one session: cycles through a third project. Whether a round
  of the ordering loop finds a project depends on all that has made the graph, the check
  of `addDependency` and what was restored from a file (`RoundProgresses`).
- `gdb`: one session and a re-run of the same engine object, with three events of the user,
  of the watchdog or deaths of gdb between them. Three suffice for a stop during a
  temporary stop, an abort after a stop, a death of gdb while a box is open. It checks
  that the engine implements `DebugSession` under `starts <- d.starts, reports <- d.reports`.
- `breakpoints`: one breakpoint with two lines and two counts, two edits, two sessions, gdb
  refusing and dying at any time; gdb chooses the place of the first two insertions of
  a session (`MaxPlaced`). The constraint `Followed` ends a behaviour where the breakpoint is
  `raced`: that is for good, and with one breakpoint every property but `TypeOK` then says
  nothing any more. The types beyond are proved (`BreakpointTypes`), and at smaller bounds the
  same properties were checked without the constraint (a million states). Breakpoints
  share nothing but the order of the pipe, and the theorems are about any number of them.
- `plugins`: every graph of required dependencies of three plugins, one optional
  dependency more, and at most one plugin that is broken, absent or switched off; every
  library may fail. Three plugins give cycles beside sound plugins and diamonds; two
  plugins with self-dependencies, any combination of defects and two options were run
  besides.

Runs that refute a statement of the repository (details under `findings` in
PROJECT.json):

- `early_launch`: an empty list handed to a busy queue reports "finished", and a
  waiting run is started too early.
- `aborted_setup`: a session stopped during the set-up is reported as finished while its gdb
  lives on, against the rule in `debuggerplugin.cpp`.

### Deviations
Found while modelling, each with the model or with a run of it, and not kept as runs
of their own; the properties above are stated around them.

- Builder: `onQuit` runs directly after the wait for the pool, before the queued ends of
  the last runners, so a failure of the last group may be missing in the result
  (`SuccessHidesOnlyLastGroup` says that it can be no other). With a pool of size 0 a build
  never ends (`EveryBuildEnds` assumes one runner).
- IncrementalBuild: header times are those of the start of the build, so a header that
  the build itself generates is compared too old. What a Lua step writes is written anew by each
  build; when that falls in the second in which the build before has compiled it, the
  compilation is not due. A tool that is killed at its time limit, or fails, may have written a part
  of its output; it is newer than the inputs, and the next build passes over it
  (`busyBuilder.cpp:346`).
- RunAfterBuild: the run actions of the context menu (`projectexplorer.cpp:2541`, `3064`) call
  `runRunConfiguration` without asking `canRun`. A run asked for while the report of a
  successful build is still posted is started by that report, before its steps.
- SessionProjects: a project that failed to load and that the user has opened and closed
  again is written back to the session. A rename of the active session goes on when an
  editor has refused the switch: name and file of the session that is still open are deleted. A session
  created under that name before the next save is then overwritten by it.
- BuildQueue: a request that is refused disconnects the output of its steps, also of those that
  an accepted request still has in the queue; they run on in silence.
- GdbEngine: a re-run keeps the tokens of unanswered commands, so that the callback that waits
  for "no more commands" may wait for ever; a set-up aborted by the user leaves gdb
  running; the exemption of the watchdog tests for `-gdb-exit`, while the command
  written is a Python call.
- Breakpoints: an edit is lost when it is made between a command and its answer (a removal
  during a change, any edit while the engine starts the program), when gdb has refused the
  insertion, and when a session ends before a requested removal was sent: the breakpoint comes
  back as new. The answer to an ignore count is recorded as the value of the item at
  that moment, not as the one sent. An insertion answered after the watchdog has ended the
  session re-creates an item that was removed meanwhile, with the number it had in the
  dead gdb; in the next session that number is another breakpoint's, which the next edit hits
  (`stale`; found when the proof of `SettledAgrees` failed). A changed line of a pending
  breakpoint is not sent (`gdbengine.cpp:2783`, `2787`): the item goes to "inserted" and gdb keeps the
  old line; and a pending breakpoint that is resolved at another line stays there until its
  next edit (`astray`). Where gdb says another line than the one asked for, `needsChange`
  (`breakhandler.cpp:1386`) has the breakpoint deleted and inserted again at once; if gdb always says
  another line, as for a line without code, that never ends (`MaxPlaced` bounds it, and
  `EditsReachGdb` holds since it does). An insertion that is answered with success after its item
  is gone goes on to call the functions of a null item (`breakhandler.cpp:959`): the user has
  removed such an item where the code loses track (`raced`), and the model has the callback
  do nothing. An item that gdb's announcement adds beside the one it was
  inserted for (`breakhandler.cpp:1092`) is not followed either.
- PluginManager: an optional dependency that is broken or part of a cycle fails what prefers
  it (`loadQueue` does not tell the two kinds apart), although the comment in `pluginspec.cpp`
  calls it not necessarily needed; `aboutToShutdown` of the plugins can never
  find a dependency that is not stopped (`StagesStop`), so that error path is dead.

### Bounds
`MaxRequests` (accepted build requests), `MaxTime` (seconds), `MaxStarts` (sessions of an engine),
`MaxEvents` (user actions, deaths of gdb and watchdog boxes together), `MaxEdits` and `MaxSessions`
(of breakpoints), `MaxPlaced` (the last insertion of a session whose place gdb chooses) and
`MaxOptions` (-load and -noload on the command line) bound counters in
guards; everything else is finite by itself. The pool sizes, lists, projects and sessions are
constants given above.

### Fairness
- Builder: weak fairness of the main thread (the event loop runs) and of each
  running program: a process is given up after 240 s (`busyBuilder.cpp:346`), a Lua
  script is assumed to end. No fairness of user actions: nobody has to start or cancel.
- BuildQueue and RunAfterBuild: the event loop delivers, and a started step ends;
  for a BUSY step that is `EveryBuildEnds` of Builder.
- DependencyTable: the loop is plain code and goes on.
- GdbEngine: the event loop runs what is due, gdb reads and answers while the program
  does not run, and a running program takes an interrupt. Not assumed: that the
  program stops by itself, that the user acts, or that the watchdog's box is answered. So
  `StoppedSessionEnds` excepts a program that runs and keeps gdb from reading.
- Breakpoints: the timer, the delayed deletion and the reading of answers happen, and gdb
  answers. The engine may stay in any phase as long as it likes.
- PluginManager: its loops run, and a plugin that asked to be waited for finishes. No fairness
  of the command line or of the user who quits.

### Deadlock
Checked for Builder and DependencyTable. Off for the others: a queue whose requests are used
up, a clock at its bound, a session manager, a debugger that is done, and a program that has
been left may stop.

## 4. Proofs

All are for arbitrary constants under the assumptions named in the modules.

**Builder** (`BuilderProofs`): for every pool, every set of lists with nondecreasing
groups and both settings of stop-on-error. None of the properties is inductive alone.
`IInv` joins: what each position of the main thread says of the flags (`PhaseInv`; for example
that the loop is never entered with `quitting`), what `d_available` says of the threads
(`PoolInv`), which operations the runners hold (`WorkInv`), that all of them are of the
current group (`GroupInv`), and what a failed command has left in the flags (`FailInv`). One
lemma per action. From it: the barrier, the failure properties, that runners never share
an operation, that nothing runs once a result is out and that it is the only one, that no
wakeup is lost (for a non-empty pool: with none a build never ends), that a cancel starts
nothing, and that every step of Builder is a step of `BuildContract` or leaves its
variables alone.

**Sessions** (`SessionProofs`): the dependencies of the open projects are always orderable.
Acyclicity is stated without recursion (every non-empty set of projects has one
that waits for none of the set), and reachability as membership in all closed sets, so
the arguments are first-order: an arc that the search allows closes no cycle (`ArcOrderable`),
a part of an acyclic graph is acyclic. The session files are part of the invariant since
what is restored is what was saved for another set of projects; that they are consistent too is
a theorem of its own. From it: the ordering loop always progresses, an open project implies an
active one, and no project is lost. For the last the invariant also says that in the session dialog
the file of the active session holds what is open (or its name is gone): the save that precedes
the dialog is what makes a copy of the file a copy of the session.

**Dependency table** (`DependencyProofs`): the loop computes the least relation closed under
the direct includes. That there is no bit too many (`TableIsReachability`: a row is within every
closed set that holds its includes) is inductive as it stands; that there is none too few
(`TableIsComplete`) needs
`Passed`: in a sweep that has changed nothing yet, the rows behind the index are closed, so
that leaving the loop unchanged means closed everywhere. That the cache misses no
dependent needs `RowsCoverSnapshot`: while a table is kept, documents only go.

**Build queue** (`QueueProofs`): for all steps, projects and step lists. The counters are
sums over the entries that run or wait, and every path of the code takes entries off
the front of that sequence or adds some at its end; so the lemmas say what each count is of a
concatenation, what `Forget` and `Remember` do to a book that tallies with it, and that
`nextStep`, `clearBuildQueue` and the start of a step leave a consistent queue. The stated
properties are inductive together with three facts (`QInv`): only an enabled step is ever
current (else its end would count progress that was never announced), every entry is of
an accepted request (else a new request could be one that has failed), and a cancel is
pending only while the queue runs. From it: exact counters, a request is dropped as a
whole, and nothing is started after a cancel.

**Build and run** (`QueueProofs`, second part), on top of `QInv`:
- Under `GuiStep = Step` (every step runs in the GUI thread, as all step factories of the repository
  have it) a pending cancel is always inside the event loop of `cancel()` (`CancelLoops`), so
  no request is accepted before the queue is cleared, and (`Removal`) while a project is
  being removed either the queue runs the rest of a cancel or nothing of the project is left in
  it; so none of its steps survives the project. With thread steps both are false: `cancel`
  returns at once.
- Under `<<>> \notin Lists` (no empty list of steps is queued) the program that waits for a
  build is started after its steps only. The report the plugin waits for is anonymous; the
  argument (`Waiting`) is that a report of success on its way, while a run is delayed, means
  that none of the run's steps is left and none has failed, since the queue reports only
  when it is empty, and that a failure resets the delayed run before. A run may be asked for at
  any time, in the middle of a build too; only with a report already on its way (`hasty`) the
  argument and the property fail. `early_launch` is the run in
  which the hypothesis is false and the property with it.

**Incremental build** (`IncrementalProofs`): every behaviour of the build with files is one
of Builder, so what is proved of the scheduler, the contract included, holds for it. That a
complete build leaves nothing out of date holds for every description of a build that satisfies
`TimesSuffice`, for any number of edits, failures and cancels. An output is *old* when its time
says so, and the danger is one that is stale without being old. The invariant keeps `Good`, the
largest set of outputs that are not old and made only of sources and of each other:
- what is stale is old (`StaleIsOld`), and only what is old is made again (`RunningIsOld`);
- what was written in the present second is good (`RecentIsGood`); so when an output is renewed,
  what is made of it is older, hence old from now on: had it been made in the same
  second it would be good, and with it the output that was renewed, which was old;
- what this build has made or passed over is good (`ToolsDone`), since its inputs are of earlier
  groups, which are done (`GroupBarrier`) and, by stop-on-error, have succeeded.

Nothing of this is said of the outputs in `partial`: nothing makes them old. What is made of
them becomes old when they are written, like that of any other output.

Each part of `TimesSuffice` excludes a counterexample: without stop-on-error a failed input
lets its users be made new; headers that are not tracked, or that the build makes itself, are
compared with no time or with an old one; a script's output is made again without being due.

**Debugger** (`DebuggerProofs`): for any number of starts and events. `Good` says of an engine
that a run control runs exactly while the engine knows it, that exactly then one session
is open, and that a session without gdb, or in the last state, has a call on its way
that will end it (`Promises`). It is proved function by function: each notify and queue
function keeps `Good` in whatever state it is called and reports at most the session
that is open (`Step`), so the proof does not depend on which notifications are expected
where; the actions compose a few functions each. `SafeInvariant` adds gdb and the pipes. From
it: types, `FinishIsReported`, `NeverStranded`, and the refinement of `DebugSession`.

**Plugins** (`PluginProofs`): for every finite set of plugins, every graph and every
combination of failures. Four invariants, each on top of those before:
- `Typed`, the types and on which side of the queue an index may be;
- `Lists`: a queue holds everything once and behind what it depends on; the recursion goes
  along dependencies, each call about a plugin of its own, and once inside a set that is
  closed under dependencies it stays there; what no queue has carries an error;
- `Stages`: the states a plugin may be in before, in and after each loop, left and right
  of the index, and that what is up stands on what is up. From it `DependenciesAlive` and
  `OrderKept`, and that the error path of `aboutToShutdown` is dead;
- `Sane`: for every set of plugins that is sound (closed under dependencies, complete, without a
  cycle, not failing itself), none of it is blamed, what one of it needs is enabled when the
  last list is made, and those enabled are exactly as far as the loop has come. That
  `loadQueue` blames none of them is the argument about cycles: a call found on the stack
  would make the part of the stack above it a cycle within the set. From it
  `SoundPluginsRun`. Acyclicity is stated as in SessionProofs, without recursion.

**Order of the set-up** (`DebuggerProofs`, second part): `BreakpointsBeforeRun`, for any number of
starts and events. A session that did not start over something left behind has at most one
thing on its way that leads to the start of the program (`Once`): a
posted call, one of the set-up commands, its unread answer, or the callback that waits
for all answers; as long as there is one the program has not run (`Quiet`). While the callback
waits, some command is unanswered (`Waits`; `Counts` keeps `tokens` at least as large as what is
in the two pipes), and when it is called none is, so no breakpoint command can be in flight
when the start of the program is posted, nor be sent until the program is started (`Agreed`). The invariant
`Ready` is proved function by function like `Good`: the member functions are sorted by what
they may add to the order (`Mild`, `Calm`, `Timely`, `Leads`), and one lemma per action
composes them. A re-run over the tokens of a dead gdb is where it breaks, hence `overlap`.

**Breakpoints** (`BreakpointProofs`): for any breakpoints, parameters, edits and sessions. None of the
four properties is inductive. `IInv` is `World` (what gdb and the phase are, numbers
are unique) together with `Sound`: for each breakpoint that is not `raced`, the state of its item
determines what is on its way for it (`Tracked`): nothing (`Resting`), exactly one command that gdb
has not read (`Sent`), or exactly one answer (`Unread`), and in each case what gdb has of it: for
example, between a change and its answer gdb has the old or the new ignore count, under the number the item
has. The line is part of this while the item is not `astray`, and what the item knows of gdb must be
what gdb has (`Seen`), also when gdb has put it elsewhere. `Settled` adds that what is requested is being waited for when no synchronization is due.
The lemmas have three layers: what a member function does to its own item and the command it
sends (one lemma per function), what that does to the two pipes (what is alone in a queue stays
alone when something of another breakpoint is added or taken), and that all other
breakpoints do not notice (`Unconcerned`, `BystanderKeeps`). One lemma per action puts them
together; since a synchronization is one visit per item, it needs no induction over the items.
From it: types, no double insertion, no unexpected transition, and that a settled session agrees.

Only model-checked: the liveness properties (`EveryBuildEnds`, `SweepEnds`, `EveryQueueEnds`,
`DelayedRunResolved`, `StoppedSessionEnds`, `EditsReachGdb`, `AlwaysReturns`): fairness and ENABLED are
beyond the prover. Every safety property of the passing runs has a theorem. Not stated at all,
by a run or a theorem, are the two hypotheses on lists of operations (`JobsAssumption`,
`FilesAssumption`): the visitor that numbers the groups is a later module.

## 5. What is not modelled

Within the modelled parts: the text of command lines and messages, task and output
panes, the restoring of editors and other session values, the cascading switch of
targets, names of sessions. Edits during a running build (no time-stamp build survives
them), file times that go backwards, two writes in one second. Of the debugger: stepping,
locals and the other requests that only display, remote and attached programs, slave
engines. Of breakpoints: markers, several locations of one breakpoint, dragging. Of the
plugins: reading meta data, versions, the object pool, the self tests.

Components without a module are listed with their reason in PROJECT.json; the BUSY library
itself is a submodule and not part of the repository.

## 6. Plan

Done, in this order: Builder with its contract and proofs; IncrementalBuild, which
refines Builder; BuildQueue with proofs; RunAfterBuild; SessionProjects with proofs;
DependencyTable with proofs; DebugSession, DebuggerEngine and GdbEngine with proofs;
Breakpoints; PluginManager with proofs; proofs of the files, of build and run, of the order of
a debugger's set-up, and of Breakpoints.

Next, most important first:

1. `BuildOperations`: the visitor of `busyapi.cpp` that numbers groups, to discharge `JobsAssumption`
   and the part of `FilesAssumption` about groups.
2. `BusyProject`: parse and build exclude each other, late deletion of jobs.
3. Breakpoints composed with GdbEngine instead of with its phases, the proofs of both reused.
4. `RunControl`, `FileChanges`, `CodeModel` as far as they are worth it.

Composition: RunAfterBuild extends BuildQueue; IncrementalBuild extends Builder; GdbEngine
extends DebuggerEngine and implements DebugSession.
