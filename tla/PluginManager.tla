----------------------------- MODULE PluginManager -----------------------------
(***************************************************************************)
(* The plugin manager (pluginmanager.cpp, pluginspec.cpp, optionsparser.cpp):*)
(* the plugins are resolved, ordered by loadQueue, enabled as dependencies,  *)
(* loaded and initialized from the root of the dependencies to the leaves,   *)
(* extended from the leaves to the root, and at the end stopped and deleted. *)
(*                                                                          *)
(* A loop over the plugins is one step per plugin, and loadQueue one step    *)
(* per call, with the recursion as a stack.  The order of the list of        *)
(* plugins (that of the files at first, that of the names later) and of a    *)
(* hash of dependencies is left open.                                        *)
(***************************************************************************)
EXTENDS Naturals, Sequences, FiniteSets

CONSTANTS
  Plugin,         (* the plugins that are found                              *)
  Metas,          (* what may be said of them, see MetaData                  *)
  MaxOptions      (* how many options the command line has                   *)

(* The dependencies that are found; broken: its own meta data are wrong, or a *)
(* required dependency is not found; absent: not for this platform;          *)
(* settings: enabled by the settings.                                        *)
MetaData ==
  [ requires : [Plugin -> SUBSET Plugin], prefers : [Plugin -> SUBSET Plugin],
    broken : SUBSET Plugin, absent : SUBSET Plugin, settings : SUBSET Plugin ]

ASSUME PluginAssumption ==
  /\ IsFiniteSet(Plugin) /\ MaxOptions \in Nat
  /\ Metas \subseteq {m \in MetaData : \A p \in m.broken : m.requires[p] = {} /\ m.prefers[p] = {}}

VARIABLES
  meta,
  forced,         (* forceEnabled, forceDisabled: by the command line        *)
  indirectly,     (* enabledIndirectly                                       *)
  state,
  err,            (* hasError                                                *)
  alive,          (* the plugins whose object exists                         *)
  pc, goal, pos,  (* where the manager is, what it lists for, loop index     *)
  todo, queue, stack, seen,   (* loadQueue; seen: circularityCheckQueue      *)
  delayed,        (* delayedInitializeQueue                                  *)
  async,          (* asynchronousPlugins                                     *)
  options,        (* how many options were read; parsed: all of them         *)
  parsed,
  faulty          (* history: its own library or initialize() has failed     *)

load == <<todo, queue, stack, seen>>
specs == <<state, err, alive, faulty>>
vars == <<meta, forced, indirectly, specs, pc, goal, pos, load, delayed, async, options, parsed>>

State == {"Read", "Resolved", "Loaded", "Initialized", "Running", "Stopped", "Deleted"}
Phase == {"resolve", "listing", "enable", "options", "noload", "load", "initialize",
          "extend", "started", "stop", "wait", "delete", "done"}

Queued == {queue[i] : i \in DOMAIN queue}
OnStack == {stack[i] : i \in DOMAIN stack}
Requires(p) == meta.requires[p]
Deps(p) == meta.requires[p] \cup meta.prefers[p]

(* isEffectivelyEnabled *)
Wanted(p) == forced[p] = "load" \/ (forced[p] = "no" /\ p \in meta.settings)
OnlyWanted(p) == p \notin meta.absent /\ Wanted(p)
Effective(p) == p \notin meta.absent /\ (Wanted(p) \/ p \in indirectly)

Init ==
  /\ meta \in Metas
  /\ forced = [p \in Plugin |-> "no"] /\ indirectly = {}
  /\ state = [p \in Plugin |-> "Read"] /\ err = {} /\ alive = {} /\ faulty = {}
  /\ pc = "resolve" /\ goal = "enable" /\ pos = 0
  /\ todo = {} /\ queue = <<>> /\ stack = <<>> /\ seen = {}
  /\ delayed = <<>> /\ async = {} /\ options = 0 /\ parsed = FALSE

-----------------------------------------------------------------------------
(* resolveDependencies: what has an error is passed over, the others are     *)
(* resolved again.                                                           *)
Resolve ==
  /\ pc = "resolve"
  /\ state' = [p \in Plugin |-> IF p \in meta.broken THEN "Read" ELSE "Resolved"]
  /\ err' = err \cup meta.broken
  /\ indirectly' = {}
  /\ pc' = "listing" /\ goal' = "enable"
  /\ todo' = Plugin /\ queue' = <<>> /\ stack' = <<>> /\ seen' = {}
  /\ UNCHANGED <<meta, forced, alive, faulty, pos, delayed, async, options, parsed>>

(* loadQueue() asks for one plugin after the other.                          *)
NextSpec ==
  /\ pc = "listing" /\ stack = <<>>
  /\ \E p \in todo :
       /\ todo' = todo \ {p}
       /\ \/ p \in Queued /\ UNCHANGED <<queue, stack, seen>>
          \/ /\ p \notin Queued /\ state[p] = "Read"
             /\ queue' = Append(queue, p) /\ UNCHANGED <<stack, seen>>
          \/ /\ p \notin Queued /\ state[p] # "Read"
             /\ stack' = <<p>> /\ seen' = {p} /\ UNCHANGED queue
  /\ UNCHANGED <<meta, forced, indirectly, specs, pc, goal, pos, delayed, async, options, parsed>>

(* A call that returns FALSE ends all the calls it was made from.            *)
Fail(blamed) ==
  /\ err' = err \cup blamed
  /\ stack' = <<>> /\ seen' = {}

Checked(d) == d \in seen

(* loadQueue(spec, ...): ask for a dependency that is not queued, or add the *)
(* plugin itself.                                                            *)
Descend ==
  /\ pc = "listing" /\ stack # <<>>
  /\ LET p == stack[Len(stack)]
         open == Deps(p) \ Queued IN
     \/ /\ open = {}
        /\ queue' = Append(queue, p) /\ stack' = SubSeq(stack, 1, Len(stack) - 1)
        /\ UNCHANGED <<seen, err>>
     \/ \E d \in open :
          \/ /\ Checked(d) /\ Fail(OnStack \cup {d}) /\ UNCHANGED queue
          \/ /\ ~Checked(d) /\ state[d] = "Read"
             /\ queue' = Append(queue, d) /\ Fail(OnStack)
          \/ /\ ~Checked(d) /\ state[d] # "Read"
             /\ stack' = Append(stack, d) /\ seen' = seen \cup {d}
             /\ UNCHANGED <<queue, err>>
  /\ UNCHANGED <<meta, forced, indirectly, state, alive, faulty, pc, goal, pos, todo,
                 delayed, async, options, parsed>>

Listed ==
  /\ pc = "listing" /\ stack = <<>> /\ todo = {}
  /\ pc' = goal /\ pos' = IF goal = "enable" THEN Len(queue) ELSE 1
  /\ UNCHANGED <<meta, forced, indirectly, specs, goal, load, delayed, async, options, parsed>>

(* enableDependenciesIndirectly, from the end of the queue.                  *)
EnableIndirectly ==
  /\ pc = "enable" /\ pos > 0
  /\ LET p == queue[pos] IN
     indirectly' = indirectly \cup
       (IF Effective(p) THEN {d \in Requires(p) : ~Effective(d)} ELSE {})
  /\ pos' = pos - 1
  /\ UNCHANGED <<meta, forced, specs, pc, goal, load, delayed, async, options, parsed>>

List(for) ==
  /\ pc' = "listing" /\ goal' = for
  /\ todo' = Plugin /\ queue' = <<>> /\ stack' = <<>> /\ seen' = {}

(* The plugins are resolved again when the command line has named some.      *)
Enabled ==
  /\ pc = "enable" /\ pos = 0
  /\ IF parsed THEN List("load") ELSE pc' = "options" /\ UNCHANGED <<goal, load>>
  /\ UNCHANGED <<meta, forced, indirectly, specs, pos, delayed, async, options, parsed>>

-----------------------------------------------------------------------------
(* The command line. *)
LoadOption(p) ==
  /\ pc = "options" /\ options < MaxOptions
  /\ forced' = [forced EXCEPT ![p] = "load"] /\ options' = options + 1
  /\ UNCHANGED <<meta, indirectly, specs, pc, goal, pos, load, delayed, async, parsed>>

(* -noload asks for the load queue ...                                       *)
NoLoadOption ==
  /\ pc = "options" /\ options < MaxOptions
  /\ List("noload") /\ options' = options + 1
  /\ UNCHANGED <<meta, forced, indirectly, specs, pos, delayed, async, parsed>>

(* pluginsRequiringPlugin, with the plugin itself: one sweep of the queue.   *)
RequiringPlugin(p) ==
  LET sweep[i \in 0..Len(queue)] ==
        IF i = 0 THEN {p}
        ELSE sweep[i - 1] \cup
               (IF Requires(queue[i]) \cap sweep[i - 1] # {} THEN {queue[i]} ELSE {})
  IN sweep[Len(queue)]

(* ... and disables the plugin and what requires it.                         *)
DisableRequiring(p) ==
  /\ pc = "noload"
  /\ LET gone == RequiringPlugin(p) IN
     forced' = [q \in Plugin |-> IF q \in gone THEN "noload" ELSE forced[q]]
  /\ pc' = "options"
  /\ UNCHANGED <<meta, indirectly, specs, goal, pos, load, delayed, async, options, parsed>>

Parsed ==
  /\ pc = "options"
  /\ parsed' = TRUE
  /\ IF options = 0 THEN List("load") ELSE pc' = "resolve" /\ UNCHANGED <<goal, load>>
  /\ UNCHANGED <<meta, forced, indirectly, specs, pos, delayed, async, options>>

-----------------------------------------------------------------------------
(* loadPlugin for the plugin at pos.  It does nothing for one that has an     *)
(* error or has not come as far as the others.                               *)
Here == queue[pos]
Ready(p, before) == p \notin err /\ state[p] = before

DependenciesIgnored(p, dest) == TRUE
(* The required dependencies have come where this plugin is to go.           *)
DependenciesAre(p, dest) == \A d \in Requires(p) : state[d] = dest

Blame(p) == err' = err \cup {p} /\ UNCHANGED <<state, alive>>

KillInvalid(p) ==
  IF p \in alive
  THEN alive' = alive \ {p} /\ state' = [state EXCEPT ![p] = "Invalid"]
  ELSE UNCHANGED <<alive, state>>
KillKeepsObject(p) ==
  IF p \in alive
  THEN alive' = alive /\ state' = [state EXCEPT ![p] = "Deleted"]
  ELSE UNCHANGED <<alive, state>>

Kill(p) ==
  IF p \in alive
  THEN alive' = alive \ {p} /\ state' = [state EXCEPT ![p] = "Deleted"]
  ELSE UNCHANGED <<alive, state>>

Forward(phase) == pc = phase /\ pos \in DOMAIN queue /\ pos' = pos + 1
Backward(phase) == pc = phase /\ pos \in DOMAIN queue /\ pos' = pos - 1

(* loadLibrary and initialize() may fail.                                    *)
Load ==
  /\ Forward("load")
  /\ \/ ~(Ready(Here, "Resolved") /\ Effective(Here)) /\ UNCHANGED specs
     \/ /\ Ready(Here, "Resolved") /\ Effective(Here)
        /\ \/ ~DependenciesAre(Here, "Loaded") /\ Blame(Here) /\ UNCHANGED faulty
           \/ DependenciesAre(Here, "Loaded") /\ Blame(Here) /\ faulty' = faulty \cup {Here}
           \/ /\ DependenciesAre(Here, "Loaded")
              /\ state' = [state EXCEPT ![Here] = "Loaded"] /\ alive' = alive \cup {Here}
              /\ UNCHANGED <<err, faulty>>
  /\ UNCHANGED <<meta, forced, indirectly, pc, goal, load, delayed, async, options, parsed>>

Initialize ==
  /\ Forward("initialize")
  /\ \/ ~Ready(Here, "Loaded") /\ UNCHANGED specs
     \/ /\ Ready(Here, "Loaded")
        /\ \/ ~DependenciesAre(Here, "Initialized") /\ Blame(Here) /\ UNCHANGED faulty
           \/ DependenciesAre(Here, "Initialized") /\ Blame(Here) /\ faulty' = faulty \cup {Here}
           \/ /\ DependenciesAre(Here, "Initialized")
              /\ state' = [state EXCEPT ![Here] = "Initialized"]
              /\ UNCHANGED <<err, alive, faulty>>
  /\ UNCHANGED <<meta, forced, indirectly, pc, goal, load, delayed, async, options, parsed>>

(* extensionsInitialized, or what has failed is deleted.                     *)
Extend ==
  /\ Backward("extend")
  /\ \/ /\ Ready(Here, "Initialized")
        /\ state' = [state EXCEPT ![Here] = "Running"] /\ delayed' = Append(delayed, Here)
        /\ UNCHANGED alive
     \/ ~Ready(Here, "Initialized") /\ Kill(Here) /\ UNCHANGED delayed
  /\ UNCHANGED <<meta, forced, indirectly, err, faulty, pc, goal, load, async, options, parsed>>

(* nextDelayedInitialize, one plugin; the rest of the queue is dropped when  *)
(* the program is left.                                                      *)
DelayedInitialize ==
  /\ pc = "started" /\ delayed # <<>>
  /\ delayed' = Tail(delayed)
  /\ UNCHANGED <<meta, forced, indirectly, specs, pc, goal, pos, load, async, options, parsed>>

(* shutdown() lists the plugins again, from the same list: the queue is what *)
(* it was.                                                                   *)
Quit ==
  /\ pc = "started"
  /\ pc' = "stop" /\ pos' = 1 /\ delayed' = <<>>
  /\ UNCHANGED <<meta, forced, indirectly, specs, goal, load, async, options, parsed>>

(* aboutToShutdown; a plugin may want to be waited for.                      *)
Stop ==
  /\ Forward("stop")
  /\ \/ ~Ready(Here, "Running") /\ UNCHANGED <<specs, async>>
     \/ /\ Ready(Here, "Running")
        /\ \/ ~DependenciesAre(Here, "Stopped") /\ Blame(Here) /\ UNCHANGED async
           \/ /\ DependenciesAre(Here, "Stopped")
              /\ state' = [state EXCEPT ![Here] = "Stopped"] /\ UNCHANGED <<err, alive>>
              /\ async' \in {async, async \cup {Here}}
        /\ UNCHANGED faulty
  /\ UNCHANGED <<meta, forced, indirectly, pc, goal, load, delayed, options, parsed>>

(* asyncShutdownFinished, in shutdownEventLoop. *)
AsyncShutdownFinished(p) ==
  /\ pc = "wait" /\ p \in async
  /\ async' = async \ {p}
  /\ UNCHANGED <<meta, forced, indirectly, specs, pc, goal, pos, load, delayed, options, parsed>>

Delete ==
  /\ Backward("delete")
  /\ IF Ready(Here, "Stopped") THEN Kill(Here) ELSE UNCHANGED <<state, alive>>
  /\ UNCHANGED <<meta, forced, indirectly, err, faulty, pc, goal, load, delayed, async, options, parsed>>

(* From one loop to the next. *)
AllFromFront(from, to, at) == pc = from /\ pc' = to /\ pos' = 1
Goes(from, to, at) == pc = from /\ pc' = to /\ pos' = at

LoopEnds ==
  /\ pos \notin DOMAIN queue
  /\ \/ Goes("load", "initialize", 1)
     \/ Goes("initialize", "extend", Len(queue))
     \/ Goes("extend", "started", 0)
     \/ Goes("stop", "wait", 0)
     \/ async = {} /\ Goes("wait", "delete", Len(queue))
     \/ Goes("delete", "done", 0)
  /\ UNCHANGED <<meta, forced, indirectly, specs, goal, load, delayed, async, options, parsed>>

-----------------------------------------------------------------------------
Manager ==
  \/ Resolve \/ NextSpec \/ Descend \/ Listed \/ EnableIndirectly \/ Enabled
  \/ \E p \in Plugin : DisableRequiring(p)
  \/ Load \/ Initialize \/ Extend \/ DelayedInitialize \/ Stop \/ Delete \/ LoopEnds

Next ==
  \/ Manager
  \/ \E p \in Plugin : LoadOption(p) \/ AsyncShutdownFinished(p)
  \/ NoLoadOption \/ Parsed \/ Quit

Spec == Init /\ [][Next]_vars

(* The manager's loops run, and a plugin that is waited for says in the end   *)
(* that it has finished.                                                     *)
FairSpec ==
  Spec /\ WF_vars(Manager) /\ \A p \in Plugin : WF_vars(AsyncShutdownFinished(p))

-----------------------------------------------------------------------------
(* What each variable holds. *)
TypeOK ==
  /\ meta \in MetaData
  /\ forced \in [Plugin -> {"no", "load", "noload"}] /\ indirectly \subseteq Plugin
  /\ state \in [Plugin -> State] /\ err \subseteq Plugin /\ alive \subseteq Plugin
  /\ faulty \subseteq Plugin
  /\ pc \in Phase /\ goal \in {"enable", "noload", "load"} /\ pos \in 0..Len(queue) + 1
  /\ todo \subseteq Plugin /\ queue \in Seq(Plugin) /\ stack \in Seq(Plugin)
  /\ seen \subseteq Plugin /\ delayed \in Seq(Plugin) /\ async \subseteq Plugin
  /\ options \in 0..MaxOptions /\ parsed \in BOOLEAN

(* No plugin object exists without those of the plugins it requires: one that *)
(* fails is deleted before what it was built on, and so is every plugin at    *)
(* the end.                                                                  *)
DependenciesAlive == \A p \in alive : Requires(p) \subseteq alive

(* The order the interface of a plugin promises: it is initialized after what *)
(* it depends on, extended and initialized late after what depends on it, and *)
(* stopped after what it depends on.                                         *)
Becomes(p, to) == state[p] # to /\ state'[p] = to

InitializedAfter(p) ==
  Becomes(p, "Initialized") =>
    /\ \A d \in Requires(p) : state[d] = "Initialized"
    /\ \A d \in Deps(p) \ {p} : ~Ready(d, "Loaded")

ExtendedAfter(p) ==
  Becomes(p, "Running") => \A q \in Plugin \ {p} : p \in Deps(q) => ~Ready(q, "Initialized")

StoppedAfter(p) ==
  Becomes(p, "Stopped") => \A d \in Deps(p) \ {p} : ~Ready(d, "Running")

DelayedAfter ==
  pc = "started" /\ pc' = "started" /\ delayed' # delayed =>
    \A i \in 2..Len(delayed) : delayed[1] \notin Deps(delayed[i])

OrderKept ==
  [][/\ \A p \in Plugin : InitializedAfter(p) /\ ExtendedAfter(p) /\ StoppedAfter(p)
     /\ DelayedAfter]_vars

(* Failures spread no further than along the dependencies: where plugins and  *)
(* all they depend on are complete, for this platform, without a cycle and do *)
(* not fail themselves, each that is wanted runs, whatever is wrong with the  *)
(* others; loadQueue finds no cycle where there is none, and what is not      *)
(* wanted itself is enabled for what requires it.                            *)
WithoutCycle(S) == \A T \in SUBSET S : T = {} \/ \E p \in T : Deps(p) \cap T = {}

Sound(S) ==
  /\ \A p \in S : Deps(p) \subseteq S
  /\ S \cap (meta.broken \cup meta.absent \cup faulty) = {}
  /\ WithoutCycle(S)

SoundPluginsRun ==
  pc = "started" =>
    \A S \in SUBSET Plugin : Sound(S) => \A p \in S : Wanted(p) => state[p] = "Running"

(* The start and the shutdown come to an end, with every plugin deleted: the  *)
(* recursion ends on every graph, and nothing is left out of the second list. *)
AlwaysReturns == []<>(pc \in {"options", "started"} \/ (pc = "done" /\ alive = {}))
=============================================================================
