-------------------------- MODULE IncrementalProofs --------------------------
(* The builder that looks at files is a Builder: deciding by time stamps     *)
(* what is due only restricts what startOne() may choose.  So everything     *)
(* proved of the scheduler holds for builds with real files, too.            *)
(*                                                                           *)
(* Then the times.  An output is good when neither it nor anything it was    *)
(* made from is older than what it is made from; what is not good is found   *)
(* due by some later build, and what is good is not out of date.             *)
EXTENDS IncrementalBuild, BuilderProofs

(* Every step of the build with files is a step of the scheduler, or one of  *)
(* the clock or the editor that the scheduler does not see.                  *)
LEMMA FileStepIsABuilderStep == [FNext]_<<vars, fileVars>> => [Next]_vars
<1> SUFFICES ASSUME FNext PROVE Next \/ UNCHANGED vars
  OBVIOUS
<1>1. ASSUME NEW job \in Jobs, FStart(job) PROVE Next
  BY <1>1 DEF FStart, Next
<1>2. CASE FStartOne
  BY <1>2 DEF FStartOne, Next, Main
<1>3. ASSUME NEW r \in Runner, NEW ok \in BOOLEAN, FRunnerDone(r, ok) PROVE Next
  BY <1>3 DEF FRunnerDone, Next
<1>4. CASE FOther
  BY <1>4 DEF FOther, Next, Main
<1>5. ASSUME NEW f \in File, Edit(f) PROVE UNCHANGED vars
  BY <1>5 DEF Edit
<1>6. CASE Tick
  BY <1>6 DEF Tick
<1> QED BY <1>1, <1>2, <1>3, <1>4, <1>5, <1>6 DEF FNext

(* Every behaviour of a build with files is a behaviour of the scheduler.    *)
THEOREM FileBuildIsABuild == FSpec => Spec
<1>1. FInit => Init
  BY DEF FInit
<1> QED BY <1>1, FileStepIsABuilderStep, PTL DEF FSpec, Spec

(* With stop-on-error no operation of a later group is run on the output of  *)
(* a failed one, whatever the time stamps say.                               *)
THEOREM FailedOutputsAreNotUsed == FSpec => []NoDependentAfterFailure
<1> QED BY FileBuildIsABuild, FailureStopsLaterGroups, PTL

(* And the build with files keeps the contract of a build job.               *)
THEOREM FileBuildImplementsContract == FSpec => ImplementsContract
<1> QED BY FileBuildIsABuild, BuilderImplementsContract, PTL

-----------------------------------------------------------------------------
(* That a complete build leaves nothing out of date.  What is old by its time *)
(* is renewed; the danger is an output that is stale but not old.  The proof  *)
(* keeps Good, the largest set of outputs that are not old and made only of   *)
(* sources and each other: what was written in the present second is in it    *)
(* (RecentIsGood), so whatever is renewed makes older what is made of it.     *)
Feeds(f, o) == \E job \in Jobs : \E i \in Producing(job) :
                 Files[job][i].out = o /\ f \in Files[job][i].in
HeaderOf(h, o) == \E job \in Jobs : \E i \in Producing(job) :
                    Files[job][i].out = o /\ h \in Files[job][i].headers
Script(o) == \E job \in Jobs : \E i \in Producing(job) :
               Files[job][i].out = o /\ job[i].kind = "lua"

(* By the times m, o has to be made. *)
Old(m, o) ==
  \/ m[o] = 0
  \/ \E f \in File : Feeds(f, o) /\ (m[f] = 0 \/ m[f] > m[o])
  \/ \E h \in File : HeaderOf(h, o) /\ m[h] > m[o]

Sound(m, S) == \A o \in S : ~Old(m, o) /\ \A f \in Outputs : Feeds(f, o) => f \in S
Good(m) == UNION {S \in SUBSET Outputs : Sound(m, S)}

LEMMA GoodIsSound ==
  ASSUME NEW m PROVE Good(m) \subseteq Outputs /\ Sound(m, Good(m))
<1>1. ASSUME NEW o \in Good(m) PROVE ~Old(m, o) /\ \A f \in Outputs : Feeds(f, o) => f \in Good(m)
  <2>1. PICK S \in SUBSET Outputs : Sound(m, S) /\ o \in S
    BY DEF Good
  <2>2. S \subseteq Good(m)
    BY <2>1 DEF Good
  <2> QED BY <2>1, <2>2 DEF Sound
<1> QED BY <1>1 DEF Good, Sound

LEMMA SoundIsGood ==
  ASSUME NEW m, NEW S \in SUBSET Outputs, Sound(m, S) PROVE S \subseteq Good(m)
<1> QED BY DEF Good

(* What is made of good files and sources, and not old, is good. *)
LEMMA MadeIsGood ==
  ASSUME NEW m, NEW o \in Outputs, ~Old(m, o), \A f \in Outputs : Feeds(f, o) => f \in Good(m)
  PROVE  o \in Good(m)
<1>1. Good(m) \cup {o} \in SUBSET Outputs
  BY GoodIsSound
<1>2. Sound(m, Good(m) \cup {o})
  BY GoodIsSound DEF Sound
<1> QED BY <1>1, <1>2, SoundIsGood

(* What the assumptions say of outputs, whichever list makes them. *)
LEMMA OutputFacts ==
  ASSUME TimesSuffice
  PROVE  /\ \A h \in Outputs : \A o : ~HeaderOf(h, o)
         /\ \A u : Script(u) => \A o : ~Feeds(u, o)
         /\ \A u \in Outputs : ~Feeds(u, u)
         /\ Outputs \subseteq File
<1>1. ASSUME NEW h \in Outputs, NEW o PROVE ~HeaderOf(h, o)
  BY <1>1 DEF HeaderOf, TimesSuffice
<1>2. ASSUME NEW u, Script(u), NEW o PROVE ~Feeds(u, o)
  BY <1>2 DEF Script, Feeds, TimesSuffice
<1>3. ASSUME NEW u \in Outputs, Feeds(u, u) PROVE FALSE
  <2>1. PICK job \in Jobs : \E i \in Producing(job) : Files[job][i].out = u /\ u \in Files[job][i].in
    BY <1>3 DEF Feeds
  <2>2. PICK i \in Producing(job) : Files[job][i].out = u /\ u \in Files[job][i].in
    BY <2>1
  <2>3. PICK k \in Producing(job) : Files[job][k].out = u /\ job[k].group < job[i].group
    BY <2>2, FilesAssumption DEF MadeFromEarlier
  <2>4. k = i
    BY <2>2, <2>3, FilesAssumption DEF MadeOnce
  <2>5. job[i].group \in Nat
    <3>1. job \in Seq(Operation) /\ i \in 1..Len(job)
      BY JobsAssumption DEF Producing
    <3>2. job[i] \in Operation
      BY <3>1
    <3> QED BY <3>2 DEF Operation
  <2> QED BY <2>3, <2>4, <2>5
<1>4. Outputs \subseteq File
  BY FilesAssumption DEF Outputs
<1> QED BY <1>1, <1>2, <1>3, <1>4

(* A write of one file takes at most that file from what is good, and nothing *)
(* when it was old.                                                          *)
LEMMA GoodAfterWrite ==
  ASSUME TimesSuffice, NEW m \in [File -> Nat], NEW u \in Outputs, NEW t \in Nat,
         Old(m, u) \/ Script(u)
  PROVE  Good(m) \ {u} \subseteq Good([m EXCEPT ![u] = t]) /\ (Old(m, u) => u \notin Good(m))
<1> DEFINE n == [m EXCEPT ![u] = t]
           S == Good(m) \ {u}
<1>1. S \in SUBSET Outputs /\ (Old(m, u) => u \notin Good(m))
  BY GoodIsSound DEF Sound
<1>2. ASSUME NEW o \in S PROVE ~Old(n, o) /\ \A f \in Outputs : Feeds(f, o) => f \in S
  <2>1. o # u /\ ~Old(m, o) /\ \A f \in Outputs : Feeds(f, o) => f \in Good(m)
    BY GoodIsSound DEF Sound
  <2>2. ~Feeds(u, o)
    BY <2>1, <1>1, OutputFacts
  <2>3. ~HeaderOf(u, o)
    BY OutputFacts
  <2>4. o \in File /\ u \in File
    BY <1>1, OutputFacts
  <2>5. \A f \in File : f # u => n[f] = m[f]
    OBVIOUS
  <2>6. ~Old(n, o)
    BY <2>1, <2>2, <2>3, <2>4, <2>5 DEF Old
  <2> QED BY <2>1, <2>2, <2>6
<1>3. Sound(n, S)
  BY <1>2 DEF Sound
<1> QED BY <1>1, <1>3, SoundIsGood

(* The operation at a position of the present list, and what it makes. *)
LEMMA PositionFacts ==
  ASSUME TypeOK, NEW i \in Positions, Runs(i)
  PROVE  /\ ops \in Jobs /\ i \in Producing(ops)
         /\ Out(i) \in Outputs /\ Out(i) \in File
         /\ Inputs(i) \subseteq File /\ Headers(i) \subseteq File
         /\ \A f : Feeds(f, Out(i)) <=> f \in Inputs(i)
         /\ \A h : HeaderOf(h, Out(i)) <=> h \in Headers(i)
         /\ Script(Out(i)) <=> ops[i].kind = "lua"
         /\ ops[i].kind \in {"lua", "tool"}
         /\ \A k \in Positions : Runs(k) /\ Out(k) = Out(i) => k = i
<1>1. ops \in Jobs /\ i \in Producing(ops)
  <2>1. ops # <<>>
    BY DEF Positions
  <2> QED BY <2>1 DEF TypeOK, Producing, Runs, Positions
<1>2. Out(i) \in Outputs
  BY <1>1 DEF Outputs, Out
<1>3. Files[ops][i] \in [in : SUBSET File, headers : SUBSET File, out : File]
  BY <1>1, FilesAssumption
<1>4. Out(i) \in File /\ Inputs(i) \subseteq File /\ Headers(i) \subseteq File
  BY <1>3 DEF Out, Inputs, Headers
<1>5. ASSUME NEW other \in Jobs, NEW k \in Producing(other), Files[other][k].out = Out(i)
      PROVE  Files[other][k] = Files[ops][i] /\ other[k].kind = ops[i].kind
  BY <1>1, <1>5, FilesAssumption DEF MadeAlike, Out
<1>6. \A f : Feeds(f, Out(i)) <=> f \in Inputs(i)
  BY <1>1, <1>5 DEF Feeds, Inputs, Out
<1>7. \A h : HeaderOf(h, Out(i)) <=> h \in Headers(i)
  BY <1>1, <1>5 DEF HeaderOf, Headers, Out
<1>8. Script(Out(i)) <=> ops[i].kind = "lua"
  BY <1>1, <1>5 DEF Script, Out
<1>9. ops[i].kind \in {"lua", "tool"}
  BY OpsFacts DEF Runs, Kind
<1>10. ASSUME NEW k \in Positions, Runs(k), Out(k) = Out(i) PROVE k = i
  BY <1>1, <1>10, FilesAssumption DEF MadeOnce, Out, Producing, Runs, Positions
<1> QED BY <1>1, <1>2, <1>4, <1>6, <1>7, <1>8, <1>9, <1>10

(* What an operation that was taken is made of has been made before, in this  *)
(* build or an earlier one.                                                  *)
InputsMade ==
  \A i \in Positions : Runs(i) /\ outcome[i] # "todo" =>
    \A f \in Inputs(i) \cap Outputs : \E k \in Positions :
      /\ Runs(k) /\ Out(k) = f /\ ops[k].kind = "tool" /\ outcome[k] \in {"ok", "skipped"}
      /\ ops[k].group < ops[i].group

LEMMA InvariantGivesInputs == ASSUME TimesSuffice PROVE IInv => InputsMade
<1> SUFFICES ASSUME IInv, NEW i \in Positions, Runs(i), outcome[i] # "todo",
                    NEW f \in Inputs(i) \cap Outputs
             PROVE  \E k \in Positions :
                      /\ Runs(k) /\ Out(k) = f /\ ops[k].kind = "tool"
                      /\ outcome[k] \in {"ok", "skipped"} /\ ops[k].group < ops[i].group
  BY DEF InputsMade
<1> USE DEF IInv
<1>1. ops \in Jobs /\ i \in Producing(ops)
  BY PositionFacts
<1>2. PICK k \in Producing(ops) : Files[ops][k].out = f /\ ops[k].group < ops[i].group
  BY <1>1, FilesAssumption DEF MadeFromEarlier, Inputs
<1>3. k \in Positions /\ Runs(k) /\ Out(k) = f
  BY <1>2 DEF Producing, Positions, Runs, Out
<1>4. ops[k].kind = "tool"
  BY <1>1, <1>2, <1>3, PositionFacts DEF TimesSuffice, Inputs
<1>5. k < i
  <2>1. Len(ops) \in Nat /\ ops[i].group \in Nat /\ ops[k].group \in Nat
    BY <1>3, OpsFacts
  <2>2. i \in Nat /\ k \in Nat
    BY <1>3, <2>1 DEF Positions
  <2>3. i < k => ops[i].group <= ops[k].group
    BY <1>3, OpsFacts
  <2> QED BY <2>1, <2>2, <2>3, <1>2
<1>6. outcome[k] # "todo"
  <2>1. i <= done
    BY DEF WorkInv, TypeOK, Positions
  <2> QED BY <1>3, <1>5, <2>1 DEF WorkInv, TypeOK, Positions
<1>7. outcome[k] # "running"
  BY <1>2, <1>3, InvariantGivesBarrier DEF GroupBarrier
<1>8. outcome[k] # "failed"
  BY <1>2, <1>3, <1>4 DEF FailInv, NoDependentAfterFailure, TimesSuffice
<1> QED BY <1>2, <1>3, <1>4, <1>6, <1>7, <1>8 DEF TypeOK

-----------------------------------------------------------------------------
(* The inductive invariant of the files. *)
TimesInv ==
  /\ clock \in Nat \ {0} /\ mtime \in [File -> Nat]
  /\ \A f \in File : mtime[f] <= clock
  /\ headerTime \in [File -> Nat] /\ stale \subseteq Outputs /\ partial \subseteq Outputs

HeadersCopied ==
  thread # "none" /\ TrackHeaders => \A h \in File \ Outputs : headerTime[h] = mtime[h]

RunningIsOld ==
  \A i \in Positions : outcome[i] = "running" /\ ops[i].kind = "tool" => Old(mtime, Out(i))

RecentIsGood ==
  \A o \in Outputs \ partial : mtime[o] = clock /\ ~Script(o) => o \in Good(mtime)

StaleIsOld == \A o \in stale \ partial : ~Script(o) => Old(mtime, o)

ToolsDone ==
  thread # "none" =>
    \A i \in Positions : ops[i].kind = "tool" /\ outcome[i] \in {"ok", "skipped"} =>
      Out(i) \in Good(mtime)

ScriptsDone ==
  thread # "none" =>
    \A i \in Positions : ops[i].kind = "lua" =>
      outcome[i] # "skipped" /\ (outcome[i] = "ok" => Out(i) \notin stale)

FileInv == /\ TimesInv /\ HeadersCopied /\ RunningIsOld /\ RecentIsGood /\ StaleIsOld
           /\ ToolsDone /\ ScriptsDone

(* What the scheduler's proofs say of every state. *)
BuilderInv == IInv /\ GroupBarrier /\ InputsMade

LEMMA DependentFacts ==
  ASSUME NEW f, NEW o \in Dependents(f) PROVE o \in Outputs /\ (Feeds(f, o) \/ HeaderOf(f, o))
<1> QED BY DEF Dependents, Outputs, Feeds, HeaderOf

(* At first everything has to be made. *)
LEMMA FInitInv == FInit => FileInv
<1> SUFFICES ASSUME FInit PROVE FileInv
  OBVIOUS
<1>1. \A f \in File : mtime[f] = IF f \in Outputs THEN 0 ELSE 1
  BY DEF FInit
<1>2. TimesInv
  BY DEF FInit, TimesInv
<1>3. Positions = {} /\ thread = "none"
  BY DEF FInit, Init, Positions
<1>4. Outputs \subseteq File
  BY FilesAssumption DEF Outputs
<1>5. RecentIsGood
  BY <1>1, <1>4 DEF RecentIsGood, FInit
<1>6. StaleIsOld
  BY <1>1, <1>4 DEF StaleIsOld, FInit, Old
<1> QED BY <1>2, <1>3, <1>5, <1>6 DEF FileInv, HeadersCopied, RunningIsOld, ToolsDone, ScriptsDone

(* A slot that takes no operation and ends none touches nothing of this. *)
LEMMA QuietFileInv ==
  ASSUME FileInv, UNCHANGED <<fileVars, ops, outcome>>, thread' = "none" \/ thread # "none"
  PROVE  FileInv'
<1> USE DEF fileVars
<1>1. TimesInv' BY DEF FileInv, TimesInv
<1>2. HeadersCopied' BY DEF FileInv, HeadersCopied
<1>3. RunningIsOld' BY DEF FileInv, RunningIsOld, Positions, Out
<1>4. RecentIsGood' /\ StaleIsOld' BY DEF FileInv, RecentIsGood, StaleIsOld
<1>5. ToolsDone' BY DEF FileInv, ToolsDone, Positions, Out
<1>6. ScriptsDone' BY DEF FileInv, ScriptsDone, Positions, Out
<1> QED BY <1>1, <1>2, <1>3, <1>4, <1>5, <1>6 DEF FileInv

LEMMA OtherFileInv == ASSUME BuilderInv, FileInv, FOther PROVE FileInv'
<1>1. UNCHANGED <<fileVars, ops, outcome>>
  BY DEF FOther, EndSwitch, EndRound, OnQuit, OnStarted, OnCancel, Cancelled, Destroy, OnFinished
<1>2. thread' = "none" \/ thread # "none"
  <2>1. \/ thread # "none"
        \/ pc = "loop" /\ ~startedEvent /\ \A r \in Runner : rstate[r] = "idle"
    BY DEF BuilderInv, IInv, PhaseInv, TypeOK
  <2> QED BY <2>1 DEF FOther, EndSwitch, EndRound, OnQuit, OnStarted, OnCancel, Cancelled,
                      Destroy, OnFinished
<1> QED BY <1>1, <1>2, QuietFileInv

(* The clock moves on: nothing was written in the new second. *)
LEMMA TickFileInv == ASSUME BuilderInv, FileInv, Tick PROVE FileInv'
<1> USE DEF Tick, vars
<1>1. TimesInv' BY DEF FileInv, TimesInv
<1>2. HeadersCopied' BY DEF FileInv, HeadersCopied
<1>3. RunningIsOld' BY DEF FileInv, RunningIsOld, Positions, Out
<1>4. RecentIsGood'
  <2>1. Outputs \subseteq File
    BY FilesAssumption DEF Outputs
  <2>2. \A o \in Outputs : mtime'[o] # clock'
    BY <2>1 DEF FileInv, TimesInv
  <2> QED BY <2>2 DEF RecentIsGood
<1>5. StaleIsOld' BY DEF FileInv, StaleIsOld
<1>6. ToolsDone' BY DEF FileInv, ToolsDone, Positions, Out
<1>7. ScriptsDone' BY DEF FileInv, ScriptsDone, Positions, Out
<1> QED BY <1>1, <1>2, <1>3, <1>4, <1>5, <1>6, <1>7 DEF FileInv

(* A source is saved in a new second, so everything made of it is old. *)
LEMMA EditFileInv ==
  ASSUME TimesSuffice, BuilderInv, FileInv, NEW g \in File, Edit(g) PROVE FileInv'
<1> USE DEF Edit, vars
<1>1. /\ clock' = clock + 1 /\ mtime' = [mtime EXCEPT ![g] = clock + 1]
      /\ clock \in Nat \ {0} /\ mtime \in [File -> Nat] /\ mtime' \in [File -> Nat]
      /\ \A f \in File : mtime[f] <= clock /\ mtime[f] \in Nat
  BY DEF FileInv, TimesInv
<1>2. TimesInv'
  BY <1>1, DependentFacts DEF FileInv, TimesInv, Invalidates
<1>3. HeadersCopied' /\ ToolsDone' /\ ScriptsDone'
  BY DEF HeadersCopied, ToolsDone, ScriptsDone
<1>4. RunningIsOld'
  <2>1. NoneRunning
    BY DEF BuilderInv, IInv, PhaseInv
  <2>2. \A i \in Positions : outcome[i] # "running"
    BY <2>1 DEF NoneRunning, BuilderInv, IInv, WorkInv
  <2> QED BY <2>2 DEF RunningIsOld, Positions
<1>5. RecentIsGood'
  BY <1>1, OutputFacts DEF RecentIsGood
<1>6. StaleIsOld'
  <2> SUFFICES ASSUME NEW o \in stale' \ partial', ~Script(o) PROVE Old(mtime', o)
    BY DEF StaleIsOld
  <2>1. o \in File /\ o \in Outputs /\ mtime'[o] = mtime[o]
    BY <1>1, <1>2, OutputFacts DEF TimesInv
  <2>2. CASE o \in stale
    <3>1. Old(mtime, o)
      BY <2>2 DEF FileInv, StaleIsOld
    <3> QED BY <3>1, <2>1, <1>1 DEF Old
  <2>3. CASE o \in Dependents(g)
    <3>1. Feeds(g, o) \/ HeaderOf(g, o)
      BY <2>3, DependentFacts
    <3> QED BY <3>1, <2>1, <1>1 DEF Old
  <2> QED BY <2>2, <2>3 DEF Invalidates
<1> QED BY <1>2, <1>3, <1>4, <1>5, <1>6 DEF FileInv

(* A build starts with the header times of that moment. *)
LEMMA StartFileInv ==
  ASSUME BuilderInv, FileInv, NEW job \in Jobs, FStart(job) PROVE FileInv'
<1> USE DEF FStart, Start
<1>1. TimesInv' BY DEF FileInv, TimesInv, FreshTable
<1>2. HeadersCopied' BY DEF HeadersCopied, FreshTable
<1>3. \A i \in Positions' : outcome'[i] = "todo" BY DEF Positions
<1>4. RunningIsOld' /\ ToolsDone' /\ ScriptsDone'
  BY <1>3 DEF RunningIsOld, ToolsDone, ScriptsDone
<1>5. RecentIsGood' /\ StaleIsOld' BY DEF FileInv, RecentIsGood, StaleIsOld
<1> QED BY <1>1, <1>2, <1>4, <1>5 DEF FileInv

(* isDue is right about what is old: an operation that is passed over makes   *)
(* a good output, one that is launched makes an old one.                     *)
LEMMA DueMeansOld ==
  ASSUME TimesSuffice, BuilderInv, FileInv, thread # "none",
         NEW i \in Positions, Runs(i), ops[i].kind = "tool"
  PROVE  IsDue(i) <=> Old(mtime, Out(i))
<1> USE DEF BuilderInv, IInv
<1>1. /\ Inputs(i) \subseteq File /\ Headers(i) \subseteq File
      /\ \A f : Feeds(f, Out(i)) <=> f \in Inputs(i)
      /\ \A h : HeaderOf(h, Out(i)) <=> h \in Headers(i)
  BY PositionFacts
<1>2. NewerHeader(i) <=> \E h \in Headers(i) : mtime[h] > mtime[Out(i)]
  <2>1. Headers(i) \cap Outputs = {}
    BY <1>1, OutputFacts
  <2>2. Headers(i) = {} \/ TrackHeaders
    BY PositionFacts DEF TimesSuffice, Headers
  <2>3. TrackHeaders => \A h \in Headers(i) : headerTime[h] = mtime[h]
    BY <1>1, <2>1 DEF FileInv, HeadersCopied
  <2> QED BY <2>2, <2>3 DEF NewerHeader
<1> QED BY <1>1, <1>2 DEF IsDue, Old

LEMMA StartOneFileInv ==
  ASSUME TimesSuffice, BuilderInv, BuilderInv', FileInv, FStartOne PROVE FileInv'
<1> DEFINE p == done + 1
<1>1. /\ UNCHANGED <<ops, thread, clock, mtime, headerTime, stale, partial>> /\ StartOne
      /\ ops[p].kind # "entering" => (startedThread' <=> IsDue(p))
      /\ thread # "none" /\ ~WorkEmpty
  <2>1. thread # "none"
    BY DEF BuilderInv, IInv, PhaseInv, FStartOne, SwitchGroup, FillGroup
  <2> QED BY <2>1 DEF FStartOne, SwitchGroup, FillGroup, fileVars, MaySwitch, MayFill, First
<1>2. /\ p \in Positions /\ outcome \in [Positions -> {"todo", "skipped", "running", "ok", "failed"}]
      /\ outcome[p] = "todo" /\ Positions' = Positions
  BY <1>1 DEF BuilderInv, IInv, TypeOK, WorkEmpty, Positions, WorkInv
<1>3. PICK x \in {"skipped", "running"} :
        /\ outcome' = [outcome EXCEPT ![p] = x]
        /\ x = "skipped" => ops[p].kind # "lua" /\ startedThread' = FALSE
        /\ x = "running" => ops[p].kind # "entering" /\ startedThread' = TRUE
  BY <1>1 DEF StartOne, Pass, Launch, First
<1>4. outcome'[p] = x /\ \A k \in Positions : k # p => outcome'[k] = outcome[k]
  BY <1>2, <1>3
<1>5. \A k : Out(k)' = Out(k) /\ Runs(k)' = Runs(k) /\ Inputs(k)' = Inputs(k)
  BY <1>1 DEF Out, Runs, Inputs
<1>6. TimesInv' /\ HeadersCopied' /\ RecentIsGood' /\ StaleIsOld'
  BY <1>1 DEF FileInv, TimesInv, HeadersCopied, RecentIsGood, StaleIsOld
<1>7. RunningIsOld'
  <2> SUFFICES ASSUME NEW k \in Positions, outcome'[k] = "running", ops[k].kind = "tool"
               PROVE  Old(mtime, Out(k))
    BY <1>1, <1>2, <1>5 DEF RunningIsOld
  <2>1. CASE k # p
    BY <2>1, <1>4 DEF FileInv, RunningIsOld
  <2>2. CASE k = p
    <3>1. Runs(p) /\ IsDue(p)
      BY <2>2, <1>1, <1>3, <1>4 DEF Runs
    <3> QED BY <3>1, <2>2, <1>1, DueMeansOld
  <2> QED BY <2>1, <2>2
<1>8. ToolsDone'
  <2> SUFFICES ASSUME NEW k \in Positions, ops[k].kind = "tool", outcome'[k] \in {"ok", "skipped"}
               PROVE  Out(k) \in Good(mtime)
    BY <1>1, <1>2, <1>5 DEF ToolsDone
  <2>1. CASE k # p
    BY <2>1, <1>1, <1>4 DEF FileInv, ToolsDone
  <2>2. CASE k = p
    <3>1. Runs(p) /\ ~IsDue(p)
      BY <2>2, <1>1, <1>3, <1>4 DEF Runs
    <3>2. ~Old(mtime, Out(p))
      BY <3>1, <2>2, <1>1, DueMeansOld
    <3>3. Out(p) \in Outputs /\ \A f : Feeds(f, Out(p)) <=> f \in Inputs(p)
      BY <3>1, <1>2, PositionFacts DEF BuilderInv, IInv
    <3>4. ASSUME NEW f \in Outputs, Feeds(f, Out(p)) PROVE f \in Good(mtime)
      <4>1. f \in Inputs(p) \cap Outputs
        BY <3>3, <3>4
      <4>2. PICK j \in Positions : /\ Runs(j) /\ Out(j) = f /\ ops[j].kind = "tool"
                                   /\ outcome'[j] \in {"ok", "skipped"}
                                   /\ ops[j].group < ops[p].group
        BY <4>1, <3>1, <1>1, <1>2, <1>4, <1>5 DEF BuilderInv, InputsMade
      <4>3. ops[p].group \in Nat
        BY <1>2, OpsFacts DEF BuilderInv, IInv
      <4>4. j # p
        BY <4>2, <4>3
      <4> QED BY <4>2, <4>4, <1>1, <1>4 DEF FileInv, ToolsDone
    <3> QED BY <3>2, <3>3, <3>4, <2>2, MadeIsGood
  <2> QED BY <2>1, <2>2
<1>9. ScriptsDone'
  <2> SUFFICES ASSUME NEW k \in Positions, ops[k].kind = "lua"
               PROVE  outcome'[k] # "skipped" /\ (outcome'[k] = "ok" => Out(k) \notin stale)
    BY <1>1, <1>2, <1>5 DEF ScriptsDone
  <2>1. CASE k # p
    BY <2>1, <1>1, <1>4 DEF FileInv, ScriptsDone
  <2>2. CASE k = p
    BY <2>2, <1>3, <1>4
  <2> QED BY <2>1, <2>2
<1> QED BY <1>6, <1>7, <1>8, <1>9 DEF FileInv

(* The operation that ends, and that no other one of the moment has to do    *)
(* with what it makes.                                                       *)
LEMMA EndFacts ==
  ASSUME TimesSuffice, BuilderInv, FileInv, NEW r \in Runner, NEW ok \in BOOLEAN, RunnerDone(r, ok)
  PROVE  /\ rop[r] \in Positions /\ Runs(rop[r]) /\ outcome[rop[r]] = "running" /\ thread # "none"
         /\ ops[rop[r]].kind = "tool" => Old(mtime, Out(rop[r]))
         /\ outcome' = [outcome EXCEPT ![rop[r]] = IF ok THEN "ok" ELSE "failed"]
         /\ outcome \in [Positions -> {"todo", "skipped", "running", "ok", "failed"}]
         /\ UNCHANGED <<ops, thread>> /\ Positions' = Positions
         /\ \A j \in Positions : Runs(j) /\ outcome[j] # "todo" => ~Feeds(Out(rop[r]), Out(j))
<1> DEFINE i == rop[r]
<1> USE DEF BuilderInv, IInv
<1>1. rstate[r] = "running"
  BY DEF RunnerDone
<1>2. i \in Positions
  BY <1>1 DEF WorkInv, TypeOK, Positions
<1>3. Runs(i) /\ outcome[i] = "running"
  BY <1>1 DEF WorkInv, Runs
<1>4. thread # "none"
  BY <1>1 DEF PhaseInv
<1>5. ops[i].kind = "tool" => Old(mtime, Out(i))
  BY <1>2, <1>3 DEF FileInv, RunningIsOld
<1>6. ASSUME NEW j \in Positions, Runs(j), outcome[j] # "todo", Feeds(Out(i), Out(j)) PROVE FALSE
  <2>1. Out(i) \in Inputs(j) \cap Outputs
    BY <1>2, <1>3, <1>6, PositionFacts
  <2>2. PICK k \in Positions : Runs(k) /\ Out(k) = Out(i) /\ outcome[k] \in {"ok", "skipped"}
    BY <2>1, <1>6 DEF InputsMade
  <2>3. k = i
    BY <2>2, <1>2, <1>3, PositionFacts
  <2> QED BY <2>2, <2>3, <1>3
<1>7. outcome \in [Positions -> {"todo", "skipped", "running", "ok", "failed"}]
  BY DEF TypeOK
<1> QED BY <1>2, <1>3, <1>4, <1>5, <1>6, <1>7 DEF RunnerDone, Positions

(* A command that fails leaves its output old, takes it away, or leaves what *)
(* it has written so far, which makes older what is made of it.              *)
LEMMA FailureFileInv ==
  ASSUME TimesSuffice, BuilderInv, FileInv, NEW r \in Runner, FRunnerDone(r, FALSE) PROVE FileInv'
<1> DEFINE i == rop[r]
           u == Out(i)
<1>1. /\ i \in Positions /\ Runs(i) /\ outcome[i] = "running" /\ thread # "none"
      /\ ops[i].kind = "tool" => Old(mtime, u)
      /\ outcome' = [outcome EXCEPT ![i] = "failed"]
      /\ UNCHANGED <<ops, thread>> /\ Positions' = Positions
      /\ outcome \in [Positions -> {"todo", "skipped", "running", "ok", "failed"}]
      /\ \A j \in Positions : Runs(j) /\ outcome[j] # "todo" => ~Feeds(u, Out(j))
  BY EndFacts DEF FRunnerDone
<1>2. /\ u \in Outputs /\ u \in File /\ (Script(u) <=> ops[i].kind = "lua")
      /\ ops[i].kind \in {"lua", "tool"}
      /\ \A k \in Positions : Runs(k) /\ Out(k) = u => k = i
  BY <1>1, PositionFacts DEF BuilderInv, IInv
<1>3. /\ \/ mtime' = mtime /\ stale' = stale \cup {u} /\ partial' = partial
         \/ mtime' = [mtime EXCEPT ![u] = 0] /\ stale' = stale \cup {u} /\ partial' = partial
         \/ /\ mtime' = [mtime EXCEPT ![u] = clock]
            /\ stale' = stale \cup {u} \cup Dependents(u) /\ partial' = partial \cup {u}
      /\ UNCHANGED <<clock, headerTime>>
  BY DEF FRunnerDone, Stamp, Invalidates
<1>4. /\ outcome'[i] = "failed" /\ \A k \in Positions : k # i => outcome'[k] = outcome[k]
      /\ \A k : Out(k)' = Out(k)
      /\ \A k \in Positions : ops[k].kind # "entering" <=> Runs(k)
  BY <1>1 DEF Out, Runs
<1>5. /\ mtime \in [File -> Nat] /\ clock \in Nat \ {0} /\ stale \subseteq Outputs
      /\ \A f \in File : f # u => mtime'[f] = mtime[f]
      /\ \A f \in File : mtime[f] <= clock
  BY <1>2, <1>3 DEF FileInv, TimesInv
<1>6. TimesInv'
  BY <1>2, <1>3, <1>5, DependentFacts DEF FileInv, TimesInv
<1>7. HeadersCopied'
  BY <1>1, <1>2, <1>3, <1>5 DEF FileInv, HeadersCopied
<1>8. ASSUME NEW o \in File, o # u, Old(mtime, o), mtime[o] # clock \/ ~Feeds(u, o)
      PROVE  Old(mtime', o)
  <2>1. ~HeaderOf(u, o) /\ mtime'[o] = mtime[o]
    BY <1>2, <1>5, <1>8, OutputFacts
  <2>2. CASE Feeds(u, o)
    <3>1. mtime' # mtime => mtime'[u] = 0 \/ mtime'[u] = clock
      BY <1>2, <1>3, <1>5
    <3> QED BY <3>1, <2>1, <2>2, <1>2, <1>5, <1>8 DEF Old
  <2>3. CASE ~Feeds(u, o)
    BY <2>1, <2>3, <1>2, <1>5, <1>8 DEF Old
  <2> QED BY <2>2, <2>3
<1>9. Good(mtime) \ {u} \subseteq Good(mtime') /\ (Old(mtime, u) => u \notin Good(mtime))
  BY <1>1, <1>2, <1>3, <1>5, GoodAfterWrite
<1>10. RunningIsOld'
  <2> SUFFICES ASSUME NEW k \in Positions, outcome'[k] = "running", ops[k].kind = "tool"
               PROVE  Old(mtime', Out(k))
    BY <1>1, <1>4 DEF RunningIsOld
  <2>1. k # i /\ outcome[k] = "running" /\ Old(mtime, Out(k)) /\ Runs(k)
    BY <1>4 DEF FileInv, RunningIsOld
  <2>2. Out(k) \in File /\ Out(k) # u /\ ~Feeds(u, Out(k))
    BY <2>1, <1>1, <1>2, PositionFacts DEF BuilderInv, IInv
  <2> QED BY <2>1, <2>2, <1>8
<1>11. RecentIsGood'
  <2> SUFFICES ASSUME NEW o \in Outputs \ partial', mtime'[o] = clock, ~Script(o)
               PROVE  o \in Good(mtime')
    BY <1>3 DEF RecentIsGood
  <2>1. CASE mtime' = mtime
    BY <2>1, <1>3 DEF FileInv, RecentIsGood
  <2>2. CASE o # u
    <3>1. mtime[o] = clock /\ o \notin partial
      BY <2>2, <1>3, <1>5, OutputFacts
    <3> QED BY <3>1, <2>2, <1>9 DEF FileInv, RecentIsGood
  <2>3. CASE o = u /\ mtime' # mtime
    BY <2>3, <1>2, <1>3, <1>5
  <2> QED BY <2>1, <2>2, <2>3
<1>12. StaleIsOld'
  <2> SUFFICES ASSUME NEW o \in stale' \ partial', ~Script(o) PROVE Old(mtime', o)
    BY DEF StaleIsOld
  <2>1. o \in Outputs /\ o \in File /\ o \notin partial
    BY <1>2, <1>3, <1>5, DependentFacts, OutputFacts
  <2>2. CASE o = u
    <3>1. Old(mtime, u) /\ (mtime' = mtime \/ mtime'[u] = 0)
      BY <2>2, <1>1, <1>2, <1>3, <1>5
    <3> QED BY <3>1, <2>2 DEF Old
  <2>3. CASE o # u /\ Feeds(u, o)
    <3>1. ops[i].kind = "tool" /\ o \notin Good(mtime)
      <4>1. ops[i].kind = "tool"
        BY <2>3, <1>2, OutputFacts
      <4>2. u \notin Good(mtime)
        BY <4>1, <1>1, <1>9
      <4> QED BY <4>1, <4>2, <2>3, <1>2, GoodIsSound DEF Sound
    <3>2. mtime[o] # clock
      BY <3>1, <2>1 DEF FileInv, RecentIsGood
    <3>3. CASE o \in stale
      <4>1. Old(mtime, o)
        BY <3>3, <2>1 DEF FileInv, StaleIsOld
      <4> QED BY <4>1, <3>2, <2>1, <2>3, <1>8
    <3>4. CASE o \notin stale
      <4>1. mtime'[u] = clock /\ mtime'[o] = mtime[o] /\ mtime[o] < clock
        BY <3>4, <3>2, <2>1, <2>3, <1>2, <1>3, <1>5
      <4> QED BY <4>1, <2>3, <1>2, <1>5 DEF Old, FileInv, TimesInv
    <3> QED BY <3>3, <3>4
  <2>4. CASE o # u /\ ~Feeds(u, o)
    <3>1. o \in stale
      BY <2>1, <2>4, <1>2, <1>3, DependentFacts, OutputFacts
    <3>2. Old(mtime, o)
      BY <3>1, <2>1 DEF FileInv, StaleIsOld
    <3> QED BY <3>2, <2>1, <2>4, <1>8
  <2> QED BY <2>2, <2>3, <2>4
<1>13. ToolsDone'
  <2> SUFFICES ASSUME NEW k \in Positions, ops[k].kind = "tool", outcome'[k] \in {"ok", "skipped"}
               PROVE  Out(k) \in Good(mtime')
    BY <1>1, <1>4 DEF ToolsDone
  <2>1. k # i /\ Runs(k) /\ Out(k) # u
    BY <1>2, <1>4
  <2> QED BY <2>1, <1>1, <1>4, <1>9 DEF FileInv, ToolsDone
<1>14. ScriptsDone'
  <2> SUFFICES ASSUME NEW k \in Positions, ops[k].kind = "lua"
               PROVE  outcome'[k] # "skipped" /\ (outcome'[k] = "ok" => Out(k) \notin stale')
    BY <1>1, <1>4 DEF ScriptsDone
  <2>1. CASE k # i
    <3>1. ASSUME outcome[k] = "ok" PROVE Out(k) # u /\ Out(k) \notin Dependents(u)
      <4>1. Runs(k) /\ Out(k) # u
        BY <2>1, <1>2, <1>4
      <4> QED BY <4>1, <3>1, <1>1, <1>2, DependentFacts, OutputFacts
    <3> QED BY <3>1, <2>1, <1>1, <1>3, <1>4 DEF FileInv, ScriptsDone
  <2> QED BY <2>1, <1>4
<1> QED BY <1>6, <1>7, <1>10, <1>11, <1>12, <1>13, <1>14 DEF FileInv

(* A command that succeeds makes its output good, and old what is made of it. *)
LEMMA SuccessFileInv ==
  ASSUME TimesSuffice, BuilderInv, FileInv, NEW r \in Runner, FRunnerDone(r, TRUE) PROVE FileInv'
<1> DEFINE i == rop[r]
           u == Out(i)
<1>1. /\ i \in Positions /\ Runs(i) /\ outcome[i] = "running" /\ thread # "none"
      /\ ops[i].kind = "tool" => Old(mtime, u)
      /\ outcome' = [outcome EXCEPT ![i] = "ok"]
      /\ UNCHANGED <<ops, thread>> /\ Positions' = Positions
      /\ outcome \in [Positions -> {"todo", "skipped", "running", "ok", "failed"}]
      /\ \A j \in Positions : Runs(j) /\ outcome[j] # "todo" => ~Feeds(u, Out(j))
  BY EndFacts DEF FRunnerDone
<1>2. /\ u \in Outputs /\ u \in File /\ (Script(u) <=> ops[i].kind = "lua")
      /\ ops[i].kind \in {"lua", "tool"}
      /\ Inputs(i) \subseteq File /\ Headers(i) \subseteq File
      /\ \A f : Feeds(f, u) <=> f \in Inputs(i)
      /\ \A h : HeaderOf(h, u) <=> h \in Headers(i)
      /\ \A k \in Positions : Runs(k) /\ Out(k) = u => k = i
  BY <1>1, PositionFacts DEF BuilderInv, IInv
<1>3. /\ mtime' = [mtime EXCEPT ![u] = clock]
      /\ stale' = (stale \ {u}) \cup Dependents(u) /\ partial' = partial \ {u}
      /\ UNCHANGED <<clock, headerTime>>
      /\ \A f \in Inputs(i) \cup Headers(i) : mtime[f] # 0
  BY DEF FRunnerDone, Stamp, Invalidates
<1>4. /\ outcome'[i] = "ok" /\ \A k \in Positions : k # i => outcome'[k] = outcome[k]
      /\ \A k : Out(k)' = Out(k)
      /\ \A k \in Positions : ops[k].kind # "entering" <=> Runs(k)
  BY <1>1 DEF Out, Runs
<1>5. /\ mtime \in [File -> Nat] /\ clock \in Nat \ {0} /\ stale \subseteq Outputs
      /\ \A f \in File : mtime[f] <= clock
      /\ \A f \in File : f # u => mtime'[f] = mtime[f]
      /\ mtime'[u] = clock
  BY <1>2, <1>3 DEF FileInv, TimesInv
<1>6. TimesInv'
  BY <1>2, <1>3, <1>5, DependentFacts DEF FileInv, TimesInv
<1>7. HeadersCopied'
  BY <1>1, <1>2, <1>3, <1>5 DEF FileInv, HeadersCopied
<1>8. /\ Good(mtime) \ {u} \subseteq Good(mtime')
      /\ Old(mtime, u) => u \notin Good(mtime)
      /\ ops[i].kind = "tool" => Good(mtime) \subseteq Good(mtime')
  <2>1. Old(mtime, u) \/ Script(u)
    BY <1>1, <1>2
  <2>2. Good(mtime) \ {u} \subseteq Good(mtime') /\ (Old(mtime, u) => u \notin Good(mtime))
    BY <2>1, <1>2, <1>3, <1>5, GoodAfterWrite
  <2> QED BY <2>2, <1>1
<1>9. ops[i].kind = "tool" => u \in Good(mtime')
  <2> SUFFICES ASSUME ops[i].kind = "tool" PROVE u \in Good(mtime')
    OBVIOUS
  <2>1. ~Feeds(u, u) /\ ~HeaderOf(u, u)
    BY <1>2, OutputFacts
  <2>2. \A f \in Inputs(i) \cup Headers(i) : mtime'[f] # 0 /\ mtime'[f] <= clock
    BY <2>1, <1>2, <1>3, <1>5
  <2>3. ~Old(mtime', u)
    BY <2>2, <1>2, <1>5 DEF Old
  <2>4. ASSUME NEW f \in Outputs, Feeds(f, u) PROVE f \in Good(mtime')
    <3>1. PICK k \in Positions : /\ Runs(k) /\ Out(k) = f /\ ops[k].kind = "tool"
                                 /\ outcome[k] \in {"ok", "skipped"}
      BY <2>4, <1>1, <1>2 DEF BuilderInv, InputsMade
    <3> QED BY <3>1, <1>1, <1>8 DEF FileInv, ToolsDone
  <2> QED BY <2>3, <2>4, <1>2, MadeIsGood
<1>10. RunningIsOld'
  <2> SUFFICES ASSUME NEW k \in Positions, outcome'[k] = "running", ops[k].kind = "tool"
               PROVE  Old(mtime', Out(k))
    BY <1>1, <1>4 DEF RunningIsOld
  <2>1. k # i /\ outcome[k] = "running" /\ Runs(k) /\ Old(mtime, Out(k))
    BY <1>4 DEF FileInv, RunningIsOld
  <2>2. Out(k) # u /\ Out(k) \in File /\ ~Feeds(u, Out(k)) /\ ~HeaderOf(u, Out(k))
    BY <2>1, <1>1, <1>2, OutputFacts, PositionFacts DEF BuilderInv, IInv
  <2> QED BY <2>1, <2>2, <1>5 DEF Old
<1>11. RecentIsGood'
  <2> SUFFICES ASSUME NEW o \in Outputs \ partial', mtime'[o] = clock, ~Script(o) PROVE o \in Good(mtime')
    BY <1>3 DEF RecentIsGood
  <2>1. CASE o = u
    BY <2>1, <1>2, <1>9
  <2>2. CASE o # u
    <3>1. mtime[o] = clock /\ o \notin partial
      BY <2>2, <1>3, <1>5, OutputFacts
    <3> QED BY <3>1, <2>2, <1>8 DEF FileInv, RecentIsGood
  <2> QED BY <2>1, <2>2
<1>12. StaleIsOld'
  <2> SUFFICES ASSUME NEW o \in stale' \ partial', ~Script(o) PROVE Old(mtime', o)
    BY DEF StaleIsOld
  <2>1. o \in Outputs /\ o \in File /\ ~HeaderOf(u, o)
    BY <1>2, <1>3, <1>5, DependentFacts, OutputFacts
  <2>2. o # u => o \notin partial
    BY <1>3
  <2>3. CASE Feeds(u, o)
    <3>1. o # u /\ ops[i].kind = "tool"
      BY <2>3, <1>2, OutputFacts
    <3>2. o \notin Good(mtime)
      BY <3>1, <2>3, <1>1, <1>2, <1>8, GoodIsSound DEF Sound
    <3>3. mtime[o] # clock
      BY <3>1, <3>2, <2>1, <2>2 DEF FileInv, RecentIsGood
    <3>4. mtime'[u] > mtime'[o]
      BY <3>1, <3>3, <2>1, <1>5
    <3> QED BY <3>4, <2>3, <1>2 DEF Old
  <2>4. CASE ~Feeds(u, o)
    <3>1. o \in stale /\ o # u
      BY <2>1, <2>4, <1>3, DependentFacts
    <3>2. Old(mtime, o)
      BY <3>1, <2>2 DEF FileInv, StaleIsOld
    <3> QED BY <3>1, <3>2, <2>1, <2>4, <1>5 DEF Old
  <2> QED BY <2>3, <2>4
<1>13. ToolsDone'
  <2> SUFFICES ASSUME NEW k \in Positions, ops[k].kind = "tool", outcome'[k] \in {"ok", "skipped"}
               PROVE  Out(k) \in Good(mtime')
    BY <1>1, <1>4 DEF ToolsDone
  <2>1. CASE k = i
    BY <2>1, <1>9
  <2>2. CASE k # i
    BY <2>2, <1>1, <1>2, <1>4, <1>8 DEF FileInv, ToolsDone
  <2> QED BY <2>1, <2>2
<1>14. ScriptsDone'
  <2> SUFFICES ASSUME NEW k \in Positions, ops[k].kind = "lua"
               PROVE  outcome'[k] # "skipped" /\ (outcome'[k] = "ok" => Out(k) \notin stale')
    BY <1>1, <1>4 DEF ScriptsDone
  <2>1. outcome'[k] # "skipped"
    BY <1>1, <1>4 DEF FileInv, ScriptsDone
  <2>2. ASSUME outcome'[k] = "ok" PROVE Out(k) \notin stale'
    <3>1. Runs(k) /\ outcome[k] # "todo"
      BY <2>2, <1>1, <1>4
    <3>2. Out(k) \notin Dependents(u)
      BY <3>1, <1>1, <1>2, DependentFacts, OutputFacts
    <3>3. CASE k = i
      BY <3>2, <3>3, <1>3
    <3>4. CASE k # i
      BY <3>2, <3>4, <2>2, <1>1, <1>3, <1>4 DEF FileInv, ScriptsDone
    <3> QED BY <3>3, <3>4
  <2> QED BY <2>1, <2>2
<1> QED BY <1>6, <1>7, <1>10, <1>11, <1>12, <1>13, <1>14 DEF FileInv

LEMMA FNextInv ==
  ASSUME TimesSuffice, BuilderInv, BuilderInv', FileInv, [FNext]_<<vars, fileVars>>
  PROVE  FileInv'
<1>1. ASSUME NEW r \in Runner, NEW ok \in BOOLEAN, FRunnerDone(r, ok) PROVE FileInv'
  BY <1>1, SuccessFileInv, FailureFileInv
<1>2. CASE UNCHANGED <<vars, fileVars>>
  <2>1. UNCHANGED <<fileVars, ops, outcome>> /\ thread' = thread
    BY <1>2 DEF vars
  <2> QED BY <2>1, QuietFileInv
<1> QED BY <1>1, <1>2, StartFileInv, StartOneFileInv, OtherFileInv, EditFileInv, TickFileInv DEF FNext

(* A build that has gone through its list without a failing command leaves    *)
(* nothing out of date, whatever builds, cancels, failures and edits came     *)
(* before, for every description of a build in which comparing times can be   *)
(* enough.                                                                   *)
THEOREM CompleteBuildIsCorrect ==
  ASSUME TimesSuffice PROVE FSpec => []CompleteBuildIsUpToDate
<1>1. Spec => []BuilderInv
  <2>1. IInv => BuilderInv
    BY InvariantGivesBarrier, InvariantGivesInputs DEF BuilderInv
  <2> QED BY <2>1, Invariance, PTL
<1>2. BuilderInv /\ BuilderInv' /\ FileInv /\ [FNext]_<<vars, fileVars>> => FileInv'
  BY FNextInv
<1>3. BuilderInv /\ FileInv => CompleteBuildIsUpToDate
  <2> SUFFICES ASSUME BuilderInv, FileInv, thread = "quit",
                      \A j \in Positions : outcome[j] \in {"ok", "skipped"},
                      NEW i \in Positions, Runs(i)
               PROVE  Out(i) \notin stale \ partial
    BY DEF CompleteBuildIsUpToDate
  <2>1. ops[i].kind \in {"lua", "tool"} /\ (Script(Out(i)) <=> ops[i].kind = "lua")
    BY PositionFacts DEF BuilderInv, IInv
  <2>2. CASE ops[i].kind = "tool"
    <3>1. ~Old(mtime, Out(i))
      BY <2>2, GoodIsSound DEF FileInv, ToolsDone, Sound
    <3> QED BY <3>1, <2>1, <2>2 DEF FileInv, StaleIsOld
  <2>3. CASE ops[i].kind = "lua"
    BY <2>3 DEF FileInv, ScriptsDone
  <2> QED BY <2>1, <2>2, <2>3
<1> QED BY <1>1, <1>2, <1>3, FInitInv, FileBuildIsABuild, PTL DEF FSpec
=============================================================================
