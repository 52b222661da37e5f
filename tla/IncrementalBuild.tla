--------------------------- MODULE IncrementalBuild ---------------------------
(***************************************************************************)
(* Builder together with the files its operations read and write: isDue    *)
(* (busytools/busyBuilder.cpp) decides which operations run, and the       *)
(* question is whether builds, cancelled builds, failed commands and edits *)
(* in any order leave an output behind that no later build will renew.     *)
(*                                                                         *)
(* A modification time is a second of the clock, 0 for a missing file.     *)
(* The dependency table with the headers' times is a copy taken by start.  *)
(* Two history variables: stale, the outputs that do not reflect their     *)
(* inputs and headers as they are now, and partial, the outputs that were  *)
(* last written by a tool that then failed or was killed at its time limit.*)
(***************************************************************************)
EXTENDS Builder

CONSTANTS
  File,
  Files,         (* for each job, the files of each operation:               *)
                 (*   [in : SUBSET File, headers : SUBSET File, out : File]  *)
  TrackHeaders,  (* d_trackHeaders, the step's option                        *)
  MaxTime        (* bound: seconds of the clock                              *)

Producing(job) == {i \in 1..Len(job) : job[i].kind # "entering"}
Outputs == UNION { {Files[job][i].out : i \in Producing(job)} : job \in Jobs }

(* The lists come from one description of the build, by the visitors of      *)
(* busyapi.cpp: a file is made from the same files in every list, once in    *)
(* each, and by a later group than what it is made from.                     *)
MadeFromEarlier(job, i) ==
  \A f \in Files[job][i].in \cap Outputs :
    \E k \in Producing(job) : Files[job][k].out = f /\ job[k].group < job[i].group
MadeOnce(job, i) ==
  \A k \in Producing(job) : Files[job][k].out = Files[job][i].out => k = i
MadeAlike(job, i) ==
  \A other \in Jobs : \A k \in Producing(other) :
    Files[other][k].out = Files[job][i].out =>
      Files[other][k] = Files[job][i] /\ other[k].kind = job[i].kind

ASSUME FilesAssumption ==
  /\ TrackHeaders \in BOOLEAN /\ MaxTime \in Nat \ {0}
  /\ \A job \in Jobs : \A i \in Producing(job) :
       /\ Files[job][i] \in [in : SUBSET File, headers : SUBSET File, out : File]
       /\ MadeFromEarlier(job, i) /\ MadeOnce(job, i) /\ MadeAlike(job, i)

VARIABLES
  clock,         (* the current second                                       *)
  mtime,         (* modification time of each file                           *)
  headerTime,    (* d_deps: the times in the dependency table                *)
  stale,         (* history: outputs that are out of date                    *)
  partial        (* history: outputs left by a tool that failed              *)

fileVars == <<clock, mtime, headerTime, stale, partial>>

(* What an operation reads, writes, and the tracked includes of its input. *)
Inputs(i)  == Files[ops][i].in
Headers(i) == Files[ops][i].headers
Out(i)     == Files[ops][i].out
Runs(i)    == ops[i].kind # "entering"

Dependents(f) ==
  UNION { {Files[job][i].out :
             i \in {k \in Producing(job) : f \in Files[job][k].in \cup Files[job][k].headers}}
            : job \in Jobs }

(* Outputs that are no longer right once f has new contents. *)
Invalidates(f) == Dependents(f)

NoHeaderChecked(i) == FALSE
NewerHeader(i) ==
  TrackHeaders /\ \E h \in Headers(i) : headerTime[h] > mtime[Out(i)]

IsDue(i) ==
  \/ ops[i].kind = "lua"
  \/ mtime[Out(i)] = 0
  \/ \E f \in Inputs(i) : mtime[f] = 0 \/ mtime[f] > mtime[Out(i)]
  \/ NewerHeader(i)

FInit ==
  /\ Init
  /\ clock = 1
  /\ mtime = [f \in File |-> IF f \in Outputs THEN 0 ELSE 1]
  /\ headerTime = [f \in File |-> 0]
  /\ stale = Outputs
  /\ partial = {}

FreshTable == IF TrackHeaders THEN mtime ELSE headerTime

(* start() takes the dependency table of the present snapshot. *)
FStart(job) ==
  /\ Start(job)
  /\ headerTime' = FreshTable
  /\ UNCHANGED <<clock, mtime, stale, partial>>

(* startOne() asks isDue for every operation but the start of a product. *)
FStartOne ==
  /\ SwitchGroup \/ FillGroup
  /\ First.kind # "entering" => (startedThread' <=> IsDue(done + 1))
  /\ UNCHANGED fileVars

Stamp == clock

(* A command reads its inputs and, when it succeeds, writes its output.  A *)
(* failing one leaves the old output or none, or, as one that is killed at  *)
(* the time limit, what it has written so far.                             *)
FRunnerDone(r, ok) ==
  /\ RunnerDone(r, ok)
  /\ ok => \A f \in Inputs(rop[r]) \cup Headers(rop[r]) : mtime[f] # 0
  /\ LET out == Out(rop[r]) IN
       \/ /\ ok
          /\ mtime' = [mtime EXCEPT ![out] = Stamp]
          /\ stale' = (stale \ {out}) \cup Invalidates(out)
          /\ partial' = partial \ {out}
       \/ /\ ~ok
          /\ mtime' \in {mtime, [mtime EXCEPT ![out] = 0]}
          /\ stale' = stale \cup {out}
          /\ UNCHANGED partial
       \/ /\ ~ok
          /\ mtime' = [mtime EXCEPT ![out] = Stamp]
          /\ stale' = stale \cup {out} \cup Invalidates(out)
          /\ partial' = partial \cup {out}
  /\ UNCHANGED <<clock, headerTime>>

(* Everything else the Builder does leaves the files alone. *)
FOther ==
  /\ \/ EndSwitch \/ EndRound \/ OnQuit \/ OnStarted \/ OnCancel \/ Cancelled \/ Destroy
     \/ \E r \in Runner : OnFinished(r)
  /\ UNCHANGED fileVars

(* The user saves a source between two builds, in a later second than      *)
(* anything written so far.                                                *)
Edit(f) ==
  /\ thread = "none" /\ f \notin Outputs /\ clock < MaxTime
  /\ clock' = clock + 1
  /\ mtime' = [mtime EXCEPT ![f] = clock']
  /\ stale' = stale \cup Invalidates(f)
  /\ UNCHANGED <<vars, headerTime, partial>>

Tick ==
  /\ thread = "running" /\ clock < MaxTime
  /\ clock' = clock + 1
  /\ UNCHANGED <<vars, mtime, headerTime, stale, partial>>

FNext ==
  \/ \E job \in Jobs : FStart(job)
  \/ FStartOne
  \/ \E r \in Runner : \E ok \in BOOLEAN : FRunnerDone(r, ok)
  \/ FOther
  \/ \E f \in File : Edit(f)
  \/ Tick

FSpec == FInit /\ [][FNext]_<<vars, fileVars>>

-----------------------------------------------------------------------------
FTypeOK ==
  /\ clock \in 1..MaxTime
  /\ mtime \in [File -> 0..MaxTime]
  /\ headerTime \in [File -> 0..MaxTime]
  /\ stale \subseteq Outputs /\ partial \subseteq Outputs

(* Where comparing times can be enough: a build stops at a failed command,   *)
(* the headers of the sources are looked at, no header is made by the build  *)
(* itself (it would be newer than in the table), and no operation works on   *)
(* what a script has made, which is made again by every build, and may be in *)
(* the second of the build before.                                           *)
TimesSuffice ==
  /\ StopOnError
  /\ \A job \in Jobs : \A i \in Producing(job) :
       /\ Files[job][i].headers = {} \/ TrackHeaders
       /\ Files[job][i].headers \cap Outputs = {}
       /\ \A other \in Jobs : \A k \in Producing(other) :
            job[i].kind = "lua" => Files[job][i].out \notin Files[other][k].in

(* A build that went through its list without a failing command leaves all  *)
(* of its outputs up to date, whatever cancelled or failed builds and edits *)
(* came before: nothing was wrongly taken for "not due".  Except for what a *)
(* tool had written when it failed: it is newer than its inputs, isDue does *)
(* not know of the failure, and the next build passes over it.             *)
CompleteBuildIsUpToDate ==
  thread = "quit" /\ ~cancel /\ (\A i \in Positions : outcome[i] \in {"ok", "skipped"})
    => \A i \in Positions : Runs(i) => Out(i) \notin stale \ partial
=============================================================================
